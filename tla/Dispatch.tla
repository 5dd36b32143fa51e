------------------------------ MODULE Dispatch ------------------------------
(***************************************************************************)
(* Dispatcher processes (scripts/testDispatcher_sdk4.py) booking servers   *)
(* from the pool through ServerManager, the Jenkins jobs they launch, the  *)
(* cleanup every finished job runs (regression_automation/                 *)
(* test_executor_cleanup.sh), the nightly repair of nodes with a failed    *)
(* install and the script that releases overdue nodes.                     *)
(*                                                                         *)
(* Every process talks to the pool with separate statements; an action is  *)
(* the code between two of them.                                           *)
(***************************************************************************)
EXTENDS ServerPool, Functions

CONSTANTS
    Dispatchers,    \* dispatcher processes running at the same time
    TestsOf,        \* testsToLaunch of each dispatcher
    ServerCount,    \* serverCount of each test
    AddCount,       \* addPoolServerCount of each test
    PoolIds,        \* options.poolId, in the order it is scanned
    AddPool,        \* addPoolId
    Monitored,      \* pool_ids_to_monitor of the failed-install cleanup
    JobIds,         \* Jenkins builds that can exist at the same time
    FreshRun,       \* options.fresh_run
    CheckVm,        \* options.check_vm == "True"
    MaxAttempts,    \* how often the transaction library runs the lambda before it gives up
    TrackSelect,    \* the transaction also detects writes to the rows it only SELECTed
                    \* (the library documents read committed isolation and no more)
    UniqueNames,    \* no two dispatchers ask for the same test within one second
    Punctual,       \* after two days dispatchers and builds are through with a descriptor
    Faults,         \* calls to the pool cluster and to Jenkins may fail
    LostReply,      \* Jenkins may queue the job although its reply times out
    OverdueStates   \* state arguments the overdue script is started with

ASSUME DispatchAssumption ==
    /\ TestsOf \in [Dispatchers -> Seq(Tests)]
    /\ ServerCount \in [Tests -> Nat]
    /\ AddCount \in [Tests -> Nat]
    /\ PoolIds \in Seq(Pools) /\ PoolIds # <<>>
    /\ AddPool \in Pools
    /\ Monitored \subseteq Pools
    /\ MaxAttempts \in Nat \ {0}
    /\ OverdueStates \subseteq States
    /\ {FreshRun, CheckVm, TrackSelect, UniqueNames, Punctual, Faults, LostReply} \subseteq BOOLEAN

VARIABLES
    pool,      \* the documents
    tests,     \* testsToLaunch
    pc,        \* the statement each dispatcher runs next
    cur,       \* i: index of the test being dispatched
    poolToUse, \* pool_to_use
    dispatch,  \* dispatch_job
    desc,      \* descriptor
    asking,    \* whether get_servers is called for the test or for its additional pool
    txn,       \* the transaction get_servers runs, and its server_list
    servers,   \* servers
    addl,      \* addl_servers
    bad,       \* unreachable_servers
    jobs,      \* Jenkins builds
    cleaner,   \* the failed-install cleanup: rows left and the node being cleaned
    unreleased \* history: bookings whose release failed or was never attempted

dvars == <<tests, pc, cur, poolToUse, dispatch, desc, asking, txn, servers, addl, bad>>
vars == <<pool, dvars, jobs, cleaner, unreleased>>

NoServer == "no server"
NoTxn == [rows |-> <<>>, list |-> <<>>, tries |-> 0, dirty |-> FALSE]
NoJob == [phase |-> "none", desc |-> NoUser, servers |-> {}, addl |-> {}, plan |-> <<>>, byUser |-> "none"]

Txns == [rows : Seq(Servers), list : Seq(Servers), tries : 0..MaxAttempts, dirty : BOOLEAN]

\* What the cleanup of a finished job still has to do: plan maps the addresses
\* it will release to the state they get, byUser is the state for all of them.
Jobs == [phase : {"none", "running", "cleaning"}, desc : Descriptors \cup {NoUser},
         servers : SUBSET Servers, addl : SUBSET Servers,
         plan : UNION {[S -> {"available", "failedInstall"}] : S \in SUBSET Servers},
         byUser : {"none", "available", "failedInstall"}]

Active(d) == pc[d] \notin {"scan", "prepare", "done"}

Steps == {"scan", "prepare", "count", "select", "stage", "commit", "got",
          "mark", "launch", "release", "drop", "done"}

TypeOK ==
    /\ pool \in [Servers -> Doc]
    /\ tests \in [Dispatchers -> Seq(Tests)]
    /\ pc \in [Dispatchers -> Steps]
    /\ cur \in [Dispatchers -> Nat]
    /\ \A d \in Dispatchers : pc[d] \notin {"scan", "done"} => cur[d] \in DOMAIN tests[d]
    /\ poolToUse \in [Dispatchers -> Pools]
    /\ dispatch \in [Dispatchers -> BOOLEAN]
    /\ desc \in [Dispatchers -> Descriptors \cup {NoUser}]
    /\ \A d \in Dispatchers : Active(d) => desc[d] \in Descriptors
    /\ asking \in [Dispatchers -> {"main", "addl"}]
    /\ txn \in [Dispatchers -> Txns]
    /\ servers \in [Dispatchers -> Seq(Servers)]
    /\ addl \in [Dispatchers -> Seq(Servers)]
    /\ bad \in [Dispatchers -> SUBSET Servers]
    /\ jobs \in [JobIds -> Jobs]
    /\ cleaner \in [rows : SUBSET Servers, on : Servers \cup {NoServer}]
    /\ unreleased \subseteq Servers

-----------------------------------------------------------------------------
(* State formulae. *)

Test(d) == tests[d][cur[d]]
Want(d) == IF asking[d] = "main" THEN ServerCount[Test(d)] - Len(servers[d]) ELSE AddCount[Test(d)]
FromPool(d) == IF asking[d] = "main" THEN poolToUse[d] ELSE AddPool

\* The servers of the list q that are not in dead, in their order (one list).
Alive(q, dead) ==
    LET left == {i \in DOMAIN q : q[i] \notin dead}
        size == Cardinality(left)
    IN  {[i \in 1..size |-> q[f[i]]] :
            f \in {g \in [1..size -> left] : \A i, j \in 1..size : i < j => g[i] < g[j]}}

Pop(q, i) == SubSeq(q, 1, i - 1) \o SubSeq(q, i + 1, Len(q))

\* Descriptors that a booking, a dispatcher or a build carries.  A descriptor
\* nobody carries may be issued again: it stands for a later second.
LiveNames == {desc[d] : d \in {e \in Dispatchers : Active(e)}}
             \cup {jobs[j].desc : j \in {k \in JobIds : jobs[k].phase # "none"}}
             \cup {pool[s].username : s \in {x \in Servers : pool[x].state = "booked"}}

Holds(e) == pc[e] = "commit" \/ (TrackSelect /\ pc[e] = "stage")

\* Defect: no open transaction notices a write.
NeverConflicted(written) == txn

\* A write to the pool conflicts with the open transactions that hold the
\* written documents: the transaction service compares their CAS.
Conflicted(written) ==
    [e \in Dispatchers |->
        IF Holds(e) /\ Range(txn[e].rows) \cap written # {}
        THEN [txn[e] EXCEPT !.dirty = TRUE] ELSE txn[e]]

Write(new) == pool' = new /\ txn' = Conflicted({s \in Servers : new[s] # pool[s]})

-----------------------------------------------------------------------------
Init ==
    /\ pool \in [Servers -> {[state |-> "available", username |-> NoUser]}]
    /\ tests = TestsOf
    /\ pc = [d \in Dispatchers |-> IF TestsOf[d] = <<>> THEN "done" ELSE "scan"]
    /\ cur = [d \in Dispatchers |-> 0]
    /\ poolToUse = [d \in Dispatchers |-> PoolIds[1]]
    /\ dispatch = [d \in Dispatchers |-> TRUE]
    /\ desc = [d \in Dispatchers |-> NoUser]
    /\ asking = [d \in Dispatchers |-> "main"]
    /\ txn = [d \in Dispatchers |-> NoTxn]
    /\ servers = [d \in Dispatchers |-> <<>>]
    /\ addl = [d \in Dispatchers |-> <<>>]
    /\ bad = [d \in Dispatchers |-> {}]
    /\ jobs = [j \in JobIds |-> NoJob]
    /\ cleaner = [rows |-> {}, on |-> NoServer]
    /\ unreleased = {}

-----------------------------------------------------------------------------
(* The main loop of the dispatcher, up to the booking. *)

\* A test fits a pool when the pool has its servers; of the additional pool it
\* is only asked that it is not empty.
Fits(t, p) == /\ Available(pool, p) # {}
              /\ ServerCount[t] <= Cardinality(Available(pool, p))
              /\ AddCount[t] = 0 \/ Available(pool, AddPool) # {}

FitsAny(d, k) == \E i \in DOMAIN tests[d] : Fits(tests[d][i], PoolIds[k])

\* Defect: the index is one too high.
ScanOffByOne(d) ==
    /\ pc[d] = "scan"
    /\ \E i \in DOMAIN tests[d] :
        /\ Fits(tests[d][i], PoolIds[1])
        /\ cur' = [cur EXCEPT ![d] = i + 1]
    /\ pc' = [pc EXCEPT ![d] = "prepare"]
    /\ UNCHANGED <<pool, tests, poolToUse, dispatch, desc, asking, txn, servers, addl, bad, jobs, cleaner, unreleased>>

\* The first pool with a test that fits, and the first test that fits it.
Scan(d) ==
    /\ pc[d] = "scan"
    /\ \E k \in DOMAIN PoolIds, i \in DOMAIN tests[d] :
        /\ Fits(tests[d][i], PoolIds[k])
        /\ \A h \in 1..(i - 1) : ~Fits(tests[d][h], PoolIds[k])
        /\ \A h \in 1..(k - 1) : ~FitsAny(d, h)
        /\ cur' = [cur EXCEPT ![d] = i]
        /\ poolToUse' = [poolToUse EXCEPT ![d] = PoolIds[k]]
    /\ pc' = [pc EXCEPT ![d] = "prepare"]
    /\ UNCHANGED <<pool, tests, dispatch, desc, asking, txn, servers, addl, bad, jobs, cleaner, unreleased>>

\* should_dispatch_job: never while the test holds servers, otherwise as the
\* results of earlier runs say; an exception means yes.
ShouldDispatch(t) ==
    IF FreshRun THEN {TRUE}
    ELSE (IF AlreadyBooked(pool, t) THEN {FALSE} ELSE BOOLEAN) \cup (IF Faults THEN {TRUE} ELSE {})

\* dispatch_job, the descriptor, and empty lists for the servers.  The descriptor
\* has the time in seconds and nobody asks whether it is in use.
Prepare(d) ==
    /\ pc[d] = "prepare"
    /\ \E yes \in ShouldDispatch(Test(d)) : dispatch' = [dispatch EXCEPT ![d] = yes]
    /\ \E stamp \in Stamps :
        LET name == [test |-> Test(d), stamp |-> stamp]
        IN  (UniqueNames => name \notin LiveNames) /\ desc' = [desc EXCEPT ![d] = name]
    /\ asking' = [asking EXCEPT ![d] = "main"]
    /\ txn' = [txn EXCEPT ![d] = NoTxn]
    /\ servers' = [servers EXCEPT ![d] = <<>>]
    /\ addl' = [addl EXCEPT ![d] = <<>>]
    /\ bad' = [bad EXCEPT ![d] = {}]
    /\ pc' = [pc EXCEPT ![d] = "count"]
    /\ UNCHANGED <<pool, tests, cur, poolToUse, jobs, cleaner, unreleased>>

-----------------------------------------------------------------------------
(* ServerManager.get_servers.  server_list lives outside the lambda that   *)
(* the transaction library may run several times.                          *)

locals == <<tests, cur, poolToUse, dispatch, desc, asking, servers, addl, bad>>

\* SELECT count(*): too few servers end the lambda, and the transaction, at once.
Count(d) ==
    /\ pc[d] = "count"
    /\ pc' = [pc EXCEPT ![d] = IF Want(d) > Cardinality(Available(pool, FromPool(d)))
                               THEN "got" ELSE "select"]
    /\ UNCHANGED <<pool, txn, locals, jobs, cleaner, unreleased>>

\* SELECT ... LIMIT count: sees what was committed since the count.
Select(d) ==
    /\ pc[d] = "select"
    /\ \E rows \in SelectRows(pool, FromPool(d), Want(d)) :
        txn' = [txn EXCEPT ![d] = [@ EXCEPT !.rows = rows, !.dirty = FALSE]]
    /\ pc' = [pc EXCEPT ![d] = "stage"]
    /\ UNCHANGED <<pool, locals, jobs, cleaner, unreleased>>

\* ctx.get of every row: from here on the document is held by its CAS.
Stage(d) ==
    /\ pc[d] = "stage"
    /\ pc' = [pc EXCEPT ![d] = "commit"]
    /\ UNCHANGED <<pool, txn, locals, jobs, cleaner, unreleased>>

\* ctx.replace of every row and the commit.
Commit(d) ==
    /\ pc[d] = "commit"
    /\ ~txn[d].dirty
    /\ pool' = Book(pool, Range(txn[d].rows), desc[d])
    /\ txn' = [Conflicted(Range(txn[d].rows)) EXCEPT ![d] = [txn[d] EXCEPT !.list = @ \o txn[d].rows]]
    /\ pc' = [pc EXCEPT ![d] = "got"]
    /\ unreleased' = unreleased \ Range(txn[d].rows)
    /\ UNCHANGED <<locals, jobs, cleaner>>

\* A conflict on row n + 1, or in the commit: the addresses appended so far stay
\* in server_list and the library runs the lambda again.
Retry(d) ==
    /\ pc[d] = "commit"
    /\ txn[d].dirty
    /\ txn[d].tries + 1 < MaxAttempts
    /\ \E n \in 0..Len(txn[d].rows) :
        txn' = [txn EXCEPT ![d] = [rows |-> <<>>, dirty |-> FALSE, tries |-> txn[d].tries + 1,
                                   list |-> txn[d].list \o SubSeq(txn[d].rows, 1, n)]]
    /\ pc' = [pc EXCEPT ![d] = "count"]
    /\ UNCHANGED <<pool, locals, jobs, cleaner, unreleased>>

\* The library gives up, or the cluster fails: get_servers returns list().
GiveUp(d) ==
    /\ pc[d] \in {"count", "select", "stage", "commit"}
    /\ Faults \/ (pc[d] = "commit" /\ txn[d].dirty /\ txn[d].tries + 1 >= MaxAttempts)
    /\ txn' = [txn EXCEPT ![d] = NoTxn]
    /\ pc' = [pc EXCEPT ![d] = "got"]
    /\ UNCHANGED <<pool, locals, jobs, cleaner, unreleased>>

-----------------------------------------------------------------------------
(* The main loop, from the booking to the launch. *)

\* Defect: servers that do not answer are put aside and used all the same.
GotServersUnchecked(d) ==
    /\ pc[d] = "got" /\ asking[d] = "main"
    /\ \E dead \in IF CheckVm THEN SUBSET Range(txn[d].list) ELSE {{}} :
        /\ servers' = [servers EXCEPT ![d] = @ \o txn[d].list]
        /\ bad' = [bad EXCEPT ![d] = @ \cup dead]
    /\ pc' = [pc EXCEPT ![d] = IF Len(servers'[d]) < ServerCount[Test(d)] THEN "count" ELSE "mark"]
    /\ txn' = [txn EXCEPT ![d] = NoTxn]
    /\ UNCHANGED <<pool, tests, cur, poolToUse, dispatch, desc, asking, addl, jobs, cleaner, unreleased>>

\* get_servers returned for the test.  With check_vm the servers that do not
\* answer ssh are put aside and get_servers is called again for the rest, for
\* as long as it takes; otherwise a wrong number of servers is given back.
GotServers(d) ==
    /\ pc[d] = "got" /\ asking[d] = "main"
    /\ \E dead \in IF CheckVm THEN SUBSET Range(txn[d].list) ELSE {{}} :
       \E kept \in Alive(txn[d].list, dead) :
        LET all  == servers[d] \o kept
            want == ServerCount[Test(d)]
        IN  /\ servers' = [servers EXCEPT ![d] = all]
            /\ bad' = [bad EXCEPT ![d] = @ \cup dead]
            /\ asking' = [asking EXCEPT ![d] =
                              IF Len(all) = want /\ AddCount[Test(d)] # 0 THEN "addl" ELSE "main"]
            /\ pc' = [pc EXCEPT ![d] = IF CheckVm /\ Len(all) < want THEN "count"
                                       ELSE IF Len(all) # want THEN "release"
                                       ELSE IF AddCount[Test(d)] # 0 THEN "count" ELSE "mark"]
    /\ txn' = [txn EXCEPT ![d] = NoTxn]
    /\ UNCHANGED <<pool, tests, cur, poolToUse, dispatch, desc, addl, jobs, cleaner, unreleased>>

\* get_servers returned for the additional pool.
GotAddl(d) ==
    /\ pc[d] = "got" /\ asking[d] = "addl"
    /\ addl' = [addl EXCEPT ![d] = txn[d].list]
    /\ pc' = [pc EXCEPT ![d] = IF Len(txn[d].list) # AddCount[Test(d)] THEN "release" ELSE "mark"]
    /\ txn' = [txn EXCEPT ![d] = NoTxn]
    /\ UNCHANGED <<pool, tests, cur, poolToUse, dispatch, desc, asking, servers, bad, jobs, cleaner, unreleased>>

\* release_ip(s, "ssh_failed") for one of unreachable_servers, until none is left.
\* release_ip logs an error of its query and returns.
Mark(d) ==
    /\ pc[d] = "mark"
    /\ \/ /\ \E s \in bad[d] :
                /\ Write(ReleaseIp(pool, s, "ssh_failed")) \/ (Faults /\ UNCHANGED <<pool, txn>>)
                /\ bad' = [bad EXCEPT ![d] = @ \ {s}]
          /\ UNCHANGED pc
       \/ /\ bad[d] = {}
          /\ pc' = [pc EXCEPT ![d] = IF dispatch[d] THEN "launch" ELSE "drop"]
          /\ UNCHANGED <<pool, txn, bad>>
    /\ UNCHANGED <<tests, cur, poolToUse, dispatch, desc, asking, servers, addl, jobs, cleaner, unreleased>>

\* Jenkins queues a build with the servers and the descriptor as parameters.
Queue(d, j) ==
    /\ jobs[j].phase = "none"
    /\ jobs' = [jobs EXCEPT ![j] = [phase |-> "running", desc |-> desc[d],
                                    servers |-> Range(servers[d]), addl |-> Range(addl[d]),
                                    plan |-> <<>>, byUser |-> "none"]]

\* The next round assigns every local variable before it reads it.  The handler of
\* exceptions would read the old descriptor if something before the assignment
\* raised; get_available_count and should_dispatch_job let no exception out.
Forget(d) ==
    /\ cur' = [cur EXCEPT ![d] = 0]
    /\ poolToUse' = [poolToUse EXCEPT ![d] = PoolIds[1]]
    /\ dispatch' = [dispatch EXCEPT ![d] = TRUE]
    /\ desc' = [desc EXCEPT ![d] = NoUser]
    /\ asking' = [asking EXCEPT ![d] = "main"]
    /\ servers' = [servers EXCEPT ![d] = <<>>]
    /\ addl' = [addl EXCEPT ![d] = <<>>]
    /\ bad' = [bad EXCEPT ![d] = {}]

\* testsToLaunch.pop(i), and the next round of the loop.
NextRound(d) ==
    /\ tests' = [tests EXCEPT ![d] = Pop(@, cur[d])]
    /\ pc' = [pc EXCEPT ![d] = IF Len(tests[d]) = 1 THEN "done" ELSE "scan"]
    /\ Forget(d)

Launch(d) ==
    /\ pc[d] = "launch"
    /\ \E j \in JobIds : Queue(d, j)
    /\ NextRound(d)
    /\ UNCHANGED <<pool, txn, cleaner, unreleased>>

\* The request raises: nothing was queued, or the reply of Jenkins was lost.
\* The handler gives back the servers of the descriptor and the test stays.
LaunchRaises(d) ==
    /\ pc[d] = "launch"
    /\ \/ Faults /\ UNCHANGED jobs
       \/ LostReply /\ \E j \in JobIds : Queue(d, j)
    /\ pc' = [pc EXCEPT ![d] = "release"]
    /\ UNCHANGED <<pool, tests, cur, poolToUse, dispatch, desc, asking, txn, servers, addl, bad, cleaner, unreleased>>

\* release_servers(descriptor); a failing transaction is logged and ignored.
GiveBack(d) ==
    \/ Write(ReleaseServers(pool, desc[d], "available")) /\ UNCHANGED unreleased
    \/ /\ Faults
       /\ unreleased' = unreleased \cup BookedBy(pool, desc[d])
       /\ UNCHANGED <<pool, txn>>

\* Defect: the handler of an exception forgets the servers.
ReleaseKeepsServers(d) ==
    /\ pc[d] = "release"
    /\ pc' = [pc EXCEPT ![d] = "scan"]
    /\ Forget(d)
    /\ UNCHANGED <<pool, tests, txn, jobs, cleaner, unreleased>>

\* A mismatch or an exception: the test is tried again.
Release(d) ==
    /\ pc[d] = "release"
    /\ GiveBack(d)
    /\ pc' = [pc EXCEPT ![d] = "scan"]
    /\ Forget(d)
    /\ UNCHANGED <<tests, jobs, cleaner>>

\* not dispatch_job: the servers are freed and the test is done with.
Drop(d) ==
    /\ pc[d] = "drop"
    /\ GiveBack(d)
    /\ NextRound(d)
    /\ UNCHANGED <<jobs, cleaner>>

-----------------------------------------------------------------------------
(* A Jenkins build and its cleanup. *)

\* The releases the cleanup derives from the console log: the addresses whose
\* install completed or failed; if there is no such line, the addresses that did
\* not answer ssh or did, and when some attempt has no outcome every attempted
\* address that did not answer.
Verdicts(done, failed, ok, dead, tried) ==
    LET missing == IF Cardinality(tried) > Cardinality(ok) + Cardinality(dead) THEN tried \ ok ELSE {}
    IN  IF done \cup failed # {}
        THEN [s \in done \cup failed |-> IF s \in done THEN "available" ELSE "failedInstall"]
        ELSE [s \in ok \cup dead \cup missing |-> IF s \in ok \ dead THEN "available" ELSE "failedInstall"]

\* The additional servers come last and become available, unless released before.
WithAddl(plan, extra) ==
    [s \in DOMAIN plan \cup extra |-> IF s \in DOMAIN plan THEN plan[s] ELSE "available"]

\* The cleanup of a build knows what it will release.
Planned(j, plan, st) ==
    jobs' = [jobs EXCEPT ![j] = [@ EXCEPT !.phase = "cleaning", !.byUser = st,
                                          !.plan = WithAddl(plan, jobs[j].addl)]]

\* The build ends, and its cleanup reads the log.  Without any line about an
\* install or ssh everything under the descriptor gets one state.
Finish(j) ==
    /\ jobs[j].phase = "running"
    /\ \/ \E done, failed, tried \in SUBSET jobs[j].servers : \E ok, dead \in SUBSET tried :
            /\ done \cup failed \cup ok \cup dead # {}
            /\ done \cup failed # {} => tried = {}
            /\ LET plan == Verdicts(done, failed, ok, dead, tried)
               IN  /\ Planned(j, plan, "none")
                   /\ unreleased' = unreleased \cup
                          (BookedBy(pool, jobs[j].desc) \ (DOMAIN plan \cup jobs[j].addl))
       \/ /\ \E st \in {"available", "failedInstall"} : Planned(j, <<>>, st)
          /\ UNCHANGED unreleased
    /\ UNCHANGED <<pool, dvars, cleaner>>

\* One update_server_pool_vm_state.py call; a failure is a warning, nothing more.
CleanupUpdate(new, ips) ==
    \/ Write(new) /\ UNCHANGED unreleased
    \/ Faults /\ unreleased' = unreleased \cup ips /\ UNCHANGED <<pool, txn>>

dlocals == <<tests, pc, cur, poolToUse, dispatch, desc, asking, servers, addl, bad>>

CleanupByUser(j) ==
    /\ jobs[j].phase = "cleaning" /\ jobs[j].byUser # "none"
    /\ CleanupUpdate(UpdateByUser(pool, jobs[j].desc, jobs[j].byUser), BookedBy(pool, jobs[j].desc))
    /\ jobs' = [jobs EXCEPT ![j].byUser = "none"]
    /\ UNCHANGED <<dlocals, cleaner>>

CleanupByIp(j) ==
    /\ jobs[j].phase = "cleaning" /\ jobs[j].byUser = "none"
    /\ \E ip \in DOMAIN jobs[j].plan :
        /\ CleanupUpdate(UpdateByIp(pool, ip, jobs[j].desc, jobs[j].plan[ip]),
                         {ip} \cap BookedBy(pool, jobs[j].desc))
        /\ jobs' = [jobs EXCEPT ![j].plan = [s \in DOMAIN @ \ {ip} |-> @[s]]]
    /\ UNCHANGED <<dlocals, cleaner>>

JobEnds(j) ==
    /\ jobs[j].phase = "cleaning" /\ jobs[j].byUser = "none" /\ DOMAIN jobs[j].plan = {}
    /\ jobs' = [jobs EXCEPT ![j] = NoJob]
    /\ UNCHANGED <<pool, dvars, cleaner, unreleased>>

-----------------------------------------------------------------------------
(* The scripts that run beside the dispatchers. *)

\* cleanup_failed_install_nodes: the rows are read once, at the start.
CleanerStart ==
    /\ cleaner = [rows |-> {}, on |-> NoServer]
    /\ \E s \in Servers : pool[s].state = "failedInstall"
    /\ cleaner' = [cleaner EXCEPT !.rows = {s \in Servers : pool[s].state = "failedInstall"}]
    /\ UNCHANGED <<pool, dvars, jobs, unreleased>>

\* cleanup_node opens ssh and removes the product; nodes of other pools are skipped.
CleanerTake(s) ==
    /\ s \in cleaner.rows /\ cleaner.on = NoServer
    /\ cleaner' = [rows |-> cleaner.rows \ {s},
                   on |-> IF PoolIdOf[s] \cap Monitored # {} THEN s ELSE NoServer]
    /\ UNCHANGED <<pool, dvars, jobs, unreleased>>

\* "ok" or "connection_issue" and its update; "failure", or the update after "ok"
\* fails; the update after "connection_issue" fails, which ends the script.
CleanerEnd ==
    /\ cleaner.on # NoServer
    /\ \/ /\ \E st \in {"available", "sshFailed"} : Write(UpdateCleaned(pool, cleaner.on, st))
          /\ cleaner' = [cleaner EXCEPT !.on = NoServer]
       \/ /\ cleaner' = [cleaner EXCEPT !.on = NoServer]
          /\ UNCHANGED <<pool, txn>>
       \/ /\ Faults
          /\ cleaner' = [rows |-> {}, on |-> NoServer]
          /\ UNCHANGED <<pool, txn>>
    /\ UNCHANGED <<dlocals, jobs, unreleased>>

\* A name that dispatchers and builds are through with.
Idle(u) ==
    /\ ~\E d \in Dispatchers : Active(d) /\ desc[d] = u
    /\ ~\E j \in JobIds : jobs[j].phase # "none" /\ jobs[j].desc = u

\* find_and_release_overdue_nodes for the names of a day at least two days ago.  The
\* script does not look at builds: that a dispatcher or a build is through
\* with its servers by then is its assumption ("2 days before so that we don't
\* accidentally release the nodes that are actually being used").
Overdue(names, p, st) ==
    /\ Punctual => \A u \in names : Idle(u)
    /\ Write(ReleaseOverdue(pool, p, names, st))
    /\ UNCHANGED <<dlocals, jobs, cleaner, unreleased>>

-----------------------------------------------------------------------------
Dispatcher(d) ==
    \/ Scan(d) \/ Prepare(d)
    \/ Count(d) \/ Select(d) \/ Stage(d) \/ Commit(d) \/ Retry(d) \/ GiveUp(d)
    \/ GotServers(d) \/ GotAddl(d) \/ Mark(d)
    \/ Launch(d) \/ LaunchRaises(d) \/ Release(d) \/ Drop(d)

Job(j) == Finish(j) \/ CleanupByUser(j) \/ CleanupByIp(j) \/ JobEnds(j)

Cleaner == CleanerStart \/ (\E s \in Servers : CleanerTake(s)) \/ CleanerEnd

Next ==
    \/ \E d \in Dispatchers : Dispatcher(d)
    \/ \E j \in JobIds : Job(j)
    \/ Cleaner
    \/ \E names \in SUBSET Descriptors, p \in Pools, st \in OverdueStates : Overdue(names, p, st)

Spec == Init /\ [][Next]_vars

\* Every process keeps running: a dispatcher polls until its list is empty, a
\* build ends at its time limit and its cleanup is a shell script without waits.
FairSpec ==
    /\ Spec
    /\ \A d \in Dispatchers : WF_vars(Dispatcher(d))
    /\ \A j \in JobIds : WF_vars(Job(j))
    /\ WF_vars(Cleaner)

-----------------------------------------------------------------------------
(* Properties. *)

\* The servers a running build was given are booked, and booked under the
\* descriptor of that build: no release or booking of anybody else (another
\* dispatcher, another build's cleanup, the repair and overdue scripts) takes
\* them away.  test_executor_cleanup.sh relies on it, it releases by descriptor.
RunningJobsOwnServers ==
    \A j \in JobIds :
        jobs[j].phase = "running" =>
            jobs[j].servers \cup jobs[j].addl \subseteq BookedBy(pool, jobs[j].desc)

\* Nothing stays booked for nobody: a booked server belongs to a dispatcher that
\* still works under that descriptor, to a running build, or to a cleanup that
\* will come to it, unless its release failed or its build left no verdict on it.
BookingsAccounted ==
    \A s \in Servers \ unreleased :
        pool[s].state = "booked" =>
            \/ \E d \in Dispatchers : Active(d) /\ desc[d] = pool[s].username
            \/ \E j \in JobIds :
                  /\ jobs[j].desc = pool[s].username
                  /\ \/ jobs[j].phase = "running"
                     \/ jobs[j].phase = "cleaning" /\ (jobs[j].byUser # "none" \/ s \in DOMAIN jobs[j].plan)

\* The pool behaves as the abstract booking, whatever the scripts do: the servers a
\* dispatcher books were free when it selected them, nobody has booked or freed one
\* since it fetched them, all of them become its own in one step, and no other step
\* gives anybody a server ("Use Couchbase transaction for atomic server
\* allocation").  What was selected and not yet fetched is safe only if TrackSelect.
owner == [s \in Servers |-> IF pool[s].state = "booked" THEN pool[s].username ELSE NoUser]
Claim(d, step) == IF pc[d] = step /\ ~txn[d].dirty THEN Range(txn[d].rows) ELSE {}
seen == [d \in Dispatchers |-> Claim(d, "stage")]
held == [d \in Dispatchers |-> Claim(d, "commit")]
Abstract == INSTANCE Booking WITH
    Clients <- Dispatchers, Owners <- Descriptors, Free <- NoUser, Isolated <- TrackSelect,
    owner <- owner, seen <- seen, held <- held
BookingSpec == Abstract!Spec

\* A server found unreachable while its test is dispatched is not among the
\* servers the test is launched on: it stays booked, so that get_servers does not
\* return it to the check_vm loop a second time.
NoDeadServerUsed ==
    \A d \in Dispatchers :
        pc[d] \in {"mark", "launch"} => Range(servers[d]) \cap bad[d] = {}

\* The repair script wipes a node over ssh between reading its document and
\* updating it: in all that time nobody has the node booked.
CleanerSparesBooked ==
    cleaner.on # NoServer => pool[cleaner.on].state # "booked"

\* A dispatcher that has booked servers sooner or later launches its test with
\* them or gives them back.  The code says it gives them back when it got fewer than
\* it asked for; with check_vm it stays in the loop before that and holds them.
HoldResolves ==
    \A d \in Dispatchers :
        (Active(d) /\ BookedBy(pool, desc[d]) # {}) ~> ~Active(d)
=============================================================================
