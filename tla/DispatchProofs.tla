--------------------------- MODULE DispatchProofs ---------------------------
(***************************************************************************)
(* Proofs about Dispatch, for all values of its constants: type            *)
(* correctness, that what a transaction of get_servers has staged is free, *)
(* and that the server pool implements Booking.                            *)
(***************************************************************************)
EXTENDS Dispatch, SequenceTheorems, FiniteSetTheorems, TLAPS

(* The operators keep the types. *)

\* The state of a dispatcher outside get_servers is a transaction.
LEMMA NoTxnType == NoTxn \in Txns
  BY DispatchAssumption DEF NoTxn, Txns

\* An unused build slot is a build.
LEMMA NoJobType == NoJob \in Jobs
  <1>1. <<>> \in [{} -> {"available", "failedInstall"}]
    OBVIOUS
  <1>2. <<>> \in UNION {[S -> {"available", "failedInstall"}] : S \in SUBSET Servers}
    BY <1>1
  <1> QED
    BY <1>2 DEF NoJob, Jobs

\* testsToLaunch[i] is a test wherever the dispatcher uses it.
LEMMA TestType ==
    ASSUME TypeOK, NEW d \in Dispatchers, pc[d] \notin {"scan", "done"}
    PROVE  Test(d) \in Tests
  BY DEF TypeOK, Test

\* Booking leaves documents: get_servers writes state and username.
LEMMA BookType ==
    ASSUME pool \in [Servers -> Doc], NEW u \in Descriptors, NEW docs
    PROVE  Book(pool, docs, u) \in [Servers -> Doc]
  BY DEF Book, Doc, States

\* release_servers leaves documents.
LEMMA ReleaseServersType ==
    ASSUME pool \in [Servers -> Doc], NEW u, NEW st \in States
    PROVE  ReleaseServers(pool, u, st) \in [Servers -> Doc]
  BY DEF ReleaseServers, Doc

\* release_ip leaves documents.
LEMMA ReleaseIpType ==
    ASSUME pool \in [Servers -> Doc], NEW ip \in Servers, NEW st \in States
    PROVE  ReleaseIp(pool, ip, st) \in [Servers -> Doc]
  BY DEF ReleaseIp, Doc

\* update_server_state by address leaves documents.
LEMMA UpdateByIpType ==
    ASSUME pool \in [Servers -> Doc], NEW ip \in Servers, NEW u, NEW st \in States
    PROVE  UpdateByIp(pool, ip, u, st) \in [Servers -> Doc]
  BY DEF UpdateByIp, Doc

\* update_server_state by username leaves documents.
LEMMA UpdateByUserType ==
    ASSUME pool \in [Servers -> Doc], NEW u, NEW st \in States
    PROVE  UpdateByUser(pool, u, st) \in [Servers -> Doc]
  BY DEF UpdateByUser, Doc

\* find_and_release_overdue_nodes leaves documents.
LEMMA ReleaseOverdueType ==
    ASSUME pool \in [Servers -> Doc], NEW p, NEW names, NEW st
    PROVE  ReleaseOverdue(pool, p, names, st) \in [Servers -> Doc]
  BY DEF ReleaseOverdue, Doc, States

\* cleanup_failed_install_nodes leaves documents.
LEMMA UpdateCleanedType ==
    ASSUME pool \in [Servers -> Doc], NEW ip \in Servers, NEW st \in States
    PROVE  UpdateCleaned(pool, ip, st) \in [Servers -> Doc]
  BY DEF UpdateCleaned, Doc

\* A conflict marks transactions, nothing else.
LEMMA ConflictedType ==
    ASSUME txn \in [Dispatchers -> Txns], NEW written
    PROVE  Conflicted(written) \in [Dispatchers -> Txns]
  BY DEF Conflicted, Txns

\* The SELECT of get_servers returns a list of available servers.
LEMMA RowsType ==
    ASSUME NEW p, NEW n \in Int, NEW rows \in SelectRows(pool, p, n)
    PROVE  /\ rows \in Seq(Servers)
           /\ \A s \in Range(rows) : pool[s].state = "available"
  <1> DEFINE avail == Available(pool, p)
             size == IF n < Cardinality(avail) THEN n ELSE Cardinality(avail)
  <1>1. rows \in [1..size -> avail]
    BY DEF SelectRows
  <1>2. avail \subseteq {s \in Servers : pool[s].state = "available"}
    BY DEF Available
  <1>3. IsFiniteSet(avail)
    BY <1>2, PoolAssumption, FS_Subset
  <1>4. Cardinality(avail) \in Nat
    BY <1>3, FS_CardinalityType
  <1>5. CASE size \in Nat
    BY <1>1, <1>2, <1>5 DEF Range
  <1>6. CASE size \notin Nat
    <2>1. 1..size = 1..0
      BY <1>4, <1>6
    <2>2. rows \in [1..0 -> Servers]
      BY <2>1, <1>1, <1>2
    <2> QED
      BY <2>2 DEF Range
  <1> QED
    BY <1>5, <1>6

-----------------------------------------------------------------------------
\* Selecting rows and appending them to server_list leaves a transaction.
LEMMA TxnUpdates ==
    ASSUME NEW t \in Txns, NEW rows \in Seq(Servers)
    PROVE  /\ [t EXCEPT !.rows = rows, !.dirty = FALSE] \in Txns
           /\ [t EXCEPT !.list = @ \o rows] \in Txns
  <1>1. t.list \o rows \in Seq(Servers)
    BY DEF Txns
  <1>2. \A q \in Seq(Servers) : [t EXCEPT !.list = q] \in Txns
    BY DEF Txns
  <1>3. [t EXCEPT !.rows = rows, !.dirty = FALSE] \in Txns
    BY DEF Txns
  <1> QED
    BY <1>1, <1>2, <1>3

\* check_servers_via_ssh returns a list of servers.
LEMMA AliveType ==
    ASSUME NEW q \in Seq(Servers), NEW dead, NEW kept \in Alive(q, dead)
    PROVE  kept \in Seq(Servers)
  <1> DEFINE left == {i \in DOMAIN q : q[i] \notin dead}
             size == Cardinality(left)
  <1>1. PICK f \in [1..size -> left] : kept = [i \in 1..size |-> q[f[i]]]
    BY DEF Alive
  <1>2. size \in Nat
    <2>1. DOMAIN q = 1..Len(q) /\ Len(q) \in Nat
      OBVIOUS
    <2>2. IsFiniteSet(1..Len(q))
      BY <2>1, FS_Interval
    <2>3. IsFiniteSet(left)
      BY <2>1, <2>2, FS_Subset
    <2> QED
      BY <2>3, FS_CardinalityType
  <1> HIDE DEF size
  <1>3. kept \in [1..size -> Servers]
    BY <1>1
  <1> QED
    BY <1>2, <1>3

\* The state the scripts start in is well typed.
LEMMA InitType == Init => TypeOK
  BY DispatchAssumption, NoTxnType, NoJobType DEF Init, TypeOK, Doc, States, Steps, Active

\* The scan picks an index of testsToLaunch and a pool of options.poolId.
LEMMA ScanType == ASSUME TypeOK, NEW d \in Dispatchers, Scan(d) PROVE TypeOK'
  <1>1. \A k \in DOMAIN PoolIds : PoolIds[k] \in Pools
    BY DispatchAssumption
  <1>2. \A i \in DOMAIN tests[d] : i \in Nat
    BY DEF TypeOK
  <1> QED
    BY <1>1, <1>2 DEF Scan, TypeOK, Active, Steps

\* The descriptor names the test and a time.
LEMMA PrepareType == ASSUME TypeOK, NEW d \in Dispatchers, Prepare(d) PROVE TypeOK'
  <1>1. Test(d) \in Tests
    BY TestType DEF Prepare
  <1>2. desc' \in [Dispatchers -> Descriptors \cup {NoUser}] /\ desc'[d] \in Descriptors
        /\ \A e \in Dispatchers \ {d} : desc'[e] = desc[e]
    BY <1>1 DEF Prepare, TypeOK, Descriptors
  <1>3. dispatch' \in [Dispatchers -> BOOLEAN]
    <2>1. ShouldDispatch(Test(d)) \subseteq BOOLEAN
      BY DEF ShouldDispatch
    <2> QED
      BY <2>1 DEF Prepare, TypeOK
  <1> QED
    BY <1>2, <1>3, NoTxnType DEF Prepare, TypeOK, Active, Steps

\* SELECT count(*) changes the next statement only.
LEMMA CountType == ASSUME TypeOK, NEW d \in Dispatchers, Count(d) PROVE TypeOK'
  BY DEF Count, TypeOK, Active, Steps, locals

\* how_many is an integer.
LEMMA WantType ==
    ASSUME TypeOK, NEW d \in Dispatchers, pc[d] \notin {"scan", "done"}
    PROVE  Want(d) \in Int
  BY TestType, DispatchAssumption DEF TypeOK, Want

\* SELECT stores its rows in the transaction.
LEMMA SelectType == ASSUME TypeOK, NEW d \in Dispatchers, Select(d) PROVE TypeOK'
  <1>1. PICK rows \in SelectRows(pool, FromPool(d), Want(d)) :
            txn' = [txn EXCEPT ![d] = [@ EXCEPT !.rows = rows, !.dirty = FALSE]]
    BY DEF Select
  <1>2. rows \in Seq(Servers)
    BY WantType, RowsType DEF Select
  <1>3. txn' \in [Dispatchers -> Txns]
    BY <1>1, <1>2, TxnUpdates DEF TypeOK
  <1> QED
    BY <1>3 DEF Select, TypeOK, Active, Steps, locals

\* ctx.get changes the next statement only.
LEMMA StageType == ASSUME TypeOK, NEW d \in Dispatchers, Stage(d) PROVE TypeOK'
  BY DEF Stage, TypeOK, Active, Steps, locals

\* The commit books the rows and appends them to server_list.
LEMMA CommitType == ASSUME TypeOK, NEW d \in Dispatchers, Commit(d) PROVE TypeOK'
  <1>1. txn[d] \in Txns /\ txn[d].rows \in Seq(Servers) /\ txn[d].list \in Seq(Servers)
    BY DEF TypeOK, Txns
  <1>2. desc[d] \in Descriptors
    BY DEF Commit, TypeOK, Active
  <1>3. pool' \in [Servers -> Doc]
    BY <1>2, BookType DEF Commit, TypeOK
  <1>4. [txn[d] EXCEPT !.list = @ \o txn[d].rows] \in Txns
    BY <1>1, TxnUpdates
  <1>5. txn' \in [Dispatchers -> Txns]
    BY <1>4, ConflictedType DEF Commit, TypeOK
  <1> QED
    BY <1>3, <1>5 DEF Commit, TypeOK, Active, Steps, locals

\* A rerun of the lambda counts as one more attempt.
LEMMA RetryType == ASSUME TypeOK, NEW d \in Dispatchers, Retry(d) PROVE TypeOK'
  <1>1. txn[d] \in Txns /\ txn[d].rows \in Seq(Servers) /\ txn[d].list \in Seq(Servers)
    BY DEF TypeOK, Txns
  <1>2. PICK n \in 0..Len(txn[d].rows) :
            txn' = [txn EXCEPT ![d] = [rows |-> <<>>, dirty |-> FALSE, tries |-> txn[d].tries + 1,
                                       list |-> txn[d].list \o SubSeq(txn[d].rows, 1, n)]]
    BY DEF Retry
  <1>3. txn[d].list \o SubSeq(txn[d].rows, 1, n) \in Seq(Servers)
    BY <1>1
  <1>4. txn[d].tries + 1 \in 0..MaxAttempts
    BY <1>1, DispatchAssumption, SMTT(30) DEF Retry, Txns
  <1>5. txn' \in [Dispatchers -> Txns]
    BY <1>2, <1>3, <1>4 DEF TypeOK, Txns
  <1> QED
    BY <1>5 DEF Retry, TypeOK, Active, Steps, locals

\* get_servers returns an empty list.
LEMMA GiveUpType == ASSUME TypeOK, NEW d \in Dispatchers, GiveUp(d) PROVE TypeOK'
  BY NoTxnType DEF GiveUp, TypeOK, Active, Steps, locals

\* The servers that answer are appended, the others put aside.
LEMMA GotServersType == ASSUME TypeOK, NEW d \in Dispatchers, GotServers(d) PROVE TypeOK'
  <1>1. txn[d].list \in Seq(Servers) /\ servers[d] \in Seq(Servers)
    BY DEF TypeOK, Txns
  <1>2. PICK dead \in (IF CheckVm THEN SUBSET Range(txn[d].list) ELSE {{}}) :
          \E kept \in Alive(txn[d].list, dead) :
            /\ servers' = [servers EXCEPT ![d] = servers[d] \o kept]
            /\ bad' = [bad EXCEPT ![d] = bad[d] \cup dead]
            /\ \E a \in {"main", "addl"} : asking' = [asking EXCEPT ![d] = a]
            /\ \E step \in {"count", "release", "mark"} : pc' = [pc EXCEPT ![d] = step]
    BY DEF GotServers
  <1>3. \A kept \in Alive(txn[d].list, dead) : kept \in Seq(Servers)
    BY <1>1, AliveType
  <1>4. servers' \in [Dispatchers -> Seq(Servers)]
    BY <1>1, <1>2, <1>3 DEF TypeOK
  <1>5. bad' \in [Dispatchers -> SUBSET Servers]
    BY <1>1, <1>2 DEF TypeOK, Range
  <1>6. /\ asking' \in [Dispatchers -> {"main", "addl"}]
        /\ pc' \in [Dispatchers -> Steps]
        /\ \A e \in Dispatchers \ {d} : pc'[e] = pc[e]
    BY <1>2 DEF TypeOK, Steps
  <1> QED
    BY <1>4, <1>5, <1>6, NoTxnType DEF GotServers, TypeOK, Active

\* The servers of the additional pool are stored.
LEMMA GotAddlType == ASSUME TypeOK, NEW d \in Dispatchers, GotAddl(d) PROVE TypeOK'
  <1>1. txn[d].list \in Seq(Servers)
    BY DEF TypeOK, Txns
  <1> QED
    BY <1>1, NoTxnType DEF GotAddl, TypeOK, Active, Steps

\* One UPDATE leaves documents and transactions.
LEMMA WriteType ==
    ASSUME TypeOK, NEW new \in [Servers -> Doc], Write(new)
    PROVE  pool' \in [Servers -> Doc] /\ txn' \in [Dispatchers -> Txns]
  BY ConflictedType DEF Write, TypeOK

\* release_ip of an unreachable server.
LEMMA MarkType == ASSUME TypeOK, NEW d \in Dispatchers, Mark(d) PROVE TypeOK'
  <1>1. ASSUME NEW s \in bad[d], Write(ReleaseIp(pool, s, "ssh_failed"))
        PROVE  pool' \in [Servers -> Doc] /\ txn' \in [Dispatchers -> Txns]
    <2>1. s \in Servers
      BY DEF TypeOK
    <2>2. ReleaseIp(pool, s, "ssh_failed") \in [Servers -> Doc]
      BY <2>1, ReleaseIpType DEF TypeOK, States
    <2> QED
      BY <1>1, <2>2, WriteType
  <1>2. pool' \in [Servers -> Doc] /\ txn' \in [Dispatchers -> Txns]
    BY <1>1 DEF Mark, TypeOK
  <1>3. bad' \in [Dispatchers -> SUBSET Servers]
    <2>1. bad \in [Dispatchers -> SUBSET Servers]
      BY DEF TypeOK
    <2>2. bad' = bad \/ \E s : bad' = [bad EXCEPT ![d] = bad[d] \ {s}]
      BY DEF Mark
    <2>3. \A s : bad[d] \ {s} \in SUBSET Servers
      BY <2>1
    <2> QED
      BY <2>1, <2>2, <2>3
  <1>4. pc' \in [Dispatchers -> Steps] /\ (\A e \in Dispatchers \ {d} : pc'[e] = pc[e]) /\ pc[d] = "mark"
    BY DEF Mark, TypeOK, Steps
  <1> QED
    BY <1>2, <1>3, <1>4 DEF Mark, TypeOK, Active

\* testsToLaunch.pop(i) leaves a list of tests.
LEMMA PopType ==
    ASSUME NEW q \in Seq(Tests), NEW i \in DOMAIN q
    PROVE  Pop(q, i) \in Seq(Tests)
  BY DEF Pop

\* The locals are reset to values of their types.
LEMMA ForgetType ==
    ASSUME TypeOK, NEW d \in Dispatchers, Forget(d)
    PROVE  /\ cur' \in [Dispatchers -> Nat]
           /\ poolToUse' \in [Dispatchers -> Pools]
           /\ dispatch' \in [Dispatchers -> BOOLEAN]
           /\ desc' \in [Dispatchers -> Descriptors \cup {NoUser}]
           /\ asking' \in [Dispatchers -> {"main", "addl"}]
           /\ servers' \in [Dispatchers -> Seq(Servers)]
           /\ addl' \in [Dispatchers -> Seq(Servers)]
           /\ bad' \in [Dispatchers -> SUBSET Servers]
           /\ \A e \in Dispatchers \ {d} : cur'[e] = cur[e] /\ desc'[e] = desc[e]
  <1>1. PoolIds[1] \in Pools
    BY DispatchAssumption
  <1> QED
    BY <1>1 DEF Forget, TypeOK

\* The next round starts with an index-free state.
LEMMA NextRoundType ==
    ASSUME TypeOK, NEW d \in Dispatchers, NextRound(d), pc[d] \notin {"scan", "done"}
    PROVE  /\ tests' \in [Dispatchers -> Seq(Tests)]
           /\ pc' \in [Dispatchers -> Steps]
           /\ pc'[d] \in {"scan", "done"}
           /\ \A e \in Dispatchers : pc'[e] \notin {"scan", "done"} => cur'[e] \in DOMAIN tests'[e]
           /\ \A e \in Dispatchers : Active(e)' => desc'[e] \in Descriptors
  <1>1. tests' \in [Dispatchers -> Seq(Tests)]
    BY PopType DEF NextRound, TypeOK
  <1>2. /\ pc' \in [Dispatchers -> Steps]
        /\ pc'[d] \in {"scan", "done"}
        /\ \A e \in Dispatchers \ {d} : pc'[e] = pc[e] /\ tests'[e] = tests[e]
    BY DEF NextRound, TypeOK, Steps
  <1>3. \A e \in Dispatchers \ {d} : cur'[e] = cur[e] /\ desc'[e] = desc[e]
    BY ForgetType DEF NextRound
  <1> QED
    BY <1>1, <1>2, <1>3 DEF TypeOK, Active

\* Jenkins gets the servers and the descriptor of the dispatcher.
LEMMA QueueType ==
    ASSUME TypeOK, NEW d \in Dispatchers, NEW j \in JobIds, Queue(d, j)
    PROVE  jobs' \in [JobIds -> Jobs]
  <1> DEFINE job == [phase |-> "running", desc |-> desc[d],
                     servers |-> Range(servers[d]), addl |-> Range(addl[d]),
                     plan |-> <<>>, byUser |-> "none"]
  <1>1. Range(servers[d]) \subseteq Servers /\ Range(addl[d]) \subseteq Servers
    BY DEF TypeOK, Range
  <1>2. <<>> \in UNION {[S -> {"available", "failedInstall"}] : S \in SUBSET Servers}
    <2>1. <<>> \in [{} -> {"available", "failedInstall"}]
      OBVIOUS
    <2> QED
      BY <2>1
  <1>3. desc[d] \in Descriptors \cup {NoUser}
    BY DEF TypeOK
  <1>4. job \in Jobs
    BY <1>1, <1>2, <1>3 DEF Jobs
  <1> HIDE DEF job
  <1> QED
    BY <1>4 DEF Queue, TypeOK, job

\* A launch queues a build and takes the test off the list.
LEMMA LaunchType == ASSUME TypeOK, NEW d \in Dispatchers, Launch(d) PROVE TypeOK'
  <1>1. jobs' \in [JobIds -> Jobs]
    BY QueueType DEF Launch
  <1>2. Forget(d) /\ NextRound(d) /\ pc[d] \notin {"scan", "done"}
    BY DEF Launch, NextRound
  <1> QED
    BY <1>1, <1>2, ForgetType, NextRoundType DEF Launch, TypeOK

\* A failing launch leaves the test on the list.
LEMMA LaunchRaisesType == ASSUME TypeOK, NEW d \in Dispatchers, LaunchRaises(d) PROVE TypeOK'
  <1>1. jobs' \in [JobIds -> Jobs]
    BY QueueType DEF LaunchRaises, TypeOK
  <1> QED
    BY <1>1 DEF LaunchRaises, TypeOK, Active, Steps

\* release_servers, failing or not.
LEMMA GiveBackType ==
    ASSUME TypeOK, NEW d \in Dispatchers, GiveBack(d)
    PROVE  pool' \in [Servers -> Doc] /\ txn' \in [Dispatchers -> Txns] /\ unreleased' \subseteq Servers
  <1>1. ReleaseServers(pool, desc[d], "available") \in [Servers -> Doc]
    BY ReleaseServersType DEF TypeOK, States
  <1>2. BookedBy(pool, desc[d]) \subseteq Servers
    BY DEF BookedBy
  <1> QED
    BY <1>1, <1>2, WriteType DEF GiveBack, TypeOK

\* A mismatch or an exception.
LEMMA ReleaseType == ASSUME TypeOK, NEW d \in Dispatchers, Release(d) PROVE TypeOK'
  BY GiveBackType, ForgetType, ZenonT(40) DEF Release, TypeOK, Active, Steps

\* A test that need not run.
LEMMA DropType == ASSUME TypeOK, NEW d \in Dispatchers, Drop(d) PROVE TypeOK'
  <1>1. Forget(d) /\ NextRound(d) /\ pc[d] \notin {"scan", "done"}
    BY DEF Drop, NextRound
  <1> QED
    BY <1>1, GiveBackType, ForgetType, NextRoundType DEF Drop, TypeOK

-----------------------------------------------------------------------------
\* The states the cleanup of a build writes, and what it plans to write.
Verdict == {"available", "failedInstall"}
Plans == UNION {[S -> Verdict] : S \in SUBSET Servers}

\* A plan of the cleanup maps servers to the two states it writes.
LEMMA PlanType ==
    ASSUME NEW plan, NEW S \in SUBSET Servers, plan \in [S -> Verdict]
    PROVE  plan \in Plans
  BY DEF Plans

\* Every entry of a plan is a server and one of the two states.
LEMMA PlanMember ==
    ASSUME NEW plan \in Plans
    PROVE  DOMAIN plan \subseteq Servers /\ \A s \in DOMAIN plan : plan[s] \in Verdict
  BY DEF Plans

\* The cleanup changes fields of a build within their types.
LEMMA JobUpdates ==
    ASSUME NEW job \in Jobs, NEW plan \in Plans, NEW st \in {"none", "available", "failedInstall"}
    PROVE  /\ [job EXCEPT !.phase = "cleaning", !.byUser = st, !.plan = plan] \in Jobs
           /\ [job EXCEPT !.byUser = st] \in Jobs
           /\ [job EXCEPT !.plan = plan] \in Jobs
  BY DEF Jobs, Plans, Verdict

\* What test_executor_cleanup.sh reads from the log is a plan.
LEMMA VerdictsType ==
    ASSUME NEW S \in SUBSET Servers, NEW done \in SUBSET S, NEW failed \in SUBSET S,
           NEW tried \in SUBSET S, NEW ok \in SUBSET tried, NEW dead \in SUBSET tried
    PROVE  Verdicts(done, failed, ok, dead, tried) \in Plans
  <1> DEFINE missing == IF Cardinality(tried) > Cardinality(ok) + Cardinality(dead) THEN tried \ ok ELSE {}
  <1>1. CASE done \cup failed # {}
    BY <1>1, PlanType DEF Verdicts, Verdict
  <1>2. CASE done \cup failed = {}
    BY <1>2, PlanType DEF Verdicts, Verdict
  <1> QED
    BY <1>1, <1>2

\* The additional servers join the plan.
LEMMA WithAddlType ==
    ASSUME NEW plan \in Plans, NEW extra \in SUBSET Servers
    PROVE  WithAddl(plan, extra) \in Plans
  <1>1. WithAddl(plan, extra) \in [DOMAIN plan \cup extra -> Verdict]
    BY PlanMember DEF WithAddl, Verdict
  <1> QED
    BY <1>1, PlanMember, PlanType

\* A log without a verdict gives the empty plan.
LEMMA EmptyPlan == <<>> \in Plans
  <1>1. <<>> \in [{} -> Verdict]
    OBVIOUS
  <1> QED
    BY <1>1, PlanType

\* The end of a build stores its plan.
LEMMA PlannedType ==
    ASSUME TypeOK, NEW j \in JobIds, NEW plan \in Plans, NEW st \in {"none", "available", "failedInstall"},
           Planned(j, plan, st)
    PROVE  jobs' \in [JobIds -> Jobs]
  <1>1. jobs[j] \in Jobs /\ jobs[j].addl \in SUBSET Servers
    BY DEF TypeOK, Jobs
  <1>2. WithAddl(plan, jobs[j].addl) \in Plans
    BY <1>1, WithAddlType
  <1> DEFINE new == [jobs[j] EXCEPT !.phase = "cleaning", !.byUser = st,
                                    !.plan = WithAddl(plan, jobs[j].addl)]
  <1>3. new \in Jobs
    BY <1>1, <1>2, JobUpdates
  <1>4. jobs' = [jobs EXCEPT ![j] = new]
    BY DEF Planned
  <1> HIDE DEF new
  <1> QED
    BY <1>3, <1>4 DEF TypeOK

\* A build ends.
LEMMA FinishType == ASSUME TypeOK, NEW j \in JobIds, Finish(j) PROVE TypeOK'
  <1>1. jobs[j].servers \in SUBSET Servers
    BY DEF TypeOK, Jobs
  <1>2. \A done, failed, tried \in SUBSET jobs[j].servers : \A ok, dead \in SUBSET tried :
           Verdicts(done, failed, ok, dead, tried) \in Plans
    BY <1>1, VerdictsType
  <1>3. \E plan \in Plans, st \in {"none", "available", "failedInstall"} : Planned(j, plan, st)
    BY <1>2, EmptyPlan DEF Finish
  <1>4. jobs' \in [JobIds -> Jobs]
    BY <1>3, PlannedType
  <1>5. unreleased' \subseteq Servers
    <2>1. BookedBy(pool, jobs[j].desc) \subseteq Servers
      BY DEF BookedBy
    <2> QED
      BY <2>1 DEF Finish, TypeOK
  <1> QED
    BY <1>4, <1>5 DEF Finish, TypeOK, dvars, Active

\* One call of update_server_pool_vm_state.py, failing or not.
LEMMA CleanupUpdateType ==
    ASSUME TypeOK, NEW new \in [Servers -> Doc], NEW ips \in SUBSET Servers, CleanupUpdate(new, ips)
    PROVE  pool' \in [Servers -> Doc] /\ txn' \in [Dispatchers -> Txns] /\ unreleased' \subseteq Servers
  BY WriteType DEF CleanupUpdate, TypeOK

\* The cleanup releases by username.
LEMMA CleanupByUserType == ASSUME TypeOK, NEW j \in JobIds, CleanupByUser(j) PROVE TypeOK'
  <1>1. jobs[j] \in Jobs /\ jobs[j].byUser \in States
    BY DEF CleanupByUser, TypeOK, Jobs, States
  <1>2. UpdateByUser(pool, jobs[j].desc, jobs[j].byUser) \in [Servers -> Doc]
    BY <1>1, UpdateByUserType DEF TypeOK
  <1>3. BookedBy(pool, jobs[j].desc) \in SUBSET Servers
    BY DEF BookedBy
  <1>4. pool' \in [Servers -> Doc] /\ txn' \in [Dispatchers -> Txns] /\ unreleased' \subseteq Servers
    BY <1>2, <1>3, CleanupUpdateType DEF CleanupByUser
  <1>5. jobs' \in [JobIds -> Jobs]
    BY <1>1 DEF CleanupByUser, TypeOK, Jobs
  <1> QED
    BY <1>4, <1>5 DEF CleanupByUser, TypeOK, dlocals, Active

\* The cleanup releases one address.
LEMMA CleanupByIpType == ASSUME TypeOK, NEW j \in JobIds, CleanupByIp(j) PROVE TypeOK'
  <1>1. jobs[j] \in Jobs /\ jobs[j].plan \in Plans
    BY DEF TypeOK, Jobs, Plans, Verdict
  <1>2. PICK ip \in DOMAIN jobs[j].plan :
          /\ CleanupUpdate(UpdateByIp(pool, ip, jobs[j].desc, jobs[j].plan[ip]),
                           {ip} \cap BookedBy(pool, jobs[j].desc))
          /\ jobs' = [jobs EXCEPT ![j].plan = [s \in DOMAIN @ \ {ip} |-> @[s]]]
    BY DEF CleanupByIp
  <1>3. ip \in Servers /\ jobs[j].plan[ip] \in States
    BY <1>1, PlanMember DEF Verdict, States
  <1>4. UpdateByIp(pool, ip, jobs[j].desc, jobs[j].plan[ip]) \in [Servers -> Doc]
    BY <1>3, UpdateByIpType DEF TypeOK
  <1>5. pool' \in [Servers -> Doc] /\ txn' \in [Dispatchers -> Txns] /\ unreleased' \subseteq Servers
    BY <1>2, <1>3, <1>4, CleanupUpdateType
  <1>6. jobs' \in [JobIds -> Jobs]
    <2> DEFINE left == [s \in DOMAIN jobs[j].plan \ {ip} |-> jobs[j].plan[s]]
    <2>1. left \in Plans
      BY <1>1, PlanMember, PlanType
    <2>2. [jobs[j] EXCEPT !.plan = left] \in Jobs
      BY <1>1, <2>1, JobUpdates
    <2>3. jobs' = [jobs EXCEPT ![j] = [jobs[j] EXCEPT !.plan = left]]
      BY <1>2
    <2> HIDE DEF left
    <2> QED
      BY <2>2, <2>3 DEF TypeOK
  <1> QED
    BY <1>5, <1>6 DEF CleanupByIp, TypeOK, dlocals, Active

\* The cleanup is through.
LEMMA JobEndsType == ASSUME TypeOK, NEW j \in JobIds, JobEnds(j) PROVE TypeOK'
  BY NoJobType DEF JobEnds, TypeOK, dvars, Active

\* The repair of nodes with a failed install.
LEMMA CleanerType == ASSUME TypeOK, Cleaner PROVE TypeOK'
  <1>1. CASE CleanerStart
    BY <1>1 DEF CleanerStart, TypeOK, dvars, Active
  <1>2. CASE \E s \in Servers : CleanerTake(s)
    BY <1>2 DEF CleanerTake, TypeOK, dvars, Active
  <1>3. CASE CleanerEnd
    <2>1. cleaner.on \in Servers
      BY <1>3 DEF CleanerEnd, TypeOK
    <2>2. \A st \in {"available", "sshFailed"} : UpdateCleaned(pool, cleaner.on, st) \in [Servers -> Doc]
      BY <2>1, UpdateCleanedType DEF TypeOK, States
    <2>3. pool' \in [Servers -> Doc] /\ txn' \in [Dispatchers -> Txns]
      BY <1>3, <2>2, WriteType DEF CleanerEnd, TypeOK
    <2>4. [cleaner EXCEPT !.on = NoServer] \in [rows : SUBSET Servers, on : Servers \cup {NoServer}]
      BY DEF TypeOK
    <2>5. [rows |-> {}, on |-> NoServer] \in [rows : SUBSET Servers, on : Servers \cup {NoServer}]
      OBVIOUS
    <2>6. cleaner' = [cleaner EXCEPT !.on = NoServer] \/ cleaner' = [rows |-> {}, on |-> NoServer]
      BY <1>3 DEF CleanerEnd
    <2>7. cleaner' \in [rows : SUBSET Servers, on : Servers \cup {NoServer}]
      BY <2>4, <2>5, <2>6
    <2> QED
      BY <1>3, <2>3, <2>7 DEF CleanerEnd, TypeOK, dlocals, Active
  <1> QED
    BY <1>1, <1>2, <1>3 DEF Cleaner

\* The release of overdue nodes.
LEMMA OverdueType ==
    ASSUME TypeOK, NEW names, NEW p, NEW st, Overdue(names, p, st)
    PROVE  TypeOK'
  <1>1. ReleaseOverdue(pool, p, names, st) \in [Servers -> Doc]
    BY ReleaseOverdueType DEF TypeOK
  <1>2. pool' \in [Servers -> Doc] /\ txn' \in [Dispatchers -> Txns]
    BY <1>1, WriteType DEF Overdue
  <1> QED
    BY <1>2 DEF Overdue, TypeOK, dlocals, Active

\* Every step of every script preserves the types.
LEMMA StepType == ASSUME TypeOK, [Next]_vars PROVE TypeOK'
  <1>1. CASE UNCHANGED vars
    BY <1>1 DEF TypeOK, vars, dvars, Active
  <1>2. ASSUME NEW d \in Dispatchers, Dispatcher(d) PROVE TypeOK'
    BY <1>2, ScanType, PrepareType, CountType, SelectType, StageType, CommitType, RetryType,
       GiveUpType, GotServersType, GotAddlType, MarkType, LaunchType, LaunchRaisesType,
       ReleaseType, DropType DEF Dispatcher
  <1>3. ASSUME NEW j \in JobIds, Job(j) PROVE TypeOK'
    BY <1>3, FinishType, CleanupByUserType, CleanupByIpType, JobEndsType DEF Job
  <1> QED
    BY <1>1, <1>2, <1>3, CleanerType, OverdueType DEF Next

\* Whatever the scripts do, for any servers, pools, tests, dispatchers and
\* builds: the documents, lists and plans stay well formed, and a dispatcher past
\* its scan has an index of testsToLaunch and a descriptor.
THEOREM TypeCorrect == Spec => []TypeOK
  BY InitType, StepType, PTL DEF Spec
-----------------------------------------------------------------------------
(* How the steps of the scripts touch the pool. *)

\* What an open transaction has selected is available until it notices a conflict.
StagedAvailable ==
    \A d \in Dispatchers :
        pc[d] \in {"stage", "commit"} /\ ~txn[d].dirty =>
            \A s \in Range(txn[d].rows) : pool[s].state = "available"

\* A write to a selected document is noticed as a conflict.
LEMMA WriteAvailable ==
    ASSUME TypeOK, TrackSelect, StagedAvailable, NEW new, Write(new),
           \A e \in Dispatchers : pc'[e] \in {"stage", "commit"} => pc[e] = pc'[e]
    PROVE  StagedAvailable'
  <1> SUFFICES ASSUME NEW e \in Dispatchers, pc'[e] \in {"stage", "commit"}, ~txn'[e].dirty,
                      NEW s \in Range(txn'[e].rows)
               PROVE  pool'[s].state = "available"
    BY DEF StagedAvailable
  <1> DEFINE written == {r \in Servers : new[r] # pool[r]}
  <1>0. txn[e] \in Txns /\ Range(txn[e].rows) \subseteq Servers
    BY DEF TypeOK, Txns, Range
  <1>1. txn'[e] = IF Range(txn[e].rows) \cap written # {}
                  THEN [txn[e] EXCEPT !.dirty = TRUE] ELSE txn[e]
    BY DEF Write, Conflicted, Holds
  <1>2. Range(txn[e].rows) \cap written = {}
    BY <1>0, <1>1 DEF Txns
  <1>3. txn'[e] = txn[e]
    BY <1>1, <1>2
  <1> QED
    BY <1>0, <1>2, <1>3 DEF StagedAvailable, Write

\* A step that leaves the pool and the open transactions alone.
LEMMA QuietAvailable ==
    ASSUME StagedAvailable, pool' = pool,
           \A e \in Dispatchers : pc'[e] \in {"stage", "commit"} =>
               pc[e] \in {"stage", "commit"} /\ txn'[e] = txn[e]
    PROVE  StagedAvailable'
  BY DEF StagedAvailable

\* The SELECT takes available servers.
LEMMA SelectAvailable ==
    ASSUME TypeOK, StagedAvailable, NEW d \in Dispatchers, Select(d)
    PROVE  StagedAvailable'
  <1>1. PICK rows \in SelectRows(pool, FromPool(d), Want(d)) :
            txn' = [txn EXCEPT ![d] = [@ EXCEPT !.rows = rows, !.dirty = FALSE]]
    BY DEF Select
  <1>2. \A s \in Range(rows) : pool[s].state = "available"
    BY WantType, RowsType DEF Select
  <1>3. txn'[d].rows = rows /\ \A e \in Dispatchers \ {d} : txn'[e] = txn[e]
    BY <1>1 DEF TypeOK, Txns
  <1> QED
    BY <1>2, <1>3 DEF Select, StagedAvailable, TypeOK

\* A commit is a write, noticed by the other transactions.
LEMMA CommitAvailable ==
    ASSUME TypeOK, TrackSelect, StagedAvailable, NEW d \in Dispatchers, Commit(d)
    PROVE  StagedAvailable'
  <1> DEFINE rows == Range(txn[d].rows)
  <1> SUFFICES ASSUME NEW e \in Dispatchers, pc'[e] \in {"stage", "commit"}, ~txn'[e].dirty,
                      NEW s \in Range(txn'[e].rows)
               PROVE  pool'[s].state = "available"
    BY DEF StagedAvailable
  <1>1. e # d /\ pc[e] = pc'[e]
    BY DEF Commit, TypeOK
  <1>2. pool' = Book(pool, rows, desc[d]) /\ txn'[e] = Conflicted(rows)[e]
    <2>1. Conflicted(rows) \in [Dispatchers -> Txns]
      BY ConflictedType DEF TypeOK
    <2> QED
      BY <1>1, <2>1 DEF Commit
  <1>0. txn[e] \in Txns /\ Range(txn[e].rows) \subseteq Servers
    BY DEF TypeOK, Txns, Range
  <1> HIDE DEF rows
  <1>3. txn'[e] = IF Range(txn[e].rows) \cap rows # {}
                  THEN [txn[e] EXCEPT !.dirty = TRUE] ELSE txn[e]
    BY <1>1, <1>2 DEF Conflicted, Holds
  <1>4. Range(txn[e].rows) \cap rows = {}
    BY <1>0, <1>3 DEF Txns
  <1> QED
    BY <1>0, <1>1, <1>2, <1>3, <1>4 DEF StagedAvailable, Book

\* Every step of every script either writes the pool, or leaves it and the open transactions
\* alone, or is the SELECT, the fetch or the commit of get_servers.
LEMMA StepWrites ==
    ASSUME TypeOK, [Next]_vars
    PROVE  \/ /\ \E new : Write(new)
              /\ \A e \in Dispatchers : pc'[e] \in {"stage", "commit"} => pc[e] = pc'[e]
           \/ /\ pool' = pool
              /\ \A e \in Dispatchers : pc'[e] \in {"stage", "commit"} =>
                    pc[e] = pc'[e] /\ txn'[e] = txn[e]
           \/ \E d \in Dispatchers : Select(d) \/ Stage(d) \/ Commit(d)
  <1> DEFINE Writes == /\ \E new : Write(new)
                       /\ \A e \in Dispatchers : pc'[e] \in {"stage", "commit"} => pc[e] = pc'[e]
             Quiet == /\ pool' = pool
                      /\ \A e \in Dispatchers : pc'[e] \in {"stage", "commit"} =>
                            pc[e] = pc'[e] /\ txn'[e] = txn[e]
  <1>1. CASE UNCHANGED vars
    BY <1>1 DEF vars, dvars
  <1>2. ASSUME NEW d \in Dispatchers, Dispatcher(d), ~Select(d), ~Stage(d), ~Commit(d) PROVE Writes \/ Quiet
    <2>1. CASE Scan(d) \/ Prepare(d)
      <3>1. Quiet
        BY <2>1 DEF Scan, Prepare, TypeOK
      <3> QED
        BY <3>1
    <2>2. CASE Count(d)
      <3>1. Quiet
        BY <2>2 DEF Count, TypeOK
      <3> QED
        BY <3>1
    <2>3. CASE Retry(d) \/ GiveUp(d)
      <3>1. pool' = pool /\ \E step \in {"count", "got"} : pc' = [pc EXCEPT ![d] = step]
        BY <2>3 DEF Retry, GiveUp
      <3>2. \E t : txn' = [txn EXCEPT ![d] = t]
        BY <2>3 DEF Retry, GiveUp
      <3>3. Quiet
        BY <3>1, <3>2 DEF TypeOK
      <3> QED
        BY <3>3
    <2>4. CASE GotServers(d)
      <3>1. \E step \in {"count", "release", "mark"} : pc' = [pc EXCEPT ![d] = step]
        BY <2>4 DEF GotServers
      <3>2. Quiet
        BY <2>4, <3>1 DEF GotServers, TypeOK
      <3> QED
        BY <3>2
    <2>5. CASE GotAddl(d) \/ LaunchRaises(d) \/ Launch(d)
      <3>1. pool' = pool /\ \E step \in {"release", "mark", "done", "scan"} : pc' = [pc EXCEPT ![d] = step]
        <4>1. CASE GotAddl(d)
          BY <4>1 DEF GotAddl
        <4>2. CASE LaunchRaises(d)
          BY <4>2 DEF LaunchRaises
        <4>3. CASE Launch(d)
          <5>1. pool' = pool /\ pc' = [pc EXCEPT ![d] = IF Len(tests[d]) = 1 THEN "done" ELSE "scan"]
            BY <4>3 DEF Launch, NextRound
          <5> QED
            BY <5>1
        <4> QED
          BY <2>5, <4>1, <4>2, <4>3
      <3>2. txn' = txn \/ txn' = [txn EXCEPT ![d] = NoTxn]
        BY <2>5 DEF GotAddl, LaunchRaises, Launch
      <3>3. Quiet
        BY <3>1, <3>2 DEF TypeOK
      <3> QED
        BY <3>3
    <2>6. CASE Mark(d)
      <3>1. CASE \E s \in bad[d] : Write(ReleaseIp(pool, s, "ssh_failed")) /\ pc' = pc
        BY <3>1
      <3>2. CASE UNCHANGED <<pool, txn>>
        <4>1. Quiet
          BY <2>6, <3>2 DEF Mark, TypeOK
        <4> QED
          BY <4>1
      <3> QED
        BY <2>6, <3>1, <3>2 DEF Mark
    <2>7. CASE Release(d) \/ Drop(d)
      <3>1. \A e \in Dispatchers : pc'[e] \in {"stage", "commit"} => pc[e] = pc'[e]
        BY <2>7 DEF Release, Drop, NextRound, TypeOK
      <3>2. GiveBack(d)
        BY <2>7 DEF Release, Drop
      <3>3. CASE Write(ReleaseServers(pool, desc[d], "available"))
        BY <3>1, <3>3
      <3>4. CASE UNCHANGED <<pool, txn>>
        BY <3>1, <3>4
      <3> QED
        BY <3>2, <3>3, <3>4 DEF GiveBack
    <2> QED
      BY <1>2, <2>1, <2>2, <2>3, <2>4, <2>5, <2>6, <2>7 DEF Dispatcher
  <1>3. ASSUME NEW j \in JobIds, Job(j) PROVE Writes \/ Quiet
    <2>1. CASE Finish(j) \/ JobEnds(j)
      BY <2>1 DEF Finish, JobEnds, dvars
    <2>2. CASE CleanupByUser(j) \/ CleanupByIp(j)
      <3>1. pc' = pc /\ \E new, ips : CleanupUpdate(new, ips)
        BY <2>2 DEF CleanupByUser, CleanupByIp, dlocals
      <3>2. (\E new : Write(new)) \/ UNCHANGED <<pool, txn>>
        BY <3>1 DEF CleanupUpdate
      <3> QED
        BY <3>1, <3>2
    <2> QED
      BY <1>3, <2>1, <2>2 DEF Job
  <1>4. CASE Cleaner
    <2>1. CASE CleanerEnd
      <3>1. pc' = pc /\ ((\E new : Write(new)) \/ UNCHANGED <<pool, txn>>)
        BY <2>1 DEF CleanerEnd, dlocals
      <3> QED
        BY <3>1
    <2>2. CASE ~CleanerEnd
      BY <1>4, <2>2 DEF Cleaner, CleanerStart, CleanerTake, dvars
    <2> QED
      BY <2>1, <2>2
  <1>5. ASSUME NEW names, NEW p, NEW st, Overdue(names, p, st) PROVE Writes \/ Quiet
    <2>1. pc' = pc /\ \E new : Write(new)
      BY <1>5 DEF Overdue, dlocals
    <2> QED
      BY <2>1
  <1> QED
    BY <1>1, <1>2, <1>3, <1>4, <1>5 DEF Next

\* Every step keeps what is selected available.
LEMMA StepAvailable ==
    ASSUME TypeOK, TrackSelect, StagedAvailable, [Next]_vars
    PROVE  StagedAvailable'
  <1>1. ASSUME NEW d \in Dispatchers, Stage(d) PROVE StagedAvailable'
    BY <1>1, QuietAvailable DEF Stage, TypeOK
  <1> QED
    BY <1>1, StepWrites, WriteAvailable, QuietAvailable, SelectAvailable, CommitAvailable

\* If the transaction library validates the rows it has selected, the servers a
\* transaction of get_servers is about to book are available.
LEMMA StagedFree == ASSUME TrackSelect PROVE Spec => []StagedAvailable
  <1>1. Init => StagedAvailable
    BY DEF Init, StagedAvailable
  <1> QED
    BY <1>1, StepAvailable, TypeCorrect, PTL DEF Spec

-----------------------------------------------------------------------------
(* The pool implements Booking. *)

\* A step takes servers away from those names, if from anybody.
Frees(names) ==
    \A s \in Servers : \/ pool'[s] = pool[s]
                       \/ /\ pool'[s].state # "booked"
                          /\ pool[s].state = "booked" => pool[s].username \in names

\* The servers that change hands in a step.
Moved == {s \in Servers : owner'[s] # owner[s]}

\* The claims on the servers in S are voided, and none is made.
Voids(S) ==
    \A e \in Dispatchers :
        /\ seen'[e] = {} \/ (seen'[e] = seen[e] /\ (TrackSelect => seen[e] \cap S = {}))
        /\ held'[e] = {} \/ (held'[e] = held[e] /\ held[e] \cap S = {})

\* Each statement that releases servers frees those of one name, or of the names it lists.
LEMMA FreeingWrites ==
    ASSUME pool \in [Servers -> Doc]
    PROVE  /\ \A u, st : st # "booked" /\ pool' = ReleaseServers(pool, u, st) => Frees({u})
           /\ \A u, st : st # "booked" /\ pool' = UpdateByUser(pool, u, st) => Frees({u})
           /\ \A ip \in Servers : \A st : st # "booked" /\ pool' = ReleaseIp(pool, ip, st) => Frees({pool[ip].username})
           /\ \A ip \in Servers : \A u, st : st # "booked" /\ pool' = UpdateByIp(pool, ip, u, st) => Frees({u})
           /\ \A p, names, st : pool' = ReleaseOverdue(pool, p, names, st) => Frees(names)
           /\ \A ip \in Servers : \A u, st : st # "booked" /\ pool' = UpdateCleaned(pool, ip, st) => Frees({u})
  <1>1. ASSUME NEW u, NEW st, st # "booked", pool' = ReleaseServers(pool, u, st) PROVE Frees({u})
    BY <1>1 DEF ReleaseServers, BookedBy, Frees
  <1>2. ASSUME NEW u, NEW st, st # "booked", pool' = UpdateByUser(pool, u, st) PROVE Frees({u})
    BY <1>2 DEF UpdateByUser, BookedBy, Frees, Doc
  <1>3. ASSUME NEW ip \in Servers, NEW st, st # "booked", pool' = ReleaseIp(pool, ip, st)
        PROVE  Frees({pool[ip].username})
    BY <1>3 DEF ReleaseIp, Frees, Doc
  <1>4. ASSUME NEW ip \in Servers, NEW u, NEW st, st # "booked", pool' = UpdateByIp(pool, ip, u, st)
        PROVE  Frees({u})
    BY <1>4 DEF UpdateByIp, BookedBy, Frees, Doc
  <1>5. ASSUME NEW p, NEW names, NEW st, pool' = ReleaseOverdue(pool, p, names, st) PROVE Frees(names)
    BY <1>5 DEF ReleaseOverdue, Frees, Doc
  <1>6. ASSUME NEW ip \in Servers, NEW u, NEW st, st # "booked", pool' = UpdateCleaned(pool, ip, st)
        PROVE  Frees({u})
    BY <1>6 DEF UpdateCleaned, Frees, Doc
  <1> QED
    BY <1>1, <1>2, <1>3, <1>4, <1>5, <1>6

\* Every step of every script frees servers or commits a booking.
LEMMA StepFreesOrCommits ==
    ASSUME TypeOK, [Next]_vars
    PROVE  (\E names : Frees(names)) \/ \E d \in Dispatchers : Commit(d)
  <1>0. pool \in [Servers -> Doc]
    BY DEF TypeOK
  <1> USE <1>0
  <1>1. ASSUME pool' = pool PROVE \E names : Frees(names)
    BY <1>1 DEF Frees
  <1>2. ASSUME NEW d \in Dispatchers, Dispatcher(d), ~Commit(d) PROVE \E names : Frees(names)
    <2>1. CASE Mark(d)
      <3>1. ASSUME NEW s \in bad[d], pool' = ReleaseIp(pool, s, "ssh_failed")
            PROVE  \E names : Frees(names)
        <4>1. s \in Servers
          BY DEF TypeOK
        <4> QED
          BY <3>1, <4>1, FreeingWrites
      <3> QED
        BY <1>1, <2>1, <3>1 DEF Mark, Write
    <2>2. CASE Release(d) \/ Drop(d)
      <3>1. pool' = pool \/ pool' = ReleaseServers(pool, desc[d], "available")
        BY <2>2 DEF Release, Drop, GiveBack, Write
      <3> QED
        BY <1>1, <3>1, FreeingWrites
    <2>3. CASE ~Mark(d) /\ ~Release(d) /\ ~Drop(d)
      <3>1. pool' = pool
        BY <1>2, <2>3 DEF Dispatcher, Scan, Prepare, Count, Select, Stage, Retry, GiveUp,
                          GotServers, GotAddl, Launch, LaunchRaises
      <3> QED
        BY <1>1, <3>1
    <2> QED
      BY <2>1, <2>2, <2>3
  <1>3. ASSUME NEW j \in JobIds, Job(j) PROVE \E names : Frees(names)
    <2>1. CASE Finish(j) \/ JobEnds(j)
      BY <1>1, <2>1 DEF Finish, JobEnds
    <2>2. CASE CleanupByUser(j)
      <3>1. jobs[j].byUser # "booked"
        BY DEF TypeOK, Jobs
      <3>2. pool' = pool \/ pool' = UpdateByUser(pool, jobs[j].desc, jobs[j].byUser)
        BY <2>2 DEF CleanupByUser, CleanupUpdate, Write
      <3> QED
        BY <1>1, <3>1, <3>2, FreeingWrites
    <2>3. CASE CleanupByIp(j)
      <3>1. PICK ip \in DOMAIN jobs[j].plan :
              pool' = pool \/ pool' = UpdateByIp(pool, ip, jobs[j].desc, jobs[j].plan[ip])
        BY <2>3 DEF CleanupByIp, CleanupUpdate, Write
      <3>2. jobs[j].plan \in Plans
        BY DEF TypeOK, Jobs, Plans, Verdict
      <3>3. ip \in Servers /\ jobs[j].plan[ip] # "booked"
        BY <3>2, PlanMember DEF Verdict
      <3> QED
        BY <1>1, <3>1, <3>3, FreeingWrites
    <2> QED
      BY <1>3, <2>1, <2>2, <2>3 DEF Job
  <1>4. ASSUME Cleaner PROVE \E names : Frees(names)
    <2>1. CASE CleanerEnd
      <3>1. cleaner.on \in Servers
        BY <2>1 DEF CleanerEnd, TypeOK
      <3>2. pool' = pool \/ \E st \in {"available", "sshFailed"} : pool' = UpdateCleaned(pool, cleaner.on, st)
        BY <2>1 DEF CleanerEnd, Write
      <3> QED
        BY <1>1, <3>1, <3>2, FreeingWrites
    <2>2. CASE ~CleanerEnd
      BY <1>1, <1>4, <2>2 DEF Cleaner, CleanerStart, CleanerTake
    <2> QED
      BY <2>1, <2>2
  <1>5. ASSUME NEW day, NEW p, NEW st, Overdue(day, p, st) PROVE \E names : Frees(names)
    BY <1>5, FreeingWrites DEF Overdue, Write
  <1> QED
    BY <1>1, <1>2, <1>3, <1>4, <1>5 DEF Next, vars

\* All servers are free at the start, and nobody has a claim.
LEMMA InitBooking == Init => Abstract!Init
  <1> SUFFICES ASSUME Init PROVE Abstract!Init
    OBVIOUS
  <1>1. \A d \in Dispatchers : pc[d] \in {"scan", "done"}
    BY DEF Init
  <1> QED
    BY <1>1 DEF Init, Abstract!Init, owner, seen, held, Claim

\* After a step, too, claims are sets of servers.
LEMMA ClaimsType ==
    ASSUME TypeOK'
    PROVE  seen' \in [Dispatchers -> SUBSET Servers] /\ held' \in [Dispatchers -> SUBSET Servers]
  <1>1. \A d \in Dispatchers : Range(txn'[d].rows) \subseteq Servers
    BY DEF TypeOK, Txns, Range
  <1> QED
    BY <1>1 DEF seen, held, Claim

\* A server changes hands only if its document is written.
LEMMA MovedWritten == \A s \in Moved : pool'[s] # pool[s]
  BY DEF Moved, owner

\* A write is noticed by whoever holds a document that it changes.
LEMMA WriteVoids ==
    ASSUME TypeOK, NEW new, Write(new),
           \A e \in Dispatchers : pc'[e] \in {"stage", "commit"} => pc[e] = pc'[e]
    PROVE  Voids(Moved)
  <1> SUFFICES ASSUME NEW e \in Dispatchers
               PROVE  /\ seen'[e] = {} \/ (seen'[e] = seen[e] /\ (TrackSelect => seen[e] \cap Moved = {}))
                      /\ held'[e] = {} \/ (held'[e] = held[e] /\ held[e] \cap Moved = {})
    BY DEF Voids
  <1> DEFINE written == {r \in Servers : new[r] # pool[r]}
  <1>1. txn[e] \in Txns
    BY DEF TypeOK
  <1>2. txn'[e] = IF Holds(e) /\ Range(txn[e].rows) \cap written # {}
                  THEN [txn[e] EXCEPT !.dirty = TRUE] ELSE txn[e]
    BY DEF Write, Conflicted
  <1>3. Moved \subseteq written
    BY MovedWritten DEF Moved, Write
  <1> HIDE DEF written
  <1>4. CASE Holds(e) /\ Range(txn[e].rows) \cap written # {}
    <2>1. txn'[e].dirty
      BY <1>1, <1>2, <1>4 DEF Txns
    <2> QED
      BY <2>1 DEF seen, held, Claim
  <1>5. CASE ~(Holds(e) /\ Range(txn[e].rows) \cap written # {})
    <2>1. txn'[e] = txn[e]
      BY <1>2, <1>5
    <2> QED
      BY <1>3, <1>5, <2>1 DEF seen, held, Claim, Holds
  <1> QED
    BY <1>4, <1>5

\* A step that leaves the pool and the open transactions alone voids nothing.
LEMMA QuietVoids ==
    ASSUME TypeOK, pool' = pool,
           \A e \in Dispatchers : pc'[e] \in {"stage", "commit"} => pc[e] = pc'[e] /\ txn'[e] = txn[e]
    PROVE  Voids(Moved)
  <1>1. Moved = {}
    BY MovedWritten
  <1> QED
    BY <1>1 DEF Voids, seen, held, Claim

\* A step that frees servers and voids the claims on them is Give.
LEMMA FreesGives ==
    ASSUME TypeOK, TypeOK', NEW names, Frees(names), Voids(Moved)
    PROVE  Abstract!Next
  <1>1. owner' = [s \in Servers |-> IF s \in Moved THEN NoUser ELSE owner[s]]
    BY DEF Frees, owner, Moved
  <1>2. Moved \in SUBSET Servers
    BY DEF Moved
  <1>3. seen' \in [Dispatchers -> SUBSET Servers] /\ held' \in [Dispatchers -> SUBSET Servers]
    BY ClaimsType
  <1>4. Abstract!Give(Moved)
    BY <1>1, <1>3 DEF Abstract!Give, Abstract!Void, Voids
  <1> QED
    BY <1>2, <1>4 DEF Abstract!Next

\* The SELECT of get_servers is Look.
LEMMA SelectLooks ==
    ASSUME TypeOK, NEW d \in Dispatchers, Select(d)
    PROVE  Abstract!Next
  <1>1. PICK rows \in SelectRows(pool, FromPool(d), Want(d)) :
            txn' = [txn EXCEPT ![d] = [@ EXCEPT !.rows = rows, !.dirty = FALSE]]
    BY DEF Select
  <1>2. rows \in Seq(Servers) /\ \A s \in Range(rows) : pool[s].state = "available"
    BY WantType, RowsType DEF Select
  <1>3. Range(rows) \in SUBSET Servers
    BY <1>2 DEF Range
  <1>4. txn'[d].rows = rows /\ txn'[d].dirty = FALSE /\ \A e \in Dispatchers \ {d} : txn'[e] = txn[e]
    BY <1>1 DEF TypeOK, Txns
  <1>5. pc[d] = "select" /\ pc'[d] = "stage" /\ \A e \in Dispatchers \ {d} : pc'[e] = pc[e]
    BY DEF Select, TypeOK
  <1>6. seen' = [seen EXCEPT ![d] = Range(rows)]
    BY <1>4, <1>5 DEF seen, Claim
  <1>7. held' = held
    BY <1>4, <1>5 DEF held, Claim
  <1>8. owner' = owner /\ \A s \in Range(rows) : owner[s] = NoUser
    BY <1>2, <1>3 DEF Select, owner
  <1>9. Abstract!Look(d, Range(rows))
    BY <1>6, <1>7, <1>8 DEF Abstract!Look
  <1> QED
    BY <1>3, <1>9 DEF Abstract!Next

\* ctx.get of the rows is Fetch.
LEMMA StageFetches ==
    ASSUME TypeOK, NEW d \in Dispatchers, Stage(d)
    PROVE  Abstract!Next
  <1>1. pc[d] = "stage" /\ pc'[d] = "commit" /\ \A e \in Dispatchers \ {d} : pc'[e] = pc[e]
    BY DEF Stage, TypeOK
  <1>2. txn' = txn /\ owner' = owner
    BY DEF Stage, owner
  <1>3. seen' = [seen EXCEPT ![d] = {}]
    BY <1>1, <1>2 DEF seen, Claim
  <1>4. held' = [held EXCEPT ![d] = seen[d]]
    BY <1>1, <1>2 DEF seen, held, Claim
  <1>5. Abstract!Fetch(d)
    BY <1>2, <1>3, <1>4 DEF Abstract!Fetch
  <1> QED
    BY <1>5 DEF Abstract!Next

\* The commit of get_servers is Take.
LEMMA CommitTakes ==
    ASSUME TypeOK, TypeOK', NEW d \in Dispatchers, Commit(d)
    PROVE  Abstract!Next
  <1> DEFINE rows == Range(txn[d].rows)
  <1>1. held[d] = rows
    BY DEF Commit, held, Claim
  <1>2. desc[d] \in Descriptors
    BY DEF Commit, TypeOK, Active
  <1>3. owner' = [s \in Servers |-> IF s \in held[d] THEN desc[d] ELSE owner[s]]
    BY <1>1 DEF Commit, Book, owner
  <1>4. seen' \in [Dispatchers -> SUBSET Servers] /\ held' \in [Dispatchers -> SUBSET Servers]
    BY ClaimsType
  <1>5. pc[d] = "commit" /\ pc'[d] = "got" /\ \A e \in Dispatchers \ {d} : pc'[e] = pc[e]
    BY DEF Commit, TypeOK
  <1>6. ASSUME NEW e \in Dispatchers \ {d}
        PROVE  /\ seen'[e] = {} \/ (seen'[e] = seen[e] /\ (TrackSelect => seen[e] \cap rows = {}))
               /\ held'[e] = {} \/ (held'[e] = held[e] /\ held[e] \cap rows = {})
    <2>1. Conflicted(rows) \in [Dispatchers -> Txns]
      BY ConflictedType DEF TypeOK
    <2>2. txn[e] \in Txns /\ txn'[e] = Conflicted(rows)[e]
      BY <2>1 DEF Commit, TypeOK
    <2> HIDE DEF rows
    <2>3. txn'[e] = IF Holds(e) /\ Range(txn[e].rows) \cap rows # {}
                    THEN [txn[e] EXCEPT !.dirty = TRUE] ELSE txn[e]
      BY <2>2 DEF Conflicted
    <2>4. CASE Holds(e) /\ Range(txn[e].rows) \cap rows # {}
      <3>1. txn'[e].dirty
        BY <2>2, <2>3, <2>4 DEF Txns
      <3> QED
        BY <3>1 DEF seen, held, Claim
    <2>5. CASE ~(Holds(e) /\ Range(txn[e].rows) \cap rows # {})
      <3>1. txn'[e] = txn[e]
        BY <2>3, <2>5
      <3> QED
        BY <1>5, <2>5, <3>1 DEF seen, held, Claim, Holds
    <2> QED
      BY <2>4, <2>5
  <1>7. seen'[d] = {} /\ held'[d] = {}
    BY <1>5 DEF seen, held, Claim
  <1> HIDE DEF rows
  <1>8. Abstract!Take(d, desc[d])
    BY <1>1, <1>3, <1>4, <1>6, <1>7 DEF Abstract!Take, Abstract!Void
  <1> QED
    BY <1>2, <1>8 DEF Abstract!Next

\* Every step of every script is a step of Booking.
LEMMA StepBooking == ASSUME TypeOK, [Next]_vars PROVE Abstract!Next
  <1>1. TypeOK'
    BY StepType
  <1>2. ASSUME NEW d \in Dispatchers, Select(d) \/ Stage(d) \/ Commit(d) PROVE Abstract!Next
    BY <1>1, <1>2, SelectLooks, StageFetches, CommitTakes
  <1>3. CASE ~\E d \in Dispatchers : Select(d) \/ Stage(d) \/ Commit(d)
    <2>1. Voids(Moved)
      BY <1>3, StepWrites, WriteVoids, QuietVoids
    <2>2. \E names : Frees(names)
      BY <1>3, StepFreesOrCommits
    <2> QED
      BY <1>1, <2>1, <2>2, FreesGives
  <1> QED
    BY <1>2, <1>3

\* The scripts implement Booking, for any servers, dispatchers, tests and builds and
\* whatever the transaction library tracks, whatever the names and whenever the overdue
\* script runs: a booking takes, all at once, servers that were free when they were
\* selected and that nobody has booked or freed since they were fetched (since they
\* were selected, if the library tracks that), and nothing else makes a booking.
THEOREM PoolBooks == Spec => BookingSpec
  <1>1. TypeOK /\ [Next]_vars => [Abstract!Next]_(Abstract!claims)
    BY StepBooking
  <1> QED
    BY <1>1, InitBooking, TypeCorrect, PTL DEF Spec, BookingSpec, Abstract!Spec
=============================================================================
