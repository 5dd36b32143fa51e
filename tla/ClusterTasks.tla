---------------------------- MODULE ClusterTasks ----------------------------
(***************************************************************************)
(* The task classes of lib/tasks/task.py that work on a cluster, and how   *)
(* each of them uses the protocol of Task.step: which statements on its    *)
(* own state, its future and the manager's queues execute() and check()    *)
(* run, in which order.  What the cluster answers is a choice among the    *)
(* paths through the method; each path is the sequence of its statements   *)
(* and the manager thread runs them one by one, so that a thread blocked   *)
(* in result() may wake up between two of them.                            *)
(*                                                                         *)
(* The statements: "PENDING".."FINISHED" assign self.state, "true" and     *)
(* "false" are set_result, "exception" is set_exception, "schedule" is     *)
(* task_manager.schedule(self), "retry" and "reset" act on the counter of  *)
(* the class, "note" sets its flag, "raise" leaves the method, "timers"    *)
(* waits for the NodeDownTimerTasks, "done" for the task's own future, and *)
(* "unless" skips the rest if the future is answered.                      *)
(*                                                                         *)
(* TaskManager has the queues and the futures in full; here a queue is how *)
(* often a task is in it and the manager takes any task that is there.     *)
(***************************************************************************)
EXTENDS Integers, Sequences

CONSTANTS
    Tasks, Clients,
    TaskOf,      \* the task each client waits for
    Timed,       \* the clients that pass a timeout to result()
    MayBe,       \* the classes a task may be of
    Limits,      \* how often the classes with a counter try (bound; see MC module)
    Forgetful,   \* the classes that may leave their future unanswered
    Hasty,       \* the classes that may answer and then change the answer
    Holding,     \* the classes that wait inside execute()
    NoTask

States == {"PENDING", "EXECUTING", "CHECKING", "FINISHED"}
Statements == States \cup {"true", "false", "exception", "stopped", "raise", "schedule", "retry", "reset",
                           "note", "timers", "done", "unless"}
Counters == {"create", "rebalance", "view", "active", "hang", "start", "compact"}

ASSUME ClusterAssumption ==
    /\ TaskOf \in [Clients -> Tasks] /\ Timed \subseteq Clients /\ NoTask \notin Tasks
    /\ Limits \in [Counters -> Nat]

VARIABLES
    class,    \* the class of a task, chosen once
    state,    \* Task.state
    result,   \* Future._result
    exc,      \* Future._exception; "stopped" when schedule() found the manager shut down
    count,    \* the counter of the class: retries, retry_get_progress, current_iter...
    flag,     \* CBRecoveryTask.started; a backup command has written something
    queued,   \* how often the task is in readyq and sleepq
    sent,     \* a client has scheduled the task
    hand,     \* the task the manager steps
    todo,     \* the statements left of its execute() or check()
    running,  \* TaskManager.running
    got       \* what result() gave a client

task == <<class, state, result, exc, count, flag>>
vars == <<task, queued, sent, hand, todo, running, got>>

-----------------------------------------------------------------------------
(* Paths. *)

Go        == <<"CHECKING", "schedule">>
Again     == <<"schedule">>
Answer(v) == <<"FINISHED", v>>
Told(v)   == <<v, "FINISHED">>
Fail      == <<"FINISHED", "exception">>
Raise     == <<"raise">>
Poll      == <<"retry", "schedule">>
GivenUp   == <<"FINISHED", "schedule">>
ToldTwice == <<"FINISHED", "false", "exception">>   \* set_result(False), then set_exception

\* check() of a dozen classes: answers, and schedules the finished task once more
Confirm == <<"true", "FINISHED", "schedule">>

Body(execute, check) == [execute |-> execute, check |-> check]
Worker == Body({Go, Fail}, {Confirm})

-----------------------------------------------------------------------------
(* Nodes, buckets, scopes and collections. *)

NodeInitializeTask == Body({Go, Fail, Answer("true"), Raise}, {Answer("true")})

\* Defect: the attempts are not counted.
BucketCreateForever(n) == Body({Go, Fail, Raise}, {Told("true"), Again})

\* An exception of the last check() is reported, and the task scheduled once more.
BucketCreateTask(n) ==
    Body({Go, Fail, Raise},
         {Told("true")} \cup (IF n >= Limits["create"] THEN {Told("false"), Fail \o Poll} ELSE {Poll}))

BucketDeleteTask == Body({Go, Answer("false"), Fail}, {Told("true"), Told("false"), Fail})
CollectionCreateTask == Worker
ConcurrentIndexCreateTask == Body({Go, Fail, Fail \o Again}, {Confirm})
CollectionDeleteTask == Worker
ScopeCollectionCreateTask == Worker
ScopeCollectionDeleteTask == Worker
ScopeCreateTask == Worker
ScopeDeleteTask == Worker
BucketFlushTask == Body({Go, Answer("false"), Fail}, {Told("true"), Told("false"), Fail})

-----------------------------------------------------------------------------
(* Rebalance, failover and failures of nodes. *)

CapellaRebalanceTask == Body({Go, Fail}, {Answer("true"), Again, Raise})

\* Defect: the line "# self.set_result(False)" before the exception is in force.
RebalanceTaskTwice(n) ==
    LET Wait(m) == IF m < Limits["rebalance"] THEN Again ELSE ToldTwice
    IN  Body({Go, Fail}, {<<"reset">> \o Wait(0), <<"retry">> \o Wait(n + 1), Answer("true")})

\* One check: the progress has moved or the server does not answer for the first time, it has
\* not moved, the server still does not answer (counted twice), the rebalance has failed, another
\* exception, nothing is running any more (removed nodes clean or not).  After an exception the
\* method goes on as if the server had not answered.
RebalanceTask(n) ==
    LET Wait(m) == IF m < Limits["rebalance"] THEN Again ELSE Fail
    IN  Body({Go, Fail},
             {<<"reset">> \o Wait(0), <<"retry">> \o Wait(n + 1), <<"retry", "retry">> \o Wait(n + 2),
              Fail \o <<"retry">> \o Wait(n + 1), Fail \o Wait(n),
              Answer("true"), Answer("false"), Raise})

FailoverTask == Body({Answer("true"), Fail}, {})

\* Answered inside the loop over the nodes and again at its end.
NodesFailureTask == Body({Answer("true"), ToldTwice \o Answer("true"), Raise}, {})

\* The failure of a node is timed by a NodeDownTimerTask whose result() is awaited here.
AutoFailoverNodesFailureTask ==
    LET Verdict == {<<"EXECUTING">>, ToldTwice, ToldTwice \o ToldTwice}
    IN  Body({<<"timers">> \o v \o Answer("true") : v \in Verdict} \cup {Raise}, {})

\* The node went down just before the time was up: both answers are given.
NodeDownTimerTask ==
    Body({Answer("true"), <<"unless">> \o Answer("false"), Answer("true") \o Answer("false")}, {})

\* execute() asks until somebody answers the future, or until stop is set.
NodeMonitorsAnalyserTask == Body({<<"CHECKING", "done">>, <<"CHECKING">>, Raise}, {ToldTwice, Raise})

-----------------------------------------------------------------------------
(* Statistics, indexes, queries. *)

StatsWaitTask == Body({Go}, {Fail, Again, Answer("true"), Raise})
XdcrStatsWaitTask == Body({Go}, {Fail, Again, Answer("true"), Raise})
ESLoadGeneratorTask == Body({Answer("true"), Raise}, {Answer("true")})
ESBulkLoadGeneratorTask == Body({Answer("true"), Raise}, {Answer("true")})
ESRunQueryCompare == Body({Go, <<"exception", "FINISHED">>}, {Answer("true")})

\* execute() calls check() itself, also when it has recorded an exception.
VerifyCollectionDocCountTask ==
    Body({Confirm, <<"exception">> \o Confirm, Fail \o Confirm}, {})

\* A first failure is to be tried again, but the state says that the task is finished.
N1QLQueryTask   == Body({Go, GivenUp, Fail}, {Told("true"), Fail})
CreateIndexTask == Body({Go, GivenUp, Fail}, {Told("true"), Fail})
BuildIndexTask  == Body({Go, GivenUp, Fail}, {Told("true"), Fail})
DropIndexTask   == Body({Go, GivenUp, Fail, Raise}, {Told("true"), Fail})

MonitorIndexTask == Body({Go, Fail}, {Told("true")})
CBASQueryExecuteTask == Body({Go, Answer("false"), Fail}, {Told("true"), Told("false"), Fail})

-----------------------------------------------------------------------------
(* Views. *)

\* The answer is given before the replicas of the design document are looked at.
ViewCreateTask ==
    Body({Go, Fail, Fail \o Go, Fail \o Fail},
         {Answer("true"), Answer("true") \o <<"exception">>, Answer("true") \o Fail, Fail, Again})

ViewDeleteTask ==
    Body({Go, Fail \o Go, Answer("true"), Fail, Fail \o Fail}, {Answer("true"), Answer("false"), Fail})

ViewQueryTask ==
    Body({Answer("true"), Go, Again, Fail}, {Answer("true"), Answer("false") \o Again, Again, Fail})

\* The attempts are counted; a row of the answer is right or asks for another attempt.
ViewAttempt(n) == {Go, Answer("true"), Answer("false"), IF n + 1 = Limits["view"] THEN Go ELSE Again}
ViewRow(n) == {Answer("true"), IF n = Limits["view"] THEN Answer("false") ELSE <<"EXECUTING", "schedule">>}

\* With a reduced query every expected row answers or asks for another attempt on its own; there
\* may be no row at all.
MonitorViewQueryResultsTask(n) ==
    LET Row == ViewRow(n)
    IN  Body({<<"retry">> \o p : p \in ViewAttempt(n)},
             Row \cup {Answer("false"), <<"FINISHED", "exception", "false">>, <<>>}
                 \cup {a \o b : a \in Row, b \in Row})

ModifyFragmentationConfigTask == Body({Go, Fail}, {<<"exception", "FINISHED">>, Told("true"), Fail})

\* Whatever the loop over the active tasks did, the last lines say that the task was completed.
MonitorActiveTask(n) ==
    LET Seen == {<<>>, Answer("true") \o Again, Again, Answer("false")}
                    \cup (IF n < Limits["active"] THEN {Poll} ELSE {})
    IN  Body({Answer("true"), Answer("false"), Go, Raise}, {s \o Answer("true") : s \in Seen} \cup {Raise})

MonitorViewFragmentationTask ==
    Body({Go, Fail, Fail \o Go, Fail \o Fail}, {Answer("true"), Again, Raise})

ViewCompactionTask ==
    Body({Told("false"), Go, Fail},
         {Again, Told("true"), Told("false"), Again \o Told("true"), Again \o Told("false"),
          <<"exception">>, Fail})

MonitorViewCompactionTask ==
    Body({Told("false") \o Go, Told("true"), Go, Fail},
         {Again, Told("true"), Told("false"), Again \o Told("true"), Again \o Told("false"),
          ToldTwice, Fail})

GenerateExpectedViewResultsTask == Body({Go, Fail}, {Answer("true")})

\* After a failed query the results are read all the same, which may raise.
ViewQueryVerificationTask ==
    Body({Go, <<"exception", "FINISHED">> \o Go, <<"exception", "FINISHED", "raise">>, Raise},
         {Answer("true"), Answer("false")})

-----------------------------------------------------------------------------
(* Fragmentation and compaction of buckets, recovery, backups. *)

MonitorDBFragmentationTask == Body({Go, Fail \o Go}, {Answer("true"), Again, ToldTwice})
MonitorDiskSizeFragmentationTask == Body({Go, Fail \o Go}, {Answer("true"), Again, ToldTwice})

\* Defect: another attempt is made although self.retries is zero.
CompactingOnceMore(n) == IF n <= Limits["compact"] THEN Poll ELSE Told("false")

\* self.retries starts at 20 and goes down.
Compacting(n) == IF n < Limits["compact"] THEN Poll ELSE Told("false")
ExceptionThenFalse == <<"exception", "FINISHED", "false", "schedule">>

\* Defect: a compaction that is still running is not scheduled again.
CompactBucketOnce(n) == Body({Go, ExceptionThenFalse, Raise}, {Told("true"), <<"retry">>, Raise})

CompactBucketTask(n) == Body({Go, ExceptionThenFalse, Raise}, {Told("true"), Compacting(n), Raise})

\* A node that does not answer is reported inside the loop over the nodes, which goes on.
CancelBucketCompactionTask(n) ==
    LET End == {Told("true"), Compacting(n)}
    IN  Body({Go, ExceptionThenFalse, Raise}, End \cup {Fail \o e : e \in End} \cup {Raise})

\* The counter of attempts to see the recovery start is also the counter of checks without
\* progress, and the end of a recovery does not end the method.
CBRecoveryTask(n, started) ==
    LET Seen  == {<<"reset", "schedule">>, IF n > Limits["hang"] THEN Fail ELSE Poll}
        First == IF started THEN {<<>>} ELSE {<<"note">>, <<"note">> \o Answer("true")}
        Gone  == (IF started THEN Answer("true") ELSE <<>>)
                    \o (IF n > Limits["start"] THEN Fail ELSE Poll)
    IN  Body({Go, Fail}, {f \o s : f \in First, s \in Seen} \cup {Gone, Raise})

\* A command that wrote neither output nor error is waited for, though it has ended.
Backup(wrote) ==
    Body({<<"note">> \o Go, Go, ExceptionThenFalse}, IF wrote THEN {Answer("true")} ELSE {Again})

EnterpriseBackupTask(wrote)  == Backup(wrote)
EnterpriseRestoreTask(wrote) == Backup(wrote)
EnterpriseMergeTask(wrote)   == Backup(wrote)
EnterpriseCompactTask(wrote) == Backup(wrote)

-----------------------------------------------------------------------------
(* Document loaders run by another program, log scans, serverless. *)

MagmaDocLoader == Body({Answer("true") \o Confirm, Fail \o Answer("true") \o Confirm}, {})

\* Every collection answers: one, or two of which either may fail.
SDKLoadDocumentsTask ==
    LET Load == {Answer("true"), Fail \o Answer("true")}
        Last == {a \o Confirm : a \in Load}
    IN  Body(Last \cup {a \o b : a \in Load, b \in Last}, {})

DockerSDKLoadDocumentsTask == Worker
LogScanTask == Worker
CreateServerlessDatabaseTask == Body({Go, Fail}, {Answer("true"), Fail})

-----------------------------------------------------------------------------
(* Task.step and the manager. *)

\* execute() and check() of every class, given its counter n and its flag f
Methods(n, f) ==
    [NodeInitialize |-> NodeInitializeTask, BucketCreate |-> BucketCreateTask(n),
     BucketDelete |-> BucketDeleteTask, CollectionCreate |-> CollectionCreateTask,
     ConcurrentIndexCreate |-> ConcurrentIndexCreateTask,
     CollectionDelete |-> CollectionDeleteTask,
     ScopeCollectionCreate |-> ScopeCollectionCreateTask,
     ScopeCollectionDelete |-> ScopeCollectionDeleteTask, ScopeCreate |-> ScopeCreateTask,
     ScopeDelete |-> ScopeDeleteTask, BucketFlush |-> BucketFlushTask,
     CapellaRebalance |-> CapellaRebalanceTask, Rebalance |-> RebalanceTask(n),
     Failover |-> FailoverTask, NodesFailure |-> NodesFailureTask,
     AutoFailoverNodesFailure |-> AutoFailoverNodesFailureTask,
     NodeDownTimer |-> NodeDownTimerTask, NodeMonitorsAnalyser |-> NodeMonitorsAnalyserTask,
     StatsWait |-> StatsWaitTask, XdcrStatsWait |-> XdcrStatsWaitTask,
     ESLoadGenerator |-> ESLoadGeneratorTask, ESBulkLoadGenerator |-> ESBulkLoadGeneratorTask,
     ESRunQueryCompare |-> ESRunQueryCompare,
     VerifyCollectionDocCount |-> VerifyCollectionDocCountTask, N1QLQuery |-> N1QLQueryTask,
     CreateIndex |-> CreateIndexTask, BuildIndex |-> BuildIndexTask, DropIndex |-> DropIndexTask,
     MonitorIndex |-> MonitorIndexTask, CBASQueryExecute |-> CBASQueryExecuteTask,
     ViewCreate |-> ViewCreateTask, ViewDelete |-> ViewDeleteTask, ViewQuery |-> ViewQueryTask,
     MonitorViewQueryResults |-> MonitorViewQueryResultsTask(n),
     ModifyFragmentationConfig |-> ModifyFragmentationConfigTask,
     MonitorActive |-> MonitorActiveTask(n),
     MonitorViewFragmentation |-> MonitorViewFragmentationTask,
     ViewCompaction |-> ViewCompactionTask, MonitorViewCompaction |-> MonitorViewCompactionTask,
     GenerateExpectedViewResults |-> GenerateExpectedViewResultsTask,
     ViewQueryVerification |-> ViewQueryVerificationTask,
     MonitorDBFragmentation |-> MonitorDBFragmentationTask,
     MonitorDiskSizeFragmentation |-> MonitorDiskSizeFragmentationTask,
     CompactBucket |-> CompactBucketTask(n),
     CancelBucketCompaction |-> CancelBucketCompactionTask(n),
     CBRecovery |-> CBRecoveryTask(n, f), EnterpriseBackup |-> EnterpriseBackupTask(f),
     EnterpriseRestore |-> EnterpriseRestoreTask(f), EnterpriseMerge |-> EnterpriseMergeTask(f),
     EnterpriseCompact |-> EnterpriseCompactTask(f), MagmaDocLoader |-> MagmaDocLoader,
     SDKLoadDocuments |-> SDKLoadDocumentsTask,
     DockerSDKLoadDocuments |-> DockerSDKLoadDocumentsTask, LogScan |-> LogScanTask,
     CreateServerlessDatabase |-> CreateServerlessDatabaseTask]

Names == DOMAIN Methods(0, FALSE)

\* The classes whose constructor may already answer the future, as a server does not answer.
Connecting == {"Rebalance", "CBRecovery", "CancelBucketCompaction", "EnterpriseBackup",
               "EnterpriseRestore", "EnterpriseMerge", "EnterpriseCompact"}

ASSUME ClassAssumption ==
    /\ MayBe \in [Tasks -> SUBSET Names]
    /\ Forgetful \cup Hasty \cup Holding \subseteq Names

Done(t) == result[t] # "none" \/ exc[t] # "none"    \* Future.done

\* Future.result of an answered future: an exception wins, whichever came first.
Outcome(t) == IF exc[t] # "none" THEN exc[t] ELSE result[t]

\* The classes whose self.retries counts down: it never goes below zero.
Compactors == {"CompactBucket", "CancelBucketCompaction"}

TypeOK ==
    /\ class \in [Tasks -> Names] /\ state \in [Tasks -> States]
    /\ result \in [Tasks -> {"none", "true", "false"}]
    /\ exc \in [Tasks -> {"none", "exception", "stopped", "timeout"}]
    /\ count \in [Tasks -> Nat] /\ flag \in [Tasks -> BOOLEAN] /\ queued \in [Tasks -> Nat]
    /\ \A t \in Tasks : class[t] \in Compactors => count[t] <= Limits["compact"]
    /\ sent \subseteq Tasks /\ hand \in Tasks \cup {NoTask} /\ todo \in Seq(Statements)
    /\ running \in BOOLEAN
    /\ got \in [Clients -> {"none", "true", "false", "exception", "stopped", "timeout"}]

Init ==
    /\ class \in {c \in [Tasks -> Names] : \A t \in Tasks : c[t] \in MayBe[t]}
    /\ exc \in {e \in [Tasks -> {"none", "exception"}] :
                   \A t \in Tasks : e[t] = "none" \/ class[t] \in Connecting}
    /\ state = [t \in Tasks |-> IF exc[t] = "none" THEN "PENDING" ELSE "FINISHED"]
    /\ result = [t \in Tasks |-> "none"]
    /\ count = [t \in Tasks |-> 0] /\ flag = [t \in Tasks |-> FALSE]
    /\ queued = [t \in Tasks |-> 0] /\ sent = {}
    /\ hand = NoTask /\ todo = <<>> /\ running = TRUE
    /\ got = [c \in Clients |-> "none"]

\* Task.step, called by TaskManager.run: nothing for an answered future, nothing for a task that
\* says it is finished.
Step(t) ==
    /\ hand = NoTask /\ queued[t] > 0
    /\ queued' = [queued EXCEPT ![t] = @ - 1]
    /\ LET m == Methods(count[t], flag[t])[class[t]]
       IN  \/ /\ Done(t) \/ state[t] = "FINISHED"
              /\ UNCHANGED <<state, hand, todo>>
           \/ /\ ~Done(t)
              /\ hand' = t
              /\ \/ /\ state[t] = "PENDING"
                    /\ state' = [state EXCEPT ![t] = "EXECUTING"] /\ todo' = Again
                 \/ state[t] = "EXECUTING" /\ todo' \in m.execute /\ UNCHANGED state
                 \/ state[t] = "CHECKING" /\ todo' \in m.check /\ UNCHANGED state
    /\ UNCHANGED <<class, result, exc, count, flag, sent, running, got>>

\* An exception leaves the method: run() finishes the task and answers its future.
Escaped(why) == todo' = <<"FINISHED", why>>

\* The next statement of the task in hand, or the end of its method.  A schedule() that finds
\* the manager shut down raises; what catches it answers with the exception.
Statement ==
    /\ hand # NoTask
    /\ IF todo = <<>>
       THEN hand' = NoTask /\ UNCHANGED <<state, result, exc, count, flag, queued, todo>>
       ELSE LET s == Head(todo)
                rest == Tail(todo)
            IN  /\ s = "done" => Done(hand)
                /\ s = "timers" => \A u \in Tasks : class[u] = "NodeDownTimer" => Done(u)
                /\ state' = IF s \in States THEN [state EXCEPT ![hand] = s] ELSE state
                /\ result' = IF s \in {"true", "false"} THEN [result EXCEPT ![hand] = s] ELSE result
                /\ exc' = IF s \in {"exception", "stopped"} THEN [exc EXCEPT ![hand] = s] ELSE exc
                /\ count' = [count EXCEPT ![hand] = IF s = "retry" THEN @ + 1
                                                    ELSE IF s = "reset" THEN 0 ELSE @]
                /\ flag' = [flag EXCEPT ![hand] = @ \/ s = "note"]
                /\ queued' = [queued EXCEPT ![hand] = IF s = "schedule" /\ running THEN @ + 1 ELSE @]
                /\ CASE s = "schedule" /\ ~running -> Escaped("stopped")
                     [] s = "raise" -> Escaped("exception")
                     [] s = "unless" /\ Done(hand) -> todo' = <<>>
                     [] OTHER -> todo' = rest
                /\ UNCHANGED hand
    /\ UNCHANGED <<class, sent, running, got>>

\* TaskManager.schedule by the test
Submit(t) ==
    /\ t \notin sent /\ running
    /\ sent' = sent \cup {t} /\ queued' = [queued EXCEPT ![t] = @ + 1]
    /\ UNCHANGED <<task, hand, todo, running, got>>

\* TaskManager.shutdown, not forced
Shutdown ==
    /\ running /\ running' = FALSE
    /\ UNCHANGED <<task, queued, sent, hand, todo, got>>

\* result() of an answered future
Collect(c) ==
    /\ TaskOf[c] \in sent /\ got[c] = "none" /\ Done(TaskOf[c])
    /\ got' = [got EXCEPT ![c] = Outcome(TaskOf[c])]
    /\ UNCHANGED <<task, queued, sent, hand, todo, running>>

\* result() whose timeout is over answers the future itself
TimeOut(c) ==
    /\ c \in Timed /\ TaskOf[c] \in sent /\ got[c] = "none" /\ ~Done(TaskOf[c])
    /\ exc' = [exc EXCEPT ![TaskOf[c]] = "timeout"]
    /\ got' = [got EXCEPT ![c] = "timeout"]
    /\ UNCHANGED <<class, state, result, count, flag, queued, sent, hand, todo, running>>

Next ==
    \/ \E t \in Tasks : Step(t) \/ Submit(t)
    \/ Statement
    \/ Shutdown
    \/ \E c \in Clients : Collect(c) \/ TimeOut(c)

Spec == Init /\ [][Next]_vars

\* The manager thread runs, and serves its queues in order; a client that waits is woken.
Fairness ==
    /\ WF_vars(Statement) /\ \A t \in Tasks : SF_vars(Step(t))
    /\ \A c \in Clients : WF_vars(Collect(c))

FairSpec == Spec /\ Fairness

-----------------------------------------------------------------------------
(* Properties. *)

\* A task whose future nobody has answered is in the manager's queues exactly once or in its
\* hands: otherwise result() without a timeout never returns, or the work is done twice.
NotAbandoned ==
    \A t \in sent : class[t] \notin Forgetful /\ ~Done(t) /\ hand # t => queued[t] = 1

\* What result() returned is what it would return to anybody later: no class answers and then
\* reports a failure or another answer, so that a test goes on as if nothing had happened.  Only
\* a manager that is shut down may spoil an answer afterwards.
NobodyMisled ==
    \A c \in Clients :
       got[c] \in {"true", "false"} /\ class[TaskOf[c]] \notin Hasty =>
          Outcome(TaskOf[c]) \in {got[c], "stopped"}

\* The classes that ask the cluster until it says what they want to hear.
Patient == {"CapellaRebalance", "Rebalance", "StatsWait", "XdcrStatsWait", "ViewCreate", "ViewQuery",
            "MonitorViewFragmentation", "ViewCompaction", "MonitorViewCompaction",
            "MonitorDBFragmentation", "MonitorDiskSizeFragmentation", "CBRecovery",
            "EnterpriseBackup", "EnterpriseRestore", "EnterpriseMerge", "EnterpriseCompact"}

\* Any other task is answered, whatever the cluster says and also when the manager is shut down
\* meanwhile, if no task of a class that waits inside execute() keeps the manager.
TasksAnswered ==
    (\A t \in Tasks : class[t] \notin Holding) =>
       \A t \in Tasks :
          (t \in sent /\ class[t] \notin Patient \cup Forgetful) ~> Done(t)
=============================================================================
