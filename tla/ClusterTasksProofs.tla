------------------------- MODULE ClusterTasksProofs -------------------------
(***************************************************************************)
(* Proofs about ClusterTasks, for any number of tasks and clients and any  *)
(* limits of the counters: type correctness, that the manager loses no     *)
(* task and takes none up twice, and that no class spoils an answer a      *)
(* client has got.  They rest on what the paths of the classes have in     *)
(* common.                                                                 *)
(***************************************************************************)
EXTENDS ClusterTasks, SequenceTheorems, TLAPS

-----------------------------------------------------------------------------
(* What the statements of a path do, whatever their order. *)

Results == {"true", "false"}
Errors == {"exception", "raise", "stopped"}

\* The path answers the future.
Tells(p) == \E i \in DOMAIN p : p[i] \in Results \cup Errors

\* It answers nothing, finishes nothing and schedules nothing.
Quiet(p) == \A i \in DOMAIN p : p[i] \notin Results \cup Errors \cup {"FINISHED", "schedule"}

\* It schedules the task once, and leaves it unanswered and unfinished.
Asks(p) ==
    /\ \A i \in DOMAIN p : p[i] \notin Results \cup Errors \cup {"FINISHED"}
    /\ \E i \in DOMAIN p : p[i] = "schedule" /\ \A j \in DOMAIN p \ {i} : p[j] # "schedule"

\* Its answer is v, if it has one.
Says(p, v) == \A i \in DOMAIN p : p[i] \notin Errors /\ (p[i] \in Results => p[i] = v)

\* Its first answer is an exception.
Fails(p) == \E i \in DOMAIN p : p[i] = "exception" /\ \A j \in DOMAIN p : j < i => p[j] \notin Results

\* It has no result.
Bare(p) == \A i \in DOMAIN p : p[i] \notin Results

Kept(p) == Tells(p) \/ Asks(p)
Firm(p) == Fails(p) \/ Bare(p) \/ \E v \in Results : Says(p, v)

\* The classes never set "stopped" themselves.
Path == Seq(Statements \ {"stopped"})

\* One path after another.
LEMMA Joined ==
    ASSUME NEW p \in Path, NEW r \in Path
    PROVE  /\ p \o r \in Path /\ DOMAIN p = 1..Len(p) /\ DOMAIN r = 1..Len(r) /\ Len(p) \in Nat /\ Len(r) \in Nat
           /\ DOMAIN (p \o r) = 1..(Len(p) + Len(r))
           /\ \A i \in DOMAIN p : i \in DOMAIN (p \o r) /\ (p \o r)[i] = p[i]
           /\ \A i \in DOMAIN r : Len(p) + i \in DOMAIN (p \o r) /\ (p \o r)[Len(p) + i] = r[i]
  <1>1. /\ p \o r \in Path /\ Len(p \o r) = Len(p) + Len(r)
        /\ DOMAIN p = 1..Len(p) /\ DOMAIN r = 1..Len(r) /\ Len(p) \in Nat /\ Len(r) \in Nat
    BY DEF Path
  <1>2. \A i \in 1..(Len(p) + Len(r)) : (p \o r)[i] = IF i <= Len(p) THEN p[i] ELSE r[i - Len(p)]
    BY ConcatProperties DEF Path
  <1>3. DOMAIN (p \o r) = 1..(Len(p) + Len(r))
    BY <1>1 DEF Path
  <1> QED
    BY <1>1, <1>2, <1>3

\* A statement of the whole is one of the first or one of the second.
LEMMA FromEither ==
    ASSUME NEW p \in Path, NEW r \in Path, NEW i \in DOMAIN (p \o r)
    PROVE  \/ i \in DOMAIN p /\ (p \o r)[i] = p[i]
           \/ i - Len(p) \in DOMAIN r /\ (p \o r)[i] = r[i - Len(p)]
  <1>1. DOMAIN (p \o r) = 1..(Len(p) + Len(r)) /\ DOMAIN p = 1..Len(p) /\ DOMAIN r = 1..Len(r)
        /\ Len(p) \in Nat /\ Len(r) \in Nat
    BY Joined
  <1>2. i \in 1..(Len(p) + Len(r))
    BY <1>1
  <1>3. (p \o r)[i] = IF i <= Len(p) THEN p[i] ELSE r[i - Len(p)]
    BY <1>2, ConcatProperties DEF Path
  <1> QED
    BY <1>1, <1>2, <1>3

\* An answer in either part.
LEMMA TellsJoined == ASSUME NEW p \in Path, NEW r \in Path, Tells(p) \/ Tells(r) PROVE p \o r \in Path /\ Tells(p \o r)
  <1>1. CASE Tells(p)
    <2>1. PICK i \in DOMAIN p : p[i] \in Results \cup Errors
      BY <1>1 DEF Tells
    <2>2. i \in DOMAIN (p \o r) /\ (p \o r)[i] = p[i] /\ p \o r \in Path
      BY <2>1, Joined
    <2> QED
      BY <2>1, <2>2 DEF Tells
  <1>2. CASE Tells(r)
    <2>1. PICK i \in DOMAIN r : r[i] \in Results \cup Errors
      BY <1>2 DEF Tells
    <2>2. Len(p) + i \in DOMAIN (p \o r) /\ (p \o r)[Len(p) + i] = r[i] /\ p \o r \in Path
      BY <2>1, Joined
    <2> QED
      BY <2>1, <2>2 DEF Tells
  <1> QED
    BY <1>1, <1>2

\* Nothing, and then the task is scheduled.
LEMMA AsksJoined == ASSUME NEW p \in Path, NEW r \in Path, Quiet(p), Asks(r) PROVE p \o r \in Path /\ Asks(p \o r)
  <1>1. \A i \in DOMAIN (p \o r) : (p \o r)[i] \notin Results \cup Errors \cup {"FINISHED"}
    BY FromEither DEF Quiet, Asks
  <1>2. PICK i \in DOMAIN r : r[i] = "schedule" /\ \A j \in DOMAIN r \ {i} : r[j] # "schedule"
    BY DEF Asks
  <1>3. Len(p) + i \in DOMAIN (p \o r) /\ (p \o r)[Len(p) + i] = "schedule"
    BY <1>2, Joined
  <1>4. ASSUME NEW j \in DOMAIN (p \o r), j # Len(p) + i PROVE (p \o r)[j] # "schedule"
    <2>1. CASE j \in DOMAIN p
      BY <2>1, Joined DEF Quiet
    <2>2. CASE j - Len(p) \in DOMAIN r /\ (p \o r)[j] = r[j - Len(p)]
      <3>1. j - Len(p) # i
        BY <1>4, Joined
      <3> QED
        BY <1>2, <2>2, <3>1
    <2> QED
      BY <2>1, <2>2, FromEither
  <1> QED
    BY <1>1, <1>3, <1>4, Joined DEF Asks

\* The same answer twice.
LEMMA SaysJoined ==
    ASSUME NEW p \in Path, NEW r \in Path, NEW v, Says(p, v), Says(r, v) PROVE p \o r \in Path /\ Says(p \o r, v)
  <1>1. p \o r \in Path
    BY Joined
  <1>2. ASSUME NEW i \in DOMAIN (p \o r) PROVE (p \o r)[i] \notin Errors /\ ((p \o r)[i] \in Results => (p \o r)[i] = v)
    BY FromEither DEF Says
  <1> QED
    BY <1>1, <1>2 DEF Says

\* Whatever comes after an exception.
LEMMA FailsJoined == ASSUME NEW p \in Path, NEW r \in Path, Fails(p) PROVE p \o r \in Path /\ Fails(p \o r)
  <1>1. PICK i \in DOMAIN p : p[i] = "exception" /\ \A j \in DOMAIN p : j < i => p[j] \notin Results
    BY DEF Fails
  <1>2. i \in DOMAIN (p \o r) /\ (p \o r)[i] = "exception"
    BY <1>1, Joined
  <1>3. ASSUME NEW j \in DOMAIN (p \o r), j < i PROVE (p \o r)[j] \notin Results
    <2>1. j \in DOMAIN p
      BY <1>3, Joined
    <2> QED
      BY <1>1, <1>3, <2>1, Joined
  <1> QED
    BY <1>2, <1>3, Joined DEF Fails

\* An exception after nothing.
LEMMA FailsAfter == ASSUME NEW p \in Path, NEW r \in Path, Bare(p), Fails(r) PROVE p \o r \in Path /\ Fails(p \o r)
  <1>1. PICK i \in DOMAIN r : r[i] = "exception" /\ \A j \in DOMAIN r : j < i => r[j] \notin Results
    BY DEF Fails
  <1>2. Len(p) + i \in DOMAIN (p \o r) /\ (p \o r)[Len(p) + i] = "exception"
    BY <1>1, Joined
  <1>3. ASSUME NEW j \in DOMAIN (p \o r), j < Len(p) + i PROVE (p \o r)[j] \notin Results
    <2>1. CASE j \in DOMAIN p
      BY <2>1, Joined DEF Bare
    <2>2. CASE j - Len(p) \in DOMAIN r /\ (p \o r)[j] = r[j - Len(p)]
      <3>1. j - Len(p) < i
        BY <1>3, Joined
      <3> QED
        BY <1>1, <2>2, <3>1
    <2> QED
      BY <2>1, <2>2, FromEither
  <1> QED
    BY <1>2, <1>3, Joined DEF Fails

-----------------------------------------------------------------------------
(* The paths most classes are made of. *)

\* Types.
LEMMA PathTypes ==
    /\ {Go, Again, Fail, Raise, Poll, GivenUp, ToldTwice, Confirm, ExceptionThenFalse} \subseteq Path
    /\ \A v \in Results : Answer(v) \in Path /\ Told(v) \in Path
    /\ <<>> \in Path /\ \A s \in Statements \ {"stopped"} : <<s>> \in Path
  <1>1. {Go, Again, Fail, Raise, Poll, GivenUp} \subseteq Path
    BY DEF Path, Statements, States, Go, Again, Fail, Raise, Poll, GivenUp
  <1>2. {ToldTwice, Confirm, ExceptionThenFalse} \subseteq Path
    BY DEF Path, Statements, States, ToldTwice, Confirm, ExceptionThenFalse
  <1>3. \A v \in Results : Answer(v) \in Path /\ Told(v) \in Path
    BY DEF Path, Statements, States, Answer, Told, Results
  <1>4. <<>> \in Path /\ \A s \in Statements \ {"stopped"} : <<s>> \in Path
    BY DEF Path
  <1> QED
    BY <1>1, <1>2, <1>3, <1>4

\* Which of them answer, and which schedule the task once.
LEMMA PathKept ==
    /\ Tells(Fail) /\ Tells(Raise) /\ Tells(ToldTwice) /\ Tells(Confirm) /\ Tells(ExceptionThenFalse)
    /\ \A v \in Results : Tells(Answer(v)) /\ Tells(Told(v))
    /\ Asks(Go) /\ Asks(Again) /\ Asks(Poll)
  <1>1. Tells(Fail) /\ Tells(Raise) /\ Tells(ToldTwice) /\ Tells(Confirm) /\ Tells(ExceptionThenFalse)
    BY DEF Tells, Results, Errors, Fail, Raise, ToldTwice, Confirm, ExceptionThenFalse
  <1>2. \A v \in Results : Tells(Answer(v)) /\ Tells(Told(v))
    BY DEF Tells, Answer, Told
  <1>3. Asks(Go) /\ Asks(Again) /\ Asks(Poll)
    BY DEF Asks, Results, Errors, Go, Again, Poll
  <1> QED
    BY <1>1, <1>2, <1>3

\* What they answer.
LEMMA PathFirm ==
    /\ Fails(Fail) /\ Fails(ExceptionThenFalse) /\ Bare(Raise) /\ Bare(Fail)
    /\ \A v \in Results : Says(Answer(v), v) /\ Says(Told(v), v)
    /\ Says(Confirm, "true")
    /\ \A v \in Results : Says(Go, v) /\ Says(Again, v) /\ Says(Poll, v)
  <1>1. Fails(Fail) /\ Bare(Raise) /\ Bare(Fail)
    BY DEF Fails, Bare, Results, Fail, Raise
  <1>2. Fails(ExceptionThenFalse)
    BY DEF Fails, Results, ExceptionThenFalse
  <1>3. \A v \in Results : Says(Answer(v), v) /\ Says(Told(v), v)
    BY DEF Says, Answer, Told, Errors, Results
  <1>4. Says(Confirm, "true")
    BY DEF Says, Confirm, Errors, Results
  <1>5. \A v \in Results : Says(Go, v) /\ Says(Again, v) /\ Says(Poll, v)
    BY DEF Says, Go, Again, Poll, Errors, Results
  <1> QED
    BY <1>1, <1>2, <1>3, <1>4, <1>5

-----------------------------------------------------------------------------
(* Paths that are in order: they schedule the task, fail, answer once, or raise. *)

Hush(p) == p \in Path /\ Quiet(p)
Waits(p) == p \in Path /\ Asks(p) /\ \A v \in Results : Says(p, v)
Err(p) == p \in Path /\ Fails(p)
Ans(p, v) == p \in Path /\ v \in Results /\ Tells(p) /\ Says(p, v)
Good(p) == Waits(p) \/ Err(p) \/ p = Raise \/ \E v \in Results : Ans(p, v)

\* They neither lose the task nor spoil an answer.
LEMMA GoodPath == ASSUME NEW p, Good(p) PROVE p \in Path /\ Kept(p) /\ Firm(p)
  <1>1. CASE Waits(p)
    BY <1>1 DEF Waits, Kept, Firm, Results
  <1>2. CASE Err(p)
    BY <1>2 DEF Err, Kept, Firm, Fails, Tells, Errors
  <1>3. CASE p = Raise
    BY <1>3, PathTypes, PathKept, PathFirm DEF Kept, Firm
  <1>4. CASE \E v \in Results : Ans(p, v)
    BY <1>4 DEF Ans, Kept, Firm
  <1> QED
    BY <1>1, <1>2, <1>3, <1>4 DEF Good

\* A path that fails answers.
LEMMA ErrTells == ASSUME NEW p, Err(p) PROVE Tells(p)
  BY DEF Err, Fails, Tells, Errors

\* The basic paths.
LEMMA Basic ==
    /\ Waits(Go) /\ Waits(Again) /\ Waits(Poll) /\ Err(Fail) /\ Err(ExceptionThenFalse) /\ Ans(Confirm, "true")
    /\ \A v \in Results : Ans(Answer(v), v) /\ Ans(Told(v), v)
  BY PathTypes, PathKept, PathFirm DEF Waits, Err, Ans, Results

\* The statements on counters and flags are none of the manager's business.
LEMMA BasicHush ==
    /\ Hush(<<>>) /\ Hush(<<"retry">>) /\ Hush(<<"reset">>) /\ Hush(<<"note">>) /\ Hush(<<"timers">>)
    /\ Hush(<<"EXECUTING">>)
  <1>1. \A s \in {"retry", "reset", "note", "timers", "EXECUTING"} : s \in Statements /\ Quiet(<<s>>)
    BY DEF Statements, States, Quiet, Results, Errors
  <1>2. Quiet(<<>>)
    BY DEF Quiet
  <1> QED
    BY <1>1, <1>2, PathTypes DEF Hush

\* Nothing, and then a path that is in order.
LEMMA HushJoined ==
    ASSUME NEW p, NEW r, Hush(p)
    PROVE  /\ Hush(r) => Hush(p \o r)
           /\ Waits(r) => Waits(p \o r)
           /\ Err(r) => Err(p \o r)
           /\ \A v : Ans(r, v) => Ans(p \o r, v)
  <1>1. p \in Path /\ Quiet(p) /\ Bare(p) /\ \A v : Says(p, v)
    BY DEF Hush, Quiet, Bare, Says
  <1>2. ASSUME Hush(r) PROVE Hush(p \o r)
    <2>1. r \in Path /\ Quiet(r)
      BY <1>2 DEF Hush
    <2>2. p \o r \in Path
      BY <1>1, <2>1, Joined
    <2>3. ASSUME NEW i \in DOMAIN (p \o r) PROVE (p \o r)[i] \notin Results \cup Errors \cup {"FINISHED", "schedule"}
      BY <1>1, <2>1, FromEither DEF Quiet
    <2> QED
      BY <2>2, <2>3 DEF Hush, Quiet
  <1>3. ASSUME Waits(r) PROVE Waits(p \o r)
    <2>1. r \in Path /\ Asks(r) /\ \A v \in Results : Says(r, v)
      BY <1>3 DEF Waits
    <2>2. p \o r \in Path /\ Asks(p \o r)
      BY <1>1, <2>1, AsksJoined
    <2>3. \A v \in Results : Says(p \o r, v)
      BY <1>1, <2>1, SaysJoined
    <2> QED
      BY <2>2, <2>3 DEF Waits
  <1>4. ASSUME Err(r) PROVE Err(p \o r)
    BY <1>1, <1>4, FailsAfter DEF Err
  <1>5. ASSUME NEW v, Ans(r, v) PROVE Ans(p \o r, v)
    BY <1>1, <1>5, TellsJoined, SaysJoined DEF Ans
  <1> QED
    BY <1>2, <1>3, <1>4, <1>5

\* Anything after an exception, the task scheduled before or after an answer, the same answer twice.
LEMMA GoodJoined ==
    ASSUME NEW p, NEW r
    PROVE  /\ Err(p) /\ r \in Path => Err(p \o r)
           /\ \A v : (Waits(p) \/ Ans(p, v)) /\ Ans(r, v) => Ans(p \o r, v)
           /\ \A v : Ans(p, v) /\ Waits(r) => Ans(p \o r, v)
  <1>1. Err(p) /\ r \in Path => Err(p \o r)
    BY FailsJoined DEF Err
  <1>2. ASSUME NEW v, Waits(p) \/ Ans(p, v), Ans(r, v) PROVE Ans(p \o r, v)
    BY <1>2, TellsJoined, SaysJoined DEF Ans, Waits
  <1>3. ASSUME NEW v, Ans(p, v), Waits(r) PROVE Ans(p \o r, v)
    BY <1>3, TellsJoined, SaysJoined DEF Ans, Waits
  <1> QED
    BY <1>1, <1>2, <1>3

\* A path after which the future is answered, in whichever way.
LEMMA TellsEither ==
    ASSUME NEW p \in Path, NEW r \in Path, Tells(p) \/ Tells(r) PROVE p \o r \in Path /\ Kept(p \o r)
  BY TellsJoined DEF Kept

-----------------------------------------------------------------------------
(* The classes. *)

Paths(b) == b.execute \cup b.check
Tidy(b) == \A p \in Paths(b) : Good(p)
Keeps(b) == \A p \in Paths(b) : p \in Path /\ Kept(p)
Honest(b) == \A p \in Paths(b) : p \in Path /\ Firm(p)
Typed(b) == \A p \in Paths(b) : p \in Path

\* A class in order.
LEMMA TidyBody == ASSUME NEW b, Tidy(b) PROVE Keeps(b) /\ Honest(b) /\ Typed(b)
  BY GoodPath DEF Tidy, Keeps, Honest, Typed

\* The paths of a class.
LEMMA PathsOf == ASSUME NEW e, NEW c PROVE Paths(Body(e, c)) = e \cup c
  BY DEF Paths, Body

\* What most classes do.
LEMMA BasicGood ==
    /\ Good(Go) /\ Good(Again) /\ Good(Poll) /\ Good(Fail) /\ Good(Raise) /\ Good(Confirm) /\ Good(ExceptionThenFalse)
    /\ Good(Answer("true")) /\ Good(Answer("false")) /\ Good(Told("true")) /\ Good(Told("false"))
  BY Basic DEF Good, Results

\* Nodes, buckets, scopes and collections.
LEMMA TidyBuckets ==
    /\ Tidy(NodeInitializeTask) /\ Tidy(BucketDeleteTask) /\ Tidy(Worker) /\ Tidy(BucketFlushTask)
  BY BasicGood, PathsOf DEF Tidy, NodeInitializeTask, BucketDeleteTask, Worker, BucketFlushTask

\* A class whose execute() and check() are in order.
LEMMA TidyOf == ASSUME NEW e, NEW c, \A p \in e : Good(p), \A p \in c : Good(p) PROVE Tidy(Body(e, c))
  BY PathsOf DEF Tidy

\* BucketCreateTask reports an exception and asks to be scheduled.
LEMMA TidyBucketCreate == ASSUME NEW n PROVE Tidy(BucketCreateTask(n))
  <1>1. Good(Fail \o Poll)
    BY Basic, GoodJoined, PathTypes DEF Good
  <1>2. \A p \in IF n >= Limits["create"] THEN {Told("false"), Fail \o Poll} ELSE {Poll} : Good(p)
    BY <1>1, BasicGood, Zenon
  <1> QED
    BY <1>2, BasicGood, TidyOf, Zenon DEF BucketCreateTask

\* ConcurrentIndexCreateTask does the same.
LEMMA TidyConcurrentIndexCreate == Tidy(ConcurrentIndexCreateTask)
  <1>1. Good(Fail \o Again)
    BY Basic, GoodJoined, PathTypes DEF Good
  <1> QED
    BY <1>1, BasicGood, TidyOf, Zenon DEF ConcurrentIndexCreateTask

\* Statistics, queries, failovers: one answer.
LEMMA TidySimple ==
    /\ Tidy(CapellaRebalanceTask) /\ Tidy(FailoverTask) /\ Tidy(StatsWaitTask) /\ Tidy(XdcrStatsWaitTask)
    /\ Tidy(ESLoadGeneratorTask) /\ Tidy(ESBulkLoadGeneratorTask) /\ Tidy(MonitorIndexTask)
    /\ Tidy(CBASQueryExecuteTask) /\ Tidy(GenerateExpectedViewResultsTask) /\ Tidy(CreateServerlessDatabaseTask)
  <1> USE BasicGood, PathsOf DEF Tidy
  <1>1. Tidy(CapellaRebalanceTask) /\ Tidy(FailoverTask) /\ Tidy(StatsWaitTask) /\ Tidy(XdcrStatsWaitTask)
    BY DEF CapellaRebalanceTask, FailoverTask, StatsWaitTask, XdcrStatsWaitTask
  <1>2. Tidy(ESLoadGeneratorTask) /\ Tidy(ESBulkLoadGeneratorTask) /\ Tidy(MonitorIndexTask) /\ Tidy(CBASQueryExecuteTask)
    BY DEF ESLoadGeneratorTask, ESBulkLoadGeneratorTask, MonitorIndexTask, CBASQueryExecuteTask
  <1>3. Tidy(GenerateExpectedViewResultsTask) /\ Tidy(CreateServerlessDatabaseTask)
    BY DEF GenerateExpectedViewResultsTask, CreateServerlessDatabaseTask
  <1> QED
    BY <1>1, <1>2, <1>3

\* RebalanceTask counts before it goes on or gives up.
LEMMA TidyRebalance == ASSUME NEW n PROVE Tidy(RebalanceTask(n))
  <1> DEFINE Wait(m) == IF m < Limits["rebalance"] THEN Again ELSE Fail
  <1>1. \A m : (Waits(Wait(m)) \/ Err(Wait(m))) /\ Wait(m) \in Path
    BY Basic, PathTypes
  <1> HIDE DEF Wait
  <1>2. \A m : Good(<<"reset">> \o Wait(m)) /\ Good(<<"retry">> \o Wait(m))
    BY <1>1, BasicHush, HushJoined DEF Good
  <1>4. Hush(<<"retry", "retry">>)
    BY DEF Hush, Path, Quiet, Statements, Results, Errors
  <1>5. \A m : Good(<<"retry", "retry">> \o Wait(m))
    BY <1>1, <1>4, HushJoined DEF Good
  <1>6. \A m : Good(Fail \o Wait(m))
    BY <1>1, Basic, GoodJoined DEF Good
  <1>7. \A m : Good(Fail \o <<"retry">> \o Wait(m))
    <2>1. Err(Fail \o <<"retry">>)
      BY Basic, BasicHush, GoodJoined DEF Hush
    <2> QED
      BY <1>1, <2>1, GoodJoined DEF Good
  <1> QED
    BY <1>2, <1>5, <1>6, <1>7, BasicGood, TidyOf, Zenon DEF RebalanceTask, Wait

\* Comparing a query, counting documents.
LEMMA TidyCompare == Tidy(ESRunQueryCompare) /\ Tidy(VerifyCollectionDocCountTask)
  <1>1. Err(<<"exception", "FINISHED">>) /\ Err(<<"exception">>)
    BY DEF Err, Path, Fails, Results, Statements, States
  <1>2. Good(<<"exception">> \o Confirm) /\ Good(Fail \o Confirm)
    BY <1>1, Basic, GoodJoined, PathTypes DEF Good
  <1>3. Good(<<"exception", "FINISHED">>)
    BY <1>1 DEF Good
  <1>4. Tidy(ESRunQueryCompare)
    BY <1>3, BasicGood, TidyOf, Zenon DEF ESRunQueryCompare
  <1>5. Tidy(VerifyCollectionDocCountTask)
    BY <1>2, BasicGood, TidyOf, Zenon DEF VerifyCollectionDocCountTask
  <1> QED
    BY <1>4, <1>5

\* Views.
LEMMA TidyViews ==
    /\ Tidy(ViewDeleteTask) /\ Tidy(ViewQueryTask) /\ Tidy(ModifyFragmentationConfigTask)
    /\ Tidy(MonitorViewFragmentationTask) /\ Tidy(ViewCompactionTask) /\ Tidy(ViewQueryVerificationTask)
  <1>1. /\ Err(<<"exception", "FINISHED">>) /\ Err(<<"exception">>) /\ Err(<<"exception", "FINISHED", "raise">>)
    BY DEF Err, Path, Fails, Results, Statements, States
  <1>2. Good(Fail \o Go) /\ Good(Fail \o Fail) /\ Good(<<"exception", "FINISHED">> \o Go)
    BY <1>1, Basic, GoodJoined, PathTypes DEF Good
  <1>3. Good(Answer("false") \o Again)
    BY Basic, GoodJoined DEF Good, Results
  <1>4. Good(Again \o Told("true")) /\ Good(Again \o Told("false"))
    BY Basic, GoodJoined DEF Good, Results
  <1>5. Good(<<"exception", "FINISHED">>) /\ Good(<<"exception">>) /\ Good(<<"exception", "FINISHED", "raise">>)
    BY <1>1 DEF Good
  <1>6. Tidy(ViewDeleteTask) /\ Tidy(MonitorViewFragmentationTask)
    BY <1>2, BasicGood, TidyOf, Zenon DEF ViewDeleteTask, MonitorViewFragmentationTask
  <1>7. Tidy(ViewQueryTask)
    BY <1>3, BasicGood, TidyOf, Zenon DEF ViewQueryTask
  <1>8. Tidy(ModifyFragmentationConfigTask)
    BY <1>5, BasicGood, TidyOf, Zenon DEF ModifyFragmentationConfigTask
  <1>9. Tidy(ViewCompactionTask)
    BY <1>4, <1>5, BasicGood, TidyOf, Zenon DEF ViewCompactionTask
  <1>10. Tidy(ViewQueryVerificationTask)
    BY <1>2, <1>5, BasicGood, TidyOf, Zenon DEF ViewQueryVerificationTask
  <1> QED
    BY <1>6, <1>7, <1>8, <1>9, <1>10

\* Compaction of buckets.
LEMMA TidyCompact == ASSUME NEW n PROVE Tidy(CompactBucketTask(n)) /\ Tidy(CancelBucketCompactionTask(n))
  <1>1. Compacting(n) \in Path /\ Good(Compacting(n))
    BY BasicGood, PathTypes DEF Compacting, Results
  <1>2. Tidy(CompactBucketTask(n))
    BY <1>1, BasicGood, TidyOf, Zenon DEF CompactBucketTask
  <1>3. Good(Fail \o Told("true")) /\ Good(Fail \o Compacting(n))
    BY <1>1, Basic, GoodJoined, PathTypes DEF Good, Results
  <1>4. Tidy(CancelBucketCompactionTask(n))
    BY <1>1, <1>3, BasicGood, TidyOf, Zenon DEF CancelBucketCompactionTask
  <1> QED
    BY <1>2, <1>4

\* What a path does to the counter: it counts at all, and at most once.
Counts(p) == \E i \in DOMAIN p : p[i] = "retry"
Single(p) == \A i, j \in DOMAIN p : p[i] = "retry" /\ p[j] = "retry" => i = j

\* The paths that do not count.
LEMMA Uncounted ==
    \A p \in {Go, Again, Fail, Raise, ExceptionThenFalse, Told("true"), Told("false"), <<>>,
              <<"FINISHED", "exception">>, <<"FINISHED", "stopped">>, <<"stopped">>} :
       ~Counts(p) /\ Single(p)
  BY DEF Counts, Single, Go, Again, Fail, Raise, ExceptionThenFalse, Told

\* A compaction counts an attempt only while it has one left.
LEMMA CompactCounts ==
    ASSUME NEW n, NEW p \in Paths(CompactBucketTask(n)) \cup Paths(CancelBucketCompactionTask(n))
    PROVE  Single(p) /\ (Counts(p) => n < Limits["compact"])
  <1>1. ASSUME NEW r \in {Told("true"), Compacting(n)}
        PROVE  r \in Path /\ Single(r) /\ (Counts(r) => n < Limits["compact"])
    <2>1. Poll \in Path /\ Single(Poll) /\ Told("true") \in Path /\ Told("false") \in Path
      BY PathTypes DEF Single, Poll, Results
    <2> QED
      BY <1>1, <2>1, Uncounted DEF Compacting
  <1>2. ASSUME NEW r \in {Told("true"), Compacting(n)}
        PROVE  Single(Fail \o r) /\ (Counts(Fail \o r) => n < Limits["compact"])
    <2>1. Fail \in Path /\ r \in Path /\ Len(Fail) \in Nat
      BY <1>1, PathTypes DEF Path
    <2>2. \A i \in DOMAIN (Fail \o r) : (Fail \o r)[i] = "retry" =>
             i \in Int /\ i - Len(Fail) \in DOMAIN r /\ r[i - Len(Fail)] = "retry"
      <3> SUFFICES ASSUME NEW i \in DOMAIN (Fail \o r), (Fail \o r)[i] = "retry"
                   PROVE  i \in Int /\ i - Len(Fail) \in DOMAIN r /\ r[i - Len(Fail)] = "retry"
        OBVIOUS
      <3>1. i \in Int
        BY <2>1, Joined
      <3>2. ~(i \in DOMAIN Fail /\ (Fail \o r)[i] = Fail[i])
        BY Uncounted DEF Counts
      <3> QED
        BY <2>1, <3>1, <3>2, FromEither
    <2> QED
      BY <1>1, <2>1, <2>2 DEF Single, Counts
  <1>3. /\ Paths(CompactBucketTask(n)) = {Go, ExceptionThenFalse, Raise} \cup {Told("true"), Compacting(n), Raise}
        /\ Paths(CancelBucketCompactionTask(n)) =
              {Go, ExceptionThenFalse, Raise}
                 \cup ({Told("true"), Compacting(n)} \cup {Fail \o r : r \in {Told("true"), Compacting(n)}} \cup {Raise})
    BY PathsOf, Zenon DEF CompactBucketTask, CancelBucketCompactionTask
  <1> QED
    BY <1>1, <1>2, <1>3, Uncounted

\* Backups, and loaders run by another program.
LEMMA TidyBackup == ASSUME NEW f PROVE Tidy(Backup(f)) /\ Tidy(MagmaDocLoader)
  <1>1. Good(<<"note">> \o Go)
    BY Basic, BasicHush, HushJoined DEF Good
  <1>2. \A p \in IF f THEN {Answer("true")} ELSE {Again} : Good(p)
    BY BasicGood
  <1>3. Tidy(Backup(f))
    BY <1>1, <1>2, BasicGood, TidyOf, Zenon DEF Backup
  <1>4. Good(Answer("true") \o Confirm) /\ Good(Fail \o Answer("true") \o Confirm)
    <2>1. Ans(Answer("true") \o Confirm, "true")
      BY Basic, GoodJoined DEF Results
    <2>2. Err(Fail \o Answer("true"))
      BY Basic, GoodJoined, PathTypes DEF Results
    <2>3. Err(Fail \o Answer("true") \o Confirm)
      BY <2>2, GoodJoined, PathTypes
    <2> QED
      BY <2>1, <2>3 DEF Good, Results
  <1>5. Tidy(MagmaDocLoader)
    BY <1>4, BasicGood, TidyOf, Zenon DEF MagmaDocLoader
  <1> QED
    BY <1>3, <1>5

-----------------------------------------------------------------------------
(* The classes that answer and then change the answer: they lose no task. *)

\* A class that is in order or answers.
LEMMA KeepsOf ==
    ASSUME NEW e, NEW c, \A p \in e : Good(p) \/ (p \in Path /\ Tells(p)), \A p \in c : Good(p) \/ (p \in Path /\ Tells(p))
    PROVE  Keeps(Body(e, c))
  BY PathsOf, GoodPath DEF Keeps, Kept

\* Fails, or is told twice.
LEMMA BasicTells ==
    /\ Tells(Fail) /\ Tells(ToldTwice) /\ Tells(Confirm) /\ Tells(Answer("true")) /\ Tells(Answer("false"))
    /\ Tells(Told("true")) /\ Tells(Told("false"))
    /\ {Fail, ToldTwice, Confirm, Answer("true"), Answer("false"), Told("true"), Told("false")} \subseteq Path
  BY PathKept, PathTypes DEF Results

\* Failures of nodes.
LEMMA KeepsFailures ==
    Keeps(NodesFailureTask) /\ Keeps(AutoFailoverNodesFailureTask) /\ Keeps(NodeDownTimerTask)
  <1>1. ToldTwice \o Answer("true") \in Path /\ Tells(ToldTwice \o Answer("true"))
    BY BasicTells, TellsJoined
  <1>2. Keeps(NodesFailureTask)
    BY <1>1, BasicGood, KeepsOf, Zenon DEF NodesFailureTask
  <1>3. ToldTwice \o ToldTwice \in Path
    BY BasicTells, TellsJoined
  <1>4. \A v \in {<<"EXECUTING">>, ToldTwice, ToldTwice \o ToldTwice} :
           <<"timers">> \o v \o Answer("true") \in Path /\ Tells(<<"timers">> \o v \o Answer("true"))
    <2> SUFFICES ASSUME NEW v, v \in Path
                 PROVE  <<"timers">> \o v \o Answer("true") \in Path /\ Tells(<<"timers">> \o v \o Answer("true"))
      BY <1>3, BasicTells, BasicHush, Zenon DEF Hush
    <2>1. <<"timers">> \o v \in Path
      BY BasicHush, Joined DEF Hush
    <2> QED
      BY <2>1, BasicTells, TellsJoined
  <1>5. Keeps(AutoFailoverNodesFailureTask)
    BY <1>4, BasicGood, KeepsOf, Zenon DEF AutoFailoverNodesFailureTask
  <1>6. <<"unless">> \o Answer("false") \in Path /\ Tells(<<"unless">> \o Answer("false"))
    <2>1. <<"unless">> \in Path
      BY DEF Path, Statements
    <2> QED
      BY <2>1, BasicTells, TellsJoined
  <1>7. Answer("true") \o Answer("false") \in Path /\ Tells(Answer("true") \o Answer("false"))
    BY BasicTells, TellsJoined
  <1>8. Keeps(NodeDownTimerTask)
    BY <1>6, <1>7, BasicGood, KeepsOf, Zenon DEF NodeDownTimerTask
  <1> QED
    BY <1>2, <1>5, <1>8

\* Views and fragmentation.
LEMMA KeepsViews ==
    /\ Keeps(ViewCreateTask) /\ Keeps(MonitorViewCompactionTask) /\ Keeps(MonitorDBFragmentationTask)
    /\ Keeps(MonitorDiskSizeFragmentationTask)
  <1>1. Good(Fail \o Go) /\ Good(Fail \o Fail)
    BY Basic, GoodJoined, PathTypes DEF Good
  <1>2. Good(Again \o Told("true")) /\ Good(Again \o Told("false")) /\ Good(Told("false") \o Go)
    BY Basic, GoodJoined DEF Good, Results
  <1>3. /\ Answer("true") \o <<"exception">> \in Path /\ Tells(Answer("true") \o <<"exception">>)
        /\ Answer("true") \o Fail \in Path /\ Tells(Answer("true") \o Fail)
    <2>1. <<"exception">> \in Path
      BY DEF Path, Statements
    <2> QED
      BY <2>1, BasicTells, TellsJoined
  <1>4. Keeps(ViewCreateTask)
    BY <1>1, <1>3, BasicGood, KeepsOf, Zenon DEF ViewCreateTask
  <1>5. ToldTwice \in Path /\ Tells(ToldTwice)
    BY BasicTells
  <1>6. Keeps(MonitorViewCompactionTask)
    BY <1>2, <1>5, BasicGood, KeepsOf, Zenon DEF MonitorViewCompactionTask
  <1>7. Keeps(MonitorDBFragmentationTask) /\ Keeps(MonitorDiskSizeFragmentationTask)
    BY <1>1, <1>5, BasicGood, KeepsOf, Zenon DEF MonitorDBFragmentationTask, MonitorDiskSizeFragmentationTask
  <1> QED
    BY <1>4, <1>6, <1>7

\* MonitorActiveTask always ends with an answer.
LEMMA KeepsMonitorActive == ASSUME NEW n PROVE Keeps(MonitorActiveTask(n))
  <1> DEFINE Seen == {<<>>, Answer("true") \o Again, Again, Answer("false")}
                        \cup (IF n < Limits["active"] THEN {Poll} ELSE {})
  <1>1. Answer("true") \o Again \in Path
    BY BasicTells, PathTypes, Joined
  <1>2. \A s \in Seen : s \in Path
    BY <1>1, BasicTells, PathTypes, Zenon
  <1> HIDE DEF Seen
  <1>3. \A s \in Seen : s \o Answer("true") \in Path /\ Tells(s \o Answer("true"))
    BY <1>2, BasicTells, TellsJoined
  <1>4. \A p \in {s \o Answer("true") : s \in Seen} \cup {Raise} : Good(p) \/ (p \in Path /\ Tells(p))
    BY <1>3, BasicGood, Zenon
  <1>5. \A p \in {Answer("true"), Answer("false"), Go, Raise} : Good(p) \/ (p \in Path /\ Tells(p))
    BY BasicGood
  <1> QED
    BY <1>4, <1>5, KeepsOf, Zenon DEF MonitorActiveTask, Seen

\* CBRecoveryTask polls, gives up or answers.
LEMMA KeepsCBRecovery == ASSUME NEW n, NEW f PROVE Keeps(CBRecoveryTask(n, f))
  <1> DEFINE Ok(p) == Good(p) \/ (p \in Path /\ Tells(p))
             Seen  == {<<"reset", "schedule">>, IF n > Limits["hang"] THEN Fail ELSE Poll}
             First == IF f THEN {<<>>} ELSE {<<"note">>, <<"note">> \o Answer("true")}
             Gone  == (IF f THEN Answer("true") ELSE <<>>) \o (IF n > Limits["start"] THEN Fail ELSE Poll)
  <1>1. Waits(<<"reset", "schedule">>)
    BY DEF Waits, Path, Asks, Says, Statements, Results, Errors
  <1>2. \A s \in Seen : s \in Path /\ (Waits(s) \/ Err(s))
    BY <1>1, Basic, PathTypes DEF Waits
  <1>3. <<"note">> \o Answer("true") \in Path /\ Tells(<<"note">> \o Answer("true"))
    BY BasicTells, BasicHush, TellsJoined DEF Hush
  <1>4. \A a \in First : a \in Path /\ (Hush(a) \/ Tells(a))
    BY <1>3, BasicHush, Zenon DEF Hush
  <1> HIDE DEF Seen, First
  <1>5. ASSUME NEW a \in First, NEW s \in Seen PROVE Ok(a \o s)
    <2>1. CASE Hush(a)
      BY <1>2, <2>1, HushJoined DEF Good
    <2>2. CASE Tells(a)
      BY <1>2, <1>4, <2>2, TellsJoined
    <2> QED
      BY <1>4, <2>1, <2>2
  <1>6. Ok(Gone)
    <2> DEFINE a == IF f THEN Answer("true") ELSE <<>>
               s == IF n > Limits["start"] THEN Fail ELSE Poll
    <2>1. a \in Path /\ (Hush(a) \/ Tells(a))
      BY BasicTells, BasicHush DEF Hush
    <2>2. s \in Path /\ (Waits(s) \/ Err(s))
      BY Basic, PathTypes
    <2> HIDE DEF a, s
    <2>3. Ok(a \o s)
      <3>1. CASE Hush(a)
        BY <2>2, <3>1, HushJoined DEF Good
      <3>2. CASE Tells(a)
        BY <2>1, <2>2, <3>2, TellsJoined
      <3> QED
        BY <2>1, <3>1, <3>2
    <2> QED
      BY <2>3 DEF a, s
  <1> HIDE DEF Gone
  <1> DEFINE Both == {a \o s : a \in First, s \in Seen}
  <1>7. \A p \in Both : \E a \in First, s \in Seen : p = a \o s
    OBVIOUS
  <1> HIDE DEF Both
  <1>8. Keeps(Body({Go, Fail}, Both \cup {Gone, Raise}))
    BY <1>5, <1>6, <1>7, BasicGood, KeepsOf, ZenonT(30)
  <1> QED
    BY <1>8 DEF CBRecoveryTask, Both, Seen, First, Gone

\* SDKLoadDocumentsTask answers for every collection.
LEMMA KeepsSDKLoad == Keeps(SDKLoadDocumentsTask)
  <1> DEFINE Load == {Answer("true"), Fail \o Answer("true")}
             Last == {a \o Confirm : a \in Load}
             Two == {a \o b : a \in Load, b \in Last}
  <1>1. \A a \in Load : a \in Path /\ Tells(a)
    <2>1. Fail \o Answer("true") \in Path /\ Tells(Fail \o Answer("true"))
      BY BasicTells, TellsJoined
    <2> QED
      BY <2>1, BasicTells, Zenon
  <1> HIDE DEF Load
  <1>2. \A a \in Load : a \o Confirm \in Path /\ Tells(a \o Confirm)
    BY <1>1, BasicTells, TellsJoined
  <1>3. \A a \in Last : a \in Path /\ Tells(a)
    BY <1>2, Zenon
  <1> HIDE DEF Last
  <1>4. \A p \in Two : \E a \in Load, b \in Last : p = a \o b
    OBVIOUS
  <1> HIDE DEF Two
  <1>5. \A a \in Load, b \in Last : a \o b \in Path /\ Tells(a \o b)
    BY <1>1, <1>3, TellsJoined
  <1>6. Keeps(Body(Last \cup Two, {}))
    BY <1>3, <1>4, <1>5, KeepsOf, Zenon
  <1> QED
    BY <1>6 DEF SDKLoadDocumentsTask, Load, Last, Two

-----------------------------------------------------------------------------
(* The classes that may leave their future unanswered. *)

\* A query that is given up is never answered, and so nothing is taken back.
LEMMA HonestQueries ==
    Honest(N1QLQueryTask) /\ Honest(CreateIndexTask) /\ Honest(BuildIndexTask) /\ Honest(DropIndexTask)
  <1>1. GivenUp \in Path /\ Firm(GivenUp)
    BY PathTypes DEF Firm, Bare, GivenUp, Results
  <1>2. /\ Go \in Path /\ Firm(Go) /\ Fail \in Path /\ Firm(Fail) /\ Raise \in Path /\ Firm(Raise)
        /\ Told("true") \in Path /\ Firm(Told("true"))
    BY BasicGood, GoodPath
  <1> QED
    BY <1>1, <1>2, PathsOf DEF Honest, N1QLQueryTask, CreateIndexTask, BuildIndexTask, DropIndexTask

\* MonitorViewQueryResultsTask may find no row at all.
LEMMA TypedMonitorView == ASSUME NEW n PROVE Typed(MonitorViewQueryResultsTask(n))
  <1>1. <<"EXECUTING", "schedule">> \in Path /\ <<"FINISHED", "exception", "false">> \in Path
    BY DEF Path, Statements, States
  <1>2. \A a \in ViewRow(n) : a \in Path
    BY <1>1, BasicTells DEF ViewRow
  <1>3. \A p \in ViewAttempt(n) : p \in Path
    BY BasicTells, PathTypes DEF ViewAttempt
  <1>4. \A p \in ViewAttempt(n) : <<"retry">> \o p \in Path
    BY <1>3, BasicHush, Joined DEF Hush
  <1>5. \A a, b \in ViewRow(n) : a \o b \in Path
    BY <1>2, Joined
  <1> DEFINE First == {<<"retry">> \o p : p \in ViewAttempt(n)}
             Rest == {Answer("false"), <<"FINISHED", "exception", "false">>, <<>>}
  <1>6. (\A x \in First : x \in Path) /\ \A x \in Rest : x \in Path
    BY <1>1, <1>4, BasicTells, PathTypes, Zenon
  <1> DEFINE Two == {a \o b : a \in ViewRow(n), b \in ViewRow(n)}
  <1>7. \A p \in Two : \E a \in ViewRow(n), b \in ViewRow(n) : p = a \o b
    OBVIOUS
  <1> HIDE DEF Two
  <1> HIDE DEF First, Rest
  <1>8. Typed(Body(First, ViewRow(n) \cup Rest \cup Two))
    <2>1. \A p \in Two : p \in Path
      BY <1>5, <1>7, Zenon
    <2> QED
      BY <1>2, <1>6, <2>1, PathsOf DEF Typed
  <1>9. MonitorViewQueryResultsTask(n) = Body(First, ViewRow(n) \cup Rest \cup Two)
    BY DEF MonitorViewQueryResultsTask, First, Rest, Two
  <1> QED
    BY <1>8, <1>9

\* execute() of NodeMonitorsAnalyserTask schedules nothing.
Mute(p) == \A i \in DOMAIN p : p[i] # "schedule"

\* The paths of NodeMonitorsAnalyserTask.
LEMMA AnalyserPaths ==
    /\ Typed(NodeMonitorsAnalyserTask)
    /\ \A p \in NodeMonitorsAnalyserTask.execute : p \in Path /\ Firm(p) /\ Mute(p)
  <1>1. {<<"CHECKING", "done">>, <<"CHECKING">>, Raise, ToldTwice} \subseteq Path
    BY PathTypes DEF Path, Statements, States
  <1>2. Typed(NodeMonitorsAnalyserTask)
    BY <1>1, PathsOf DEF Typed, NodeMonitorsAnalyserTask
  <1>3. NodeMonitorsAnalyserTask.execute = {<<"CHECKING", "done">>, <<"CHECKING">>, Raise}
    BY DEF NodeMonitorsAnalyserTask, Body
  <1>4. \A p \in {<<"CHECKING", "done">>, <<"CHECKING">>, Raise} : Bare(p) /\ Mute(p)
    BY DEF Bare, Mute, Results, Raise
  <1> QED
    BY <1>1, <1>2, <1>3, <1>4 DEF Firm

-----------------------------------------------------------------------------
(* All classes. *)

Forgets == {"N1QLQuery", "CreateIndex", "BuildIndex", "DropIndex", "MonitorViewQueryResults", "NodeMonitorsAnalyser"}
Retracts == {"CBRecovery", "ViewCreate", "MonitorViewQueryResults", "MonitorActive", "MonitorViewCompaction",
             "MonitorDBFragmentation", "MonitorDiskSizeFragmentation", "NodesFailure", "AutoFailoverNodesFailure",
             "NodeDownTimer", "SDKLoadDocuments"}

\* The names of the classes do not depend on counters and flags.
LEMMA SameNames == ASSUME NEW n, NEW f PROVE DOMAIN Methods(n, f) = Names
  BY DEF Names, Methods

\* What each class promises about its paths.
Promises(c, b) ==
    /\ Typed(b)
    /\ c \notin Forgets => Keeps(b)
    /\ c \notin Retracts \cup {"NodeMonitorsAnalyser"} => Honest(b)
    /\ c = "NodeMonitorsAnalyser" => b = NodeMonitorsAnalyserTask

\* Every class keeps its promise.
LEMMA AllPromise == ASSUME NEW n, NEW f, NEW c \in Names PROVE Promises(c, Methods(n, f)[c])
  <1>1. \A b : Tidy(b) => Typed(b) /\ Keeps(b) /\ Honest(b)
    BY TidyBody
  <1>2. \A b : Keeps(b) \/ Honest(b) => Typed(b)
    BY DEF Keeps, Honest, Typed
  <1>3. c \in DOMAIN Methods(n, f)
    BY SameNames
  <1>4. CASE Tidy(Methods(n, f)[c]) /\ c # "NodeMonitorsAnalyser"
    BY <1>1, <1>4 DEF Promises
  <1>5. CASE Keeps(Methods(n, f)[c]) /\ c \in Retracts
    BY <1>2, <1>5 DEF Promises, Retracts
  <1>6. CASE Honest(Methods(n, f)[c]) /\ c \in Forgets \ {"NodeMonitorsAnalyser"}
    BY <1>2, <1>6 DEF Promises
  <1>7. CASE c = "MonitorViewQueryResults"
    BY <1>7, TypedMonitorView DEF Promises, Methods, Forgets, Retracts
  <1>8. CASE c = "NodeMonitorsAnalyser"
    BY <1>8, AnalyserPaths DEF Promises, Methods, Forgets
  <1>9. CASE c \in {"NodeInitialize", "BucketDelete", "BucketFlush"}
    <2>1. Methods(n, f)[c] \in {NodeInitializeTask, BucketDeleteTask, BucketFlushTask}
      BY <1>9 DEF Methods
    <2> QED
      BY <1>4, <1>9, <2>1, TidyBuckets
  <1>10. CASE c \in {"BucketCreate", "ConcurrentIndexCreate", "Rebalance"}
    <2>1. Methods(n, f)[c] \in {BucketCreateTask(n), ConcurrentIndexCreateTask, RebalanceTask(n)}
      BY <1>10 DEF Methods
    <2> QED
      BY <1>4, <1>10, <2>1, TidyBucketCreate, TidyConcurrentIndexCreate, TidyRebalance
  <1>11. CASE c \in {"CapellaRebalance", "Failover", "StatsWait", "XdcrStatsWait", "ESLoadGenerator"}
    <2>1. Methods(n, f)[c] \in {CapellaRebalanceTask, FailoverTask, StatsWaitTask, XdcrStatsWaitTask, ESLoadGeneratorTask}
      BY <1>11 DEF Methods
    <2> QED
      BY <1>4, <1>11, <2>1, TidySimple
  <1>12. CASE c \in {"ESBulkLoadGenerator", "MonitorIndex", "CBASQueryExecute", "GenerateExpectedViewResults",
                     "CreateServerlessDatabase"}
    <2>1. Methods(n, f)[c] \in {ESBulkLoadGeneratorTask, MonitorIndexTask, CBASQueryExecuteTask,
                                 GenerateExpectedViewResultsTask, CreateServerlessDatabaseTask}
      BY <1>12 DEF Methods
    <2> QED
      BY <1>4, <1>12, <2>1, TidySimple
  <1>13. CASE c \in {"ViewDelete", "ViewQuery", "ModifyFragmentationConfig", "MonitorViewFragmentation",
                     "ViewCompaction", "ViewQueryVerification"}
    <2>1. Methods(n, f)[c] \in {ViewDeleteTask, ViewQueryTask, ModifyFragmentationConfigTask,
                                MonitorViewFragmentationTask, ViewCompactionTask, ViewQueryVerificationTask}
      BY <1>13 DEF Methods
    <2> QED
      BY <1>4, <1>13, <2>1, TidyViews
  <1>14. CASE c \in {"EnterpriseBackup", "EnterpriseRestore", "EnterpriseMerge", "EnterpriseCompact", "MagmaDocLoader"}
    <2>1. Methods(n, f)[c] \in {Backup(f), MagmaDocLoader}
      BY <1>14
         DEF Methods, EnterpriseBackupTask, EnterpriseRestoreTask, EnterpriseMergeTask, EnterpriseCompactTask
    <2> QED
      BY <1>4, <1>14, <2>1, TidyBackup
  <1>15. CASE c \in {"NodesFailure", "AutoFailoverNodesFailure", "NodeDownTimer", "SDKLoadDocuments",
                     "CBRecovery"}
    <2>1. Methods(n, f)[c] \in {NodesFailureTask, AutoFailoverNodesFailureTask, NodeDownTimerTask,
                                SDKLoadDocumentsTask, CBRecoveryTask(n, f)}
      BY <1>15 DEF Methods
    <2> QED
      BY <1>5, <1>15, <2>1, KeepsFailures, KeepsCBRecovery, KeepsSDKLoad DEF Retracts
  <1>16. CASE c \in {"ViewCreate", "MonitorViewCompaction", "MonitorDBFragmentation",
                     "MonitorDiskSizeFragmentation", "MonitorActive"}
    <2>1. Methods(n, f)[c] \in {ViewCreateTask, MonitorViewCompactionTask, MonitorDBFragmentationTask,
                                MonitorDiskSizeFragmentationTask, MonitorActiveTask(n)}
      BY <1>16 DEF Methods
    <2> QED
      BY <1>5, <1>16, <2>1, KeepsViews, KeepsMonitorActive DEF Retracts
  <1>17. CASE c \in {"N1QLQuery", "CreateIndex", "BuildIndex", "DropIndex"}
    <2>1. Methods(n, f)[c] \in {N1QLQueryTask, CreateIndexTask, BuildIndexTask, DropIndexTask}
      BY <1>17 DEF Methods
    <2> QED
      BY <1>6, <1>17, <2>1, HonestQueries DEF Forgets
  <1>18. CASE c \in {"CollectionCreate", "CollectionDelete", "ScopeCollectionCreate", "ScopeCollectionDelete"}
    <2>1. Methods(n, f)[c] = Worker
      BY <1>18 DEF Methods, CollectionCreateTask, CollectionDeleteTask, ScopeCollectionCreateTask, ScopeCollectionDeleteTask
    <2> QED
      BY <1>4, <1>18, <2>1, TidyBuckets
  <1>19. CASE c \in {"ScopeCreate", "ScopeDelete", "DockerSDKLoadDocuments", "LogScan"}
    <2>1. Methods(n, f)[c] = Worker
      BY <1>19 DEF Methods, ScopeCreateTask, ScopeDeleteTask, DockerSDKLoadDocumentsTask, LogScanTask
    <2> QED
      BY <1>4, <1>19, <2>1, TidyBuckets
  <1>20. CASE c \in {"ESRunQueryCompare", "VerifyCollectionDocCount", "CompactBucket", "CancelBucketCompaction"}
    <2>1. Methods(n, f)[c] \in {ESRunQueryCompare, VerifyCollectionDocCountTask, CompactBucketTask(n),
                                CancelBucketCompactionTask(n)}
      BY <1>20 DEF Methods
    <2> QED
      BY <1>4, <1>20, <2>1, TidyCompare, TidyCompact
  <1> QED
    BY <1>3, <1>7, <1>8, <1>9, <1>10, <1>11, <1>12, <1>13, <1>14, <1>15, <1>16, <1>17, <1>18, <1>19, <1>20 DEF Methods

-----------------------------------------------------------------------------
(* One statement of a path. *)

\* The exception of a schedule() that finds the manager shut down.
Stops == {<<"FINISHED", "stopped">>, <<"stopped">>}

\* The first statement and the rest.
LEMMA FirstRest ==
    ASSUME NEW p \in Path, p # <<>>
    PROVE  /\ Head(p) \in Statements \ {"stopped"} /\ Tail(p) \in Path
           /\ Tells(p) => Head(p) \in Results \cup Errors \/ Tells(Tail(p))
           /\ Quiet(p) => Head(p) \notin Results \cup Errors \cup {"FINISHED", "schedule"} /\ Quiet(Tail(p))
           /\ Asks(p) => /\ Head(p) \notin Results \cup Errors \cup {"FINISHED"}
                         /\ IF Head(p) = "schedule" THEN Quiet(Tail(p)) ELSE Asks(Tail(p))
  <1>1. /\ Len(p) \in Nat \ {0} /\ DOMAIN p = 1..Len(p) /\ Head(p) = p[1] /\ Head(p) \in Statements \ {"stopped"}
        /\ Tail(p) \in Path
    BY DEF Path
  <1>2. DOMAIN Tail(p) = 1..(Len(p) - 1) /\ \A i \in 1..(Len(p) - 1) : Tail(p)[i] = p[i + 1]
    BY <1>1 DEF Path
  <1>3. \A i \in DOMAIN p : i = 1 \/ (i - 1 \in DOMAIN Tail(p) /\ Tail(p)[i - 1] = p[i])
    BY <1>1, <1>2
  <1>4. \A i \in DOMAIN Tail(p) : i + 1 \in DOMAIN p /\ Tail(p)[i] = p[i + 1]
    BY <1>1, <1>2
  <1>5. 1 \in DOMAIN p
    BY <1>1
  <1>6. Tells(p) => Head(p) \in Results \cup Errors \/ Tells(Tail(p))
    BY <1>1, <1>3 DEF Tells
  <1>7. Quiet(p) => Head(p) \notin Results \cup Errors \cup {"FINISHED", "schedule"} /\ Quiet(Tail(p))
    BY <1>1, <1>4, <1>5 DEF Quiet
  <1>8. ASSUME Asks(p)
        PROVE  /\ Head(p) \notin Results \cup Errors \cup {"FINISHED"}
               /\ IF Head(p) = "schedule" THEN Quiet(Tail(p)) ELSE Asks(Tail(p))
    <2>1. PICK i \in DOMAIN p : p[i] = "schedule" /\ \A j \in DOMAIN p \ {i} : p[j] # "schedule"
      BY <1>8 DEF Asks
    <2>2. \A j \in DOMAIN Tail(p) : Tail(p)[j] \notin Results \cup Errors \cup {"FINISHED"}
      BY <1>4, <1>8 DEF Asks
    <2>3. Head(p) \notin Results \cup Errors \cup {"FINISHED"}
      BY <1>1, <1>5, <1>8 DEF Asks
    <2>4. CASE Head(p) = "schedule"
      <3>1. i = 1
        BY <1>1, <1>5, <2>1, <2>4
      <3>2. \A j \in DOMAIN Tail(p) : j + 1 # 1
        BY <1>1, <1>2
      <3>3. \A j \in DOMAIN Tail(p) : Tail(p)[j] # "schedule"
        BY <1>4, <2>1, <3>1, <3>2
      <3> QED
        BY <2>2, <2>3, <2>4, <3>3 DEF Quiet
    <2>5. CASE Head(p) # "schedule"
      <3>1. i # 1 /\ i - 1 \in DOMAIN Tail(p) /\ Tail(p)[i - 1] = "schedule"
        BY <1>1, <1>3, <2>1, <2>5
      <3>2. ASSUME NEW j \in DOMAIN Tail(p), j # i - 1 PROVE Tail(p)[j] # "schedule"
        <4>1. j + 1 \in DOMAIN p /\ Tail(p)[j] = p[j + 1] /\ j + 1 # i
          BY <1>1, <1>2, <1>4, <3>2
        <4> QED
          BY <2>1, <4>1
      <3> QED
        BY <2>2, <2>3, <2>5, <3>1, <3>2 DEF Asks
    <2> QED
      BY <2>4, <2>5
  <1> QED
    BY <1>1, <1>6, <1>7, <1>8

\* The answers in the first statement and the rest.
LEMMA FirstRestFirm ==
    ASSUME NEW p \in Path, p # <<>>
    PROVE  /\ \A v : Says(p, v) => /\ Head(p) \notin Errors /\ (Head(p) \in Results => Head(p) = v)
                                   /\ Says(Tail(p), v)
           /\ Firm(p) => \/ Head(p) = "exception"
                         \/ Head(p) \notin Results /\ Firm(Tail(p))
                         \/ Head(p) \in Results /\ Says(Tail(p), Head(p)) /\ Firm(Tail(p))
           /\ Mute(p) => Head(p) # "schedule" /\ Mute(Tail(p))
           /\ \A i \in DOMAIN Tail(p) : \E j \in DOMAIN p : p[j] = Tail(p)[i]
           /\ \E j \in DOMAIN p : p[j] = Head(p)
  <1>1. /\ Len(p) \in Nat \ {0} /\ DOMAIN p = 1..Len(p) /\ Head(p) = p[1]
    BY DEF Path
  <1>2. DOMAIN Tail(p) = 1..(Len(p) - 1) /\ \A i \in 1..(Len(p) - 1) : Tail(p)[i] = p[i + 1]
    BY <1>1 DEF Path
  <1>3. \A i \in DOMAIN Tail(p) : i + 1 \in DOMAIN p /\ Tail(p)[i] = p[i + 1]
    BY <1>1, <1>2
  <1>4. 1 \in DOMAIN p
    BY <1>1
  <1>5. \A v : Says(p, v) => /\ Head(p) \notin Errors /\ (Head(p) \in Results => Head(p) = v)
                             /\ Says(Tail(p), v)
    BY <1>1, <1>3, <1>4 DEF Says
  <1>6. Bare(p) => Head(p) \notin Results /\ Bare(Tail(p))
    BY <1>1, <1>3, <1>4 DEF Bare
  <1>7. ASSUME Fails(p) PROVE Head(p) = "exception" \/ (Head(p) \notin Results /\ Fails(Tail(p)))
    <2>1. PICK i \in DOMAIN p : p[i] = "exception" /\ \A j \in DOMAIN p : j < i => p[j] \notin Results
      BY <1>7 DEF Fails
    <2>2. CASE i = 1
      BY <1>1, <2>1, <2>2
    <2>3. CASE i # 1
      <3>1. i - 1 \in DOMAIN Tail(p) /\ Tail(p)[i - 1] = "exception" /\ 1 < i
        BY <1>1, <1>2, <2>1, <2>3
      <3>2. ASSUME NEW j \in DOMAIN Tail(p), j < i - 1 PROVE Tail(p)[j] \notin Results
        <4>1. j + 1 \in DOMAIN p /\ Tail(p)[j] = p[j + 1] /\ j + 1 < i
          BY <1>1, <1>2, <1>3, <3>2
        <4> QED
          BY <2>1, <4>1
      <3>3. Head(p) \notin Results
        BY <1>1, <1>4, <2>1, <3>1
      <3> QED
        BY <3>1, <3>2, <3>3 DEF Fails
    <2> QED
      BY <2>2, <2>3
  <1>8. Firm(p) => \/ Head(p) = "exception"
                   \/ Head(p) \notin Results /\ Firm(Tail(p))
                   \/ Head(p) \in Results /\ Says(Tail(p), Head(p)) /\ Firm(Tail(p))
    BY <1>5, <1>6, <1>7 DEF Firm
  <1>9. Mute(p) => Head(p) # "schedule" /\ Mute(Tail(p))
    BY <1>1, <1>3, <1>4 DEF Mute
  <1> QED
    BY <1>1, <1>3, <1>4, <1>5, <1>8, <1>9

\* The exception path, which run() takes, and the one of a manager that is shut down.
LEMMA EscapePaths ==
    /\ <<"FINISHED", "exception">> \in Path /\ Tells(<<"FINISHED", "exception">>) /\ Firm(<<"FINISHED", "exception">>)
    /\ Tells(<<"FINISHED", "stopped">>)
    /\ \A why \in {"stopped", "exception"} :
          Mute(<<"FINISHED", why>>) /\ \A i \in DOMAIN <<"FINISHED", why>> : <<"FINISHED", why>>[i] # "CHECKING"
    /\ \A p \in Stops : /\ p \notin Path /\ p \in Seq(Statements) /\ Tail(p) \in Stops \cup {<<>>} /\ Tells(p)
                        /\ Head(p) \in {"FINISHED", "stopped"} /\ (Head(p) = "stopped" => Tail(p) = <<>>)
                        /\ (Head(p) # "stopped" => Tells(Tail(p))) /\ p # <<>> /\ Mute(p) /\ Mute(Tail(p))
                        /\ \A i \in DOMAIN p : p[i] # "CHECKING"
                        /\ \A i \in DOMAIN Tail(p) : Tail(p)[i] # "CHECKING"
  <1>1. <<"FINISHED", "exception">> \in Path /\ Tells(<<"FINISHED", "exception">>) /\ Firm(<<"FINISHED", "exception">>)
    BY DEF Path, Statements, States, Tells, Errors, Firm, Bare, Results
  <1>2. Tells(<<"FINISHED", "stopped">>) /\ Tells(<<"stopped">>)
    BY DEF Tells, Errors
  <1>3. \A why \in {"stopped", "exception"} :
          Mute(<<"FINISHED", why>>) /\ \A i \in DOMAIN <<"FINISHED", why>> : <<"FINISHED", why>>[i] # "CHECKING"
    BY DEF Mute
  <1>4. <<"FINISHED", "stopped">> \notin Path /\ <<"stopped">> \notin Path
    <2>1. <<"FINISHED", "stopped">>[2] = "stopped" /\ 2 \in DOMAIN <<"FINISHED", "stopped">>
      OBVIOUS
    <2>2. <<"stopped">>[1] = "stopped" /\ 1 \in DOMAIN <<"stopped">>
      OBVIOUS
    <2>3. \A p \in Path : \A i \in DOMAIN p : p[i] # "stopped"
      BY DEF Path
    <2> QED
      BY <2>1, <2>2, <2>3
  <1>5. <<"FINISHED", "stopped">> \in Seq(Statements) /\ <<"stopped">> \in Seq(Statements)
    BY DEF Statements, States
  <1>6. Tail(<<"FINISHED", "stopped">>) = <<"stopped">> /\ Tail(<<"stopped">>) = <<>>
    OBVIOUS
  <1>7. Head(<<"FINISHED", "stopped">>) = "FINISHED" /\ Head(<<"stopped">>) = "stopped"
    OBVIOUS
  <1>8. Mute(<<"stopped">>) /\ Mute(<<>>) /\ \A i \in DOMAIN <<"stopped">> : <<"stopped">>[i] # "CHECKING"
    BY DEF Mute
  <1> QED
    BY <1>1, <1>2, <1>3, <1>4, <1>5, <1>6, <1>7, <1>8 DEF Stops

-----------------------------------------------------------------------------
(* The invariant. *)

\* A compaction that is about to count an attempt has one left.
Paced == hand # NoTask /\ class[hand] \in Compactors =>
            Single(todo) /\ (Counts(todo) => count[hand] < Limits["compact"])

\* The manager runs a path of a class, or ends a method whose schedule() has failed.
Shape ==
    /\ hand # NoTask => todo \in Path \cup Stops /\ (exc[hand] = "stopped" => todo = <<>>)
    /\ Paced

\* A task the test has not scheduled yet: its constructor may have answered.
Fresh(t) == /\ queued[t] = 0 /\ hand # t /\ state[t] \in {"PENDING", "FINISHED"}
            /\ ~Done(t) => state[t] = "PENDING"

\* An unanswered task in the manager's hands: what is left to run answers it, or it is scheduled
\* once, before or after this point.
Held(t) == \/ Tells(todo)
           \/ state[t] # "FINISHED" /\ ((queued[t] = 0 /\ Asks(todo)) \/ (queued[t] = 1 /\ Quiet(todo)))

\* An unanswered task outside its hands.
Free(t) == queued[t] = 1 /\ state[t] # "FINISHED"

Tracked(t) ==
    /\ t \notin sent => Fresh(t)
    /\ class[t] \notin Forgetful /\ ~Done(t) => (hand = t => Held(t)) /\ (t \in sent /\ hand # t => Free(t))

\* NodeMonitorsAnalyserTask is scheduled once as it starts and never again, so that its check(),
\* which would spoil an answer, is not reached.
Analyser(t) ==
    /\ queued[t] <= 1 /\ (state[t] = "CHECKING" => queued[t] = 0)
    /\ hand = t => /\ Mute(todo) \/ (todo = Again /\ queued[t] = 0 /\ state[t] = "EXECUTING")
                   /\ (\E i \in DOMAIN todo : todo[i] = "CHECKING") => queued[t] = 0

\* The task in hand, not yet failed: what is left to run agrees with the answer it has given.
Stable == hand # NoTask /\ class[hand] \notin Hasty /\ exc[hand] = "none" /\ todo \in Path =>
             Firm(todo) /\ (result[hand] # "none" => Says(todo, result[hand]))

\* What a client was told stands.
Stands == \A c \in Clients : got[c] \in Results /\ class[TaskOf[c]] \notin Hasty =>
             result[TaskOf[c]] = got[c] /\ exc[TaskOf[c]] \in {"none", "stopped"}

\* The manager has the task once.
Once == TypeOK /\ Shape /\ \A t \in Tasks : Tracked(t)

\* A task nobody has scheduled is in nobody's hands.
Apart == TypeOK /\ Shape /\ \A t \in Tasks : t \notin sent => Fresh(t)

\* The answers agree.
Steady == /\ Apart /\ Stable /\ Stands
          /\ \A t \in Tasks : class[t] = "NodeMonitorsAnalyser" => Analyser(t)

-----------------------------------------------------------------------------
(* What the steps of the manager do. *)

\* A task is taken up.
LEMMA TakesUp ==
    ASSUME TypeOK, NEW t \in Tasks, Step(t)
    PROVE  /\ hand = NoTask /\ queued[t] > 0 /\ queued' \in [Tasks -> Nat] /\ queued'[t] = queued[t] - 1
           /\ \A u \in Tasks \ {t} : queued'[u] = queued[u] /\ state'[u] = state[u]
           /\ UNCHANGED <<class, result, exc, count, flag, sent, running, got>>
           /\ \/ (Done(t) \/ state[t] = "FINISHED") /\ UNCHANGED <<state, hand, todo>>
              \/ /\ ~Done(t) /\ hand' = t /\ state[t] = "PENDING" /\ state' \in [Tasks -> States]
                 /\ state'[t] = "EXECUTING" /\ todo' = Again
              \/ /\ ~Done(t) /\ hand' = t /\ state[t] \in {"EXECUTING", "CHECKING"} /\ UNCHANGED state /\ todo' \in Path
                 /\ class[t] \notin Forgets => Kept(todo')
                 /\ class[t] \notin Retracts \cup {"NodeMonitorsAnalyser"} => Firm(todo')
                 /\ class[t] = "NodeMonitorsAnalyser" /\ state[t] = "EXECUTING" => Firm(todo') /\ Mute(todo')
  <1> DEFINE m == Methods(count[t], flag[t])[class[t]]
  <1>1. Promises(class[t], m)
    BY AllPromise DEF TypeOK
  <1>2. /\ hand = NoTask /\ queued[t] > 0 /\ queued' \in [Tasks -> Nat] /\ queued'[t] = queued[t] - 1
        /\ \A u \in Tasks \ {t} : queued'[u] = queued[u]
        /\ UNCHANGED <<class, result, exc, count, flag, sent, running, got>>
    BY DEF Step, TypeOK
  <1>3. \/ (Done(t) \/ state[t] = "FINISHED") /\ UNCHANGED <<state, hand, todo>>
        \/ /\ ~Done(t) /\ hand' = t /\ state[t] = "PENDING"
           /\ state' = [state EXCEPT ![t] = "EXECUTING"] /\ todo' = Again
        \/ /\ ~Done(t) /\ hand' = t /\ UNCHANGED state
           /\ \/ state[t] = "EXECUTING" /\ todo' \in m.execute
              \/ state[t] = "CHECKING" /\ todo' \in m.check
    BY DEF Step
  <1> HIDE DEF m
  <1>4. CASE (Done(t) \/ state[t] = "FINISHED") /\ UNCHANGED <<state, hand, todo>>
    BY <1>2, <1>4
  <1>5. CASE /\ ~Done(t) /\ hand' = t /\ state[t] = "PENDING"
             /\ state' = [state EXCEPT ![t] = "EXECUTING"] /\ todo' = Again
    <2>1. state' \in [Tasks -> States] /\ state'[t] = "EXECUTING" /\ \A u \in Tasks \ {t} : state'[u] = state[u]
      BY <1>5 DEF TypeOK, States
    <2> QED
      BY <1>2, <1>5, <2>1
  <1>6. CASE /\ ~Done(t) /\ hand' = t /\ UNCHANGED state
             /\ \/ state[t] = "EXECUTING" /\ todo' \in m.execute
                \/ state[t] = "CHECKING" /\ todo' \in m.check
    <2>1. todo' \in Paths(m)
      BY <1>6 DEF Paths
    <2>2. /\ todo' \in Path /\ (class[t] \notin Forgets => Kept(todo'))
          /\ class[t] \notin Retracts \cup {"NodeMonitorsAnalyser"} => Firm(todo')
      BY <1>1, <2>1 DEF Promises, Typed, Keeps, Honest
    <2>3. class[t] = "NodeMonitorsAnalyser" /\ state[t] = "EXECUTING" => Firm(todo') /\ Mute(todo')
      <3> SUFFICES ASSUME class[t] = "NodeMonitorsAnalyser", state[t] = "EXECUTING" PROVE Firm(todo') /\ Mute(todo')
        OBVIOUS
      <3>1. m = NodeMonitorsAnalyserTask /\ todo' \in m.execute
        BY <1>1, <1>6 DEF Promises
      <3> QED
        BY <3>1, AnalyserPaths
    <2> QED
      BY <1>2, <1>6, <2>2, <2>3
  <1> QED
    BY <1>3, <1>4, <1>5, <1>6

\* A statement is run.
LEMMA OneStatement ==
    ASSUME TypeOK, Statement, todo # <<>>
    PROVE  /\ hand \in Tasks /\ UNCHANGED <<class, sent, hand, running, got>>
           /\ state' \in [Tasks -> States] /\ result' \in [Tasks -> {"none", "true", "false"}]
           /\ exc' \in [Tasks -> {"none", "exception", "stopped", "timeout"}]
           /\ count' \in [Tasks -> Nat] /\ flag' \in [Tasks -> BOOLEAN] /\ queued' \in [Tasks -> Nat]
           /\ \A u \in Tasks \ {hand} :
                 state'[u] = state[u] /\ result'[u] = result[u] /\ exc'[u] = exc[u] /\ queued'[u] = queued[u]
           /\ state'[hand] = IF Head(todo) \in States THEN Head(todo) ELSE state[hand]
           /\ result'[hand] = IF Head(todo) \in Results THEN Head(todo) ELSE result[hand]
           /\ exc'[hand] = IF Head(todo) \in {"exception", "stopped"} THEN Head(todo) ELSE exc[hand]
           /\ queued'[hand] = IF Head(todo) = "schedule" /\ running THEN queued[hand] + 1 ELSE queued[hand]
           /\ \/ Head(todo) = "schedule" /\ ~running /\ todo' = <<"FINISHED", "stopped">>
              \/ Head(todo) = "raise" /\ todo' = <<"FINISHED", "exception">>
              \/ Head(todo) = "unless" /\ Done(hand) /\ todo' = <<>>
              \/ Head(todo) # "raise" /\ (Head(todo) = "schedule" => running) /\ todo' = Tail(todo)
  <1> DEFINE s == Head(todo)
  <1>1. hand \in Tasks /\ UNCHANGED <<class, sent, hand, running, got>>
    BY DEF Statement, TypeOK
  <1>2. /\ state' = IF s \in States THEN [state EXCEPT ![hand] = s] ELSE state
        /\ result' = IF s \in {"true", "false"} THEN [result EXCEPT ![hand] = s] ELSE result
        /\ exc' = IF s \in {"exception", "stopped"} THEN [exc EXCEPT ![hand] = s] ELSE exc
    BY DEF Statement
  <1>3. /\ count' = [count EXCEPT ![hand] = IF s = "retry" THEN @ + 1 ELSE IF s = "reset" THEN 0 ELSE @]
        /\ flag' = [flag EXCEPT ![hand] = @ \/ s = "note"]
        /\ queued' = [queued EXCEPT ![hand] = IF s = "schedule" /\ running THEN @ + 1 ELSE @]
    BY DEF Statement
  <1>4. (CASE s = "schedule" /\ ~running -> todo' = <<"FINISHED", "stopped">>
           [] s = "raise" -> todo' = <<"FINISHED", "exception">>
           [] s = "unless" /\ Done(hand) -> todo' = <<>>
           [] OTHER -> todo' = Tail(todo))
    BY DEF Statement, Escaped
  <1> HIDE DEF s
  <1>5. \/ s = "schedule" /\ ~running /\ todo' = <<"FINISHED", "stopped">>
        \/ s = "raise" /\ todo' = <<"FINISHED", "exception">>
        \/ s = "unless" /\ Done(hand) /\ todo' = <<>>
        \/ s # "raise" /\ (s = "schedule" => running) /\ todo' = Tail(todo)
    BY <1>4
  <1>6. /\ state' \in [Tasks -> States] /\ state'[hand] = (IF s \in States THEN s ELSE state[hand])
        /\ \A u \in Tasks \ {hand} : state'[u] = state[u]
    BY <1>1, <1>2 DEF TypeOK
  <1>7. /\ result' \in [Tasks -> {"none", "true", "false"}]
        /\ result'[hand] = (IF s \in Results THEN s ELSE result[hand])
        /\ \A u \in Tasks \ {hand} : result'[u] = result[u]
    BY <1>1, <1>2 DEF TypeOK, Results
  <1>8. /\ exc' \in [Tasks -> {"none", "exception", "stopped", "timeout"}]
        /\ exc'[hand] = (IF s \in {"exception", "stopped"} THEN s ELSE exc[hand])
        /\ \A u \in Tasks \ {hand} : exc'[u] = exc[u]
    BY <1>1, <1>2 DEF TypeOK
  <1>9. count' \in [Tasks -> Nat]
    BY <1>1, <1>3 DEF TypeOK
  <1>10. flag' \in [Tasks -> BOOLEAN]
    BY <1>1, <1>3 DEF TypeOK
  <1>11. /\ queued' \in [Tasks -> Nat] /\ \A u \in Tasks \ {hand} : queued'[u] = queued[u]
         /\ queued'[hand] = (IF s = "schedule" /\ running THEN queued[hand] + 1 ELSE queued[hand])
    BY <1>1, <1>3 DEF TypeOK
  <1> QED
    BY <1>1, <1>5, <1>6, <1>7, <1>8, <1>9, <1>10, <1>11 DEF s

\* The method ends.
LEMMA MethodEnds ==
    ASSUME TypeOK, Statement, todo = <<>>
    PROVE  /\ hand \in Tasks /\ hand' = NoTask /\ hand' \notin Tasks
           /\ UNCHANGED <<class, state, result, exc, count, flag, queued, sent, todo, running, got>>
  BY ClusterAssumption DEF Statement, TypeOK

-----------------------------------------------------------------------------
(* Types, and what the manager runs. *)

\* A compaction is taken up.
LEMMA PacedTakesUp ==
    ASSUME TypeOK, NEW t \in Tasks, Step(t), hand' = t, class[t] \in Compactors PROVE Paced'
  <1> DEFINE m == Methods(count[t], flag[t])[class[t]]
  <1>1. m \in {CompactBucketTask(count[t]), CancelBucketCompactionTask(count[t])}
    BY DEF Methods, Compactors
  <1>2. count' = count /\ class' = class /\ (todo' = Again \/ todo' \in m.execute \cup m.check)
    BY ClusterAssumption DEF Step
  <1> HIDE DEF m
  <1>3. Single(todo') /\ (Counts(todo') => count[t] < Limits["compact"])
    BY <1>1, <1>2, Uncounted, CompactCounts DEF Paths
  <1> QED
    BY <1>2, <1>3 DEF Paced, Counts, Single

\* A compaction runs a statement.
LEMMA PacedStatement ==
    ASSUME TypeOK, Shape, Statement, todo # <<>>
    PROVE  /\ Paced'
           /\ \A t \in Tasks : class[t] \in Compactors => count'[t] <= Limits["compact"]
  <1> USE ClusterAssumption
  <1>1. /\ hand \in Tasks /\ hand' = hand /\ todo \in Path \cup Stops /\ class \in [Tasks -> Names]
        /\ count' = [count EXCEPT ![hand] = IF Head(todo) = "retry" THEN @ + 1
                                            ELSE IF Head(todo) = "reset" THEN 0 ELSE @]
    BY DEF Statement, TypeOK, Shape
  <1>2. Limits["compact"] \in Nat /\ count \in [Tasks -> Nat]
        /\ \A t \in Tasks : class[t] \in Compactors => count[t] <= Limits["compact"]
    BY DEF TypeOK, Counters
  <1>3. \A t \in Tasks \ {hand} : count'[t] = count[t]
    BY <1>1, <1>2
  <1>4. todo \in Seq(Statements)
    BY DEF TypeOK
  <1>5. /\ Len(todo) \in Nat \ {0} /\ DOMAIN todo = 1..Len(todo) /\ Head(todo) = todo[1]
        /\ DOMAIN Tail(todo) = 1..(Len(todo) - 1)
        /\ \A i \in 1..(Len(todo) - 1) : Tail(todo)[i] = todo[i + 1]
    BY <1>4
  <1>6. ASSUME class[hand] \in Compactors
        PROVE  Paced' /\ count'[hand] <= Limits["compact"]
    <2>1. Single(todo) /\ (Counts(todo) => count[hand] < Limits["compact"])
      BY <1>1, <1>6 DEF Shape, Paced
    <2>2. 1 \in DOMAIN todo /\ (Head(todo) = "retry" => count[hand] < Limits["compact"])
      BY <1>5, <2>1 DEF Counts
    <2>3. /\ Single(Tail(todo)) /\ (Counts(Tail(todo)) => Counts(todo))
          /\ Head(todo) = "retry" => ~Counts(Tail(todo))
      <3>1. \A i \in DOMAIN Tail(todo) : i \in Nat /\ i + 1 # 1 /\ i + 1 \in DOMAIN todo /\ Tail(todo)[i] = todo[i + 1]
        BY <1>5
      <3>2. Single(Tail(todo))
        BY <2>1, <3>1 DEF Single
      <3>3. Counts(Tail(todo)) => Counts(todo)
        BY <3>1 DEF Counts
      <3>4. Head(todo) = "retry" => ~Counts(Tail(todo))
        BY <1>5, <2>1, <2>2, <3>1 DEF Single, Counts
      <3> QED
        BY <3>2, <3>3, <3>4
    <2>4. todo' \in {Tail(todo), <<>>, <<"FINISHED", "exception">>, <<"FINISHED", "stopped">>}
      BY OneStatement
    <2>5. /\ Single(todo') /\ (Counts(todo') => Counts(todo))
          /\ Head(todo) = "retry" => ~Counts(todo')
      BY <2>3, <2>4, Uncounted
    <2>6. /\ count'[hand] = (IF Head(todo) = "retry" THEN count[hand] + 1
                             ELSE IF Head(todo) = "reset" THEN 0 ELSE count[hand])
          /\ count[hand] \in Nat /\ count[hand] <= Limits["compact"]
      BY <1>1, <1>2, <1>6
    <2>7. count'[hand] <= Limits["compact"] /\ (Counts(todo') => count'[hand] < Limits["compact"])
      BY <1>2, <2>1, <2>2, <2>5, <2>6
    <2> QED
      BY <1>1, <2>5, <2>7 DEF Paced, Single, Counts
  <1>7. class[hand] \notin Compactors => Paced'
    BY <1>1 DEF Paced, Statement
  <1> QED
    BY <1>2, <1>3, <1>6, <1>7

\* The paths are sequences of statements.
LEMMA PathStatements == Path \cup Stops \subseteq Seq(Statements)
  <1>1. Path \subseteq Seq(Statements)
    BY DEF Path
  <1> QED
    BY <1>1, EscapePaths

\* Every step keeps the types and the shape of what is run.
LEMMA ShapeStep == ASSUME TypeOK, Shape, [Next]_vars PROVE TypeOK' /\ Shape'
  <1> USE ClusterAssumption
  <1>1. ASSUME NEW t \in Tasks, Step(t) PROVE TypeOK' /\ Shape'
    <2>1. Again \in Path /\ Path \subseteq Seq(Statements)
      BY PathTypes, PathStatements
    <2>2. todo' \in Seq(Statements) /\ hand' \in Tasks \cup {NoTask} /\ state' \in [Tasks -> States]
      BY <1>1, <2>1, TakesUp DEF TypeOK
    <2>3. TypeOK'
      BY <1>1, <2>2, TakesUp DEF TypeOK
    <2>4. hand' # NoTask => hand' = t /\ ~Done(t) /\ todo' \in Path /\ exc' = exc
      BY <1>1, <2>1, TakesUp
    <2>5. Paced'
      <3>1. class' = class
        BY <1>1, TakesUp
      <3> QED
        BY <1>1, <2>4, <3>1, PacedTakesUp DEF Paced
    <2> QED
      BY <2>3, <2>4, <2>5 DEF Shape, Done
  <1>2. CASE Statement
    <2>1. CASE todo = <<>>
      <3>1. /\ hand' = NoTask
            /\ UNCHANGED <<class, state, result, exc, count, flag, queued, sent, todo, running, got>>
        BY <1>2, <2>1, MethodEnds
      <3> QED
        BY <3>1 DEF TypeOK, Shape, Paced
    <2>2. CASE todo # <<>>
      <3>1. hand \in Tasks /\ hand # NoTask /\ todo \in Path \cup Stops /\ exc[hand] # "stopped"
        BY <1>2, <2>2, OneStatement DEF Shape
      <3>2. /\ todo' \in Path \cup Stops
            /\ Head(todo) = "stopped" => todo' = <<>>
        <4>1. <<>> \in Path /\ <<"FINISHED", "stopped">> \in Stops /\ <<"FINISHED", "exception">> \in Path
          BY PathTypes, EscapePaths DEF Stops
        <4>2. CASE todo \in Path
          BY <1>2, <2>2, <4>1, <4>2, FirstRest, OneStatement
        <4>3. CASE todo \in Stops
          <5>1. Tail(todo) \in Stops \cup {<<>>} /\ Head(todo) \in {"FINISHED", "stopped"}
                /\ (Head(todo) = "stopped" => Tail(todo) = <<>>)
            BY <4>3, EscapePaths
          <5>2. todo' = Tail(todo)
            BY <1>2, <2>2, <5>1, OneStatement
          <5> QED
            BY <4>1, <5>1, <5>2
        <4> QED
          BY <3>1, <4>2, <4>3
      <3>3. exc'[hand] = "stopped" => todo' = <<>>
        BY <1>2, <2>2, <3>1, <3>2, OneStatement
      <3>4. TypeOK'
        <4>1. \A t \in Tasks : class'[t] \in Compactors => count'[t] <= Limits["compact"]
          BY <1>2, <2>2, PacedStatement, OneStatement
        <4> QED
          BY <1>2, <2>2, <3>2, <4>1, PathStatements, OneStatement DEF TypeOK
      <3>5. hand' = hand /\ Paced'
        BY <1>2, <2>2, OneStatement, PacedStatement
      <3> QED
        BY <3>2, <3>3, <3>4, <3>5 DEF Shape
    <2> QED
      BY <2>1, <2>2
  <1>3. ASSUME NEW t \in Tasks, Submit(t) PROVE TypeOK' /\ Shape'
    BY <1>3 DEF Submit, TypeOK, Shape, Paced, task
  <1>4. CASE Shutdown
    BY <1>4 DEF Shutdown, TypeOK, Shape, Paced, task
  <1>5. ASSUME NEW c \in Clients, Collect(c) PROVE TypeOK' /\ Shape'
    <2>1. TaskOf[c] \in Tasks
      OBVIOUS
    <2>2. Outcome(TaskOf[c]) \in {"none", "true", "false", "exception", "stopped", "timeout"}
      BY <2>1 DEF Outcome, TypeOK
    <2> QED
      BY <1>5, <2>2 DEF Collect, TypeOK, Shape, Paced, task
  <1>6. ASSUME NEW c \in Clients, TimeOut(c) PROVE TypeOK' /\ Shape'
    <2>1. TaskOf[c] \in Tasks
      OBVIOUS
    <2>2. TypeOK'
      BY <1>6, <2>1 DEF TimeOut, TypeOK
    <2>3. hand # NoTask /\ exc'[hand] = "stopped" => exc[hand] = "stopped"
      BY <1>6, <2>1 DEF TimeOut, TypeOK
    <2> QED
      BY <1>6, <2>2, <2>3 DEF TimeOut, Shape, Paced
  <1>7. CASE UNCHANGED vars
    BY <1>7 DEF vars, task, TypeOK, Shape, Paced
  <1> QED
    BY <1>1, <1>2, <1>3, <1>4, <1>5, <1>6, <1>7 DEF Next

\* At the start.
LEMMA StartShape == Init => TypeOK /\ Shape
  <1> SUFFICES ASSUME Init PROVE TypeOK /\ Shape
    OBVIOUS
  <1>1. /\ class \in [Tasks -> Names] /\ exc \in [Tasks -> {"none", "exception"}] /\ hand = NoTask /\ todo = <<>>
        /\ state = [t \in Tasks |-> IF exc[t] = "none" THEN "PENDING" ELSE "FINISHED"]
        /\ result = [t \in Tasks |-> "none"] /\ sent = {} /\ running = TRUE
        /\ count = [t \in Tasks |-> 0] /\ flag = [t \in Tasks |-> FALSE] /\ queued = [t \in Tasks |-> 0]
        /\ got = [c \in Clients |-> "none"]
    BY DEF Init
  <1>2. state \in [Tasks -> States] /\ exc \in [Tasks -> {"none", "exception", "stopped", "timeout"}]
    BY <1>1 DEF States
  <1>3. \A t \in Tasks : count[t] <= Limits["compact"]
    <2>1. Limits["compact"] \in Nat
      BY ClusterAssumption DEF Counters
    <2>2. \A t \in Tasks : count[t] = 0
      BY <1>1, Zenon
    <2>3. 0 <= Limits["compact"]
      BY <2>1
    <2> QED
      BY <2>2, <2>3, Zenon
  <1> QED
    BY <1>1, <1>2, <1>3 DEF TypeOK, Shape, Paced

\* Every value keeps its type, and the manager runs only statements of Task's protocol, whatever
\* the classes do and whenever the manager is shut down (task.py, Task.step; taskmanager.py, run).
THEOREM TypeCorrect == Spec => []TypeOK
  <1>1. Init => TypeOK /\ Shape
    BY StartShape
  <1>2. TypeOK /\ Shape /\ [Next]_vars => TypeOK' /\ Shape'
    BY ShapeStep
  <1> QED
    BY <1>1, <1>2, PTL DEF Spec

-----------------------------------------------------------------------------
(* The manager has every unanswered task once. *)

\* Taking up a task.
LEMMA TrackedTakesUp ==
    ASSUME Forgets \subseteq Forgetful, Once, NEW t \in Tasks, Step(t), NEW u \in Tasks PROVE Tracked(u)'
  <1> USE ClusterAssumption
  <1>1. TypeOK /\ Tracked(t) /\ Tracked(u)
    BY DEF Once
  <1>2. /\ hand = NoTask /\ hand # t /\ hand # u /\ queued[t] \in Nat /\ queued[t] > 0 /\ queued'[t] = queued[t] - 1
        /\ UNCHANGED <<class, result, exc, sent>> /\ (Done(u)' <=> Done(u))
    BY <1>1, TakesUp DEF Done, TypeOK
  <1>3. t \in sent
    BY <1>1, <1>2 DEF Tracked, Fresh
  <1>4. CASE u # t
    <2>1. queued'[u] = queued[u] /\ state'[u] = state[u] /\ hand' # u
      BY <1>1, <1>2, <1>4, TakesUp
    <2> QED
      BY <1>1, <1>2, <2>1 DEF Tracked, Fresh, Free
  <1>5. CASE u = t
    <2>1. u \in sent'
      BY <1>2, <1>3, <1>5
    <2>2. ASSUME class[t] \notin Forgetful, ~Done(t) PROVE hand' = t /\ Held(t)'
      <3>1. queued[t] = 1 /\ state[t] # "FINISHED" /\ queued'[t] = 0
        BY <1>1, <1>2, <1>3, <2>2 DEF Tracked, Free
      <3>2. hand' = t /\ Kept(todo') /\ state'[t] # "FINISHED"
        BY <1>1, <2>2, <3>1, TakesUp, PathKept DEF Kept
      <3> QED
        BY <3>1, <3>2 DEF Held, Kept
    <2> QED
      BY <1>2, <1>5, <2>1, <2>2 DEF Tracked
  <1> QED
    BY <1>4, <1>5

\* Running a statement.
LEMMA TrackedStatement == ASSUME Once, Statement, NEW u \in Tasks PROVE Tracked(u)'
  <1> USE ClusterAssumption
  <1>1. TypeOK /\ Shape /\ Tracked(u)
    BY DEF Once
  <1>2. CASE todo = <<>>
    <2>1. /\ hand \in Tasks /\ hand' # u /\ UNCHANGED <<class, state, result, exc, queued, sent, todo>>
      BY <1>1, <1>2, MethodEnds
    <2>2. ~Tells(<<>>) /\ ~Asks(<<>>)
      BY DEF Tells, Asks
    <2>3. (Done(u)' <=> Done(u)) /\ (Fresh(u) => Fresh(u)') /\ (Free(u) => Free(u)')
      BY <2>1 DEF Done, Fresh, Free
    <2>4. Held(u) => Free(u)'
      BY <1>2, <2>1, <2>2 DEF Held, Free
    <2> QED
      BY <1>1, <2>1, <2>3, <2>4 DEF Tracked
  <1>3. CASE todo # <<>> /\ u # hand
    <2>1. /\ UNCHANGED <<class, sent, hand>> /\ state'[u] = state[u] /\ result'[u] = result[u] /\ exc'[u] = exc[u]
          /\ queued'[u] = queued[u]
      BY <1>1, <1>3, OneStatement
    <2> QED
      BY <1>1, <1>3, <2>1 DEF Tracked, Fresh, Free, Done
  <1>4. CASE todo # <<>> /\ u = hand
    <2>1. u \in sent /\ UNCHANGED <<class, sent, hand>> /\ u # NoTask
      BY <1>1, <1>4, OneStatement DEF Tracked, Fresh
    <2>2. ASSUME class[u] \notin Forgetful, ~Done(u)' PROVE Held(u)'
      <3>1. /\ Head(todo) \notin Results \cup {"exception", "stopped"} /\ ~Done(u)
        <4>1. result'[u] = "none" /\ exc'[u] = "none"
          BY <2>2 DEF Done
        <4> QED
          BY <1>1, <1>4, <4>1, OneStatement DEF Done, Results
      <3>2. /\ state'[u] = (IF Head(todo) \in States THEN Head(todo) ELSE state[u])
            /\ queued'[u] = (IF Head(todo) = "schedule" /\ running THEN queued[u] + 1 ELSE queued[u])
            /\ \/ Head(todo) = "schedule" /\ ~running /\ todo' = <<"FINISHED", "stopped">>
               \/ Head(todo) = "raise" /\ todo' = <<"FINISHED", "exception">>
               \/ Head(todo) # "raise" /\ (Head(todo) = "schedule" => running) /\ todo' = Tail(todo)
        BY <1>1, <1>4, <3>1, OneStatement
      <3>3. CASE todo' # Tail(todo)
        BY <3>2, <3>3, EscapePaths DEF Held
      <3>4. CASE todo \in Stops
        BY <3>1, <3>2, <3>4, EscapePaths DEF Held
      <3>5. CASE todo' = Tail(todo) /\ todo \in Path /\ Tells(todo) /\ Head(todo) # "raise"
        <4>1. Head(todo) \notin Results \cup Errors
          BY <1>4, <3>1, <3>5 DEF Errors
        <4> QED
          BY <1>4, <3>5, <4>1, FirstRest DEF Held
      <3>6. CASE todo' = Tail(todo) /\ todo \in Path /\ Head(todo) # "raise" /\ ~Tells(todo)
        <4>1. /\ state[u] # "FINISHED"
              /\ \/ queued[u] = 0 /\ Asks(todo)
                 \/ queued[u] = 1 /\ Quiet(todo)
          BY <1>1, <1>4, <2>2, <3>1, <3>6 DEF Tracked, Held
        <4>2. /\ Head(todo) # "FINISHED"
              /\ Asks(todo) => IF Head(todo) = "schedule" THEN Quiet(Tail(todo)) ELSE Asks(Tail(todo))
              /\ Quiet(todo) => Head(todo) # "schedule" /\ Quiet(Tail(todo))
          BY <1>4, <3>6, <4>1, FirstRest
        <4>3. state'[u] # "FINISHED"
          BY <3>2, <4>1, <4>2
        <4>4. CASE Head(todo) = "schedule" /\ ~running
          BY <3>2, <4>4, EscapePaths DEF Held
        <4>5. CASE Head(todo) = "schedule" => running
          BY <3>2, <3>6, <4>1, <4>2, <4>3, <4>5 DEF Held
        <4> QED
          BY <4>4, <4>5
      <3>7. CASE Head(todo) = "raise"
        BY <3>2, <3>7, EscapePaths DEF Held
      <3> QED
        BY <1>1, <1>4, <2>1, <3>3, <3>4, <3>5, <3>6, <3>7 DEF Shape
    <2> QED
      BY <1>4, <2>1, <2>2 DEF Tracked
  <1> QED
    BY <1>2, <1>3, <1>4

\* The clients and the end of the manager.
LEMMA TrackedOthers ==
    ASSUME Once, NEW u \in Tasks,
           \/ \E t \in Tasks : Submit(t)
           \/ Shutdown
           \/ \E c \in Clients : Collect(c) \/ TimeOut(c)
           \/ UNCHANGED vars
    PROVE  Tracked(u)'
  <1> USE ClusterAssumption
  <1>1. TypeOK /\ Tracked(u)
    BY DEF Once
  <1>2. ASSUME NEW t \in Tasks, Submit(t) PROVE Tracked(u)'
    <2>1. /\ t \notin sent /\ sent' = sent \cup {t} /\ UNCHANGED <<class, state, result, exc, hand, todo>>
          /\ queued'[u] = IF u = t THEN queued[u] + 1 ELSE queued[u]
      BY <1>1, <1>2 DEF Submit, task, TypeOK
    <2>2. CASE u = t
      <3>1. Fresh(u) /\ (Done(u)' <=> Done(u))
        BY <1>1, <2>1, <2>2 DEF Tracked, Done
      <3> QED
        BY <2>1, <2>2, <3>1 DEF Fresh, Tracked, Free
    <2>3. CASE u # t
      BY <1>1, <2>1, <2>3 DEF Tracked, Fresh, Held, Free, Done
    <2> QED
      BY <2>2, <2>3
  <1>3. ASSUME UNCHANGED <<class, state, result, exc, queued, sent, hand, todo>> PROVE Tracked(u)'
    BY <1>1, <1>3 DEF Tracked, Fresh, Held, Free, Done
  <1>4. CASE Shutdown
    BY <1>3, <1>4 DEF Shutdown, task
  <1>5. ASSUME NEW c \in Clients, Collect(c) PROVE Tracked(u)'
    BY <1>3, <1>5 DEF Collect, task
  <1>6. ASSUME NEW c \in Clients, TimeOut(c) PROVE Tracked(u)'
    <2>1. /\ TaskOf[c] \in sent /\ UNCHANGED <<class, state, result, queued, sent, hand, todo>>
          /\ exc'[u] = IF u = TaskOf[c] THEN "timeout" ELSE exc[u]
      BY <1>1, <1>6 DEF TimeOut, TypeOK
    <2>2. CASE u = TaskOf[c]
      BY <2>1, <2>2 DEF Tracked, Done
    <2>3. CASE u # TaskOf[c]
      BY <1>1, <2>1, <2>3 DEF Tracked, Fresh, Held, Free, Done
    <2> QED
      BY <2>2, <2>3
  <1>7. CASE UNCHANGED vars
    BY <1>3, <1>7 DEF vars, task
  <1> QED
    BY <1>2, <1>4, <1>5, <1>6, <1>7

\* Every step keeps the invariant.
LEMMA OnceStep == ASSUME Forgets \subseteq Forgetful, Once, [Next]_vars PROVE Once'
  <1>1. TypeOK' /\ Shape'
    BY ShapeStep DEF Once
  <1>2. ASSUME NEW u \in Tasks PROVE Tracked(u)'
    BY TrackedTakesUp, TrackedStatement, TrackedOthers DEF Next
  <1> QED
    BY <1>1, <1>2 DEF Once

\* At the start no task is scheduled.
LEMMA StartOnce == Init => Once
  <1> SUFFICES ASSUME Init PROVE Once
    OBVIOUS
  <1> USE ClusterAssumption
  <1>1. TypeOK /\ Shape
    BY StartShape
  <1>2. ASSUME NEW t \in Tasks PROVE Tracked(t)
    <2>1. /\ state[t] = (IF exc[t] = "none" THEN "PENDING" ELSE "FINISHED") /\ result[t] = "none"
          /\ queued[t] = 0 /\ t \notin sent /\ hand # t
      BY DEF Init
    <2> QED
      BY <2>1 DEF Tracked, Fresh, Done
  <1> QED
    BY <1>1, <1>2 DEF Once

\* A task that no one has answered is in the manager's queues exactly once or in its hands, for
\* any number of tasks, of any of the classes but the ones Forgets lists, which come to the end of
\* a method without scheduling themselves or answering (task.py, execute() and check()).
THEOREM TasksStayTracked == ASSUME Forgets \subseteq Forgetful PROVE Spec => []NotAbandoned
  <1>1. Init => Once
    BY StartOnce
  <1>2. Once /\ [Next]_vars => Once'
    BY OnceStep
  <1>3. Once => NotAbandoned
    BY DEF Once, TypeOK, Tracked, Free, NotAbandoned
  <1> QED
    BY <1>1, <1>2, <1>3, PTL DEF Spec

-----------------------------------------------------------------------------
(* The answers agree. *)

\* A task nobody has scheduled is left alone.
LEMMA ApartStep == ASSUME Apart, [Next]_vars PROVE Apart'
  <1> USE ClusterAssumption
  <1>1. TypeOK' /\ Shape'
    BY ShapeStep DEF Apart
  <1>2. ASSUME NEW u \in Tasks, u \notin sent' PROVE Fresh(u)'
    <2>1. TypeOK /\ sent \subseteq sent'
      BY DEF Apart, Next, Step, Statement, Submit, Shutdown, Collect, TimeOut, vars
    <2>2. u \notin sent /\ queued[u] = 0 /\ hand # u /\ Fresh(u)
      BY <1>2, <2>1 DEF Apart, Fresh
    <2>3. ASSUME queued'[u] = queued[u], hand' # u, state'[u] = state[u], result'[u] = result[u], exc'[u] = exc[u]
          PROVE  Fresh(u)'
      BY <2>2, <2>3 DEF Fresh, Done
    <2>4. ASSUME NEW t \in Tasks, Step(t) PROVE Fresh(u)'
      <3>1. t # u
        BY <2>1, <2>2, <2>4, TakesUp
      <3> QED
        BY <2>1, <2>2, <2>3, <2>4, <3>1, TakesUp
    <2>5. CASE Statement /\ todo = <<>>
      BY <2>1, <2>2, <2>3, <2>5, MethodEnds
    <2>6. CASE Statement /\ todo # <<>>
      BY <2>1, <2>2, <2>3, <2>6, OneStatement
    <2>7. ASSUME NEW t \in Tasks, Submit(t) PROVE Fresh(u)'
      <3>1. t # u
        BY <1>2, <2>7 DEF Submit
      <3> QED
        BY <2>1, <2>2, <2>3, <2>7, <3>1 DEF Submit, task, TypeOK
    <2>8. CASE Shutdown \/ UNCHANGED vars \/ \E c \in Clients : Collect(c)
      BY <2>2, <2>3, <2>8 DEF Shutdown, Collect, vars, task
    <2>9. ASSUME NEW c \in Clients, TimeOut(c) PROVE Fresh(u)'
      <3>1. TaskOf[c] # u
        BY <2>2, <2>9 DEF TimeOut
      <3> QED
        BY <2>1, <2>2, <2>3, <2>9, <3>1 DEF TimeOut, TypeOK
    <2> QED
      BY <2>4, <2>5, <2>6, <2>7, <2>8, <2>9 DEF Next
  <1> QED
    BY <1>1, <1>2 DEF Apart

\* A task that is taken up is unanswered, and its path does not contradict itself.
LEMMA StableTakesUp == ASSUME Retracts \subseteq Hasty, Steady, NEW t \in Tasks, Step(t) PROVE Stable'
  <1> USE ClusterAssumption
  <1>1. TypeOK /\ queued[t] \in Nat
    BY DEF Steady, Apart, TypeOK
  <1> SUFFICES ASSUME hand' # NoTask, class'[hand'] \notin Hasty, todo' \in Path
               PROVE  Firm(todo') /\ result'[hand'] = "none"
    BY DEF Stable
  <1>2. /\ hand = NoTask /\ hand' = t /\ ~Done(t) /\ UNCHANGED <<class, result>> /\ queued[t] > 0
        /\ \/ todo' = Again
           \/ /\ state[t] \in {"EXECUTING", "CHECKING"}
              /\ class[t] \notin Retracts \cup {"NodeMonitorsAnalyser"} => Firm(todo')
              /\ class[t] = "NodeMonitorsAnalyser" /\ state[t] = "EXECUTING" => Firm(todo')
    BY <1>1, TakesUp
  <1>3. class[t] = "NodeMonitorsAnalyser" => state[t] # "CHECKING"
    BY <1>1, <1>2 DEF Steady, Analyser
  <1>4. Firm(Again)
    BY PathFirm DEF Firm, Results
  <1>5. Firm(todo')
    BY <1>2, <1>3, <1>4
  <1> QED
    BY <1>2, <1>5 DEF Done

\* What is left of a path agrees with the answer given so far.
LEMMA StableStatement == ASSUME Steady, Statement PROVE Stable'
  <1> USE ClusterAssumption
  <1>1. TypeOK /\ Shape /\ Stable
    BY DEF Steady, Apart
  <1>2. CASE todo = <<>>
    BY <1>1, <1>2, MethodEnds DEF Stable
  <1>3. CASE todo # <<>>
    <2> SUFFICES ASSUME class[hand] \notin Hasty, exc'[hand] = "none", todo' \in Path
                 PROVE  Firm(todo') /\ (result'[hand] # "none" => Says(todo', result'[hand]))
      BY <1>1, <1>3, OneStatement DEF Stable
    <2>1. /\ hand \in Tasks /\ hand # NoTask
          /\ exc'[hand] = (IF Head(todo) \in {"exception", "stopped"} THEN Head(todo) ELSE exc[hand])
          /\ result'[hand] = (IF Head(todo) \in Results THEN Head(todo) ELSE result[hand])
          /\ \/ todo' = <<"FINISHED", "stopped">>
             \/ Head(todo) = "raise" /\ todo' = <<"FINISHED", "exception">>
             \/ todo' = <<>>
             \/ todo' = Tail(todo)
      BY <1>1, <1>3, OneStatement
    <2>2. exc[hand] = "none" /\ Head(todo) \notin {"exception", "stopped"}
      BY <2>1
    <2>3. /\ <<"FINISHED", "stopped">> \notin Path /\ Firm(<<"FINISHED", "exception">>)
          /\ Firm(<<>>) /\ \A v : Says(<<>>, v)
      <3>1. Firm(<<>>) /\ \A v : Says(<<>>, v)
        BY DEF Firm, Bare, Says
      <3> QED
        BY <3>1, EscapePaths DEF Stops
    <2>4. CASE todo \in Stops
      BY <2>1, <2>2, <2>3, <2>4, EscapePaths
    <2>5. CASE todo \in Path
      <3>1. Firm(todo) /\ (result[hand] # "none" => Says(todo, result[hand]))
        BY <1>1, <2>1, <2>2, <2>5 DEF Stable
      <3>2. /\ result[hand] # "none" => /\ Head(todo) \notin Errors /\ Says(Tail(todo), result[hand])
                                        /\ Head(todo) \in Results => Head(todo) = result[hand]
            /\ Firm(Tail(todo)) /\ (Head(todo) \in Results => Says(Tail(todo), Head(todo)))
        BY <1>3, <2>2, <2>5, <3>1, FirstRestFirm
      <3>3. CASE todo' = Tail(todo)
        BY <2>1, <3>2, <3>3
      <3>4. CASE Head(todo) = "raise" /\ todo' = <<"FINISHED", "exception">>
        BY <2>1, <2>3, <3>2, <3>4 DEF Errors, Results
      <3>5. CASE todo' = <<>>
        BY <2>3, <3>5
      <3> QED
        BY <2>1, <2>3, <3>3, <3>4, <3>5
    <2> QED
      BY <1>1, <2>1, <2>4, <2>5 DEF Shape
  <1> QED
    BY <1>2, <1>3

\* The clients and the end of the manager run no statement.
LEMMA StableOthers ==
    ASSUME Steady,
           \/ \E t \in Tasks : Submit(t)
           \/ Shutdown
           \/ \E c \in Clients : Collect(c) \/ TimeOut(c)
           \/ UNCHANGED vars
    PROVE  Stable'
  <1> USE ClusterAssumption
  <1>1. TypeOK /\ Stable
    BY DEF Steady, Apart
  <1>2. ASSUME UNCHANGED <<class, result, hand, todo>>, hand # NoTask /\ exc'[hand] = "none" => exc[hand] = "none"
        PROVE  Stable'
    BY <1>1, <1>2 DEF Stable
  <1>3. ASSUME NEW t \in Tasks, Submit(t) PROVE Stable'
    BY <1>2, <1>3 DEF Submit, task
  <1>4. CASE Shutdown
    BY <1>2, <1>4 DEF Shutdown, task
  <1>5. ASSUME NEW c \in Clients, Collect(c) PROVE Stable'
    BY <1>2, <1>5 DEF Collect, task
  <1>6. ASSUME NEW c \in Clients, TimeOut(c) PROVE Stable'
    <2>1. hand # NoTask /\ exc'[hand] = "none" => exc[hand] = "none"
      BY <1>1, <1>6 DEF TimeOut, TypeOK
    <2> QED
      BY <1>2, <1>6, <2>1 DEF TimeOut
  <1>7. CASE UNCHANGED vars
    BY <1>2, <1>7 DEF vars, task
  <1> QED
    BY <1>3, <1>4, <1>5, <1>6, <1>7

\* The answer of a task that has one stays, but for a manager that is shut down.
LEMMA AnswerStays ==
    ASSUME Steady, [Next]_vars, NEW t \in Tasks, class[t] \notin Hasty, result[t] # "none",
           exc[t] \in {"none", "stopped"}
    PROVE  result'[t] = result[t] /\ exc'[t] \in {"none", "stopped"}
  <1> USE ClusterAssumption
  <1>1. TypeOK /\ Shape /\ Stable
    BY DEF Steady, Apart
  <1>2. ASSUME NEW u \in Tasks, Step(u) PROVE UNCHANGED <<result, exc>>
    BY <1>1, <1>2, TakesUp
  <1>3. ASSUME NEW u \in Tasks, Submit(u) PROVE UNCHANGED <<result, exc>>
    BY <1>3 DEF Submit, task
  <1>4. CASE Shutdown \/ UNCHANGED vars
    BY <1>4 DEF Shutdown, vars, task
  <1>5. ASSUME NEW c \in Clients, Collect(c) PROVE UNCHANGED <<result, exc>>
    BY <1>5 DEF Collect, task
  <1>6. ASSUME NEW c \in Clients, TimeOut(c) PROVE result' = result /\ exc'[t] = exc[t]
    <2>1. TaskOf[c] # t /\ result' = result /\ exc' = [exc EXCEPT ![TaskOf[c]] = "timeout"]
      BY <1>6 DEF TimeOut, Done
    <2> QED
      BY <1>1, <2>1 DEF TypeOK
  <1>7. ASSUME Statement PROVE result'[t] = result[t] /\ exc'[t] \in {"none", "stopped"}
    <2>1. CASE todo = <<>>
      BY <1>1, <1>7, <2>1, MethodEnds
    <2>2. CASE todo # <<>> /\ hand # t
      BY <1>1, <1>7, <2>2, OneStatement
    <2>3. CASE todo # <<>> /\ hand = t
      <3>1. /\ result'[t] = (IF Head(todo) \in Results THEN Head(todo) ELSE result[t])
            /\ exc'[t] = (IF Head(todo) \in {"exception", "stopped"} THEN Head(todo) ELSE exc[t])
            /\ hand # NoTask
        BY <1>1, <1>7, <2>3, OneStatement
      <3>2. todo \in Path \cup Stops /\ exc[t] = "none"
        BY <1>1, <2>3, <3>1 DEF Shape
      <3>3. CASE todo \in Stops
        BY <3>1, <3>2, <3>3, EscapePaths DEF Results
      <3>4. CASE todo \in Path
        <4>1. Says(todo, result[t])
          BY <1>1, <2>3, <3>1, <3>2, <3>4 DEF Stable
        <4>2. Head(todo) \notin Errors /\ (Head(todo) \in Results => Head(todo) = result[t])
          BY <2>3, <3>4, <4>1, FirstRestFirm
        <4> QED
          BY <3>1, <3>2, <4>2 DEF Errors
      <3> QED
        BY <3>2, <3>3, <3>4
    <2> QED
      BY <2>1, <2>2, <2>3
  <1> QED
    BY <1>2, <1>3, <1>4, <1>5, <1>6, <1>7 DEF Next

\* What a client was told stands after every step.
LEMMA StandsStep == ASSUME Steady, [Next]_vars PROVE Stands'
  <1> USE ClusterAssumption
  <1>1. TypeOK /\ Stands /\ class' = class
    <2>1. TypeOK /\ Stands
      BY DEF Steady, Apart
    <2> QED
      BY <2>1 DEF Next, Step, Statement, Submit, Shutdown, Collect, TimeOut, vars, task
  <1> SUFFICES ASSUME NEW c \in Clients, got'[c] \in Results, class[TaskOf[c]] \notin Hasty
               PROVE  result'[TaskOf[c]] = got'[c] /\ exc'[TaskOf[c]] \in {"none", "stopped"}
    BY <1>1 DEF Stands
  <1>2. TaskOf[c] \in Tasks
    OBVIOUS
  <1>3. CASE got'[c] = got[c]
    <2>1. result[TaskOf[c]] = got[c] /\ exc[TaskOf[c]] \in {"none", "stopped"} /\ got[c] # "none"
      BY <1>1, <1>3 DEF Stands, Results
    <2> QED
      BY <1>2, <1>3, <2>1, AnswerStays
  <1>4. CASE got'[c] # got[c]
    <2>1. Collect(c)
      <3>1. \E d \in Clients : Collect(d) \/ TimeOut(d)
        BY <1>4 DEF Next, Step, Statement, Submit, Shutdown, vars
      <3>2. PICK d \in Clients : Collect(d) \/ TimeOut(d)
        BY <3>1
      <3>3. d = c
        BY <1>1, <1>4, <3>2 DEF Collect, TimeOut, TypeOK
      <3>4. ~TimeOut(c)
        BY <1>1 DEF TimeOut, TypeOK, Results
      <3> QED
        BY <3>2, <3>3, <3>4
    <2>2. got'[c] = Outcome(TaskOf[c]) /\ UNCHANGED <<result, exc>>
      BY <1>1, <2>1 DEF Collect, task, TypeOK
    <2> QED
      BY <1>1, <1>2, <2>2 DEF Outcome, Results, TypeOK
  <1> QED
    BY <1>3, <1>4

\* NodeMonitorsAnalyserTask as it is taken up and run.
LEMMA AnalyserStep ==
    ASSUME Steady, [Next]_vars, NEW u \in Tasks, class[u] = "NodeMonitorsAnalyser" PROVE Analyser(u)'
  <1> USE ClusterAssumption
  <1>1. TypeOK /\ Shape /\ (u \notin sent => Fresh(u)) /\ Analyser(u) /\ queued[u] \in Nat
    BY DEF Steady, Apart, TypeOK
  <1>2. ASSUME NEW t \in Tasks, Step(t) PROVE Analyser(u)'
    <2>1. CASE t # u
      <3>1. hand # u /\ hand' # u /\ queued'[u] = queued[u] /\ state'[u] = state[u]
        BY <1>1, <1>2, <2>1, TakesUp
      <3> QED
        BY <1>1, <3>1 DEF Analyser
    <2>2. CASE t = u
      <3>1. /\ hand # u /\ queued[u] = 1 /\ queued'[u] = 0 /\ state[u] # "CHECKING"
            /\ \/ hand' # u
               \/ hand' = u /\ state'[u] = "EXECUTING" /\ todo' = Again
               \/ hand' = u /\ Mute(todo')
        BY <1>1, <1>2, <2>2, TakesUp DEF Analyser
      <3> QED
        BY <3>1 DEF Analyser
    <2> QED
      BY <2>1, <2>2
  <1>3. CASE Statement /\ todo = <<>>
    BY <1>1, <1>3, MethodEnds DEF Analyser
  <1>4. CASE Statement /\ todo # <<>> /\ hand # u
    <2>1. hand' # u /\ queued'[u] = queued[u] /\ state'[u] = state[u]
      BY <1>1, <1>4, OneStatement
    <2> QED
      BY <1>1, <2>1 DEF Analyser
  <1>5. CASE Statement /\ todo # <<>> /\ hand = u
    <2>1. /\ hand' = u /\ u # NoTask /\ todo \in Path \cup Stops
          /\ state'[u] = (IF Head(todo) \in States THEN Head(todo) ELSE state[u])
          /\ queued'[u] = (IF Head(todo) = "schedule" /\ running THEN queued[u] + 1 ELSE queued[u])
          /\ \/ todo' = <<"FINISHED", "stopped">> \/ todo' = <<"FINISHED", "exception">> \/ todo' = <<>>
             \/ (Head(todo) = "schedule" => running) /\ todo' = Tail(todo)
      BY <1>1, <1>5, OneStatement DEF Shape
    <2>2. CASE todo = Again
      <3>1. Head(todo) = "schedule" /\ Tail(todo) = <<>> /\ "schedule" \notin States
        BY <2>2 DEF Again, States
      <3>2. queued[u] <= 1 /\ state'[u] = state[u] /\ queued'[u] <= 1 /\ (state[u] = "CHECKING" => queued'[u] = 0)
        BY <1>1, <1>5, <2>1, <2>2, <3>1 DEF Analyser, Mute, Again
      <3>3. Mute(todo') /\ \A i \in DOMAIN todo' : todo'[i] # "CHECKING"
        <4>1. Mute(<<>>) /\ \A i \in DOMAIN <<>> : <<>>[i] # "CHECKING"
          BY DEF Mute
        <4> QED
          BY <2>1, <3>1, <4>1, EscapePaths
      <3> QED
        BY <3>2, <3>3 DEF Analyser
    <2>3. CASE todo # Again
      <3>1. Mute(todo) /\ ((\E i \in DOMAIN todo : todo[i] = "CHECKING") => queued[u] = 0)
        BY <1>1, <1>5, <2>3 DEF Analyser
      <3>2. /\ Head(todo) # "schedule" /\ Mute(todo')
            /\ (\E i \in DOMAIN todo' : todo'[i] = "CHECKING") => queued[u] = 0
            /\ Head(todo) = "CHECKING" => queued[u] = 0
        <4>1. Mute(<<>>) /\ \A i \in DOMAIN <<>> : <<>>[i] # "CHECKING"
          BY DEF Mute
        <4>2. CASE todo \in Path
          <5>1. /\ Head(todo) # "schedule" /\ Mute(Tail(todo))
                /\ \A i \in DOMAIN Tail(todo) : \E j \in DOMAIN todo : todo[j] = Tail(todo)[i]
                /\ \E j \in DOMAIN todo : todo[j] = Head(todo)
            BY <1>5, <3>1, <4>2, FirstRestFirm
          <5>2. CASE todo' = Tail(todo)
            BY <3>1, <5>1, <5>2
          <5>3. CASE todo' # Tail(todo)
            <6>1. Mute(todo') /\ \A i \in DOMAIN todo' : todo'[i] # "CHECKING"
              BY <2>1, <4>1, <5>3, EscapePaths
            <6> QED
              BY <3>1, <5>1, <6>1
          <5> QED
            BY <5>2, <5>3
        <4>3. CASE todo \in Stops
          BY <2>1, <4>1, <4>3, EscapePaths
        <4> QED
          BY <2>1, <4>2, <4>3
      <3> QED
        BY <1>1, <2>1, <3>2 DEF Analyser
    <2> QED
      BY <2>2, <2>3
  <1>6. ASSUME NEW t \in Tasks, Submit(t) PROVE Analyser(u)'
    <2>1. /\ t \notin sent /\ UNCHANGED <<state, hand, todo>>
          /\ queued'[u] = IF u = t THEN queued[u] + 1 ELSE queued[u]
      BY <1>1, <1>6 DEF Submit, task, TypeOK
    <2>2. CASE u = t
      BY <1>1, <2>1, <2>2 DEF Fresh, Analyser
    <2>3. CASE u # t
      BY <1>1, <2>1, <2>3 DEF Analyser
    <2> QED
      BY <2>2, <2>3
  <1>7. ASSUME UNCHANGED <<state, queued, hand, todo>> PROVE Analyser(u)'
    BY <1>1, <1>7 DEF Analyser
  <1>8. CASE Shutdown \/ UNCHANGED vars \/ \E c \in Clients : Collect(c) \/ TimeOut(c)
    BY <1>7, <1>8 DEF Shutdown, Collect, TimeOut, vars, task
  <1> QED
    BY <1>2, <1>3, <1>4, <1>5, <1>6, <1>8 DEF Next

\* No client is misled, for any number of tasks and clients: what result() returned is what it
\* would return to anybody later, whatever the classes do but the ones Retracts lists, which report
\* a failure after an answer or another answer (task.py; future.py, result and set_exception).
\* Only a manager that is shut down spoils an answer.
THEOREM AnswersStand == ASSUME Retracts \subseteq Hasty PROVE Spec => []NobodyMisled
  <1>1. ASSUME Init PROVE Steady
    <2>1. Apart
      BY <1>1, StartOnce DEF Once, Tracked, Apart
    <2>2. Stable /\ Stands
      BY <1>1, ClusterAssumption DEF Init, Stable, Stands, Results
    <2>3. ASSUME NEW t \in Tasks PROVE Analyser(t)
      <3>1. hand # t /\ queued[t] = 0
        BY <1>1, ClusterAssumption DEF Init
      <3> QED
        BY <3>1 DEF Analyser
    <2> QED
      BY <2>1, <2>2, <2>3 DEF Steady
  <1>2. ASSUME Steady, [Next]_vars PROVE Steady'
    <2>1. Apart'
      BY <1>2, ApartStep DEF Steady
    <2>2. Stable'
      BY <1>2, StableTakesUp, StableStatement, StableOthers DEF Next
    <2>3. Stands'
      BY <1>2, StandsStep
    <2>4. class' = class
      BY <1>2 DEF Next, Step, Statement, Submit, Shutdown, Collect, TimeOut, vars, task
    <2>5. \A t \in Tasks : class'[t] = "NodeMonitorsAnalyser" => Analyser(t)'
      BY <1>2, <2>4, AnalyserStep
    <2> QED
      BY <2>1, <2>2, <2>3, <2>5 DEF Steady
  <1>3. Steady => NobodyMisled
    BY DEF Steady, Stands, NobodyMisled, Results, Outcome
  <1> QED
    BY <1>1, <1>2, <1>3, PTL DEF Spec
=============================================================================
