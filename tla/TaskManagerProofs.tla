-------------------------- MODULE TaskManagerProofs --------------------------
(***************************************************************************)
(* Proofs about TaskManager, for any tasks, clients and bounds, and        *)
(* whether the shutdown is forced, orderly or neither: type correctness,   *)
(* that no task is lost or in two places, that a cancelled task stays      *)
(* cancelled, what the threads that wait for a task are told, that the     *)
(* futures implement Promise and, unless the shutdown is forced, that the  *)
(* manager never blocks on its queues.                                     *)
(***************************************************************************)
EXTENDS TaskManager, FiniteSetTheorems, TLAPS

(* The queues. *)

In(q, t) == \E i \in 1..Len(q) : q[i] = t
Once(q) == \A i, j \in 1..Len(q) : q[i] = q[j] => i = j

\* put: the task is added.
LEMMA PutIn ==
    ASSUME NEW q \in Seq(Tasks), NEW x \in Tasks
    PROVE  /\ Append(q, x) \in Seq(Tasks) /\ Len(Append(q, x)) = Len(q) + 1
           /\ \A t : In(Append(q, x), t) <=> In(q, t) \/ t = x
           /\ Once(q) /\ ~In(q, x) => Once(Append(q, x))
  <1>1. Append(q, x) \in Seq(Tasks) /\ Len(Append(q, x)) = Len(q) + 1 /\ Len(q) \in Nat
    OBVIOUS
  <1>2. \A i \in 1..Len(q) : Append(q, x)[i] = q[i]
    OBVIOUS
  <1>3. Append(q, x)[Len(q) + 1] = x
    OBVIOUS
  <1>4. \A t : In(Append(q, x), t) <=> In(q, t) \/ t = x
    BY <1>1, <1>2, <1>3 DEF In
  <1>5. Once(q) /\ ~In(q, x) => Once(Append(q, x))
    BY <1>1, <1>2, <1>3 DEF In, Once
  <1> QED
    BY <1>1, <1>4, <1>5

\* get: the first task is taken out.
LEMMA GetIn ==
    ASSUME NEW q \in Seq(Tasks), q # <<>>
    PROVE  /\ Head(q) \in Tasks /\ Tail(q) \in Seq(Tasks) /\ Len(Tail(q)) = Len(q) - 1 /\ Len(q) > 0
           /\ \A t : In(q, t) <=> In(Tail(q), t) \/ t = Head(q)
           /\ Once(q) => Once(Tail(q)) /\ ~In(Tail(q), Head(q))
  <1>1. Len(q) \in Nat \ {0} /\ Head(q) = q[1] /\ Head(q) \in Tasks
    OBVIOUS
  <1>2. Tail(q) \in Seq(Tasks) /\ Len(Tail(q)) = Len(q) - 1
    OBVIOUS
  <1>3. \A i \in 1..(Len(q) - 1) : Tail(q)[i] = q[i + 1]
    BY <1>1
  <1>4. ASSUME NEW t PROVE In(q, t) <=> In(Tail(q), t) \/ t = Head(q)
    <2>1. ASSUME NEW i \in 1..Len(q), q[i] = t PROVE In(Tail(q), t) \/ t = Head(q)
      <3>1. CASE i = 1
        BY <1>1, <2>1, <3>1
      <3>2. CASE i # 1
        <4>1. i - 1 \in 1..(Len(q) - 1) /\ (i - 1) + 1 = i
          BY <1>1, <3>2
        <4> QED
          BY <1>2, <1>3, <2>1, <4>1 DEF In
      <3> QED
        BY <3>1, <3>2
    <2>2. ASSUME NEW i \in 1..(Len(q) - 1), Tail(q)[i] = t PROVE In(q, t)
      BY <1>1, <1>3, <2>2 DEF In
    <2>3. t = Head(q) => In(q, t)
      BY <1>1 DEF In
    <2> QED
      BY <1>2, <2>1, <2>2, <2>3 DEF In
  <1>5. Once(q) => Once(Tail(q)) /\ ~In(Tail(q), Head(q))
    BY <1>1, <1>2, <1>3 DEF In, Once
  <1> QED
    BY <1>1, <1>2, <1>4, <1>5

\* The empty queue.
LEMMA EmptyQueue == <<>> \in Seq(Tasks) /\ Once(<<>>) /\ Len(<<>>) = 0 /\ \A t : ~In(<<>>, t)
  BY DEF In, Once

\* What the model counts, for a queue that has no task twice.
LEMMA CountOnce ==
    ASSUME NEW q \in Seq(Tasks), Once(q), NEW t
    PROVE  Count(q, t) = IF In(q, t) THEN 1 ELSE 0
  <1> DEFINE I == {i \in DOMAIN q : q[i] = t}
  <1>1. DOMAIN q = 1..Len(q)
    OBVIOUS
  <1>2. CASE In(q, t)
    <2>1. PICK k \in 1..Len(q) : q[k] = t
      BY <1>2 DEF In
    <2>2. I = {k}
      BY <1>1, <2>1 DEF Once
    <2> QED
      BY <1>2, <2>2, FS_Singleton DEF Count
  <1>3. CASE ~In(q, t)
    <2>1. I = {}
      BY <1>1, <1>3 DEF In
    <2> QED
      BY <1>3, <2>1, FS_EmptySet DEF Count
  <1> QED
    BY <1>2, <1>3

\* The same for the hand of a thread.
LEMMA CountHand == ASSUME NEW h, NEW t PROVE Count(<<h>>, t) = IF h = t THEN 1 ELSE 0
  <1> DEFINE I == {i \in DOMAIN <<h>> : <<h>>[i] = t}
  <1>1. CASE h = t
    <2>1. I = {1}
      BY <1>1
    <2> QED
      BY <1>1, <2>1, FS_Singleton DEF Count
  <1>2. CASE h # t
    <2>1. I = {}
      BY <1>2
    <2> QED
      BY <1>2, <2>1, FS_EmptySet DEF Count
  <1> QED
    BY <1>1, <1>2

-----------------------------------------------------------------------------
(* The invariant. *)

Midway == {"again", "answer", "putfirst"}
Holding == {"step", "body", "started", "putready", "putsleep", "sput"} \cup Midway
Closing == {"scancel", "sput", "rcancel"}

\* A thread holds a task only while it works on it, and only a hasty task is worked on
\* after it has answered or scheduled itself.
HandsOK ==
    /\ hand = NoTask <=> mpc \notin Holding
    /\ mpc \in Midway => hand \in Hasty
    /\ shand = NoTask <=> spc \notin Closing
    /\ mpc \in {"sget", "sput"} => left > 0

Held(t) == In(readyq, t) \/ In(sleepq, t) \/ Holds(t) \/ shand = t

\* Every task is in one place, and in none once its loading thread runs.  What is in a place
\* was put there by the client that schedules it.
OnePlace ==
    /\ Once(readyq) /\ Once(sleepq)
    /\ \A t \in Tasks :
          /\ ~(In(readyq, t) /\ In(sleepq, t))
          /\ Holds(t) \/ shand = t => ~In(readyq, t) /\ ~In(sleepq, t)
          /\ ~(Holds(t) /\ shand = t)
          /\ Held(t) /\ loader[t] # "off" => hand = t /\ mpc = "started"
          /\ mpc = "started" /\ hand = t => loader[t] # "off"
          /\ Held(t) \/ loader[t] # "off" => Scheduled(t)

\* A task leaves the places only for its loading thread, or when it is done.
NoneLost ==
    \A t \in Tasks :
       /\ Scheduled(t) /\ ~Done(t) => Held(t) \/ loader[t] # "off"
       /\ state[t] = "FINISHED" => Done(t)
       /\ loader[t] = "ended" => Done(t)

\* The future has a result, and no exception.
Worked(t) == fstate[t] = "FINISHED" /\ exc[t] = "none"

\* A thread that works on a task, the manager or a loading thread, found it not done: since
\* then only a timeout can have ended it.
AtWork ==
    \A t \in Tasks :
       /\ mpc = "body" /\ hand = t => fstate[t] # "CANCELLED" /\ ~Worked(t)
       /\ loader[t] # "off" => fstate[t] # "CANCELLED" /\ t \in Loaders
       /\ loader[t] = "batch" => ~Worked(t) /\ batches[t] < MaxBatches

\* What a client was told is still what the future says, if the task is not hasty.
ToldOK ==
    \A c \in Clients :
       /\ cpc[c] \in {"check", "put"} => c \in Schedulers
       /\ cpc[c] = "back" <=> got[c] # "none"
       /\ TaskOf[c] \in Steady =>
             /\ got[c] = "value" => Worked(TaskOf[c])
             /\ got[c] = "cancelled" => fstate[TaskOf[c]] = "CANCELLED"
             /\ got[c] \in {"error", "timeout"} => fstate[TaskOf[c]] = "FINISHED" /\ exc[TaskOf[c]] # "none"

\* A client comes out of the wait because the future is done, or because it passed a timeout.
TimeoutsOK == \A c \in Clients : cpc[c] = "woken" /\ ~Done(TaskOf[c]) => c \in Timed

Inv == TypeOK /\ HandsOK /\ OnePlace /\ NoneLost /\ AtWork /\ ToldOK /\ TimeoutsOK

\* Without a forced shutdown only the manager takes tasks out of the queues.
OneReader ==
    /\ spc \in {"run", "end"}
    /\ mpc = "get" => readyq # <<>>
    /\ mpc = "sget" => Len(sleepq) >= left
    /\ mpc = "sput" => Len(sleepq) + 1 >= left

-----------------------------------------------------------------------------
(* The futures. *)

FutureTypes ==
    /\ fstate \in [Tasks -> {"PENDING", "CANCELLED", "FINISHED"}]
    /\ result \in [Tasks -> BOOLEAN]
    /\ exc \in [Tasks -> {"none", "error", "timeout"}]
    /\ cpc \in [Clients -> {"check", "put", "ask", "waiting", "woken", "refused", "back"}]
    /\ got \in [Clients -> Outcomes]

\* What CancelledIsFinal asks of a step.
Final == \A t \in Steady : fstate[t] = "CANCELLED" => fstate'[t] = "CANCELLED"

\* set_exception, with an exception of the cluster or a TimeoutError.
Raise(t) == SetException(t, "error") \/ SetException(t, "timeout")

\* The changes the manager, the loading threads and the shutdown make to the future of a task.
FutureOp(t) ==
    \/ UNCHANGED <<futures, clients>>
    \/ fstate[t] # "CANCELLED" /\ SetResult(t)
    \/ fstate[t] # "CANCELLED" /\ ~Worked(t) /\ Raise(t)
    \/ Cancel(t)
    \/ t \in Hasty /\ (SetResult(t) \/ Raise(t))

\* Who waits and who has scheduled: notify_all only moves waiting threads.
LEMMA NotifiedFacts ==
    ASSUME FutureTypes, NEW t \in Tasks, cpc' = cpc \/ cpc' = Notified(t)
    PROVE  /\ cpc' \in [Clients -> {"check", "put", "ask", "waiting", "woken", "refused", "back"}]
           /\ \A c \in Clients : \/ cpc'[c] = cpc[c]
                                 \/ TaskOf[c] = t /\ cpc[c] = "waiting" /\ cpc'[c] = "woken"
           /\ \A u \in Tasks : Scheduled(u)' <=> Scheduled(u)
  <1>1. cpc' \in [Clients -> {"check", "put", "ask", "waiting", "woken", "refused", "back"}]
    BY DEF FutureTypes, Notified
  <1>2. \A c \in Clients : \/ cpc'[c] = cpc[c]
                           \/ TaskOf[c] = t /\ cpc[c] = "waiting" /\ cpc'[c] = "woken"
    BY DEF FutureTypes, Notified
  <1>3. \A u \in Tasks : Scheduled(u)' <=> Scheduled(u)
    BY <1>1, <1>2, TaskAssumption DEF Scheduled
  <1> QED
    BY <1>1, <1>2, <1>3

\* Such a change keeps what the clients were told true, and leaves other futures alone.
LEMMA FutureOpFacts ==
    ASSUME Inv, NEW t \in Tasks, FutureOp(t)
    PROVE  /\ FutureTypes' /\ ToldOK' /\ TimeoutsOK' /\ Final
           /\ \A u \in Tasks : /\ Scheduled(u)' <=> Scheduled(u)
                               /\ Done(u) => Done(u)'
                               /\ u # t => fstate'[u] = fstate[u] /\ exc'[u] = exc[u]
  <1>1. FutureTypes
    BY DEF Inv, TypeOK, FutureTypes
  <1>2. got' = got /\ (cpc' = cpc \/ cpc' = Notified(t))
    BY DEF FutureOp, Raise, SetResult, SetException, Cancel, futures, clients
  <1>3. FutureTypes'
    <2>1. fstate' \in [Tasks -> {"PENDING", "CANCELLED", "FINISHED"}]
      BY <1>1 DEF FutureTypes, FutureOp, Raise, SetResult, SetException, Cancel, futures
    <2>2. result' \in [Tasks -> BOOLEAN]
      BY <1>1 DEF FutureTypes, FutureOp, Raise, SetResult, SetException, Cancel, futures
    <2>3. exc' \in [Tasks -> {"none", "error", "timeout"}]
      BY <1>1 DEF FutureTypes, FutureOp, Raise, SetResult, SetException, Cancel, futures
    <2> QED
      BY <1>1, <1>2, <2>1, <2>2, <2>3, NotifiedFacts DEF FutureTypes
  <1>4. \A u \in Tasks : u # t => fstate'[u] = fstate[u] /\ exc'[u] = exc[u]
    BY <1>1 DEF FutureTypes, FutureOp, Raise, SetResult, SetException, Cancel, futures
  <1>5. \/ fstate'[t] = fstate[t] /\ exc'[t] = exc[t] /\ cpc' = cpc
        \/ fstate[t] # "CANCELLED" /\ fstate'[t] = "FINISHED" /\ exc'[t] = exc[t]
        \/ fstate[t] # "CANCELLED" /\ ~Worked(t) /\ fstate'[t] = "FINISHED" /\ exc'[t] # "none"
        \/ fstate[t] = "PENDING" /\ fstate'[t] = "CANCELLED" /\ exc'[t] = exc[t]
        \/ t \in Hasty /\ fstate'[t] = "FINISHED"
    BY <1>1 DEF FutureTypes, FutureOp, Raise, SetResult, SetException, Cancel, futures, clients
  <1>6. Final
    BY <1>4, <1>5 DEF Final, Steady
  <1>7. \A u \in Tasks : Done(u) => Done(u)'
    BY <1>4, <1>5 DEF Done
  <1>8. \A u \in Tasks : Scheduled(u)' <=> Scheduled(u)
    BY <1>1, <1>2, NotifiedFacts
  <1>9. \A c \in Clients : \/ cpc'[c] = cpc[c]
                           \/ TaskOf[c] = t /\ cpc[c] = "waiting" /\ cpc'[c] = "woken"
    BY <1>1, <1>2, NotifiedFacts
  <1>10. \A c \in Clients : TaskOf[c] \in Tasks
    BY TaskAssumption
  <1>11. \A u \in Steady : Worked(u) => Worked(u)'
    BY <1>4, <1>5 DEF Worked, Steady
  <1>12. \A u \in Steady : fstate[u] = "FINISHED" /\ exc[u] # "none" => fstate'[u] = "FINISHED" /\ exc'[u] # "none"
    BY <1>4, <1>5 DEF Steady
  <1>13. ToldOK'
    BY <1>2, <1>6, <1>9, <1>10, <1>11, <1>12 DEF Inv, ToldOK, Final
  <1>14. TimeoutsOK'
    <2>3. ASSUME NEW c \in Clients, cpc'[c] = "woken", ~Done(TaskOf[c])' PROVE c \in Timed
      <3>1. TaskOf[c] = t => Done(t)' \/ cpc' = cpc
        BY <1>5 DEF Done
      <3>2. cpc'[c] = cpc[c]
        BY <1>9, <2>3, <3>1
      <3>3. ~Done(TaskOf[c])
        BY <1>7, <1>10, <2>3
      <3> QED
        BY <2>3, <3>2, <3>3 DEF Inv, TimeoutsOK
    <2> QED
      BY <2>3 DEF TimeoutsOK
  <1> QED
    BY <1>3, <1>4, <1>6, <1>7, <1>8, <1>13, <1>14

\* A step that leaves futures and clients alone.
LEMMA QuietFacts ==
    ASSUME Inv, UNCHANGED <<futures, clients>>
    PROVE  /\ FutureTypes' /\ ToldOK' /\ TimeoutsOK' /\ Final
           /\ \A u \in Tasks : /\ Scheduled(u)' <=> Scheduled(u)
                               /\ Done(u)' <=> Done(u)
                               /\ Worked(u)' <=> Worked(u)
  <1> USE DEF futures, clients
  <1>1. FutureTypes' /\ Final
    BY DEF Inv, TypeOK, FutureTypes, Final
  <1>2. \A u \in Tasks : (Scheduled(u)' <=> Scheduled(u)) /\ (Done(u)' <=> Done(u)) /\ (Worked(u)' <=> Worked(u))
    BY DEF Scheduled, Done, Worked
  <1>3. ToldOK'
    BY DEF Inv, ToldOK, Worked
  <1>4. TimeoutsOK'
    BY <1>2, TaskAssumption DEF Inv, TimeoutsOK
  <1> QED
    BY <1>1, <1>2, <1>3, <1>4

\* set_result, set_exception and cancel leave the future done.
LEMMA Ended ==
    ASSUME TypeOK, NEW t \in Tasks, SetResult(t) \/ Raise(t) \/ Cancel(t)
    PROVE  Done(t)'
  BY DEF TypeOK, Raise, SetResult, SetException, Cancel, Done, futures

\* set_exception leaves it without a result, and set_result does not cancel it.
LEMMA Excepted ==
    ASSUME TypeOK, NEW t \in Tasks
    PROVE  /\ Raise(t) => fstate'[t] = "FINISHED" /\ ~Worked(t)'
           /\ SetResult(t) => fstate'[t] = "FINISHED"
  BY DEF Raise, TypeOK, SetResult, SetException, Worked

-----------------------------------------------------------------------------
(* The manager. *)

\* The loop goes on while there is work.
LEMMA WhileStep == ASSUME Inv, While PROVE Inv' /\ Final
  <1> USE DEF While, queues, manager, futures, work, clients, closer
  <1>1. /\ FutureTypes' /\ ToldOK' /\ TimeoutsOK' /\ Final
        /\ \A u \in Tasks : /\ Scheduled(u)' <=> Scheduled(u)
                            /\ Done(u)' <=> Done(u)
                            /\ Worked(u)' <=> Worked(u)
    BY QuietFacts
  <1>2. TypeOK'
    BY <1>1 DEF Inv, TypeOK, FutureTypes
  <1>3. HandsOK'
    BY <1>1, TaskAssumption DEF Inv, TypeOK, HandsOK, Holding, Midway, Closing
  <1>4. OnePlace'
    BY <1>1, TaskAssumption DEF Inv, TypeOK, HandsOK, Holding, Midway, Closing, OnePlace, Held, Holds
  <1>5. NoneLost'
    BY <1>1, TaskAssumption DEF Inv, TypeOK, HandsOK, Holding, Midway, Closing, OnePlace, NoneLost, Held, Holds
  <1>6. AtWork'
    BY <1>1, TaskAssumption DEF Inv, TypeOK, HandsOK, Holding, Midway, Closing, OnePlace, AtWork, Held, Holds
  <1> QED
    BY <1>1, <1>2, <1>3, <1>4, <1>5, <1>6 DEF Inv

\* empty() changes nothing.
LEMMA PickStep == ASSUME Inv, Pick PROVE Inv' /\ Final
  <1> USE DEF Pick, queues, manager, futures, work, clients, closer
  <1>1. /\ FutureTypes' /\ ToldOK' /\ TimeoutsOK' /\ Final
        /\ \A u \in Tasks : /\ Scheduled(u)' <=> Scheduled(u)
                            /\ Done(u)' <=> Done(u)
                            /\ Worked(u)' <=> Worked(u)
    BY QuietFacts
  <1>2. TypeOK'
    BY <1>1 DEF Inv, TypeOK, FutureTypes
  <1>3. HandsOK'
    BY <1>1, TaskAssumption DEF Inv, TypeOK, HandsOK, Holding, Midway, Closing
  <1>4. OnePlace'
    BY <1>1, TaskAssumption DEF Inv, TypeOK, HandsOK, Holding, Midway, Closing, OnePlace, Held, Holds
  <1>5. NoneLost'
    BY <1>1, TaskAssumption DEF Inv, TypeOK, HandsOK, Holding, Midway, Closing, OnePlace, NoneLost, Held, Holds
  <1>6. AtWork'
    BY <1>1, TaskAssumption DEF Inv, TypeOK, HandsOK, Holding, Midway, Closing, OnePlace, AtWork, Held, Holds
  <1> QED
    BY <1>1, <1>2, <1>3, <1>4, <1>5, <1>6 DEF Inv

\* The manager takes a task from readyq.
LEMMA GetStep == ASSUME Inv, Get PROVE Inv' /\ Final
  <1> USE DEF Get, queues, manager, futures, work, clients, closer
  <1>1. /\ FutureTypes' /\ ToldOK' /\ TimeoutsOK' /\ Final
        /\ \A u \in Tasks : /\ Scheduled(u)' <=> Scheduled(u)
                            /\ Done(u)' <=> Done(u)
                            /\ Worked(u)' <=> Worked(u)
    BY QuietFacts
  <1>2. /\ readyq' \in Seq(Tasks) /\ hand' \in Tasks /\ (Once(readyq) => Once(readyq') /\ ~In(readyq', hand'))
        /\ \A t : In(readyq, t) <=> In(readyq', t) \/ t = hand'
    BY GetIn DEF Inv, TypeOK
  <1>3. TypeOK'
    BY <1>1, <1>2 DEF Inv, TypeOK, FutureTypes
  <1>4. HandsOK'
    BY <1>1, <1>2, TaskAssumption DEF Inv, TypeOK, HandsOK, Holding, Midway, Closing
  <1>5. OnePlace'
    BY <1>1, <1>2, TaskAssumption DEF Inv, TypeOK, HandsOK, Holding, Midway, Closing, OnePlace, Held, Holds
  <1>6. NoneLost'
    BY <1>1, <1>2, TaskAssumption DEF Inv, TypeOK, HandsOK, Holding, Midway, Closing, OnePlace, NoneLost, Held, Holds
  <1>7. AtWork'
    BY <1>1, <1>2, TaskAssumption DEF Inv, TypeOK, HandsOK, Holding, Midway, Closing, OnePlace, AtWork, Held, Holds
  <1> QED
    BY <1>1, <1>3, <1>4, <1>5, <1>6, <1>7 DEF Inv

\* A task that is done is dropped, one that is not is put back or worked on.
LEMMA StepStep == ASSUME Inv, Step PROVE Inv' /\ Final
  <1> USE DEF Step, Reschedule, LetGo, Raise, queues, manager, futures, work, clients, closer
  <1>1. hand \in Tasks
    BY DEF Inv, TypeOK
  <1>2. FutureOp(hand)
    BY DEF FutureOp, Done, Worked
  <1>3. /\ FutureTypes' /\ ToldOK' /\ TimeoutsOK' /\ Final
        /\ \A u \in Tasks : /\ Scheduled(u)' <=> Scheduled(u)
                            /\ Done(u) => Done(u)'
                            /\ u # hand => fstate'[u] = fstate[u] /\ exc'[u] = exc[u]
    BY <1>1, <1>2, FutureOpFacts
  <1>4. \/ hand' = hand
        \/ /\ hand' = NoTask
           /\ \/ SetResult(hand) \/ Raise(hand) \/ Cancel(hand)
              \/ Done(hand) \/ state[hand] = "FINISHED"
    OBVIOUS
  <1>5. state' \in [Tasks -> {"PENDING", "EXECUTING", "CHECKING", "FINISHED"}]
    BY <1>1 DEF Inv, TypeOK
  <1>6. \A u \in Tasks : state'[u] = "FINISHED" => Done(u)'
    BY <1>1, <1>3, Ended DEF Inv, TypeOK, NoneLost
  <1>7. hand' = hand \/ (hand' = NoTask /\ \A u \in Tasks : u = hand => Done(u)')
    BY <1>1, <1>3, <1>4, Ended DEF Inv, NoneLost
  <1>8. TypeOK'
    BY <1>3, <1>1, <1>4, <1>5, <1>6, <1>7 DEF Inv, TypeOK, FutureTypes
  <1>9. HandsOK'
    BY <1>3, <1>1, <1>4, <1>5, <1>6, <1>7, TaskAssumption DEF Inv, TypeOK, HandsOK, Holding, Midway, Closing
  <1>10. OnePlace'
    BY <1>3, <1>1, <1>4, <1>5, <1>6, <1>7, TaskAssumption DEF Inv, TypeOK, HandsOK, Holding, Midway, Closing, OnePlace, Held, Holds
  <1>11. NoneLost'
    BY <1>3, <1>1, <1>4, <1>5, <1>6, <1>7, TaskAssumption DEF Inv, TypeOK, HandsOK, Holding, Midway, Closing, OnePlace, NoneLost, Held, Holds
  <1>12. AtWork'
    BY <1>3, <1>1, <1>4, <1>5, <1>6, <1>7, TaskAssumption DEF Inv, TypeOK, HandsOK, Holding, Midway, Closing, OnePlace, AtWork, Held, Holds, Worked, Done
  <1> QED
    BY <1>3, <1>8, <1>9, <1>10, <1>11, <1>12 DEF Inv

\* The work is done: it was still the manager's.
LEMMA SucceedStep == ASSUME Inv, Succeed PROVE Inv' /\ Final
  <1> USE DEF Succeed, Reschedule, LetGo, Raise, queues, manager, futures, work, clients, closer
  <1>1. hand \in Tasks
    BY DEF Inv, TypeOK
  <1>2. FutureOp(hand)
    BY DEF Inv, TypeOK, AtWork, FutureOp
  <1>3. /\ FutureTypes' /\ ToldOK' /\ TimeoutsOK' /\ Final
        /\ \A u \in Tasks : /\ Scheduled(u)' <=> Scheduled(u)
                            /\ Done(u) => Done(u)'
                            /\ u # hand => fstate'[u] = fstate[u] /\ exc'[u] = exc[u]
    BY <1>1, <1>2, FutureOpFacts
  <1>4. \/ hand' = hand
        \/ /\ hand' = NoTask
           /\ \/ SetResult(hand) \/ Raise(hand) \/ Cancel(hand)
              \/ Done(hand) \/ state[hand] = "FINISHED"
    OBVIOUS
  <1>5. state' \in [Tasks -> {"PENDING", "EXECUTING", "CHECKING", "FINISHED"}]
    BY <1>1 DEF Inv, TypeOK
  <1>6. \A u \in Tasks : state'[u] = "FINISHED" => Done(u)'
    BY <1>1, <1>3, Ended DEF Inv, TypeOK, NoneLost
  <1>7. hand' = hand \/ (hand' = NoTask /\ \A u \in Tasks : u = hand => Done(u)')
    BY <1>1, <1>3, <1>4, Ended DEF Inv, NoneLost
  <1>8. TypeOK'
    BY <1>3, <1>1, <1>4, <1>5, <1>6, <1>7 DEF Inv, TypeOK, FutureTypes
  <1>9. HandsOK'
    BY <1>3, <1>1, <1>4, <1>5, <1>6, <1>7, TaskAssumption DEF Inv, TypeOK, HandsOK, Holding, Midway, Closing
  <1>10. OnePlace'
    BY <1>3, <1>1, <1>4, <1>5, <1>6, <1>7, TaskAssumption DEF Inv, TypeOK, HandsOK, Holding, Midway, Closing, OnePlace, Held, Holds
  <1>11. NoneLost'
    BY <1>3, <1>1, <1>4, <1>5, <1>6, <1>7, TaskAssumption DEF Inv, TypeOK, HandsOK, Holding, Midway, Closing, OnePlace, NoneLost, Held, Holds
  <1>12. AtWork'
    BY <1>3, <1>1, <1>4, <1>5, <1>6, <1>7, TaskAssumption DEF Inv, TypeOK, HandsOK, Holding, Midway, Closing, OnePlace, AtWork, Held, Holds, Worked, Done
  <1> QED
    BY <1>3, <1>8, <1>9, <1>10, <1>11, <1>12 DEF Inv

\* The work has failed.
LEMMA FailStep == ASSUME Inv, Fail PROVE Inv' /\ Final
  <1> USE DEF Fail, Reschedule, LetGo, Raise, queues, manager, futures, work, clients, closer
  <1>1. hand \in Tasks
    BY DEF Inv, TypeOK
  <1>2. FutureOp(hand)
    BY DEF Inv, TypeOK, AtWork, FutureOp
  <1>3. /\ FutureTypes' /\ ToldOK' /\ TimeoutsOK' /\ Final
        /\ \A u \in Tasks : /\ Scheduled(u)' <=> Scheduled(u)
                            /\ Done(u) => Done(u)'
                            /\ u # hand => fstate'[u] = fstate[u] /\ exc'[u] = exc[u]
    BY <1>1, <1>2, FutureOpFacts
  <1>4. \/ hand' = hand
        \/ /\ hand' = NoTask
           /\ \/ SetResult(hand) \/ Raise(hand) \/ Cancel(hand)
              \/ Done(hand) \/ state[hand] = "FINISHED"
    OBVIOUS
  <1>5. state' \in [Tasks -> {"PENDING", "EXECUTING", "CHECKING", "FINISHED"}]
    BY <1>1 DEF Inv, TypeOK
  <1>6. \A u \in Tasks : state'[u] = "FINISHED" => Done(u)'
    BY <1>1, <1>3, Ended DEF Inv, TypeOK, NoneLost
  <1>7. hand' = hand \/ (hand' = NoTask /\ \A u \in Tasks : u = hand => Done(u)')
    BY <1>1, <1>3, <1>4, Ended DEF Inv, NoneLost
  <1>8. TypeOK'
    BY <1>3, <1>1, <1>4, <1>5, <1>6, <1>7 DEF Inv, TypeOK, FutureTypes
  <1>9. HandsOK'
    BY <1>3, <1>1, <1>4, <1>5, <1>6, <1>7, TaskAssumption DEF Inv, TypeOK, HandsOK, Holding, Midway, Closing
  <1>10. OnePlace'
    BY <1>3, <1>1, <1>4, <1>5, <1>6, <1>7, TaskAssumption DEF Inv, TypeOK, HandsOK, Holding, Midway, Closing, OnePlace, Held, Holds
  <1>11. NoneLost'
    BY <1>3, <1>1, <1>4, <1>5, <1>6, <1>7, TaskAssumption DEF Inv, TypeOK, HandsOK, Holding, Midway, Closing, OnePlace, NoneLost, Held, Holds
  <1>12. AtWork'
    BY <1>3, <1>1, <1>4, <1>5, <1>6, <1>7, TaskAssumption DEF Inv, TypeOK, HandsOK, Holding, Midway, Closing, OnePlace, AtWork, Held, Holds, Worked, Done
  <1> QED
    BY <1>3, <1>8, <1>9, <1>10, <1>11, <1>12 DEF Inv

\* A failed task may go round once more.
LEMMA FailAndRescheduleStep == ASSUME Inv, FailAndReschedule PROVE Inv' /\ Final
  <1> USE DEF FailAndReschedule, Reschedule, LetGo, Raise, queues, manager, futures, work, clients, closer
  <1>1. hand \in Tasks
    BY DEF Inv, TypeOK
  <1>2. FutureOp(hand)
    BY DEF Inv, TypeOK, AtWork, FutureOp
  <1>3. /\ FutureTypes' /\ ToldOK' /\ TimeoutsOK' /\ Final
        /\ \A u \in Tasks : /\ Scheduled(u)' <=> Scheduled(u)
                            /\ Done(u) => Done(u)'
                            /\ u # hand => fstate'[u] = fstate[u] /\ exc'[u] = exc[u]
    BY <1>1, <1>2, FutureOpFacts
  <1>4. \/ hand' = hand
        \/ /\ hand' = NoTask
           /\ \/ SetResult(hand) \/ Raise(hand) \/ Cancel(hand)
              \/ Done(hand) \/ state[hand] = "FINISHED"
    OBVIOUS
  <1>5. state' \in [Tasks -> {"PENDING", "EXECUTING", "CHECKING", "FINISHED"}]
    BY <1>1 DEF Inv, TypeOK
  <1>6. \A u \in Tasks : state'[u] = "FINISHED" => Done(u)'
    BY <1>1, <1>3, Ended DEF Inv, TypeOK, NoneLost
  <1>7. hand' = hand \/ (hand' = NoTask /\ \A u \in Tasks : u = hand => Done(u)')
    BY <1>1, <1>3, <1>4, Ended DEF Inv, NoneLost
  <1>8. TypeOK'
    BY <1>3, <1>1, <1>4, <1>5, <1>6, <1>7 DEF Inv, TypeOK, FutureTypes
  <1>9. HandsOK'
    BY <1>3, <1>1, <1>4, <1>5, <1>6, <1>7, TaskAssumption DEF Inv, TypeOK, HandsOK, Holding, Midway, Closing
  <1>10. OnePlace'
    BY <1>3, <1>1, <1>4, <1>5, <1>6, <1>7, TaskAssumption DEF Inv, TypeOK, HandsOK, Holding, Midway, Closing, OnePlace, Held, Holds
  <1>11. NoneLost'
    BY <1>3, <1>1, <1>4, <1>5, <1>6, <1>7, TaskAssumption DEF Inv, TypeOK, HandsOK, Holding, Midway, Closing, OnePlace, NoneLost, Held, Holds
  <1>12. AtWork'
    BY <1>3, <1>1, <1>4, <1>5, <1>6, <1>7, TaskAssumption DEF Inv, TypeOK, HandsOK, Holding, Midway, Closing, OnePlace, AtWork, Held, Holds, Worked, Done
  <1> QED
    BY <1>3, <1>8, <1>9, <1>10, <1>11, <1>12 DEF Inv

\* A hasty task answers: it is done, whatever its method does after that.
LEMMA AnswerFirstStep == ASSUME Inv, AnswerFirst PROVE Inv' /\ Final
  <1> USE DEF AnswerFirst, Reschedule, LetGo, Raise, queues, manager, futures, work, clients, closer
  <1>1. hand \in Tasks /\ hand \in Hasty
    BY TaskAssumption DEF Inv, TypeOK, HandsOK, Midway
  <1>2. FutureOp(hand)
    BY <1>1 DEF FutureOp
  <1>3. /\ FutureTypes' /\ ToldOK' /\ TimeoutsOK' /\ Final
        /\ \A u \in Tasks : /\ Scheduled(u)' <=> Scheduled(u)
                            /\ Done(u) => Done(u)'
                            /\ u # hand => fstate'[u] = fstate[u] /\ exc'[u] = exc[u]
    BY <1>1, <1>2, FutureOpFacts
  <1>4. \/ hand' = hand
        \/ /\ hand' = NoTask
           /\ \/ SetResult(hand) \/ Raise(hand) \/ Cancel(hand)
              \/ Done(hand) \/ state[hand] = "FINISHED"
    OBVIOUS
  <1>5. state' \in [Tasks -> {"PENDING", "EXECUTING", "CHECKING", "FINISHED"}]
    BY <1>1 DEF Inv, TypeOK
  <1>6. \A u \in Tasks : state'[u] = "FINISHED" => Done(u)'
    BY <1>1, <1>3, Ended DEF Inv, TypeOK, NoneLost
  <1>7. hand' = hand \/ (hand' = NoTask /\ \A u \in Tasks : u = hand => Done(u)')
    BY <1>1, <1>3, <1>4, Ended DEF Inv, NoneLost
  <1>8. TypeOK'
    BY <1>3, <1>1, <1>4, <1>5, <1>6, <1>7 DEF Inv, TypeOK, FutureTypes
  <1>9. HandsOK'
    BY <1>3, <1>1, <1>4, <1>5, <1>6, <1>7, TaskAssumption DEF Inv, TypeOK, HandsOK, Holding, Midway, Closing
  <1>10. OnePlace'
    BY <1>3, <1>1, <1>4, <1>5, <1>6, <1>7, TaskAssumption DEF Inv, TypeOK, HandsOK, Holding, Midway, Closing, OnePlace, Held, Holds
  <1>11. NoneLost'
    BY <1>3, <1>1, <1>4, <1>5, <1>6, <1>7, TaskAssumption DEF Inv, TypeOK, HandsOK, Holding, Midway, Closing, OnePlace, NoneLost, Held, Holds
  <1>12. AtWork'
    BY <1>3, <1>1, <1>4, <1>5, <1>6, <1>7, TaskAssumption DEF Inv, TypeOK, HandsOK, Holding, Midway, Closing, OnePlace, AtWork, Held, Holds, Worked, Done
  <1> QED
    BY <1>3, <1>8, <1>9, <1>10, <1>11, <1>12 DEF Inv

\* A task that has answered is scheduled, or gets the exception of schedule() on top.
LEMMA AgainStep == ASSUME Inv, Again PROVE Inv' /\ Final
  <1> USE DEF Again, Reschedule, LetGo, Raise, queues, manager, futures, work, clients, closer
  <1>1. hand \in Tasks /\ hand \in Hasty
    BY TaskAssumption DEF Inv, TypeOK, HandsOK, Midway
  <1>2. FutureOp(hand)
    BY <1>1 DEF FutureOp
  <1>3. /\ FutureTypes' /\ ToldOK' /\ TimeoutsOK' /\ Final
        /\ \A u \in Tasks : /\ Scheduled(u)' <=> Scheduled(u)
                            /\ Done(u) => Done(u)'
                            /\ u # hand => fstate'[u] = fstate[u] /\ exc'[u] = exc[u]
    BY <1>1, <1>2, FutureOpFacts
  <1>4. \/ hand' = hand
        \/ /\ hand' = NoTask
           /\ \/ SetResult(hand) \/ Raise(hand) \/ Cancel(hand)
              \/ Done(hand) \/ state[hand] = "FINISHED"
    OBVIOUS
  <1>5. state' \in [Tasks -> {"PENDING", "EXECUTING", "CHECKING", "FINISHED"}]
    BY <1>1 DEF Inv, TypeOK
  <1>6. \A u \in Tasks : state'[u] = "FINISHED" => Done(u)'
    BY <1>1, <1>3, Ended DEF Inv, TypeOK, NoneLost
  <1>7. hand' = hand \/ (hand' = NoTask /\ \A u \in Tasks : u = hand => Done(u)')
    BY <1>1, <1>3, <1>4, Ended DEF Inv, NoneLost
  <1>8. TypeOK'
    BY <1>3, <1>1, <1>4, <1>5, <1>6, <1>7 DEF Inv, TypeOK, FutureTypes
  <1>9. HandsOK'
    BY <1>3, <1>1, <1>4, <1>5, <1>6, <1>7, TaskAssumption DEF Inv, TypeOK, HandsOK, Holding, Midway, Closing
  <1>10. OnePlace'
    BY <1>3, <1>1, <1>4, <1>5, <1>6, <1>7, TaskAssumption DEF Inv, TypeOK, HandsOK, Holding, Midway, Closing, OnePlace, Held, Holds
  <1>11. NoneLost'
    BY <1>3, <1>1, <1>4, <1>5, <1>6, <1>7, TaskAssumption DEF Inv, TypeOK, HandsOK, Holding, Midway, Closing, OnePlace, NoneLost, Held, Holds
  <1>12. AtWork'
    BY <1>3, <1>1, <1>4, <1>5, <1>6, <1>7, TaskAssumption DEF Inv, TypeOK, HandsOK, Holding, Midway, Closing, OnePlace, AtWork, Held, Holds, Worked, Done
  <1> QED
    BY <1>3, <1>8, <1>9, <1>10, <1>11, <1>12 DEF Inv

\* A hasty task is about to schedule itself.
LEMMA ScheduleFirstStep == ASSUME Inv, ScheduleFirst PROVE Inv' /\ Final
  <1> USE DEF ScheduleFirst, Reschedule, LetGo, Raise, queues, manager, futures, work, clients, closer
  <1>1. hand \in Tasks /\ hand \in Hasty
    BY TaskAssumption DEF Inv, TypeOK, HandsOK, Midway
  <1>2. FutureOp(hand)
    BY <1>1 DEF FutureOp
  <1>3. /\ FutureTypes' /\ ToldOK' /\ TimeoutsOK' /\ Final
        /\ \A u \in Tasks : /\ Scheduled(u)' <=> Scheduled(u)
                            /\ Done(u) => Done(u)'
                            /\ u # hand => fstate'[u] = fstate[u] /\ exc'[u] = exc[u]
    BY <1>1, <1>2, FutureOpFacts
  <1>4. \/ hand' = hand
        \/ /\ hand' = NoTask
           /\ \/ SetResult(hand) \/ Raise(hand) \/ Cancel(hand)
              \/ Done(hand) \/ state[hand] = "FINISHED"
    OBVIOUS
  <1>5. state' \in [Tasks -> {"PENDING", "EXECUTING", "CHECKING", "FINISHED"}]
    BY <1>1 DEF Inv, TypeOK
  <1>6. \A u \in Tasks : state'[u] = "FINISHED" => Done(u)'
    BY <1>1, <1>3, Ended DEF Inv, TypeOK, NoneLost
  <1>7. hand' = hand \/ (hand' = NoTask /\ \A u \in Tasks : u = hand => Done(u)')
    BY <1>1, <1>3, <1>4, Ended DEF Inv, NoneLost
  <1>8. TypeOK'
    BY <1>3, <1>1, <1>4, <1>5, <1>6, <1>7 DEF Inv, TypeOK, FutureTypes
  <1>9. HandsOK'
    BY <1>3, <1>1, <1>4, <1>5, <1>6, <1>7, TaskAssumption DEF Inv, TypeOK, HandsOK, Holding, Midway, Closing
  <1>10. OnePlace'
    BY <1>3, <1>1, <1>4, <1>5, <1>6, <1>7, TaskAssumption DEF Inv, TypeOK, HandsOK, Holding, Midway, Closing, OnePlace, Held, Holds
  <1>11. NoneLost'
    BY <1>3, <1>1, <1>4, <1>5, <1>6, <1>7, TaskAssumption DEF Inv, TypeOK, HandsOK, Holding, Midway, Closing, OnePlace, NoneLost, Held, Holds
  <1>12. AtWork'
    BY <1>3, <1>1, <1>4, <1>5, <1>6, <1>7, TaskAssumption DEF Inv, TypeOK, HandsOK, Holding, Midway, Closing, OnePlace, AtWork, Held, Holds, Worked, Done
  <1> QED
    BY <1>3, <1>8, <1>9, <1>10, <1>11, <1>12 DEF Inv

\* The last answer of a hasty task, which may overwrite anything.
LEMMA AnswerLastStep == ASSUME Inv, AnswerLast PROVE Inv' /\ Final
  <1> USE DEF AnswerLast, Reschedule, LetGo, Raise, queues, manager, futures, work, clients, closer
  <1>1. hand \in Tasks /\ hand \in Hasty
    BY TaskAssumption DEF Inv, TypeOK, HandsOK, Midway
  <1>2. FutureOp(hand)
    BY <1>1 DEF FutureOp
  <1>3. /\ FutureTypes' /\ ToldOK' /\ TimeoutsOK' /\ Final
        /\ \A u \in Tasks : /\ Scheduled(u)' <=> Scheduled(u)
                            /\ Done(u) => Done(u)'
                            /\ u # hand => fstate'[u] = fstate[u] /\ exc'[u] = exc[u]
    BY <1>1, <1>2, FutureOpFacts
  <1>4. \/ hand' = hand
        \/ /\ hand' = NoTask
           /\ \/ SetResult(hand) \/ Raise(hand) \/ Cancel(hand)
              \/ Done(hand) \/ state[hand] = "FINISHED"
    OBVIOUS
  <1>5. state' \in [Tasks -> {"PENDING", "EXECUTING", "CHECKING", "FINISHED"}]
    BY <1>1 DEF Inv, TypeOK
  <1>6. \A u \in Tasks : state'[u] = "FINISHED" => Done(u)'
    BY <1>1, <1>3, Ended DEF Inv, TypeOK, NoneLost
  <1>7. hand' = hand \/ (hand' = NoTask /\ \A u \in Tasks : u = hand => Done(u)')
    BY <1>1, <1>3, <1>4, Ended DEF Inv, NoneLost
  <1>8. TypeOK'
    BY <1>3, <1>1, <1>4, <1>5, <1>6, <1>7 DEF Inv, TypeOK, FutureTypes
  <1>9. HandsOK'
    BY <1>3, <1>1, <1>4, <1>5, <1>6, <1>7, TaskAssumption DEF Inv, TypeOK, HandsOK, Holding, Midway, Closing
  <1>10. OnePlace'
    BY <1>3, <1>1, <1>4, <1>5, <1>6, <1>7, TaskAssumption DEF Inv, TypeOK, HandsOK, Holding, Midway, Closing, OnePlace, Held, Holds
  <1>11. NoneLost'
    BY <1>3, <1>1, <1>4, <1>5, <1>6, <1>7, TaskAssumption DEF Inv, TypeOK, HandsOK, Holding, Midway, Closing, OnePlace, NoneLost, Held, Holds
  <1>12. AtWork'
    BY <1>3, <1>1, <1>4, <1>5, <1>6, <1>7, TaskAssumption DEF Inv, TypeOK, HandsOK, Holding, Midway, Closing, OnePlace, AtWork, Held, Holds, Worked, Done
  <1> QED
    BY <1>3, <1>8, <1>9, <1>10, <1>11, <1>12 DEF Inv

\* A hasty task goes to sleepq and stays in the hand of the manager, which does not count it there.
LEMMA PutFirstStep == ASSUME Inv, PutFirst PROVE Inv' /\ Final
  <1> USE DEF PutFirst, LetGo, queues, manager, futures, work, clients, closer
  <1>1. /\ FutureTypes' /\ ToldOK' /\ TimeoutsOK' /\ Final
        /\ \A u \in Tasks : /\ Scheduled(u)' <=> Scheduled(u)
                            /\ Done(u)' <=> Done(u)
                            /\ Worked(u)' <=> Worked(u)
    BY QuietFacts
  <1>2. /\ sleepq' \in Seq(Tasks) /\ (Once(sleepq) /\ ~In(sleepq, hand) => Once(sleepq'))
        /\ \A t : In(sleepq', t) <=> In(sleepq, t) \/ t = hand
    BY PutIn DEF Inv, TypeOK
  <1>3. TypeOK'
    BY <1>1, <1>2 DEF Inv, TypeOK, FutureTypes
  <1>4. HandsOK'
    BY <1>1, <1>2, TaskAssumption DEF Inv, TypeOK, HandsOK, Holding, Midway, Closing
  <1>5. OnePlace'
    BY <1>1, <1>2, TaskAssumption DEF Inv, TypeOK, HandsOK, Holding, Midway, Closing, OnePlace, Held, Holds
  <1>6. NoneLost'
    BY <1>1, <1>2, TaskAssumption DEF Inv, TypeOK, HandsOK, Holding, Midway, Closing, OnePlace, NoneLost, Held, Holds
  <1>7. AtWork'
    BY <1>1, <1>2, TaskAssumption DEF Inv, TypeOK, HandsOK, Holding, Midway, Closing, OnePlace, AtWork, Held, Holds
  <1> QED
    BY <1>1, <1>3, <1>4, <1>5, <1>6, <1>7 DEF Inv

\* The work goes on elsewhere.
LEMMA StartCheckingStep == ASSUME Inv, StartChecking PROVE Inv' /\ Final
  <1> USE DEF StartChecking, Reschedule, LetGo, Raise, queues, manager, futures, work, clients, closer
  <1>1. hand \in Tasks
    BY DEF Inv, TypeOK
  <1>2. FutureOp(hand)
    BY DEF Inv, TypeOK, AtWork, FutureOp
  <1>3. /\ FutureTypes' /\ ToldOK' /\ TimeoutsOK' /\ Final
        /\ \A u \in Tasks : /\ Scheduled(u)' <=> Scheduled(u)
                            /\ Done(u) => Done(u)'
                            /\ u # hand => fstate'[u] = fstate[u] /\ exc'[u] = exc[u]
    BY <1>1, <1>2, FutureOpFacts
  <1>4. \/ hand' = hand
        \/ /\ hand' = NoTask
           /\ \/ SetResult(hand) \/ Raise(hand) \/ Cancel(hand)
              \/ Done(hand) \/ state[hand] = "FINISHED"
    OBVIOUS
  <1>5. state' \in [Tasks -> {"PENDING", "EXECUTING", "CHECKING", "FINISHED"}]
    BY <1>1 DEF Inv, TypeOK
  <1>6. \A u \in Tasks : state'[u] = "FINISHED" => Done(u)'
    BY <1>1, <1>3, Ended DEF Inv, TypeOK, NoneLost
  <1>7. hand' = hand \/ (hand' = NoTask /\ \A u \in Tasks : u = hand => Done(u)')
    BY <1>1, <1>3, <1>4, Ended DEF Inv, NoneLost
  <1>8. TypeOK'
    BY <1>3, <1>1, <1>4, <1>5, <1>6, <1>7 DEF Inv, TypeOK, FutureTypes
  <1>9. HandsOK'
    BY <1>3, <1>1, <1>4, <1>5, <1>6, <1>7, TaskAssumption DEF Inv, TypeOK, HandsOK, Holding, Midway, Closing
  <1>10. OnePlace'
    BY <1>3, <1>1, <1>4, <1>5, <1>6, <1>7, TaskAssumption DEF Inv, TypeOK, HandsOK, Holding, Midway, Closing, OnePlace, Held, Holds
  <1>11. NoneLost'
    BY <1>3, <1>1, <1>4, <1>5, <1>6, <1>7, TaskAssumption DEF Inv, TypeOK, HandsOK, Holding, Midway, Closing, OnePlace, NoneLost, Held, Holds
  <1>12. AtWork'
    BY <1>3, <1>1, <1>4, <1>5, <1>6, <1>7, TaskAssumption DEF Inv, TypeOK, HandsOK, Holding, Midway, Closing, OnePlace, AtWork, Held, Holds, Worked, Done
  <1> QED
    BY <1>3, <1>8, <1>9, <1>10, <1>11, <1>12 DEF Inv

\* The work is unfinished.
LEMMA PollStep == ASSUME Inv, Poll PROVE Inv' /\ Final
  <1> USE DEF Poll, Reschedule, LetGo, Raise, queues, manager, futures, work, clients, closer
  <1>1. hand \in Tasks
    BY DEF Inv, TypeOK
  <1>2. FutureOp(hand)
    BY DEF Inv, TypeOK, AtWork, FutureOp
  <1>3. /\ FutureTypes' /\ ToldOK' /\ TimeoutsOK' /\ Final
        /\ \A u \in Tasks : /\ Scheduled(u)' <=> Scheduled(u)
                            /\ Done(u) => Done(u)'
                            /\ u # hand => fstate'[u] = fstate[u] /\ exc'[u] = exc[u]
    BY <1>1, <1>2, FutureOpFacts
  <1>4. \/ hand' = hand
        \/ /\ hand' = NoTask
           /\ \/ SetResult(hand) \/ Raise(hand) \/ Cancel(hand)
              \/ Done(hand) \/ state[hand] = "FINISHED"
    OBVIOUS
  <1>5. state' \in [Tasks -> {"PENDING", "EXECUTING", "CHECKING", "FINISHED"}]
    BY <1>1 DEF Inv, TypeOK
  <1>6. \A u \in Tasks : state'[u] = "FINISHED" => Done(u)'
    BY <1>1, <1>3, Ended DEF Inv, TypeOK, NoneLost
  <1>7. hand' = hand \/ (hand' = NoTask /\ \A u \in Tasks : u = hand => Done(u)')
    BY <1>1, <1>3, <1>4, Ended DEF Inv, NoneLost
  <1>8. polls' \in [Tasks -> 0..MaxPolls]
    BY <1>1, TaskAssumption DEF Inv, TypeOK
  <1>9. TypeOK'
    BY <1>3, <1>1, <1>4, <1>5, <1>6, <1>7, <1>8 DEF Inv, TypeOK, FutureTypes
  <1>10. HandsOK'
    BY <1>3, <1>1, <1>4, <1>5, <1>6, <1>7, <1>8, TaskAssumption DEF Inv, TypeOK, HandsOK, Holding, Midway, Closing
  <1>11. OnePlace'
    BY <1>3, <1>1, <1>4, <1>5, <1>6, <1>7, <1>8, TaskAssumption DEF Inv, TypeOK, HandsOK, Holding, Midway, Closing, OnePlace, Held, Holds
  <1>12. NoneLost'
    BY <1>3, <1>1, <1>4, <1>5, <1>6, <1>7, <1>8, TaskAssumption DEF Inv, TypeOK, HandsOK, Holding, Midway, Closing, OnePlace, NoneLost, Held, Holds
  <1>13. AtWork'
    BY <1>3, <1>1, <1>4, <1>5, <1>6, <1>7, <1>8, TaskAssumption DEF Inv, TypeOK, HandsOK, Holding, Midway, Closing, OnePlace, AtWork, Held, Holds, Worked, Done
  <1> QED
    BY <1>3, <1>9, <1>10, <1>11, <1>12, <1>13 DEF Inv

\* A loading task leaves the queues for its thread.
LEMMA StartLoaderStep == ASSUME Inv, StartLoader PROVE Inv' /\ Final
  <1> USE DEF StartLoader, queues, manager, futures, work, clients, closer
  <1>1. /\ FutureTypes' /\ ToldOK' /\ TimeoutsOK' /\ Final
        /\ \A u \in Tasks : /\ Scheduled(u)' <=> Scheduled(u)
                            /\ Done(u)' <=> Done(u)
                            /\ Worked(u)' <=> Worked(u)
    BY QuietFacts
  <1>2. TypeOK'
    BY <1>1 DEF Inv, TypeOK, FutureTypes
  <1>3. HandsOK'
    BY <1>1, TaskAssumption DEF Inv, TypeOK, HandsOK, Holding, Midway, Closing
  <1>4. OnePlace'
    BY <1>1, TaskAssumption DEF Inv, TypeOK, HandsOK, Holding, Midway, Closing, OnePlace, Held, Holds
  <1>5. NoneLost'
    BY <1>1, TaskAssumption DEF Inv, TypeOK, HandsOK, Holding, Midway, Closing, OnePlace, NoneLost, Held, Holds
  <1>6. AtWork'
    BY <1>1, TaskAssumption DEF Inv, TypeOK, HandsOK, Holding, Midway, Closing, OnePlace, AtWork, Held, Holds
  <1> QED
    BY <1>1, <1>2, <1>3, <1>4, <1>5, <1>6 DEF Inv

\* The manager lets go of it.
LEMMA StartedStep == ASSUME Inv, Started PROVE Inv' /\ Final
  <1> USE DEF Started, LetGo, queues, manager, futures, work, clients, closer
  <1>1. /\ FutureTypes' /\ ToldOK' /\ TimeoutsOK' /\ Final
        /\ \A u \in Tasks : /\ Scheduled(u)' <=> Scheduled(u)
                            /\ Done(u)' <=> Done(u)
                            /\ Worked(u)' <=> Worked(u)
    BY QuietFacts
  <1>2. TypeOK'
    BY <1>1 DEF Inv, TypeOK, FutureTypes
  <1>3. HandsOK'
    BY <1>1, TaskAssumption DEF Inv, TypeOK, HandsOK, Holding, Midway, Closing
  <1>4. OnePlace'
    BY <1>1, TaskAssumption DEF Inv, TypeOK, HandsOK, Holding, Midway, Closing, OnePlace, Held, Holds
  <1>5. NoneLost'
    BY <1>1, TaskAssumption DEF Inv, TypeOK, HandsOK, Holding, Midway, Closing, OnePlace, NoneLost, Held, Holds
  <1>6. AtWork'
    BY <1>1, TaskAssumption DEF Inv, TypeOK, HandsOK, Holding, Midway, Closing, OnePlace, AtWork, Held, Holds
  <1> QED
    BY <1>1, <1>2, <1>3, <1>4, <1>5, <1>6 DEF Inv

\* The task goes back to readyq.
LEMMA PutReadyStep == ASSUME Inv, PutReady PROVE Inv' /\ Final
  <1> USE DEF PutReady, LetGo, queues, manager, futures, work, clients, closer
  <1>1. /\ FutureTypes' /\ ToldOK' /\ TimeoutsOK' /\ Final
        /\ \A u \in Tasks : /\ Scheduled(u)' <=> Scheduled(u)
                            /\ Done(u)' <=> Done(u)
                            /\ Worked(u)' <=> Worked(u)
    BY QuietFacts
  <1>2. /\ readyq' \in Seq(Tasks) /\ (Once(readyq) /\ ~In(readyq, hand) => Once(readyq'))
        /\ \A t : In(readyq', t) <=> In(readyq, t) \/ t = hand
    BY PutIn DEF Inv, TypeOK
  <1>3. TypeOK'
    BY <1>1, <1>2 DEF Inv, TypeOK, FutureTypes
  <1>4. HandsOK'
    BY <1>1, <1>2, TaskAssumption DEF Inv, TypeOK, HandsOK, Holding, Midway, Closing
  <1>5. OnePlace'
    BY <1>1, <1>2, TaskAssumption DEF Inv, TypeOK, HandsOK, Holding, Midway, Closing, OnePlace, Held, Holds
  <1>6. NoneLost'
    BY <1>1, <1>2, TaskAssumption DEF Inv, TypeOK, HandsOK, Holding, Midway, Closing, OnePlace, NoneLost, Held, Holds
  <1>7. AtWork'
    BY <1>1, <1>2, TaskAssumption DEF Inv, TypeOK, HandsOK, Holding, Midway, Closing, OnePlace, AtWork, Held, Holds
  <1> QED
    BY <1>1, <1>3, <1>4, <1>5, <1>6, <1>7 DEF Inv

\* The task goes to sleepq.
LEMMA PutSleepStep == ASSUME Inv, PutSleep PROVE Inv' /\ Final
  <1> USE DEF PutSleep, LetGo, queues, manager, futures, work, clients, closer
  <1>1. /\ FutureTypes' /\ ToldOK' /\ TimeoutsOK' /\ Final
        /\ \A u \in Tasks : /\ Scheduled(u)' <=> Scheduled(u)
                            /\ Done(u)' <=> Done(u)
                            /\ Worked(u)' <=> Worked(u)
    BY QuietFacts
  <1>2. /\ sleepq' \in Seq(Tasks) /\ (Once(sleepq) /\ ~In(sleepq, hand) => Once(sleepq'))
        /\ \A t : In(sleepq', t) <=> In(sleepq, t) \/ t = hand
    BY PutIn DEF Inv, TypeOK
  <1>3. TypeOK'
    BY <1>1, <1>2 DEF Inv, TypeOK, FutureTypes
  <1>4. HandsOK'
    BY <1>1, <1>2, TaskAssumption DEF Inv, TypeOK, HandsOK, Holding, Midway, Closing
  <1>5. OnePlace'
    BY <1>1, <1>2, TaskAssumption DEF Inv, TypeOK, HandsOK, Holding, Midway, Closing, OnePlace, Held, Holds
  <1>6. NoneLost'
    BY <1>1, <1>2, TaskAssumption DEF Inv, TypeOK, HandsOK, Holding, Midway, Closing, OnePlace, NoneLost, Held, Holds
  <1>7. AtWork'
    BY <1>1, <1>2, TaskAssumption DEF Inv, TypeOK, HandsOK, Holding, Midway, Closing, OnePlace, AtWork, Held, Holds
  <1> QED
    BY <1>1, <1>3, <1>4, <1>5, <1>6, <1>7 DEF Inv

\* qsize() changes no queue.
LEMMA SizeStep == ASSUME Inv, Size PROVE Inv' /\ Final
  <1> USE DEF Size, queues, manager, futures, work, clients, closer
  <1>1. /\ FutureTypes' /\ ToldOK' /\ TimeoutsOK' /\ Final
        /\ \A u \in Tasks : /\ Scheduled(u)' <=> Scheduled(u)
                            /\ Done(u)' <=> Done(u)
                            /\ Worked(u)' <=> Worked(u)
    BY QuietFacts
  <1>2. TypeOK'
    BY <1>1 DEF Inv, TypeOK, FutureTypes
  <1>3. HandsOK'
    BY <1>1, TaskAssumption DEF Inv, TypeOK, HandsOK, Holding, Midway, Closing
  <1>4. OnePlace'
    BY <1>1, TaskAssumption DEF Inv, TypeOK, HandsOK, Holding, Midway, Closing, OnePlace, Held, Holds
  <1>5. NoneLost'
    BY <1>1, TaskAssumption DEF Inv, TypeOK, HandsOK, Holding, Midway, Closing, OnePlace, NoneLost, Held, Holds
  <1>6. AtWork'
    BY <1>1, TaskAssumption DEF Inv, TypeOK, HandsOK, Holding, Midway, Closing, OnePlace, AtWork, Held, Holds
  <1> QED
    BY <1>1, <1>2, <1>3, <1>4, <1>5, <1>6 DEF Inv

\* The manager takes a task from sleepq.
LEMMA SleepGetStep == ASSUME Inv, SleepGet PROVE Inv' /\ Final
  <1> USE DEF SleepGet, queues, manager, futures, work, clients, closer
  <1>1. /\ FutureTypes' /\ ToldOK' /\ TimeoutsOK' /\ Final
        /\ \A u \in Tasks : /\ Scheduled(u)' <=> Scheduled(u)
                            /\ Done(u)' <=> Done(u)
                            /\ Worked(u)' <=> Worked(u)
    BY QuietFacts
  <1>2. /\ sleepq' \in Seq(Tasks) /\ hand' \in Tasks /\ (Once(sleepq) => Once(sleepq') /\ ~In(sleepq', hand'))
        /\ \A t : In(sleepq, t) <=> In(sleepq', t) \/ t = hand'
    BY GetIn DEF Inv, TypeOK
  <1>3. TypeOK'
    BY <1>1, <1>2 DEF Inv, TypeOK, FutureTypes
  <1>4. HandsOK'
    BY <1>1, <1>2, TaskAssumption DEF Inv, TypeOK, HandsOK, Holding, Midway, Closing
  <1>5. OnePlace'
    BY <1>1, <1>2, TaskAssumption DEF Inv, TypeOK, HandsOK, Holding, Midway, Closing, OnePlace, Held, Holds
  <1>6. NoneLost'
    BY <1>1, <1>2, TaskAssumption DEF Inv, TypeOK, HandsOK, Holding, Midway, Closing, OnePlace, NoneLost, Held, Holds
  <1>7. AtWork'
    BY <1>1, <1>2, TaskAssumption DEF Inv, TypeOK, HandsOK, Holding, Midway, Closing, OnePlace, AtWork, Held, Holds
  <1> QED
    BY <1>1, <1>3, <1>4, <1>5, <1>6, <1>7 DEF Inv

\* It goes to one of the two queues.
LEMMA SleepPutStep == ASSUME Inv, SleepPut PROVE Inv' /\ Final
  <1> USE DEF SleepPut, queues, manager, futures, work, clients, closer
  <1>1. /\ FutureTypes' /\ ToldOK' /\ TimeoutsOK' /\ Final
        /\ \A u \in Tasks : /\ Scheduled(u)' <=> Scheduled(u)
                            /\ Done(u)' <=> Done(u)
                            /\ Worked(u)' <=> Worked(u)
    BY QuietFacts
  <1>2. left' \in Nat /\ (mpc' = "sget" => left' > 0)
    BY DEF Inv, TypeOK, HandsOK
  <1>3. hand \in Tasks /\ readyq \in Seq(Tasks) /\ sleepq \in Seq(Tasks)
    BY DEF Inv, TypeOK
  <1>4. \/ UNCHANGED sleepq /\ readyq' = Append(readyq, hand)
        \/ UNCHANGED readyq /\ sleepq' = Append(sleepq, hand)
    OBVIOUS
  <1>5. /\ Append(readyq, hand) \in Seq(Tasks) /\ (Once(readyq) /\ ~In(readyq, hand) => Once(Append(readyq, hand)))
        /\ \A t : In(Append(readyq, hand), t) <=> In(readyq, t) \/ t = hand
    BY <1>3, PutIn
  <1>6. /\ Append(sleepq, hand) \in Seq(Tasks) /\ (Once(sleepq) /\ ~In(sleepq, hand) => Once(Append(sleepq, hand)))
        /\ \A t : In(Append(sleepq, hand), t) <=> In(sleepq, t) \/ t = hand
    BY <1>3, PutIn
  <1>7. TypeOK'
    <2>1. readyq' \in Seq(Tasks) /\ sleepq' \in Seq(Tasks)
      BY <1>3, <1>4, <1>5, <1>6
    <2>2. hand' = NoTask /\ mpc' \in {"while", "sget"}
      OBVIOUS
    <2> QED
      BY <1>1, <1>2, <2>1, <2>2 DEF Inv, TypeOK, FutureTypes
  <1>8. HandsOK'
    BY <1>1, <1>2, <1>3, <1>4, <1>5, <1>6, TaskAssumption DEF Inv, TypeOK, HandsOK, Holding, Midway, Closing
  <1>9. OnePlace'
    <2>1. CASE UNCHANGED sleepq /\ readyq' = Append(readyq, hand)
      <3>1. Once(readyq') /\ Once(sleepq')
        BY <1>3, <1>5, <2>1 DEF Inv, OnePlace, Holds
      <3>2. \A t \in Tasks : (In(readyq', t) <=> In(readyq, t) \/ t = hand) /\ (In(sleepq', t) <=> In(sleepq, t))
        BY <1>5, <2>1
      <3>3. hand' = NoTask /\ NoTask \notin Tasks /\ UNCHANGED <<shand, loader>> /\ mpc # "started" /\ mpc' # "started"
        BY TaskAssumption
      <3> QED
        BY <1>1, <3>1, <3>2, <3>3 DEF Inv, OnePlace, Held, Holds
    <2>2. CASE UNCHANGED readyq /\ sleepq' = Append(sleepq, hand)
      <3>1. Once(readyq') /\ Once(sleepq')
        BY <1>3, <1>6, <2>2 DEF Inv, OnePlace, Holds
      <3>2. \A t \in Tasks : (In(sleepq', t) <=> In(sleepq, t) \/ t = hand) /\ (In(readyq', t) <=> In(readyq, t))
        BY <1>6, <2>2
      <3>3. hand' = NoTask /\ NoTask \notin Tasks /\ UNCHANGED <<shand, loader>> /\ mpc # "started" /\ mpc' # "started"
        BY TaskAssumption
      <3> QED
        BY <1>1, <3>1, <3>2, <3>3 DEF Inv, OnePlace, Held, Holds
    <2> QED
      BY <1>4, <2>1, <2>2
  <1>10. NoneLost'
    <2>1. \A t \in Tasks : Held(t) => Held(t)'
      <3>1. \A t \in Tasks : In(readyq, t) \/ In(sleepq, t) \/ t = hand => In(readyq', t) \/ In(sleepq', t)
        BY <1>4, <1>5, <1>6
      <3> QED
        BY <3>1 DEF Held, Holds
    <2>2. UNCHANGED <<state, loader>>
      OBVIOUS
    <2> QED
      BY <1>1, <2>1, <2>2 DEF Inv, NoneLost
  <1>11. AtWork'
    BY <1>1, <1>2, <1>3, <1>4, <1>5, <1>6, TaskAssumption DEF Inv, TypeOK, HandsOK, Holding, Midway, Closing, OnePlace, AtWork, Held, Holds
  <1> QED
    BY <1>1, <1>7, <1>8, <1>9, <1>10, <1>11 DEF Inv

\* Time passes.
LEMMA TickStep == ASSUME Inv, NEW t \in Tasks, Tick(t) PROVE Inv' /\ Final
  <1> USE DEF Tick, queues, manager, futures, work, clients, closer
  <1>1. /\ FutureTypes' /\ ToldOK' /\ TimeoutsOK' /\ Final
        /\ \A u \in Tasks : /\ Scheduled(u)' <=> Scheduled(u)
                            /\ Done(u)' <=> Done(u)
                            /\ Worked(u)' <=> Worked(u)
    BY QuietFacts
  <1>2. TypeOK'
    BY <1>1 DEF Inv, TypeOK, FutureTypes
  <1>3. HandsOK'
    BY <1>1, TaskAssumption DEF Inv, TypeOK, HandsOK, Holding, Midway, Closing
  <1>4. OnePlace'
    BY <1>1, TaskAssumption DEF Inv, TypeOK, HandsOK, Holding, Midway, Closing, OnePlace, Held, Holds
  <1>5. NoneLost'
    BY <1>1, TaskAssumption DEF Inv, TypeOK, HandsOK, Holding, Midway, Closing, OnePlace, NoneLost, Held, Holds
  <1>6. AtWork'
    BY <1>1, TaskAssumption DEF Inv, TypeOK, HandsOK, Holding, Midway, Closing, OnePlace, AtWork, Held, Holds
  <1> QED
    BY <1>1, <1>2, <1>3, <1>4, <1>5, <1>6 DEF Inv

-----------------------------------------------------------------------------
(* The loading threads. *)

\* The thread ends with a result, of a task nobody can cancel.
LEMMA LoaderLoopStep == ASSUME Inv, NEW t \in Tasks, LoaderLoop(t) PROVE Inv' /\ Final
  <1> USE DEF LoaderLoop, Raise, queues, manager, futures, work, clients, closer
  <1>1. t \in Tasks
    OBVIOUS
  <1>2. FutureOp(t)
    BY DEF Inv, AtWork, FutureOp
  <1>3. /\ FutureTypes' /\ ToldOK' /\ TimeoutsOK' /\ Final
        /\ \A u \in Tasks : /\ Scheduled(u)' <=> Scheduled(u)
                            /\ Done(u) => Done(u)'
                            /\ u # t => fstate'[u] = fstate[u] /\ exc'[u] = exc[u]
    BY <1>1, <1>2, FutureOpFacts
  <1>4. state' \in [Tasks -> {"PENDING", "EXECUTING", "CHECKING", "FINISHED"}]
    BY <1>1 DEF Inv, TypeOK
  <1>5. \A u \in Tasks : state'[u] = "FINISHED" => Done(u)'
    BY <1>1, <1>3, Ended DEF Inv, TypeOK, NoneLost
  <1>6. \E x \in {"loop", "batch", "ended", "dead"} : loader' = [loader EXCEPT ![t] = x]
    OBVIOUS
  <1>7. loader' \in [Tasks -> {"off", "loop", "batch", "ended", "dead"}]
    BY <1>6 DEF Inv, TypeOK
  <1>8. batches' \in [Tasks -> 0..MaxBatches]
    BY TaskAssumption DEF Inv, TypeOK, AtWork
  <1>9. \A u \in Tasks : u # t => loader'[u] = loader[u] /\ batches'[u] = batches[u]
    BY DEF Inv, TypeOK
  <1>10. loader[t] # "off" /\ loader'[t] # "off"
    BY DEF Inv, TypeOK
  <1>11. loader'[t] = "ended" => Done(t)'
    BY <1>1, Ended DEF Inv, TypeOK
  <1>12. fstate'[t] # "CANCELLED" /\ (loader'[t] = "batch" => ~Worked(t)' /\ batches'[t] < MaxBatches)
    BY <1>1, Excepted, TaskAssumption DEF Inv, TypeOK, AtWork, Done, Worked
  <1>13. TypeOK'
    BY <1>3, <1>1, <1>4, <1>5, <1>6, <1>7, <1>8, <1>9, <1>10, <1>11, <1>12 DEF Inv, TypeOK, FutureTypes
  <1>14. HandsOK'
    BY <1>3, <1>1, <1>4, <1>5, <1>6, <1>7, <1>8, <1>9, <1>10, <1>11, <1>12, TaskAssumption DEF Inv, TypeOK, HandsOK, Holding, Midway, Closing
  <1>15. OnePlace'
    BY <1>3, <1>1, <1>4, <1>5, <1>6, <1>7, <1>8, <1>9, <1>10, <1>11, <1>12, TaskAssumption DEF Inv, TypeOK, HandsOK, Holding, Midway, Closing, OnePlace, Held, Holds
  <1>16. NoneLost'
    BY <1>3, <1>1, <1>4, <1>5, <1>6, <1>7, <1>8, <1>9, <1>10, <1>11, <1>12, TaskAssumption DEF Inv, TypeOK, HandsOK, Holding, Midway, Closing, OnePlace, NoneLost, Held, Holds
  <1>17. AtWork'
    BY <1>3, <1>1, <1>4, <1>5, <1>6, <1>7, <1>8, <1>9, <1>10, <1>11, <1>12, TaskAssumption DEF Inv, TypeOK, HandsOK, Holding, Midway, Closing, OnePlace, AtWork, Held, Holds, Worked, Done
  <1> QED
    BY <1>3, <1>13, <1>14, <1>15, <1>16, <1>17 DEF Inv

\* A batch may end the task with an exception.
LEMMA LoaderBatchStep == ASSUME Inv, NEW t \in Tasks, LoaderBatch(t) PROVE Inv' /\ Final
  <1> USE DEF LoaderBatch, Raise, queues, manager, futures, work, clients, closer
  <1>1. t \in Tasks
    OBVIOUS
  <1>2. FutureOp(t)
    BY DEF Inv, TypeOK, AtWork, FutureOp
  <1>3. /\ FutureTypes' /\ ToldOK' /\ TimeoutsOK' /\ Final
        /\ \A u \in Tasks : /\ Scheduled(u)' <=> Scheduled(u)
                            /\ Done(u) => Done(u)'
                            /\ u # t => fstate'[u] = fstate[u] /\ exc'[u] = exc[u]
    BY <1>1, <1>2, FutureOpFacts
  <1>4. state' \in [Tasks -> {"PENDING", "EXECUTING", "CHECKING", "FINISHED"}]
    BY <1>1 DEF Inv, TypeOK
  <1>5. \A u \in Tasks : state'[u] = "FINISHED" => Done(u)'
    BY <1>1, <1>3, Ended DEF Inv, TypeOK, NoneLost
  <1>6. \E x \in {"loop", "batch", "ended", "dead"} : loader' = [loader EXCEPT ![t] = x]
    OBVIOUS
  <1>7. loader' \in [Tasks -> {"off", "loop", "batch", "ended", "dead"}]
    BY <1>6 DEF Inv, TypeOK
  <1>8. batches' \in [Tasks -> 0..MaxBatches]
    BY TaskAssumption, SMTT(30) DEF Inv, TypeOK, AtWork
  <1>9. \A u \in Tasks : u # t => loader'[u] = loader[u] /\ batches'[u] = batches[u]
    BY DEF Inv, TypeOK
  <1>10. loader[t] # "off" /\ loader'[t] # "off"
    BY DEF Inv, TypeOK
  <1>11. loader'[t] = "ended" => Done(t)'
    BY <1>1, Ended DEF Inv, TypeOK
  <1>12. fstate'[t] # "CANCELLED" /\ (loader'[t] = "batch" => ~Worked(t)' /\ batches'[t] < MaxBatches)
    BY <1>1, Excepted, TaskAssumption DEF Inv, TypeOK, AtWork, Done, Worked
  <1>13. TypeOK'
    BY <1>3, <1>1, <1>4, <1>5, <1>6, <1>7, <1>8, <1>9, <1>10, <1>11, <1>12 DEF Inv, TypeOK, FutureTypes
  <1>14. HandsOK'
    BY <1>3, <1>1, <1>4, <1>5, <1>6, <1>7, <1>8, <1>9, <1>10, <1>11, <1>12, TaskAssumption DEF Inv, TypeOK, HandsOK, Holding, Midway, Closing
  <1>15. OnePlace'
    BY <1>3, <1>1, <1>4, <1>5, <1>6, <1>7, <1>8, <1>9, <1>10, <1>11, <1>12, TaskAssumption DEF Inv, TypeOK, HandsOK, Holding, Midway, Closing, OnePlace, Held, Holds
  <1>16. NoneLost'
    BY <1>3, <1>1, <1>4, <1>5, <1>6, <1>7, <1>8, <1>9, <1>10, <1>11, <1>12, TaskAssumption DEF Inv, TypeOK, HandsOK, Holding, Midway, Closing, OnePlace, NoneLost, Held, Holds
  <1>17. AtWork'
    BY <1>3, <1>1, <1>4, <1>5, <1>6, <1>7, <1>8, <1>9, <1>10, <1>11, <1>12, TaskAssumption DEF Inv, TypeOK, HandsOK, Holding, Midway, Closing, OnePlace, AtWork, Held, Holds, Worked, Done
  <1> QED
    BY <1>3, <1>13, <1>14, <1>15, <1>16, <1>17 DEF Inv

-----------------------------------------------------------------------------
(* The shutdown. *)

\* The flag is cleared.
LEMMA ShutdownStep == ASSUME Inv, Shutdown PROVE Inv' /\ Final
  <1> USE DEF Shutdown, queues, manager, futures, work, clients, closer
  <1>1. /\ FutureTypes' /\ ToldOK' /\ TimeoutsOK' /\ Final
        /\ \A u \in Tasks : /\ Scheduled(u)' <=> Scheduled(u)
                            /\ Done(u)' <=> Done(u)
                            /\ Worked(u)' <=> Worked(u)
    BY QuietFacts
  <1>2. TypeOK'
    BY <1>1 DEF Inv, TypeOK, FutureTypes
  <1>3. HandsOK'
    BY <1>1, TaskAssumption DEF Inv, TypeOK, HandsOK, Holding, Midway, Closing
  <1>4. OnePlace'
    BY <1>1, TaskAssumption DEF Inv, TypeOK, HandsOK, Holding, Midway, Closing, OnePlace, Held, Holds
  <1>5. NoneLost'
    BY <1>1, TaskAssumption DEF Inv, TypeOK, HandsOK, Holding, Midway, Closing, OnePlace, NoneLost, Held, Holds
  <1>6. AtWork'
    BY <1>1, TaskAssumption DEF Inv, TypeOK, HandsOK, Holding, Midway, Closing, OnePlace, AtWork, Held, Holds
  <1> QED
    BY <1>1, <1>2, <1>3, <1>4, <1>5, <1>6 DEF Inv

\* empty() changes nothing.
LEMMA AskEmptyStep == ASSUME Inv, AskEmpty PROVE Inv' /\ Final
  <1> USE DEF AskEmpty, queues, manager, futures, work, clients, closer
  <1>1. /\ FutureTypes' /\ ToldOK' /\ TimeoutsOK' /\ Final
        /\ \A u \in Tasks : /\ Scheduled(u)' <=> Scheduled(u)
                            /\ Done(u)' <=> Done(u)
                            /\ Worked(u)' <=> Worked(u)
    BY QuietFacts
  <1>2. TypeOK'
    BY <1>1 DEF Inv, TypeOK, FutureTypes
  <1>3. HandsOK'
    BY <1>1, TaskAssumption DEF Inv, TypeOK, HandsOK, Holding, Midway, Closing
  <1>4. OnePlace'
    BY <1>1, TaskAssumption DEF Inv, TypeOK, HandsOK, Holding, Midway, Closing, OnePlace, Held, Holds
  <1>5. NoneLost'
    BY <1>1, TaskAssumption DEF Inv, TypeOK, HandsOK, Holding, Midway, Closing, OnePlace, NoneLost, Held, Holds
  <1>6. AtWork'
    BY <1>1, TaskAssumption DEF Inv, TypeOK, HandsOK, Holding, Midway, Closing, OnePlace, AtWork, Held, Holds
  <1> QED
    BY <1>1, <1>2, <1>3, <1>4, <1>5, <1>6 DEF Inv

\* A forced shutdown takes a task from sleepq.
LEMMA TakeSleepingStep == ASSUME Inv, TakeSleeping PROVE Inv' /\ Final
  <1> USE DEF TakeSleeping, queues, manager, futures, work, clients, closer
  <1>1. /\ FutureTypes' /\ ToldOK' /\ TimeoutsOK' /\ Final
        /\ \A u \in Tasks : /\ Scheduled(u)' <=> Scheduled(u)
                            /\ Done(u)' <=> Done(u)
                            /\ Worked(u)' <=> Worked(u)
    BY QuietFacts
  <1>2. /\ sleepq' \in Seq(Tasks) /\ shand' \in Tasks /\ (Once(sleepq) => Once(sleepq') /\ ~In(sleepq', shand'))
        /\ \A t : In(sleepq, t) <=> In(sleepq', t) \/ t = shand'
    BY GetIn DEF Inv, TypeOK
  <1>3. TypeOK'
    BY <1>1, <1>2 DEF Inv, TypeOK, FutureTypes
  <1>4. HandsOK'
    BY <1>1, <1>2, TaskAssumption DEF Inv, TypeOK, HandsOK, Holding, Midway, Closing
  <1>5. OnePlace'
    BY <1>1, <1>2, TaskAssumption DEF Inv, TypeOK, HandsOK, Holding, Midway, Closing, OnePlace, Held, Holds
  <1>6. NoneLost'
    BY <1>1, <1>2, TaskAssumption DEF Inv, TypeOK, HandsOK, Holding, Midway, Closing, OnePlace, NoneLost, Held, Holds
  <1>7. AtWork'
    BY <1>1, <1>2, TaskAssumption DEF Inv, TypeOK, HandsOK, Holding, Midway, Closing, OnePlace, AtWork, Held, Holds
  <1> QED
    BY <1>1, <1>3, <1>4, <1>5, <1>6, <1>7 DEF Inv

\* A forced shutdown takes a task from readyq.
LEMMA TakeReadyStep == ASSUME Inv, TakeReady PROVE Inv' /\ Final
  <1> USE DEF TakeReady, queues, manager, futures, work, clients, closer
  <1>1. /\ FutureTypes' /\ ToldOK' /\ TimeoutsOK' /\ Final
        /\ \A u \in Tasks : /\ Scheduled(u)' <=> Scheduled(u)
                            /\ Done(u)' <=> Done(u)
                            /\ Worked(u)' <=> Worked(u)
    BY QuietFacts
  <1>2. /\ readyq' \in Seq(Tasks) /\ shand' \in Tasks /\ (Once(readyq) => Once(readyq') /\ ~In(readyq', shand'))
        /\ \A t : In(readyq, t) <=> In(readyq', t) \/ t = shand'
    BY GetIn DEF Inv, TypeOK
  <1>3. TypeOK'
    BY <1>1, <1>2 DEF Inv, TypeOK, FutureTypes
  <1>4. HandsOK'
    BY <1>1, <1>2, TaskAssumption DEF Inv, TypeOK, HandsOK, Holding, Midway, Closing
  <1>5. OnePlace'
    BY <1>1, <1>2, TaskAssumption DEF Inv, TypeOK, HandsOK, Holding, Midway, Closing, OnePlace, Held, Holds
  <1>6. NoneLost'
    BY <1>1, <1>2, TaskAssumption DEF Inv, TypeOK, HandsOK, Holding, Midway, Closing, OnePlace, NoneLost, Held, Holds
  <1>7. AtWork'
    BY <1>1, <1>2, TaskAssumption DEF Inv, TypeOK, HandsOK, Holding, Midway, Closing, OnePlace, AtWork, Held, Holds
  <1> QED
    BY <1>1, <1>3, <1>4, <1>5, <1>6, <1>7 DEF Inv

\* The task it holds is nobody else's.
LEMMA CancelTaskStep == ASSUME Inv, CancelTask PROVE Inv' /\ Final
  <1> USE DEF CancelTask, queues, manager, futures, work, clients, closer
  <1>1. shand \in Tasks
    BY DEF Inv, TypeOK
  <1>2. FutureOp(shand)
    BY DEF FutureOp
  <1>3. /\ FutureTypes' /\ ToldOK' /\ TimeoutsOK' /\ Final
        /\ \A u \in Tasks : /\ Scheduled(u)' <=> Scheduled(u)
                            /\ Done(u) => Done(u)'
                            /\ u # shand => fstate'[u] = fstate[u] /\ exc'[u] = exc[u]
    BY <1>1, <1>2, FutureOpFacts
  <1>4. \/ shand' = shand
        \/ /\ shand' = NoTask
           /\ \/ SetResult(shand) \/ Raise(shand) \/ Cancel(shand)
              \/ Done(shand) \/ state[shand] = "FINISHED"
    OBVIOUS
  <1>5. state' \in [Tasks -> {"PENDING", "EXECUTING", "CHECKING", "FINISHED"}]
    BY <1>1 DEF Inv, TypeOK
  <1>6. \A u \in Tasks : state'[u] = "FINISHED" => Done(u)'
    BY <1>1, <1>3, Ended DEF Inv, TypeOK, NoneLost
  <1>7. shand' = shand \/ (shand' = NoTask /\ \A u \in Tasks : u = shand => Done(u)')
    BY <1>1, <1>3, <1>4, Ended DEF Inv, NoneLost
  <1>8. TypeOK'
    BY <1>3, <1>1, <1>4, <1>5, <1>6, <1>7 DEF Inv, TypeOK, FutureTypes
  <1>9. HandsOK'
    BY <1>3, <1>1, <1>4, <1>5, <1>6, <1>7, TaskAssumption DEF Inv, TypeOK, HandsOK, Holding, Midway, Closing
  <1>10. OnePlace'
    BY <1>3, <1>1, <1>4, <1>5, <1>6, <1>7, TaskAssumption DEF Inv, TypeOK, HandsOK, Holding, Midway, Closing, OnePlace, Held, Holds
  <1>11. NoneLost'
    BY <1>3, <1>1, <1>4, <1>5, <1>6, <1>7, TaskAssumption DEF Inv, TypeOK, HandsOK, Holding, Midway, Closing, OnePlace, NoneLost, Held, Holds
  <1>12. AtWork'
    BY <1>3, <1>1, <1>4, <1>5, <1>6, <1>7, TaskAssumption DEF Inv, TypeOK, HandsOK, Holding, Midway, Closing, OnePlace, AtWork, Held, Holds, Worked, Done
  <1> QED
    BY <1>3, <1>8, <1>9, <1>10, <1>11, <1>12 DEF Inv

\* A cancelled task goes to readyq.
LEMMA PutCancelledStep == ASSUME Inv, PutCancelled PROVE Inv' /\ Final
  <1> USE DEF PutCancelled, queues, manager, futures, work, clients, closer
  <1>1. /\ FutureTypes' /\ ToldOK' /\ TimeoutsOK' /\ Final
        /\ \A u \in Tasks : /\ Scheduled(u)' <=> Scheduled(u)
                            /\ Done(u)' <=> Done(u)
                            /\ Worked(u)' <=> Worked(u)
    BY QuietFacts
  <1>2. /\ readyq' \in Seq(Tasks) /\ (Once(readyq) /\ ~In(readyq, shand) => Once(readyq'))
        /\ \A t : In(readyq', t) <=> In(readyq, t) \/ t = shand
    BY PutIn DEF Inv, TypeOK
  <1>3. TypeOK'
    BY <1>1, <1>2 DEF Inv, TypeOK, FutureTypes
  <1>4. HandsOK'
    BY <1>1, <1>2, TaskAssumption DEF Inv, TypeOK, HandsOK, Holding, Midway, Closing
  <1>5. OnePlace'
    BY <1>1, <1>2, TaskAssumption DEF Inv, TypeOK, HandsOK, Holding, Midway, Closing, OnePlace, Held, Holds
  <1>6. NoneLost'
    BY <1>1, <1>2, TaskAssumption DEF Inv, TypeOK, HandsOK, Holding, Midway, Closing, OnePlace, NoneLost, Held, Holds
  <1>7. AtWork'
    BY <1>1, <1>2, TaskAssumption DEF Inv, TypeOK, HandsOK, Holding, Midway, Closing, OnePlace, AtWork, Held, Holds
  <1> QED
    BY <1>1, <1>3, <1>4, <1>5, <1>6, <1>7 DEF Inv

-----------------------------------------------------------------------------
(* The clients. *)

\* The steps of a client between its call of result() and its return leave the engine alone.
LEMMA ClientKeeps ==
    ASSUME Inv, UNCHANGED <<queues, manager, work, closer>>, FutureTypes',
           \A u \in Tasks : /\ Scheduled(u)' <=> Scheduled(u)
                            /\ Done(u) => Done(u)'
                            /\ fstate[u] # "CANCELLED" => fstate'[u] # "CANCELLED"
                            /\ ~Worked(u) => ~Worked(u)'
    PROVE  TypeOK' /\ HandsOK' /\ OnePlace' /\ NoneLost' /\ AtWork'
  <1> USE DEF queues, manager, work, closer
  <1>1. TypeOK'
    BY DEF Inv, TypeOK, FutureTypes
  <1>2. HandsOK'
    BY DEF Inv, HandsOK
  <1>3. OnePlace'
    BY DEF Inv, OnePlace, Held, Holds
  <1>4. NoneLost'
    BY DEF Inv, NoneLost, Held, Holds
  <1>5. AtWork'
    BY DEF Inv, AtWork
  <1> QED
    BY <1>1, <1>2, <1>3, <1>4, <1>5

\* What result() gives is what the future says.
LEMMA OutcomeFacts ==
    ASSUME TypeOK, NEW t \in Tasks, Done(t)
    PROVE  /\ Outcome(t) \in Outcomes \ {"none"}
           /\ Outcome(t) = "value" => Worked(t)
           /\ Outcome(t) = "cancelled" => fstate[t] = "CANCELLED"
           /\ Outcome(t) \in {"error", "timeout"} => fstate[t] = "FINISHED" /\ exc[t] # "none"
           /\ Outcome(t) = "timeout" => exc[t] = "timeout"
  BY DEF TypeOK, Outcome, Outcomes, Worked, Done

\* A client that returns, with what the future says.
LEMMA ReturnStep ==
    ASSUME Inv, NEW c \in Clients, cpc[c] \in {"ask", "woken"}, Done(TaskOf[c]),
           cpc' = [cpc EXCEPT ![c] = "back"], got' = [got EXCEPT ![c] = Outcome(TaskOf[c])],
           UNCHANGED <<queues, manager, futures, work, closer>>
    PROVE  Inv' /\ Final
  <1> USE DEF futures
  <1> DEFINE t == TaskOf[c]
  <1>1. t \in Tasks /\ \A e \in Clients : TaskOf[e] \in Tasks
    BY TaskAssumption
  <1>2. TypeOK /\ FutureTypes
    BY DEF Inv, TypeOK, FutureTypes
  <1>3. FutureTypes'
    BY <1>1, <1>2, OutcomeFacts DEF FutureTypes
  <1>4. \A u \in Tasks : Scheduled(u)' <=> Scheduled(u)
    BY <1>2, TaskAssumption DEF FutureTypes, Scheduled
  <1>5. \A u \in Tasks : (Done(u)' <=> Done(u)) /\ (Worked(u)' <=> Worked(u))
    BY DEF Done, Worked
  <1>6. TypeOK' /\ HandsOK' /\ OnePlace' /\ NoneLost' /\ AtWork' /\ Final
    BY <1>3, <1>4, <1>5, ClientKeeps DEF Final
  <1>7. ToldOK'
    BY <1>1, <1>2, <1>5, OutcomeFacts DEF Inv, FutureTypes, ToldOK
  <1>9. TimeoutsOK'
    BY <1>1, <1>2, <1>5 DEF Inv, FutureTypes, TimeoutsOK
  <1> QED
    BY <1>6, <1>7, <1>9 DEF Inv

\* A client that goes on to another point of result() or schedule(), before it has returned.
LEMMA MoveStep ==
    ASSUME Inv, NEW c \in Clients, NEW x,
           \/ cpc[c] = "ask" /\ x = "waiting"
           \/ cpc[c] = "waiting" /\ c \in Timed /\ x = "woken"
           \/ cpc[c] = "check" /\ x \in {"put", "refused"},
           cpc' = [cpc EXCEPT ![c] = x], UNCHANGED got,
           UNCHANGED <<queues, manager, futures, work, closer>>
    PROVE  Inv' /\ Final
  <1> USE DEF futures
  <1>2. FutureTypes
    BY DEF Inv, TypeOK, FutureTypes
  <1>3. FutureTypes'
    BY <1>2 DEF FutureTypes
  <1>4. \A u \in Tasks : Scheduled(u)' <=> Scheduled(u)
    BY <1>2, TaskAssumption DEF FutureTypes, Scheduled
  <1>5. \A u \in Tasks : (Done(u)' <=> Done(u)) /\ (Worked(u)' <=> Worked(u))
    BY DEF Done, Worked
  <1>6. TypeOK' /\ HandsOK' /\ OnePlace' /\ NoneLost' /\ AtWork' /\ Final
    BY <1>3, <1>4, <1>5, ClientKeeps DEF Final
  <1>7. ToldOK'
    BY <1>2, <1>5, TaskAssumption DEF Inv, FutureTypes, ToldOK
  <1>9. TimeoutsOK'
    BY <1>2, <1>5, TaskAssumption DEF Inv, FutureTypes, TimeoutsOK
  <1> QED
    BY <1>6, <1>7, <1>9 DEF Inv

\* result() returns at once or waits.
LEMMA AskStep == ASSUME Inv, NEW c \in Clients, Ask(c) PROVE Inv' /\ Final
  <1>1. CASE Done(TaskOf[c])
    BY <1>1, ReturnStep DEF Ask
  <1>2. CASE ~Done(TaskOf[c])
    BY <1>2, MoveStep DEF Ask
  <1> QED
    BY <1>1, <1>2

\* A wait with a timeout ends.
LEMMA ExpireStep == ASSUME Inv, NEW c \in Clients, Expire(c) PROVE Inv' /\ Final
  BY MoveStep DEF Expire

\* schedule() asks whether the manager runs.
LEMMA CheckRunningStep == ASSUME Inv, NEW c \in Clients, CheckRunning(c) PROVE Inv' /\ Final
  BY MoveStep DEF CheckRunning

\* A client that comes out of the wait and finds the future not done had a timeout; its
\* TimeoutError ends the task for everybody.
LEMMA WakeUpStep == ASSUME Inv, NEW c \in Clients, WakeUp(c) PROVE Inv' /\ Final
  <1> DEFINE t == TaskOf[c]
  <1>1. CASE Done(t)
    BY <1>1, ReturnStep DEF WakeUp
  <1>2. CASE ~Done(t)
    <2>1. /\ cpc[c] = "woken" /\ exc' = [exc EXCEPT ![t] = "timeout"]
          /\ fstate' = [fstate EXCEPT ![t] = "FINISHED"] /\ result' = result
          /\ cpc' = [Notified(t) EXCEPT ![c] = "back"] /\ got' = [got EXCEPT ![c] = "timeout"]
          /\ UNCHANGED <<queues, manager, work, closer>>
      BY <1>2 DEF WakeUp
    <2>2. t \in Tasks /\ \A e \in Clients : TaskOf[e] \in Tasks
      BY TaskAssumption
    <2>3. TypeOK /\ FutureTypes
      BY DEF Inv, TypeOK, FutureTypes
    <2>4. FutureTypes'
      BY <2>1, <2>2, <2>3 DEF FutureTypes, Notified, Outcomes
    <2>5. \A e \in Clients \ {c} : \/ cpc'[e] = cpc[e]
                                   \/ TaskOf[e] = t /\ cpc[e] = "waiting" /\ cpc'[e] = "woken"
      BY <2>1, <2>3 DEF FutureTypes, Notified
    <2>6. cpc'[c] = "back" /\ got'[c] = "timeout" /\ \A e \in Clients \ {c} : got'[e] = got[e]
      BY <2>1, <2>3 DEF FutureTypes, Notified
    <2>7. \A u \in Tasks : Scheduled(u)' <=> Scheduled(u)
      BY <2>1, <2>5, <2>6, TaskAssumption DEF Scheduled
    <2>8. /\ \A u \in Tasks \ {t} : fstate'[u] = fstate[u] /\ exc'[u] = exc[u]
          /\ fstate[t] = "PENDING" /\ fstate'[t] = "FINISHED" /\ exc'[t] = "timeout"
      BY <1>2, <2>1, <2>2, <2>3 DEF FutureTypes, Done
    <2>9. \A u \in Tasks : (Done(u) => Done(u)') /\ (u # t => (Done(u)' <=> Done(u)))
      BY <2>8 DEF Done
    <2>10. \A u \in Tasks : (Worked(u)' <=> Worked(u)) /\ (fstate[u] = "CANCELLED" <=> fstate'[u] = "CANCELLED")
      BY <2>8 DEF Worked
    <2>11. TypeOK' /\ HandsOK' /\ OnePlace' /\ NoneLost' /\ AtWork' /\ Final
      BY <2>1, <2>4, <2>7, <2>9, <2>10, ClientKeeps DEF Final, Steady
    <2>12. got[c] = "none" /\ c \in Timed
      BY <1>2, <2>1 DEF Inv, ToldOK, TimeoutsOK
    <2>13. ToldOK'
      <3>1. ASSUME NEW e \in Clients \ {c}
            PROVE  /\ cpc'[e] \in {"check", "put"} => e \in Schedulers
                   /\ cpc'[e] = "back" <=> got'[e] # "none"
                   /\ TaskOf[e] \in Steady =>
                         /\ got'[e] = "value" => Worked(TaskOf[e])'
                         /\ got'[e] = "cancelled" => fstate'[TaskOf[e]] = "CANCELLED"
                         /\ got'[e] \in {"error", "timeout"} =>
                               fstate'[TaskOf[e]] = "FINISHED" /\ exc'[TaskOf[e]] # "none"
        BY <2>2, <2>5, <2>6, <2>8, <2>10 DEF Inv, ToldOK
      <3> QED
        BY <2>6, <2>8, <3>1 DEF ToldOK
    <2>16. TimeoutsOK'
      <3>3. ASSUME NEW e \in Clients, cpc'[e] = "woken", ~Done(TaskOf[e])' PROVE e \in Timed
        <4>1. e # c /\ TaskOf[e] # t
          BY <2>6, <2>8, <3>3 DEF Done
        <4>2. cpc[e] = "woken"
          BY <2>5, <3>3, <4>1
        <4>3. ~Done(TaskOf[e])
          BY <2>2, <2>9, <3>3
        <4> QED
          BY <4>2, <4>3 DEF Inv, TimeoutsOK
      <3> QED
        BY <3>3 DEF TimeoutsOK
    <2> QED
      BY <2>11, <2>13, <2>16 DEF Inv
  <1> QED
    BY <1>1, <1>2

\* The client that schedules a task is the only one, so that the task was nowhere before.
LEMMA PutStep == ASSUME Inv, NEW c \in Clients, Put(c) PROVE Inv' /\ Final
  <1> USE DEF Put, manager, futures, work, closer
  <1> DEFINE t == TaskOf[c]
  <1>1. t \in Tasks /\ \A e \in Clients : TaskOf[e] \in Tasks
    BY TaskAssumption
  <1>2. TypeOK /\ FutureTypes
    BY DEF Inv, TypeOK, FutureTypes
  <1>3. FutureTypes'
    BY <1>2 DEF FutureTypes
  <1>4. \A u \in Tasks : Scheduled(u) => Scheduled(u)'
    BY <1>2, TaskAssumption DEF FutureTypes, Scheduled
  <1>5. \A u \in Tasks : u # t /\ Scheduled(u)' => Scheduled(u)
    BY <1>2, TaskAssumption DEF FutureTypes, Scheduled
  <1>6. \A u \in Tasks : (Done(u)' <=> Done(u)) /\ (Worked(u)' <=> Worked(u))
    BY DEF Done, Worked
  <1>7. c \in Schedulers
    BY DEF Inv, ToldOK
  <1>8. ~Scheduled(t) /\ \A u \in Tasks : u = t => Scheduled(u)'
    BY <1>2, <1>7, TaskAssumption DEF FutureTypes, Scheduled
  <1>9. /\ readyq' \in Seq(Tasks) /\ (Once(readyq) /\ ~In(readyq, t) => Once(readyq'))
        /\ \A u : In(readyq', u) <=> In(readyq, u) \/ u = t
    BY <1>1, <1>2, PutIn DEF TypeOK
  <1>10. TypeOK'
    BY <1>2, <1>3, <1>9 DEF TypeOK, FutureTypes
  <1>11. HandsOK'
    BY DEF Inv, HandsOK
  <1>12. OnePlace'
    BY <1>1, <1>4, <1>8, <1>9 DEF Inv, OnePlace, Held, Holds
  <1>13. NoneLost'
    BY <1>1, <1>5, <1>6, <1>9 DEF Inv, NoneLost, Held, Holds
  <1>14. AtWork'
    BY <1>6 DEF Inv, AtWork
  <1>15. ToldOK'
    BY <1>1, <1>2, <1>6 DEF Inv, FutureTypes, ToldOK
  <1>17. TimeoutsOK'
    BY <1>1, <1>2, <1>6 DEF Inv, FutureTypes, TimeoutsOK
  <1> QED
    BY <1>10, <1>11, <1>12, <1>13, <1>14, <1>15, <1>17 DEF Inv, Final

-----------------------------------------------------------------------------
(* The theorems. *)

\* At the beginning nothing is scheduled.
LEMMA InitInv == Init => Inv
  <1> SUFFICES ASSUME Init PROVE Inv
    OBVIOUS
  <1> USE DEF Init
  <1>1. TypeOK
    BY EmptyQueue, TaskAssumption DEF TypeOK, Outcomes
  <1>2. HandsOK
    BY DEF HandsOK, Holding, Midway, Closing
  <1>3. OnePlace
    BY EmptyQueue, TaskAssumption DEF OnePlace, Held, Holds
  <1>4. \A t : ~Scheduled(t)
    BY TaskAssumption DEF Scheduled
  <1>5. NoneLost
    BY <1>4 DEF NoneLost
  <1>6. AtWork
    BY DEF AtWork
  <1>7. ToldOK
    BY DEF ToldOK
  <1>8. TimeoutsOK
    BY TaskAssumption DEF TimeoutsOK
  <1> QED
    BY <1>1, <1>2, <1>3, <1>5, <1>6, <1>7, <1>8 DEF Inv

\* Every step, whichever thread takes it, keeps the invariant, and what is cancelled cancelled.
LEMMA StepInv == ASSUME Inv, Next PROVE Inv' /\ Final
  <1>1. CASE Manager
    BY <1>1, WhileStep, PickStep, GetStep, StepStep, SucceedStep, FailStep, FailAndRescheduleStep,
       AnswerFirstStep, AgainStep, ScheduleFirstStep, PutFirstStep, AnswerLastStep, StartCheckingStep, PollStep, StartLoaderStep, StartedStep, PutReadyStep, PutSleepStep,
       SizeStep, SleepGetStep, SleepPutStep DEF Manager
  <1>2. CASE Shutdown
    BY <1>2, ShutdownStep
  <1>3. CASE Closer
    BY <1>3, AskEmptyStep, TakeSleepingStep, TakeReadyStep, CancelTaskStep, PutCancelledStep DEF Closer
  <1>4. ASSUME NEW c \in Clients, Client(c) \/ Expire(c) PROVE Inv' /\ Final
    BY <1>4, AskStep, WakeUpStep, CheckRunningStep, PutStep, ExpireStep DEF Client
  <1>5. ASSUME NEW t \in Tasks, Loader(t) \/ Tick(t) PROVE Inv' /\ Final
    BY <1>5, LoaderLoopStep, LoaderBatchStep, TickStep DEF Loader
  <1> QED
    BY <1>1, <1>2, <1>3, <1>4, <1>5 DEF Next

\* Steps of other parts of a test leave the engine as it is.
LEMMA StutterInv == ASSUME Inv, UNCHANGED vars PROVE Inv'
  <1> USE DEF vars, queues, manager, work, closer, futures
  <1>1. /\ FutureTypes' /\ ToldOK' /\ TimeoutsOK'
        /\ \A u \in Tasks : /\ Scheduled(u)' <=> Scheduled(u)
                            /\ Done(u)' <=> Done(u)
                            /\ Worked(u)' <=> Worked(u)
    BY QuietFacts
  <1>2. TypeOK' /\ HandsOK' /\ OnePlace' /\ NoneLost' /\ AtWork'
    BY <1>1, ClientKeeps
  <1> QED
    BY <1>1, <1>2 DEF Inv

\* The invariant holds throughout.
LEMMA Invariant == Spec => []Inv
  <1>1. Inv /\ [Next]_vars => Inv'
    BY StepInv, StutterInv
  <1> QED
    BY InitInv, <1>1, PTL DEF Spec

\* Queues, futures, tasks, threads and clients keep their types, and the manager and the
\* shutdown hold a task wherever they work on one.
THEOREM TypeCorrect == Spec => []TypeOK
  <1>1. Inv => TypeOK
    BY DEF Inv
  <1> QED
    BY Invariant, <1>1, PTL

\* For any number of tasks and threads, and whether or not the shutdown is forced: no scheduled
\* task is lost by the queues, the manager, the shutdown and the loading threads before it is
\* done, and none is ever in two of these places.
THEOREM TasksTracked == Spec => []TaskTracked
  <1>1. ASSUME Inv, NEW t \in Tasks
        PROVE  /\ Places(t) <= 1
               /\ Scheduled(t) /\ ~Done(t) => Places(t) = 1 \/ loader[t] \in {"loop", "batch", "dead"}
    <2>1. readyq \in Seq(Tasks) /\ sleepq \in Seq(Tasks) /\ Once(readyq) /\ Once(sleepq)
      BY <1>1 DEF Inv, TypeOK, OnePlace
    <2>2. /\ Count(readyq, t) = IF In(readyq, t) THEN 1 ELSE 0
          /\ Count(sleepq, t) = IF In(sleepq, t) THEN 1 ELSE 0
          /\ Count(<<shand>>, t) = IF shand = t THEN 1 ELSE 0
      BY <2>1, CountOnce, CountHand
    <2>3. Places(t) = IF Held(t) THEN 1 ELSE 0
      BY <1>1, <2>2 DEF Places, Held, Holds, Inv, OnePlace
    <2>4. Scheduled(t) /\ ~Done(t) => Held(t) \/ loader[t] \in {"loop", "batch", "dead"}
      BY <1>1 DEF Inv, TypeOK, NoneLost
    <2> QED
      BY <2>3, <2>4
  <1>2. Inv => TaskTracked
    BY <1>1 DEF TaskTracked
  <1> QED
    BY Invariant, <1>2, PTL

\* What a forced shutdown has cancelled is cancelled for good: the manager and the loading
\* threads never set a result or an exception of a task that Future.cancel has ended, unless
\* the task answers after it has scheduled itself.
THEOREM CancelledStays == Spec => CancelledIsFinal
  <1>1. Inv /\ [Next]_vars => [\A t \in Steady : fstate[t] = "CANCELLED" => fstate'[t] = "CANCELLED"]_vars
    BY StepInv DEF Final
  <1> QED
    BY Invariant, <1>1, PTL DEF Spec, CancelledIsFinal

\* Threads that wait for one task that is not hasty agree on whether it worked and whether it
\* was cancelled, however timeouts, results, exceptions and the cancellation race.
THEOREM ClientsAgree == Spec => []AllAgree
  <1>1. Inv => AllAgree
    <2> SUFFICES ASSUME Inv, NEW c \in Clients, NEW e \in Clients,
                        TaskOf[c] \notin Hasty, cpc[c] = "back", cpc[e] = "back", TaskOf[c] = TaskOf[e]
                 PROVE  /\ got[c] = "value" <=> got[e] = "value"
                        /\ got[c] = "cancelled" <=> got[e] = "cancelled"
      BY DEF AllAgree
    <2>1. /\ got[c] \in {"value", "error", "timeout", "cancelled"}
          /\ got[e] \in {"value", "error", "timeout", "cancelled"}
      BY DEF Inv, TypeOK, ToldOK, Outcomes
    <2>2. TaskOf[c] \in Steady
      BY TaskAssumption DEF Steady
    <2> QED
      BY <2>1, <2>2 DEF Inv, ToldOK, Worked
  <1> QED
    BY Invariant, <1>1, PTL

-----------------------------------------------------------------------------
(* The futures implement Promise. *)

\* What a step does to the futures: an operation on one of them, or a client that is told.
LEMMA StepFuture ==
    ASSUME Inv, Next
    PROVE  \/ UNCHANGED <<futures, got>>
           \/ \E t \in Tasks : FutureOp(t)
           \/ \E c \in Clients : Ask(c) \/ WakeUp(c)
  <1> USE DEF queues, manager, futures, work, clients, closer
  <1>1. CASE While \/ Pick \/ Get \/ StartLoader \/ Started \/ PutReady \/ PutSleep \/ PutFirst \/ Size \/ SleepGet \/ SleepPut
    BY <1>1 DEF While, Pick, Get, StartLoader, Started, PutReady, PutSleep, PutFirst, Size, SleepGet, SleepPut
  <1>2. CASE Step
    <2>1. hand \in Tasks
      BY <1>2 DEF Inv, TypeOK, Step
    <2>2. FutureOp(hand)
      BY <1>2 DEF Step, Reschedule, LetGo, FutureOp, Raise, Done, Worked
    <2> QED
      BY <2>1, <2>2
  <1>3. CASE Succeed \/ Fail \/ FailAndReschedule \/ StartChecking \/ Poll
    <2>1. hand \in Tasks /\ mpc = "body"
      BY <1>3 DEF Inv, TypeOK, Succeed, Fail, FailAndReschedule, StartChecking, Poll
    <2>2. fstate[hand] # "CANCELLED" /\ ~Worked(hand)
      BY <2>1 DEF Inv, AtWork
    <2>3. FutureOp(hand)
      BY <1>3, <2>2 DEF Raise, Succeed, Fail, FailAndReschedule, StartChecking, Poll, Reschedule, LetGo, FutureOp
    <2> QED
      BY <2>1, <2>3
  <1>10. CASE AnswerFirst \/ Again \/ ScheduleFirst \/ AnswerLast
    <2>1. hand \in Hasty /\ hand \in Tasks
      BY <1>10, TaskAssumption DEF Inv, HandsOK, Midway, AnswerFirst, Again, ScheduleFirst, AnswerLast
    <2>2. FutureOp(hand)
      BY <1>10, <2>1 DEF AnswerFirst, Again, ScheduleFirst, AnswerLast, Reschedule, LetGo, FutureOp, Raise
    <2> QED
      BY <2>1, <2>2
  <1>4. CASE Shutdown \/ AskEmpty \/ TakeSleeping \/ TakeReady \/ PutCancelled
    BY <1>4 DEF Shutdown, AskEmpty, TakeSleeping, TakeReady, PutCancelled
  <1>5. CASE CancelTask
    BY <1>5 DEF CancelTask, FutureOp, Inv, TypeOK
  <1>6. ASSUME NEW c \in Clients, CheckRunning(c) \/ Put(c) \/ Expire(c) PROVE UNCHANGED <<futures, got>>
    BY <1>6 DEF CheckRunning, Put, Expire
  <1>7. ASSUME NEW t \in Tasks, LoaderLoop(t) PROVE FutureOp(t)
    BY <1>7 DEF LoaderLoop, FutureOp, Inv, AtWork
  <1>8. ASSUME NEW t \in Tasks, LoaderBatch(t) PROVE FutureOp(t)
    BY <1>8 DEF LoaderBatch, FutureOp, Raise, Inv, AtWork
  <1>9. ASSUME NEW t \in Tasks, Tick(t) PROVE UNCHANGED <<futures, got>>
    BY <1>9 DEF Tick
  <1> QED
    BY <1>1, <1>2, <1>3, <1>4, <1>5, <1>6, <1>7, <1>8, <1>9, <1>10 DEF Next, Manager, Closer, Client, Loader

\* How the future of a task stands.
Standing(t) == IF Done(t) THEN Verdict(Outcome(t)) ELSE "none"

\* An operation on a future settles it if it is open and else leaves its verdict, also where
\* set_result or set_exception overwrite what is there.
LEMMA FutureOpSettles ==
    ASSUME Inv, NEW t \in Tasks, FutureOp(t)
    PROVE  [Promised!Next]_<<verdict, told>>
  <1>1. TypeOK /\ FutureTypes /\ FutureTypes'
    BY FutureOpFacts DEF Inv, TypeOK, FutureTypes
  <1>2. \A u \in Tasks \ {t} : Standing(u)' = Standing(u)
    BY FutureOpFacts DEF Standing, Done, Outcome
  <1>3. \/ fstate'[t] = fstate[t] /\ exc'[t] = exc[t]
        \/ fstate[t] # "CANCELLED" /\ fstate'[t] = "FINISHED" /\ exc'[t] = exc[t]
        \/ fstate[t] # "CANCELLED" /\ ~Worked(t) /\ fstate'[t] = "FINISHED" /\ exc'[t] # "none"
        \/ fstate[t] = "PENDING" /\ fstate'[t] = "CANCELLED" /\ exc'[t] = exc[t]
        \/ t \in Hasty
    BY <1>1 DEF FutureTypes, FutureOp, Raise, SetResult, SetException, Cancel, futures
  <1>4. t \in Steady /\ Standing(t) # "none" => Standing(t)' = Standing(t)
    BY <1>1, <1>3 DEF FutureTypes, Standing, Done, Outcome, Verdict, Worked, Steady
  <1>5. Standing(t)' \in {"none", "value", "failed", "cancelled"}
    BY <1>1 DEF FutureTypes, Standing, Done, Outcome, Verdict
  <1>6. told' = told
    BY DEF told, FutureOp, Raise, SetResult, SetException, Cancel, clients
  <1>7. verdict = [u \in Steady |-> Standing(u)] /\ verdict' = [u \in Steady |-> Standing(u)']
    BY DEF verdict, Standing
  <1>8. CASE t \notin Steady \/ Standing(t)' = Standing(t)
    BY <1>2, <1>6, <1>7, <1>8 DEF Steady
  <1>9. CASE t \in Steady /\ Standing(t)' # Standing(t)
    <2>1. Standing(t)' \in Promised!Verdicts /\ Standing(t) = "none"
      BY <1>4, <1>5, <1>9 DEF Promised!Verdicts
    <2>2. verdict' = [verdict EXCEPT ![t] = Standing(t)']
      BY <1>2, <1>7, <1>9 DEF Steady
    <2>3. Promised!Settle(t, Standing(t)')
      BY <1>6, <1>7, <1>9, <2>1, <2>2 DEF Promised!Settle, Promised!Open
    <2> QED
      BY <1>9, <2>1, <2>3 DEF Promised!Next
  <1> QED
    BY <1>8, <1>9

\* A client that finds its future done, before or after the wait, is told how it stands.
LEMMA ReturnTells ==
    ASSUME Inv, NEW c \in Patient, got[c] = "none", Done(TaskOf[c]), UNCHANGED futures,
           got' = [got EXCEPT ![c] = Outcome(TaskOf[c])]
    PROVE  Promised!Tell(c)
  <1>1. TypeOK /\ TaskOf[c] \in Steady /\ TaskOf[c] \in Tasks /\ c \in Clients /\ Patient \subseteq Clients
    BY DEF Inv, Patient, Steady
  <1>2. verdict' = verdict
    BY DEF verdict, Done, Outcome, futures
  <1>3. verdict[TaskOf[c]] = Verdict(Outcome(TaskOf[c])) /\ told[c] = "none"
    BY <1>1 DEF verdict, told, Verdict
  <1>4. Verdict(Outcome(TaskOf[c])) # "none"
    BY <1>1 DEF TypeOK, Verdict, Outcome
  <1>5. told' = [told EXCEPT ![c] = Verdict(Outcome(TaskOf[c]))]
    BY <1>1 DEF TypeOK, told
  <1> QED
    BY <1>2, <1>3, <1>4, <1>5 DEF Promised!Tell, Promised!Open

\* A client that comes out of the wait while its future is open had passed a timeout, and gives up.
LEMMA WakeUpGivesUp ==
    ASSUME Inv, NEW c \in Patient, WakeUp(c), ~Done(TaskOf[c])
    PROVE  Promised!GiveUp(c)
  <1>1. /\ TypeOK /\ TaskOf[c] \in Steady /\ TaskOf[c] \in Tasks /\ c \in Clients
        /\ Patient \subseteq Clients /\ Steady \subseteq Tasks
    BY DEF Inv, Patient, Steady
  <1>2. c \in Timed /\ got[c] = "none"
    BY <1>1 DEF WakeUp, Inv, TimeoutsOK, ToldOK
  <1>3. /\ exc' = [exc EXCEPT ![TaskOf[c]] = "timeout"]
        /\ fstate' = [fstate EXCEPT ![TaskOf[c]] = "FINISHED"]
        /\ got' = [got EXCEPT ![c] = "timeout"]
    BY DEF WakeUp
  <1>4. verdict[TaskOf[c]] = "none" /\ told[c] = "none"
    BY <1>1, <1>2 DEF verdict, told, Verdict
  <1>5. told' = [told EXCEPT ![c] = "failed"]
    BY <1>1, <1>3 DEF TypeOK, told, Verdict
  <1>6. verdict' = [verdict EXCEPT ![TaskOf[c]] = "failed"]
    BY <1>1, <1>3 DEF TypeOK, verdict, Verdict, Outcome, Done
  <1> QED
    BY <1>2, <1>4, <1>5, <1>6 DEF Promised!GiveUp, Promised!Open

\* Every step of the engine is a step of Promise or leaves verdicts and answers alone.
LEMMA StepPromise == ASSUME Inv, [Next]_vars PROVE [Promised!Next]_<<verdict, told>>
  <1>1. CASE UNCHANGED <<futures, got>>
    BY <1>1 DEF verdict, told, Done, Outcome, futures
  <1>2. CASE \E t \in Tasks : FutureOp(t)
    BY <1>2, FutureOpSettles
  <1>3. ASSUME NEW c \in Patient, Ask(c) \/ WakeUp(c), Done(TaskOf[c]) PROVE Promised!Tell(c)
    <2>1. got[c] = "none"
      BY <1>3 DEF Ask, WakeUp, Inv, ToldOK, Patient
    <2>2. UNCHANGED futures /\ got' = [got EXCEPT ![c] = Outcome(TaskOf[c])]
      BY <1>3 DEF Ask, WakeUp
    <2> QED
      BY <1>3, <2>1, <2>2, ReturnTells
  <1>4. ASSUME NEW c \in Clients, Ask(c), ~Done(TaskOf[c]) PROVE UNCHANGED <<futures, got>>
    BY <1>4 DEF Ask
  <1>5. ASSUME NEW c \in Patient, WakeUp(c), ~Done(TaskOf[c]) PROVE Promised!GiveUp(c)
    BY <1>5, WakeUpGivesUp
  <1>8. ASSUME NEW c \in Clients \ Patient, Ask(c) \/ WakeUp(c) PROVE UNCHANGED <<verdict, told>>
    <2>1. /\ TaskOf[c] \in Tasks \ Steady /\ TypeOK
          /\ Patient \subseteq Clients /\ Steady \subseteq Tasks
      BY TaskAssumption DEF Patient, Steady, Inv
    <2>2. \A e \in Patient : got'[e] = got[e]
      BY <1>8, <2>1 DEF Ask, WakeUp, TypeOK
    <2>3. \A u \in Steady : fstate'[u] = fstate[u] /\ exc'[u] = exc[u]
      BY <1>8, <2>1 DEF Ask, WakeUp, TypeOK, futures
    <2> QED
      BY <2>2, <2>3 DEF verdict, told, Done, Outcome
  <1>6. CASE \E c \in Clients : Ask(c) \/ WakeUp(c)
    BY <1>1, <1>3, <1>4, <1>5, <1>6, <1>8 DEF Promised!Next, Patient
  <1>7. UNCHANGED vars => UNCHANGED <<futures, got>>
    BY DEF vars, clients
  <1> QED
    BY <1>1, <1>2, <1>6, <1>7, StepFuture

\* The engine implements Promise, whether or not the shutdown is forced: although any thread may
\* call set_result, set_exception or cancel on a future that is done, the future of a task that
\* is not hasty is settled once, and a thread is told what it was settled with or, only with a timeout, settles it itself.
THEOREM FuturesPromise == Spec => PromiseSpec
  <1>1. Inv /\ [Next]_vars => [Promised!Next]_<<verdict, told>>
    BY StepPromise
  <1>2. Init => Promised!Init
    BY DEF Init, Promised!Init, Promised!Open, verdict, told, Done, Verdict, Steady, Patient
  <1> QED
    BY Invariant, <1>1, <1>2, PTL DEF Spec, PromiseSpec, Promised!Spec

-----------------------------------------------------------------------------
(* Without a forced shutdown. *)

\* Only the manager takes tasks out of the queues, so that they have at least as many as it saw.
LEMMA StepReader == ASSUME ~Forced, Inv, OneReader, [Next]_vars PROVE OneReader'
  <1> USE DEF OneReader, queues, manager, futures, work, clients, closer
  <1>1. readyq \in Seq(Tasks) /\ sleepq \in Seq(Tasks) /\ left \in Nat /\ Len(sleepq) \in Nat
    BY DEF Inv, TypeOK
  <1>2. /\ mpc \in {"putsleep", "putready", "putfirst", "sput"} => hand \in Tasks
        /\ \A c \in Clients : TaskOf[c] \in Tasks
    BY TaskAssumption DEF Inv, TypeOK
  <1>3. CASE While
    BY <1>3 DEF While
  <1>4. CASE Pick
    BY <1>4 DEF Pick
  <1>5. CASE Get
    BY <1>5 DEF Get
  <1>6. CASE Step
    BY <1>6 DEF Step, Reschedule, LetGo
  <1>7. CASE Succeed \/ Fail \/ FailAndReschedule \/ StartLoader \/ Started
    BY <1>7 DEF Succeed, Fail, FailAndReschedule, StartLoader, Started, LetGo
  <1>8. CASE StartChecking \/ Poll
    BY <1>8 DEF StartChecking, Poll, Reschedule, LetGo
  <1>9. CASE PutReady \/ PutSleep \/ PutFirst
    BY <1>9 DEF PutReady, PutSleep, PutFirst, LetGo
  <1>18. CASE AnswerFirst \/ Again \/ ScheduleFirst \/ AnswerLast
    BY <1>18 DEF AnswerFirst, Again, ScheduleFirst, AnswerLast, Reschedule, LetGo
  <1>10. CASE Size
    BY <1>1, <1>10 DEF Size
  <1>11. CASE SleepGet
    <2>1. Len(Tail(sleepq)) = Len(sleepq) - 1
      BY <1>1, <1>11, GetIn DEF SleepGet
    <2> QED
      BY <1>1, <1>11, <2>1 DEF SleepGet
  <1>12. CASE SleepPut
    <2>1. Len(Append(sleepq, hand)) = Len(sleepq) + 1
      BY <1>1, <1>2, <1>12, PutIn DEF SleepPut
    <2>2. left > 0
      BY <1>12 DEF Inv, HandsOK, SleepPut
    <2> QED
      BY <1>1, <1>12, <2>1, <2>2 DEF SleepPut
  <1>13. CASE Shutdown \/ Closer
    BY <1>13 DEF Shutdown, Closer, AskEmpty, TakeSleeping, TakeReady, CancelTask, PutCancelled
  <1>14. ASSUME NEW c \in Clients, Ask(c) \/ WakeUp(c) \/ CheckRunning(c) \/ Expire(c) PROVE OneReader'
    BY <1>14 DEF Ask, WakeUp, CheckRunning, Expire
  <1>15. ASSUME NEW c \in Clients, Put(c) PROVE OneReader'
    <2>1. Len(Append(readyq, TaskOf[c])) = Len(readyq) + 1
      BY <1>1, <1>2, PutIn
    <2>2. Append(readyq, TaskOf[c]) # <<>>
      BY <1>1, <2>1
    <2> QED
      BY <1>15, <2>2 DEF Put
  <1>16. ASSUME NEW t \in Tasks, Loader(t) \/ Tick(t) PROVE OneReader'
    BY <1>16 DEF Loader, LoaderLoop, LoaderBatch, Tick
  <1>17. CASE UNCHANGED vars
    BY <1>17 DEF vars
  <1> QED
    BY <1>3, <1>4, <1>5, <1>6, <1>7, <1>8, <1>9, <1>10, <1>11, <1>12, <1>13, <1>14, <1>15, <1>16, <1>17, <1>18
       DEF Next, Manager, Client

\* Unless shutdown(force=True) is called, the manager never blocks in get() on a queue it has
\* just seen filled, whatever is scheduled and however often the tasks go to sleep.
THEOREM ManagerNeverBlocks == ASSUME ~Forced PROVE Spec => []GetNeverBlocks
  <1>1. Init => OneReader
    BY DEF Init, OneReader
  <1>2. Inv /\ OneReader /\ [Next]_vars => OneReader'
    BY StepReader
  <1>3. Inv /\ OneReader => GetNeverBlocks
    BY DEF Inv, HandsOK, OneReader, GetNeverBlocks
  <1> QED
    BY Invariant, <1>1, <1>2, <1>3, PTL DEF Spec
=============================================================================
