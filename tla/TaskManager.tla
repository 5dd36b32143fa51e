---------------------------- MODULE TaskManager -----------------------------
(***************************************************************************)
(* The task engine: lib/tasks/future.py (Future), lib/tasks/task.py (Task, *)
(* its subclasses and GenericLoadingTask) and lib/tasks/taskmanager.py.    *)
(*                                                                         *)
(* The manager thread takes tasks from readyq and steps them, test threads *)
(* ("clients") schedule tasks and wait for their result, a task that loads *)
(* data runs in a thread of its own, and one thread shuts the manager      *)
(* down.  A method of Future runs under the condition's lock and is one    *)
(* action, split at the wait; the calls on the two queues are separate     *)
(* actions, as empty(), get() and put() lock only themselves.              *)
(*                                                                         *)
(* Nothing in the repository registers a done callback or calls            *)
(* set_running_or_notify_cancel, so the states RUNNING and                 *)
(* CANCELLED_AND_NOTIFIED never occur.                                     *)
(***************************************************************************)
EXTENDS Naturals, Sequences, FiniteSets

CONSTANTS
    Tasks,         \* the tasks
    Loaders,       \* those that are GenericLoadingTasks
    Hasty,         \* those that answer before they are through with execute() or check()
    Clients,       \* threads that call result()
    TaskOf,        \* the task each client waits for
    Schedulers,    \* the clients that also schedule their task
    Timed,         \* the clients that pass a timeout
    MaxPolls,      \* how often check() may find the work unfinished (bound)
    MaxBatches,    \* how many batches a loader has (bound)
    Forced,        \* shutdown(force=True)
    Orderly,       \* the manager is shut down only after the clients have scheduled
    NoTask

ASSUME TaskAssumption ==
    /\ Loaders \subseteq Tasks /\ Hasty \subseteq Tasks \ Loaders
    /\ Schedulers \subseteq Clients /\ Timed \subseteq Clients
    /\ TaskOf \in [Clients -> Tasks]
    /\ MaxPolls \in Nat /\ MaxBatches \in Nat
    /\ {Forced, Orderly} \subseteq BOOLEAN
    /\ NoTask \notin Tasks
    \* a caller makes a task and schedules it once; after that the task schedules itself
    /\ \A c, e \in Schedulers : TaskOf[c] = TaskOf[e] => c = e

VARIABLES
    running,  \* TaskManager.running
    readyq,   \* TaskManager.readyq
    sleepq,   \* TaskManager.sleepq
    due,      \* the sleeping tasks whose wakeup time has come
    mpc,      \* the manager thread
    hand,     \* the task the manager holds
    left,     \* iterations left of the loop over sleepq
    state,    \* Task.state
    fstate,   \* Future._state
    result,   \* whether Future._result was set
    exc,      \* Future._exception
    polls,    \* polls done by check()
    loader,   \* the thread of a loading task
    batches,  \* batches it has done
    cpc,      \* the clients
    got,      \* how result() ended
    spc,      \* the thread that calls shutdown
    shand     \* the task it holds

queues  == <<running, readyq, sleepq, due>>
manager == <<mpc, hand, left>>
futures == <<fstate, result, exc>>
work    == <<state, polls, loader, batches>>
clients == <<cpc, got>>
closer  == <<spc, shand>>
vars == <<queues, manager, futures, work, clients, closer>>

Outcomes == {"none", "value", "error", "timeout", "cancelled"}

TypeOK ==
    /\ running \in BOOLEAN
    /\ readyq \in Seq(Tasks) /\ sleepq \in Seq(Tasks) /\ due \subseteq Tasks
    /\ mpc \in {"while", "pick", "get", "step", "body", "again", "answer", "putready", "putsleep",
                "putfirst", "started", "size", "sget", "sput", "exit"}
    /\ hand \in Tasks \cup {NoTask} /\ left \in Nat
    /\ state \in [Tasks -> {"PENDING", "EXECUTING", "CHECKING", "FINISHED"}]
    /\ fstate \in [Tasks -> {"PENDING", "CANCELLED", "FINISHED"}]
    /\ result \in [Tasks -> BOOLEAN]
    /\ exc \in [Tasks -> {"none", "error", "timeout"}]
    /\ polls \in [Tasks -> 0..MaxPolls]
    /\ loader \in [Tasks -> {"off", "loop", "batch", "ended", "dead"}]
    /\ batches \in [Tasks -> 0..MaxBatches]
    /\ cpc \in [Clients -> {"check", "put", "ask", "waiting", "woken", "refused", "back"}]
    /\ got \in [Clients -> Outcomes]
    /\ spc \in {"run", "sempty", "sget", "scancel", "sput", "rempty", "rget", "rcancel", "end"}
    /\ shand \in Tasks \cup {NoTask}
    /\ mpc \in {"step", "body", "again", "answer", "started", "putready", "putsleep", "putfirst", "sput"}
          => hand \in Tasks
    /\ spc \in {"scancel", "sput", "rcancel"} => shand \in Tasks

Init ==
    /\ running = TRUE /\ readyq = <<>> /\ sleepq = <<>> /\ due = {}
    /\ mpc = "while" /\ hand = NoTask /\ left = 0
    /\ state = [t \in Tasks |-> "PENDING"]
    /\ fstate = [t \in Tasks |-> "PENDING"]
    /\ result = [t \in Tasks |-> FALSE]
    /\ exc = [t \in Tasks |-> "none"]
    /\ polls = [t \in Tasks |-> 0]
    /\ loader = [t \in Tasks |-> "off"]
    /\ batches = [t \in Tasks |-> 0]
    /\ cpc = [c \in Clients |-> IF c \in Schedulers THEN "check" ELSE "ask"]
    /\ got = [c \in Clients |-> "none"]
    /\ spc = "run" /\ shand = NoTask

-----------------------------------------------------------------------------
(* Future. *)

\* Future.done
Done(t) == fstate[t] \in {"CANCELLED", "FINISHED"}

\* notify_all on the condition of t
Notified(t) == [c \in Clients |-> IF cpc[c] = "waiting" /\ TaskOf[c] = t THEN "woken" ELSE cpc[c]]

\* Defect: set_result does not wake the waiting threads.
SetResultSilently(t) ==
    /\ result' = [result EXCEPT ![t] = TRUE]
    /\ fstate' = [fstate EXCEPT ![t] = "FINISHED"]
    /\ UNCHANGED <<exc, clients>>

\* Future.set_result: whatever the state was.
SetResult(t) ==
    /\ result' = [result EXCEPT ![t] = TRUE]
    /\ fstate' = [fstate EXCEPT ![t] = "FINISHED"]
    /\ cpc' = Notified(t)
    /\ UNCHANGED <<exc, got>>

\* Future.set_exception: whatever the state was; nothing ever clears _exception.
SetException(t, e) ==
    /\ exc' = [exc EXCEPT ![t] = e]
    /\ fstate' = [fstate EXCEPT ![t] = "FINISHED"]
    /\ cpc' = Notified(t)
    /\ UNCHANGED <<result, got>>

\* Defect: cancel does not look whether the future is pending.
CancelAlways(t) ==
    /\ fstate' = [fstate EXCEPT ![t] = "CANCELLED"]
    /\ cpc' = Notified(t)
    /\ UNCHANGED <<result, exc, got>>

\* Future.cancel
Cancel(t) ==
    IF fstate[t] = "PENDING"
    THEN /\ fstate' = [fstate EXCEPT ![t] = "CANCELLED"]
         /\ cpc' = Notified(t)
         /\ UNCHANGED <<result, exc, got>>
    ELSE UNCHANGED <<futures, clients>>

\* Defect: __get_result looks at _result first.
OutcomeResultFirst(t) == IF fstate[t] = "CANCELLED" THEN "cancelled"
                         ELSE IF result[t] THEN "value" ELSE exc[t]

\* What result() raises or returns for a future that is done: __get_result
\* looks at _exception first.
Outcome(t) == IF fstate[t] = "CANCELLED" THEN "cancelled"
              ELSE IF exc[t] # "none" THEN exc[t] ELSE "value"

\* result() up to the wait.
Ask(c) ==
    /\ cpc[c] = "ask"
    /\ IF Done(TaskOf[c])
       THEN cpc' = [cpc EXCEPT ![c] = "back"] /\ got' = [got EXCEPT ![c] = Outcome(TaskOf[c])]
       ELSE cpc' = [cpc EXCEPT ![c] = "waiting"] /\ UNCHANGED got
    /\ UNCHANGED <<queues, manager, futures, work, closer>>

\* The timeout of the wait.
Expire(c) ==
    /\ cpc[c] = "waiting" /\ c \in Timed
    /\ cpc' = [cpc EXCEPT ![c] = "woken"]
    /\ UNCHANGED <<queues, manager, futures, work, got, closer>>

\* Defect: the TimeoutError is raised but not kept in the future.
WakeUpForgets(c) ==
    /\ cpc[c] = "woken"
    /\ cpc' = [cpc EXCEPT ![c] = "back"]
    /\ got' = [got EXCEPT ![c] = IF Done(TaskOf[c]) THEN Outcome(TaskOf[c]) ELSE "timeout"]
    /\ UNCHANGED <<queues, manager, futures, work, closer>>

\* result() after the wait: there is one wait, not a loop around it.  A future
\* that is still not done gets a TimeoutError for everybody.
WakeUp(c) ==
    /\ cpc[c] = "woken"
    /\ LET t == TaskOf[c]
       IN  IF Done(t)
           THEN /\ cpc' = [cpc EXCEPT ![c] = "back"]
                /\ got' = [got EXCEPT ![c] = Outcome(t)]
                /\ UNCHANGED futures
           ELSE /\ exc' = [exc EXCEPT ![t] = "timeout"]
                /\ fstate' = [fstate EXCEPT ![t] = "FINISHED"]
                /\ cpc' = [Notified(t) EXCEPT ![c] = "back"]
                /\ got' = [got EXCEPT ![c] = "timeout"]
                /\ UNCHANGED result
    /\ UNCHANGED <<queues, manager, work, closer>>

-----------------------------------------------------------------------------
(* TaskManager.schedule, called by a client. *)

\* "Tried to schedule a task when task manager not running"
CheckRunning(c) ==
    /\ cpc[c] = "check"
    /\ cpc' = [cpc EXCEPT ![c] = IF running THEN "put" ELSE "refused"]
    /\ UNCHANGED <<queues, manager, futures, work, got, closer>>

Put(c) ==
    /\ cpc[c] = "put"
    /\ readyq' = Append(readyq, TaskOf[c])
    /\ cpc' = [cpc EXCEPT ![c] = "ask"]
    /\ UNCHANGED <<running, sleepq, due, manager, futures, work, got, closer>>

-----------------------------------------------------------------------------
(* TaskManager.run. *)

\* The condition of the while loop.
While ==
    /\ mpc = "while"
    /\ mpc' = IF running \/ readyq # <<>> \/ sleepq # <<>> THEN "pick" ELSE "exit"
    /\ UNCHANGED <<queues, hand, left, futures, work, clients, closer>>

\* readyq.empty(): time.sleep(1), or get.
Pick ==
    /\ mpc = "pick"
    /\ mpc' = IF readyq = <<>> THEN "size" ELSE "get"
    /\ UNCHANGED <<queues, hand, left, futures, work, clients, closer>>

\* readyq.get() blocks while the queue is empty.
Get ==
    /\ mpc = "get" /\ readyq # <<>>
    /\ hand' = Head(readyq) /\ readyq' = Tail(readyq)
    /\ mpc' = "step"
    /\ UNCHANGED <<running, sleepq, due, left, futures, work, clients, closer>>

\* The manager is through with the task it holds.
LetGo == hand' = NoTask /\ mpc' = "size"

\* schedule, called by the task in the manager's hand.  The exception for a
\* manager that is not running ends the task in run(), or in the task's own
\* handler, which does the same.
Reschedule(where) ==
    IF running
    THEN mpc' = where /\ UNCHANGED <<hand, futures, clients>>
    ELSE LetGo /\ SetException(hand, "error")

\* Defect: done() is not asked.
StepAlways ==
    /\ mpc = "step"
    /\ IF state[hand] = "PENDING"
       THEN /\ state' = [state EXCEPT ![hand] = IF running THEN "EXECUTING" ELSE "FINISHED"]
            /\ Reschedule("putready")
       ELSE mpc' = "body" /\ UNCHANGED <<hand, futures, clients, state>>
    /\ UNCHANGED <<queues, left, polls, loader, batches, closer>>

\* Task.step: done() is asked once, before the work.
Step ==
    /\ mpc = "step"
    /\ \/ /\ Done(hand) \/ state[hand] = "FINISHED"
          /\ LetGo
          /\ UNCHANGED <<futures, clients, state>>
       \/ /\ ~Done(hand) /\ state[hand] = "PENDING"
          /\ state' = [state EXCEPT ![hand] = IF running THEN "EXECUTING" ELSE "FINISHED"]
          /\ Reschedule("putready")
       \/ /\ ~Done(hand) /\ state[hand] \in {"EXECUTING", "CHECKING"}
          /\ mpc' = "body"
          /\ UNCHANGED <<hand, futures, clients, state>>
    /\ UNCHANGED <<queues, left, polls, loader, batches, closer>>

\* execute() or check() ends the task with a result.
Succeed ==
    /\ mpc = "body" /\ hand \notin Loaders
    /\ state' = [state EXCEPT ![hand] = "FINISHED"]
    /\ SetResult(hand)
    /\ LetGo
    /\ UNCHANGED <<queues, left, polls, loader, batches, closer>>

\* execute() or check() ends the task with an exception, or raises it: one of the
\* cluster, or the TimeoutError of future.py's wait_until and result().
Fail ==
    /\ mpc = "body" /\ hand \notin Loaders
    /\ state' = [state EXCEPT ![hand] = "FINISHED"]
    /\ \E e \in {"error", "timeout"} : SetException(hand, e)
    /\ LetGo
    /\ UNCHANGED <<queues, left, polls, loader, batches, closer>>

\* RebalanceTask.check and BucketCreateTask.check set the exception, go on, and
\* schedule the finished task once more, with and without sleep.
FailAndReschedule ==
    /\ mpc = "body" /\ hand \notin Loaders /\ state[hand] = "CHECKING"
    /\ state' = [state EXCEPT ![hand] = "FINISHED"]
    /\ SetException(hand, "error")
    /\ IF running THEN mpc' \in {"putready", "putsleep"} /\ UNCHANGED hand ELSE LetGo
    /\ UNCHANGED <<queues, left, polls, loader, batches, closer>>

\* A hasty task answers and its method goes on: to schedule the finished task
\* (CollectionCreateTask.check) or to answer again (set_result(False), set_exception).
AnswerFirst ==
    /\ mpc = "body" /\ hand \in Hasty
    /\ state' = [state EXCEPT ![hand] = "FINISHED"]
    /\ SetResult(hand) \/ SetException(hand, "error")
    /\ mpc' \in {"again", "answer"}
    /\ UNCHANGED <<queues, hand, left, polls, loader, batches, closer>>

\* The schedule after the answer.  A manager that was shut down meanwhile makes it raise,
\* and run() sets that exception on top of the answer.
Again ==
    /\ mpc = "again"
    /\ \E where \in {"putready", "putsleep"} : Reschedule(where)
    /\ UNCHANGED <<queues, left, work, closer>>

\* A hasty task schedules itself and falls through to an answer (MonitorActiveTask.check,
\* ViewCompactionTask.check).
ScheduleFirst ==
    /\ mpc = "body" /\ hand \in Hasty
    /\ state' = [state EXCEPT ![hand] = IF running THEN @ ELSE "FINISHED"]
    /\ Reschedule("putfirst")
    /\ UNCHANGED <<queues, left, polls, loader, batches, closer>>

\* The put of that schedule; the manager is still in the method of the task.
PutFirst ==
    /\ mpc = "putfirst"
    /\ sleepq' = Append(sleepq, hand)
    /\ due' = due \ {hand}
    /\ mpc' = "answer"
    /\ UNCHANGED <<running, readyq, hand, left, futures, work, clients, closer>>

\* The last answer, whatever has become of the future meanwhile.
AnswerLast ==
    /\ mpc = "answer"
    /\ state' = [state EXCEPT ![hand] = "FINISHED"]
    /\ SetResult(hand) \/ SetException(hand, "error")
    /\ LetGo
    /\ UNCHANGED <<queues, left, polls, loader, batches, closer>>

\* execute() started the work: state = CHECKING, schedule(self).
StartChecking ==
    /\ mpc = "body" /\ hand \notin Loaders /\ state[hand] = "EXECUTING"
    /\ state' = [state EXCEPT ![hand] = IF running THEN "CHECKING" ELSE "FINISHED"]
    /\ Reschedule("putready")
    /\ UNCHANGED <<queues, left, polls, loader, batches, closer>>

\* check() found the work unfinished: schedule(self), or schedule(self, seconds).
Poll ==
    /\ mpc = "body" /\ state[hand] = "CHECKING" /\ polls[hand] < MaxPolls
    /\ polls' = [polls EXCEPT ![hand] = @ + 1]
    /\ state' = [state EXCEPT ![hand] = IF running THEN @ ELSE "FINISHED"]
    /\ \E where \in {"putready", "putsleep"} : Reschedule(where)
    /\ UNCHANGED <<queues, left, loader, batches, closer>>

\* GenericLoadingTask.execute starts the thread and leaves the queues.
StartLoader ==
    /\ mpc = "body" /\ hand \in Loaders
    /\ loader' = [loader EXCEPT ![hand] = "loop"]
    /\ mpc' = "started"
    /\ UNCHANGED <<queues, hand, left, futures, state, polls, batches, clients, closer>>

\* self.state = EXECUTING comes after start(): the thread may have ended by then.
Started ==
    /\ mpc = "started"
    /\ state' = [state EXCEPT ![hand] = "EXECUTING"]
    /\ LetGo
    /\ UNCHANGED <<queues, left, futures, polls, loader, batches, clients, closer>>

\* The put of schedule.
PutReady ==
    /\ mpc = "putready"
    /\ readyq' = Append(readyq, hand)
    /\ LetGo
    /\ UNCHANGED <<running, sleepq, due, left, futures, work, clients, closer>>

PutSleep ==
    /\ mpc = "putsleep"
    /\ sleepq' = Append(sleepq, hand)
    /\ due' = due \ {hand}
    /\ LetGo
    /\ UNCHANGED <<running, readyq, left, futures, work, clients, closer>>

\* Defect: one iteration too many.
SizePlusOne ==
    /\ mpc = "size"
    /\ left' = Len(sleepq) + 1
    /\ mpc' = "sget"
    /\ UNCHANGED <<queues, hand, futures, work, clients, closer>>

\* for i in range(sleepq.qsize())
Size ==
    /\ mpc = "size"
    /\ left' = Len(sleepq)
    /\ mpc' = IF sleepq = <<>> THEN "while" ELSE "sget"
    /\ UNCHANGED <<queues, hand, futures, work, clients, closer>>

\* sleepq.get() blocks while the queue is empty.
SleepGet ==
    /\ mpc = "sget" /\ sleepq # <<>>
    /\ hand' = Head(sleepq) /\ sleepq' = Tail(sleepq)
    /\ mpc' = "sput"
    /\ UNCHANGED <<running, readyq, due, left, futures, work, clients, closer>>

\* Defect: a task whose time has come stays in sleepq as well.
SleepPutBoth ==
    /\ mpc = "sput"
    /\ readyq' = IF hand \in due THEN Append(readyq, hand) ELSE readyq
    /\ sleepq' = Append(sleepq, hand)
    /\ hand' = NoTask
    /\ left' = left - 1
    /\ mpc' = IF left = 1 THEN "while" ELSE "sget"
    /\ UNCHANGED <<running, due, futures, work, clients, closer>>

\* Defect: the wakeup time is computed anew, and never comes.
SleepPutLater ==
    /\ mpc = "sput"
    /\ sleepq' = Append(sleepq, hand)
    /\ hand' = NoTask
    /\ left' = left - 1
    /\ mpc' = IF left = 1 THEN "while" ELSE "sget"
    /\ UNCHANGED <<running, readyq, due, futures, work, clients, closer>>

\* To readyq if the time has come, else to the end of sleepq.
SleepPut ==
    /\ mpc = "sput"
    /\ IF hand \in due THEN readyq' = Append(readyq, hand) /\ UNCHANGED sleepq
                       ELSE sleepq' = Append(sleepq, hand) /\ UNCHANGED readyq
    /\ hand' = NoTask
    /\ left' = left - 1
    /\ mpc' = IF left = 1 THEN "while" ELSE "sget"
    /\ UNCHANGED <<running, due, futures, work, clients, closer>>

\* The wakeup time of a sleeping task comes.
Tick(t) ==
    /\ t \notin due
    /\ \/ \E i \in DOMAIN sleepq : sleepq[i] = t
       \/ mpc = "sput" /\ hand = t
    /\ due' = due \cup {t}
    /\ UNCHANGED <<running, readyq, sleepq, manager, futures, work, clients, closer>>

-----------------------------------------------------------------------------
(* GenericLoadingTask.run, in the thread of the task. *)

\* Defect: one batch too many.
LoaderLoopOnceMore(t) ==
    /\ loader[t] = "loop"
    /\ IF batches[t] <= MaxBatches /\ ~Done(t)
       THEN loader' = [loader EXCEPT ![t] = "batch"] /\ UNCHANGED <<futures, clients, state>>
       ELSE /\ loader' = [loader EXCEPT ![t] = "ended"]
            /\ state' = [state EXCEPT ![t] = "FINISHED"]
            /\ SetResult(t)
    /\ UNCHANGED <<queues, manager, polls, batches, closer>>

\* while self.has_next() and not self.done()
LoaderLoop(t) ==
    /\ loader[t] = "loop"
    /\ \/ /\ batches[t] < MaxBatches /\ ~Done(t)
          /\ loader' = [loader EXCEPT ![t] = "batch"]
          /\ UNCHANGED <<futures, clients, state>>
       \/ /\ batches[t] = MaxBatches \/ Done(t)
          /\ loader' = [loader EXCEPT ![t] = "ended"]
          /\ state' = [state EXCEPT ![t] = "FINISHED"]
          /\ SetResult(t)
    /\ UNCHANGED <<queues, manager, polls, batches, closer>>

\* next(self): the operations of one batch.  Their handlers set the state and the
\* exception and return to the loop; what nobody catches ends the thread.
LoaderBatch(t) ==
    /\ loader[t] = "batch"
    /\ batches' = [batches EXCEPT ![t] = @ + 1]
    /\ \/ /\ loader' = [loader EXCEPT ![t] = "loop"]
          /\ UNCHANGED <<futures, clients, state>>
       \/ /\ loader' = [loader EXCEPT ![t] = "loop"]
          /\ state' = [state EXCEPT ![t] = "FINISHED"]
          /\ SetException(t, "error")
       \/ /\ loader' = [loader EXCEPT ![t] = "dead"]
          /\ UNCHANGED <<futures, clients, state>>
    /\ UNCHANGED <<queues, manager, polls, closer>>

-----------------------------------------------------------------------------
(* TaskManager.shutdown. *)

Shutdown ==
    /\ spc = "run"
    /\ Orderly => \A c \in Clients : cpc[c] \notin {"check", "put"}
    /\ running' = FALSE
    /\ spc' = IF Forced THEN "sempty" ELSE "end"
    /\ UNCHANGED <<readyq, sleepq, due, manager, futures, work, clients, shand>>

\* while not self.sleepq.empty(), while not self.readyq.empty()
AskEmpty ==
    /\ \/ spc = "sempty" /\ spc' = IF sleepq = <<>> THEN "rempty" ELSE "sget"
       \/ spc = "rempty" /\ spc' = IF readyq = <<>> THEN "end" ELSE "rget"
    /\ UNCHANGED <<queues, manager, futures, work, clients, shand>>

\* The manager works on the same queues: what empty() said may be over, and get()
\* blocks.
TakeSleeping ==
    /\ spc = "sget" /\ sleepq # <<>>
    /\ shand' = Head(sleepq) /\ sleepq' = Tail(sleepq)
    /\ spc' = "scancel"
    /\ UNCHANGED <<running, readyq, due, manager, futures, work, clients>>

TakeReady ==
    /\ spc = "rget" /\ readyq # <<>>
    /\ shand' = Head(readyq) /\ readyq' = Tail(readyq)
    /\ spc' = "rcancel"
    /\ UNCHANGED <<running, sleepq, due, manager, futures, work, clients>>

\* Defect: a ready task is dropped without cancelling it.
CancelTaskDrops ==
    /\ spc \in {"scancel", "rcancel"}
    /\ IF spc = "scancel" THEN Cancel(shand) /\ spc' = "sput" /\ UNCHANGED shand
                          ELSE spc' = "rempty" /\ shand' = NoTask /\ UNCHANGED <<futures, clients>>
    /\ UNCHANGED <<queues, manager, work>>

\* task.cancel(): a sleeping task goes to readyq after it, a ready one is dropped.
CancelTask ==
    /\ spc \in {"scancel", "rcancel"}
    /\ Cancel(shand)
    /\ IF spc = "scancel" THEN spc' = "sput" /\ UNCHANGED shand
                          ELSE spc' = "rempty" /\ shand' = NoTask
    /\ UNCHANGED <<queues, manager, work>>

PutCancelled ==
    /\ spc = "sput"
    /\ readyq' = Append(readyq, shand)
    /\ spc' = "sempty" /\ shand' = NoTask
    /\ UNCHANGED <<running, sleepq, due, manager, futures, work, clients>>

-----------------------------------------------------------------------------
Client(c) == Ask(c) \/ WakeUp(c) \/ CheckRunning(c) \/ Put(c)

Manager ==
    \/ While \/ Pick \/ Get \/ Step
    \/ Succeed \/ Fail \/ FailAndReschedule \/ StartChecking \/ Poll \/ StartLoader \/ Started
    \/ AnswerFirst \/ Again \/ ScheduleFirst \/ PutFirst \/ AnswerLast
    \/ PutReady \/ PutSleep \/ Size \/ SleepGet \/ SleepPut

Loader(t) == LoaderLoop(t) \/ LoaderBatch(t)

Closer == AskEmpty \/ TakeSleeping \/ TakeReady \/ CancelTask \/ PutCancelled

Next ==
    \/ Manager \/ Shutdown \/ Closer
    \/ \E c \in Clients : Client(c) \/ Expire(c)
    \/ \E t \in Tasks : Loader(t) \/ Tick(t)

Spec == Init /\ [][Next]_vars

\* Threads that can run do, and time passes.  Nobody has to shut the manager
\* down, and no timeout has to expire.
FairSpec ==
    /\ Spec
    /\ WF_vars(Manager) /\ WF_vars(Closer)
    /\ \A c \in Clients : WF_vars(Client(c))
    /\ \A t \in Tasks : WF_vars(Loader(t)) /\ WF_vars(Tick(t))

-----------------------------------------------------------------------------
(* Properties. *)

Count(q, t) == Cardinality({i \in DOMAIN q : q[i] = t})

\* Where the engine has a task: in the queues and in the hands of the threads.  A hasty
\* task whose last answer is due has been put back, or was answered before.
Holds(t) == hand = t /\ mpc # "answer"
Places(t) == Count(readyq, t) + Count(sleepq, t) + (IF Holds(t) THEN 1 ELSE 0) + Count(<<shand>>, t)

Scheduled(t) == \E c \in Schedulers : TaskOf[c] = t /\ cpc[c] \notin {"check", "put", "refused"}

\* No task is lost and none is in two places: readyq, sleepq, the two threads
\* that move tasks between them and the loading threads (a dead one included)
\* together have every scheduled task that is not done, once.
TaskTracked ==
    \A t \in Tasks :
        /\ Places(t) <= 1
        /\ Scheduled(t) /\ ~Done(t) => Places(t) = 1 \/ loader[t] \in {"loop", "batch", "dead"}

\* The manager is the only reader of its queues unless a shutdown is forced: a
\* get() after empty() or qsize() never blocks it.
GetNeverBlocks ==
    /\ mpc = "get" => readyq # <<>>
    /\ mpc = "sget" => Len(sleepq) >= left /\ left > 0

\* Two threads that wait for one task are told the same: it worked for both, or
\* for neither, also when one of them timed out while the task was finishing.  Not
\* so for a hasty task: one is told what it answers first and the other what it answers last.
AllAgree ==
    \A c, e \in Clients :
        TaskOf[c] \notin Hasty /\ cpc[c] = "back" /\ cpc[e] = "back" /\ TaskOf[c] = TaskOf[e] =>
            /\ got[c] = "value" <=> got[e] = "value"
            /\ got[c] = "cancelled" <=> got[e] = "cancelled"

\* The same as a refinement: to the threads that wait, the futures of the engine behave as
\* promises.  set_result and set_exception of future.py overwrite what is there, and the
\* manager, a loading thread, a shutdown and a client that times out race to call them;
\* yet the future of a task that is not hasty is settled once, whoever asks later is told
\* what those before were told, and only a client with a timeout settles it from outside.
Verdict(o) == IF o \in {"error", "timeout"} THEN "failed" ELSE o
Steady == Tasks \ Hasty
Patient == {c \in Clients : TaskOf[c] \in Steady}
verdict == [t \in Steady |-> IF Done(t) THEN Verdict(Outcome(t)) ELSE "none"]
told == [c \in Patient |-> Verdict(got[c])]
Promised == INSTANCE Promise WITH Tasks <- Steady, Clients <- Patient, verdict <- verdict, told <- told
PromiseSpec == Promised!Spec

\* What a forced shutdown has cancelled stays cancelled: no step of the manager
\* or of a loading thread sets a result or an exception after it, although the body of
\* a task runs for a long time without asking done() again.  A hasty task that has
\* scheduled itself may be cancelled in the queue before it answers.
CancelledIsFinal == [][\A t \in Steady : fstate[t] = "CANCELLED" => fstate'[t] = "CANCELLED"]_vars

\* Every thread that has asked for the result of a scheduled task gets an answer,
\* whether or not the manager is shut down meanwhile.  Only the death of a loading thread,
\* by an exception that no handler of its batch catches, leaves them waiting for ever.
ClientsReturn ==
    \A c \in Clients :
        (cpc[c] \in {"ask", "waiting"} /\ Scheduled(TaskOf[c]))
            ~> (cpc[c] = "back" \/ loader[TaskOf[c]] = "dead")

\* A manager that is shut down works off its queues and ends.
ManagerStops == spc # "run" ~> mpc = "exit"
=============================================================================
