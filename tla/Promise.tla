------------------------------ MODULE Promise -------------------------------
(***************************************************************************)
(* What a future promises to the threads that wait for it, however many    *)
(* threads try to settle it: it is settled once, with a value, with a      *)
(* failure or by being cancelled, and everyone who asks is told what it    *)
(* was settled with.  A thread that waits with a timeout may give up: that *)
(* settles an unsettled future, for everybody, as failed.                  *)
(***************************************************************************)
CONSTANTS Tasks, Clients, TaskOf, Timed

VARIABLES
    verdict,  \* how the future of a task was settled
    told      \* what a client was told

Open == "none"
Verdicts == {"value", "failed", "cancelled"}

Init ==
    /\ verdict = [t \in Tasks |-> Open]
    /\ told = [c \in Clients |-> Open]

\* Somebody settles the future of t.
Settle(t, v) ==
    /\ verdict[t] = Open
    /\ verdict' = [verdict EXCEPT ![t] = v]
    /\ UNCHANGED told

\* c is told how its task ended.
Tell(c) ==
    /\ verdict[TaskOf[c]] # Open /\ told[c] = Open
    /\ told' = [told EXCEPT ![c] = verdict[TaskOf[c]]]
    /\ UNCHANGED verdict

\* c does not wait any longer.
GiveUp(c) ==
    /\ c \in Timed
    /\ verdict[TaskOf[c]] = Open /\ told[c] = Open
    /\ verdict' = [verdict EXCEPT ![TaskOf[c]] = "failed"]
    /\ told' = [told EXCEPT ![c] = "failed"]

Next ==
    \/ \E t \in Tasks, v \in Verdicts : Settle(t, v)
    \/ \E c \in Clients : Tell(c) \/ GiveUp(c)

Spec == Init /\ [][Next]_<<verdict, told>>
=============================================================================
