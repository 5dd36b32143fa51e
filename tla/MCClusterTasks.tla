--------------------------- MODULE MCClusterTasks ---------------------------
(* Instances of ClusterTasks for TLC. *)
EXTENDS ClusterTasks, TLC

CONSTANTS t1, t2, c1, c2

\* Two clients wait for t1, one of them with a timeout.
TwoClients == c1 :> t1 @@ c2 :> t1

\* Any class beside one that polls for ever or one that others wait for.
AnyBesideFew == t1 :> Names @@ t2 :> {"StatsWait", "NodeDownTimer"}

\* The classes that promise to try a failed statement again.
Retrying == t1 :> {"N1QLQuery", "CreateIndex", "BuildIndex", "DropIndex"} @@ t2 :> {"StatsWait"}

\* The limits of the code are 5, 300 (40 for a mixed cluster), 100, 100, 20, 5 and 20; what
\* matters is that "hang" is larger than "start".
SmallLimits ==
    [create |-> 1, rebalance |-> 2, view |-> 2, active |-> 1, hang |-> 2, start |-> 1, compact |-> 1]
=============================================================================
