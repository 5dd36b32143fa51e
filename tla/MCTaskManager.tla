--------------------------- MODULE MCTaskManager ----------------------------
(* Instances of TaskManager for TLC. *)
EXTENDS TaskManager, TLC

CONSTANTS ta, th, tl, c1, c2, c3

\* c1 and c2 wait for the polled task ta, c3 for the loading task tl.
PolledAndLoading == c1 :> ta @@ c2 :> ta @@ c3 :> tl

\* c1 waits for the polled task ta, c2 and c3 for the hasty task th.
PolledAndHasty == c1 :> ta @@ c2 :> th @@ c3 :> th
=============================================================================
