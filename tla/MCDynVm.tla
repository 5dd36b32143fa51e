------------------------------ MODULE MCDynVm -------------------------------
(* Small instances of DynVm. *)
EXTENDS DynVm

CONSTANTS r1, r2, h1, h2, qe

MCHosts == <<h1, h2>>
OneEach == h1 :> 1 @@ h2 :> 1
TwoEach == h1 :> 2 @@ h2 :> 2
QeHosts == h1 :> {qe} @@ h2 :> {qe}
TwoAndOne == r1 :> 2 @@ r2 :> 1
QeRequests == r1 :> {qe} @@ r2 :> {qe}
SecondPinned == r1 :> NoHost @@ r2 :> h1
OneHost == <<h1>>
OneMax == h1 :> 1
TwoRoom == h1 :> 2
QeHost == h1 :> {qe}
OneVm == r1 :> 1
QeRequest == r1 :> {qe}
NotPinned == r1 :> NoHost
=============================================================================
