----------------------------- MODULE MCDispatch -----------------------------
(* Instances of Dispatch for TLC. *)
EXTENDS Dispatch, TLC

CONSTANTS s1, s2, s3, d1, d2, reg, add, ta, tb

\* Two servers in the regular pool, one in the additional pool.
MCPoolIdOf == [s \in Servers |-> IF s = s3 THEN {add} ELSE {reg}]
\* Servers of the regular pool only.
OnePoolIdOf == [s \in Servers |-> {reg}]
SameMemory == [s \in Servers |-> 1]
MCMemory == [s \in Servers |-> IF s = s2 THEN 2 ELSE 1]
MCPoolIds == <<reg>>

\* Each dispatcher has one test, ta or tb; or d1 has both; or both have ta.
SameTest == [d \in Dispatchers |-> <<ta>>]
OneEach == [d \in Dispatchers |-> IF d = d1 THEN <<ta>> ELSE <<tb>>]
TwoAndOne == [d \in Dispatchers |-> IF d = d1 THEN <<ta, tb>> ELSE <<tb>>]

\* ta needs two servers, tb one; or both two, or both one; both an additional one, or none.
TwoOne == [t \in Tests |-> IF t = ta THEN 2 ELSE 1]
TwoTwo == [t \in Tests |-> 2]
OneOne == [t \in Tests |-> 1]
AllAddl == [t \in Tests |-> 1]
NoAddl == [t \in Tests |-> 0]

\* Servers of the same size in the same pools, and dispatchers with the same tests.
Symmetry == Permutations(Servers) \cup Permutations(Dispatchers)
=============================================================================
