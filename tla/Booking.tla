------------------------------ MODULE Booking -------------------------------
(***************************************************************************)
(* What the server pool promises, whatever scripts work on it.  A client   *)
(* that wants servers looks at free ones, fetches them and takes what it   *)
(* has fetched.  Anybody may give servers back at any time, of several     *)
(* owners in one statement.  A server that changes hands voids the claim   *)
(* of every client that has fetched it; if transactions are Isolated also  *)
(* the claim of those who have only looked at it.  A client takes servers  *)
(* by a claim that has not been voided, all of them at once, or none.      *)
(***************************************************************************)
CONSTANTS Servers, Clients, Owners, Free, Isolated

VARIABLES owner,  \* who has each server
          seen,   \* what each client has looked at
          held    \* what each client has fetched

claims == <<owner, seen, held>>

Init == /\ owner = [s \in Servers |-> Free]
        /\ seen = [c \in Clients |-> {}]
        /\ held = [c \in Clients |-> {}]

Look(c, S) ==
    /\ \A s \in S : owner[s] = Free
    /\ seen' = [seen EXCEPT ![c] = S]
    /\ UNCHANGED <<owner, held>>

Fetch(c) ==
    /\ seen' = [seen EXCEPT ![c] = {}]
    /\ held' = [held EXCEPT ![c] = seen[c]]
    /\ UNCHANGED owner

\* The servers in S have changed hands.  A client may also let go of a claim.
Void(S) ==
    /\ seen' \in [Clients -> SUBSET Servers] /\ held' \in [Clients -> SUBSET Servers]
    /\ \A c \in Clients :
        /\ seen'[c] = {} \/ (seen'[c] = seen[c] /\ (Isolated => seen[c] \cap S = {}))
        /\ held'[c] = {} \/ (held'[c] = held[c] /\ held[c] \cap S = {})

\* c books what it has fetched under the name u.
Take(c, u) ==
    /\ owner' = [s \in Servers |-> IF s \in held[c] THEN u ELSE owner[s]]
    /\ Void(held[c])

Give(S) ==
    /\ owner' = [s \in Servers |-> IF s \in S THEN Free ELSE owner[s]]
    /\ Void(S)

Next ==
    \/ \E c \in Clients, S \in SUBSET Servers : Look(c, S)
    \/ \E c \in Clients : Fetch(c)
    \/ \E c \in Clients, u \in Owners : Take(c, u)
    \/ \E S \in SUBSET Servers : Give(S)

Spec == Init /\ [][Next]_claims
=============================================================================
