--------------------------- MODULE LoadingProofs ----------------------------
(***************************************************************************)
(* Proofs about Loading, for any keys, partitions, threads and scripts:    *)
(* type correctness, that a store nobody works on says what the server     *)
(* holds, and that nobody is told of a difference the server is not the    *)
(* cause of.                                                               *)
(***************************************************************************)
EXTENDS Loading, SequenceTheorems, FiniteSetTheorems, TLAPS

Sets == {"create", "update", "bcreate", "bupdate"}
Deletes == {"delete", "bdelete"}
Creates == {"create", "bcreate"}

\* An operation has been begun and not been given up or noted.
Under == {"lock", "big", "grab", "work", "note"}

\* What is left to do belongs to the operation under way.
Shape(t) ==
    /\ pc[t] \in Under => Sized(op[t]) /\ Range(todo[t]) \subseteq Range(op[t].keys)
    /\ pc[t] \in {"lock", "big"} => todo[t] = op[t].keys
    /\ pc[t] = "lock" => op[t].kind \in Singles
    /\ pc[t] \in {"big", "grab"} => op[t].kind \in Batches
    /\ pc[t] = "note" => op[t].kind \in Sets \cup Deletes
    /\ pc[t] = "work" \/ (pc[t] = "note" /\ op[t].kind \in Deletes) =>
          todo[t] # <<>> /\ (op[t].kind \in Singles => Len(todo[t]) = 1)
    /\ \A i \in DOMAIN script[t] : script[t][i].kind \notin Checks /\ Sized(script[t][i])

Shapes == \A t \in Threads : Shape(t)

-----------------------------------------------------------------------------
(* Lists of keys. *)

\* The first key of a list and the rest of it.
LEMMA FirstAndRest ==
    ASSUME NEW q \in Seq(Keys), q # <<>>
    PROVE  /\ Head(q) \in Keys /\ Head(q) \in Range(q)
           /\ Tail(q) \in Seq(Keys) /\ Range(Tail(q)) \subseteq Range(q)
           /\ Range(q) \subseteq {Head(q)} \cup Range(Tail(q))
           /\ Len(q) = 1 => Tail(q) = <<>> /\ Range(q) = {Head(q)}
           /\ Len(q) # 1 => Tail(q) # <<>>
  <1>1. Len(q) \in Nat \ {0} /\ DOMAIN q = 1..Len(q)
    OBVIOUS
  <1>2. Head(q) = q[1] /\ Head(q) \in Keys /\ Head(q) \in Range(q)
    BY <1>1 DEF Range
  <1>3. /\ Tail(q) \in Seq(Keys) /\ Len(Tail(q)) = Len(q) - 1
        /\ \A i \in 1..(Len(q) - 1) : Tail(q)[i] = q[i + 1]
    BY <1>1
  <1>4. DOMAIN Tail(q) = 1..(Len(q) - 1)
    BY <1>3
  <1>5. Range(Tail(q)) \subseteq Range(q)
    <2> SUFFICES ASSUME NEW i \in 1..(Len(q) - 1) PROVE Tail(q)[i] \in Range(q)
      BY <1>4 DEF Range
    <2>1. i + 1 \in DOMAIN q /\ Tail(q)[i] = q[i + 1]
      BY <1>1, <1>3
    <2> QED
      BY <2>1 DEF Range
  <1>6. Range(q) \subseteq {Head(q)} \cup Range(Tail(q))
    <2> SUFFICES ASSUME NEW i \in 1..Len(q), i # 1 PROVE q[i] \in Range(Tail(q))
      BY <1>1, <1>2 DEF Range
    <2>1. i - 1 \in 1..(Len(q) - 1) /\ q[i] = Tail(q)[i - 1]
      BY <1>1, <1>3
    <2> QED
      BY <1>4, <2>1 DEF Range
  <1>7. ASSUME Len(q) = 1 PROVE Tail(q) = <<>> /\ Range(q) = {Head(q)}
    <2>1. Tail(q) = <<>>
      <3>1. Len(Tail(q)) = 0
        BY <1>3, <1>7
      <3>2. Tail(q) # <<>> => Len(Tail(q)) \in Nat \ {0}
        BY <1>3, EmptySeq, Zenon
      <3> QED
        BY <3>1, <3>2
    <2>2. Range(<<>>) = {}
      BY DEF Range
    <2> QED
      BY <1>2, <1>6, <2>1, <2>2
  <1>8. Len(q) # 1 => Tail(q) # <<>>
    <2>1. Len(q) # 1 => Len(Tail(q)) # 0
      BY <1>1, <1>3
    <2> QED
      BY <2>1
  <1> QED
    BY <1>2, <1>3, <1>5, <1>6, <1>7, <1>8

\* _process_values_for_update keeps exactly the keys that are valid.
LEMMA SublistKeeps ==
    ASSUME NEW q \in Seq(Keys), NEW S, NEW rest \in Sublist(q, S)
    PROVE  /\ rest \in Seq(Keys) /\ Range(rest) \subseteq Range(q)
           /\ \A k \in Range(q) : k \in S => k \in Range(rest)
  <1> DEFINE left == {i \in DOMAIN q : q[i] \in S}
             size == Cardinality(left)
  <1>1. PICK f \in [1..size -> left] : Range(f) = left /\ rest = [i \in 1..size |-> q[f[i]]]
    BY DEF Sublist
  <1>2. size \in Nat
    <2>1. DOMAIN q = 1..Len(q) /\ Len(q) \in Nat
      OBVIOUS
    <2>2. IsFiniteSet(1..Len(q))
      BY <2>1, FS_Interval
    <2>3. IsFiniteSet(left)
      BY <2>1, <2>2, FS_Subset
    <2> QED
      BY <2>3, FS_CardinalityType
  <1> HIDE DEF size
  <1>3. rest \in [1..size -> Keys]
    BY <1>1
  <1>4. rest \in Seq(Keys)
    BY <1>2, <1>3
  <1>5. Range(rest) \subseteq Range(q)
    BY <1>1 DEF Range
  <1>6. ASSUME NEW k \in Range(q), k \in S PROVE k \in Range(rest)
    <2>1. PICK i \in DOMAIN q : q[i] = k
      BY DEF Range
    <2>2. i \in Range(f)
      BY <1>1, <1>6, <2>1
    <2>3. PICK j \in 1..size : f[j] = i
      BY <2>2 DEF Range
    <2> QED
      BY <1>1, <2>1, <2>3 DEF Range
  <1> QED
    BY <1>4, <1>5, <1>6

\* A verifier goes through its keys in some order.
LEMMA OrdersOf ==
    ASSUME NEW S \in SUBSET Keys, S # {}, NEW q \in Orders(S)
    PROVE  q \in Seq(Keys) /\ q # <<>> /\ Range(q) = S
  <1>1. IsFiniteSet(S)
    BY LoadingAssumption, FS_Subset
  <1>2. Cardinality(S) \in Nat
    BY <1>1, FS_CardinalityType
  <1>3. q \in [1..Cardinality(S) -> S] /\ Range(q) = S
    BY DEF Orders
  <1>4. q \in Seq(Keys)
    BY <1>2, <1>3
  <1>5. Range(<<>>) = {}
    BY DEF Range
  <1> QED
    BY <1>3, <1>4, <1>5

\* Taking something out of one of several sets.
LEMMA TakenOut ==
    ASSUME NEW A, NEW f \in [Threads -> SUBSET A], NEW t \in Threads, NEW S
    PROVE  [f EXCEPT ![t] = @ \ S] \in [Threads -> SUBSET A]
  OBVIOUS

-----------------------------------------------------------------------------
(* Types and shapes. *)

\* The threads start well typed.
LEMMA InitShape == Init => TypeOK /\ Shapes
  <1> SUFFICES ASSUME Init PROVE TypeOK /\ Shapes
    OBVIOUS
  <1>1. NoOp \in Ops
    BY DEF NoOp, Ops, Singles
  <1>2. TypeOK
    BY <1>1, LoadingAssumption DEF Init, TypeOK
  <1>3. Shapes
    BY LoadingAssumption DEF Init, Shapes, Shape, Under
  <1> QED
    BY <1>2, <1>3

\* A thread that takes no step keeps its shape.
LEMMA ShapeSame ==
    ASSUME NEW t \in Threads, Shape(t), pc'[t] = pc[t], op'[t] = op[t], todo'[t] = todo[t], script'[t] = script[t]
    PROVE  Shape(t)'
  BY DEF Shape

\* What one thread does leaves the shape of the others alone.
LEMMA ShapesStep ==
    ASSUME Shapes, NEW t \in Threads, Shape(t)',
           \A u \in Threads \ {t} :
              pc'[u] = pc[u] /\ op'[u] = op[u] /\ todo'[u] = todo[u] /\ script'[u] = script[u]
    PROVE  Shapes'
  BY ShapeSame DEF Shapes

\* key_set keeps the types.
LEMMA KeySetShape == ASSUME TypeOK, Shapes, NEW t \in Threads, KeySet(t) PROVE TypeOK' /\ Shapes'
  <1>0. NumLocks \in Nat /\ snap[t] \in 1..(NumLocks + 1)
    BY LoadingAssumption DEF TypeOK
  <1>1. /\ snap' \in [Threads -> 1..(NumLocks + 1)]
        /\ vkeys' \in [Threads -> SUBSET Keys] /\ dkeys' \in [Threads -> SUBSET Keys]
        /\ pc' = pc \/ pc' = [pc EXCEPT ![t] = "idle"]
    <2>1. CASE snap[t] > NumLocks
      BY <2>1 DEF KeySet, TypeOK
    <2>2. CASE ~(snap[t] > NumLocks)
      <3>1. snap[t] + 1 \in 1..(NumLocks + 1)
        BY <1>0, <2>2
      <3>2. /\ snap' = [snap EXCEPT ![t] = snap[t] + 1] /\ pc' = pc
            /\ \E S \in SUBSET Keys : vkeys' = [vkeys EXCEPT ![t] = @ \cup S]
            /\ \E S \in SUBSET Keys : dkeys' = [dkeys EXCEPT ![t] = @ \cup S]
        BY <2>2 DEF KeySet
      <3> QED
        BY <3>1, <3>2 DEF TypeOK
    <2> QED
      BY <2>1, <2>2
  <1>2. UNCHANGED <<store, server, script, call, verdict>> /\ pc[t] = "snap"
    BY DEF KeySet
  <1>3. TypeOK'
    BY <1>1, <1>2 DEF TypeOK, store, server, call, verdict
  <1>4. Shape(t)'
    BY <1>1, <1>2 DEF Shapes, Shape, TypeOK, call, Under
  <1> QED
    BY <1>1, <1>2, <1>3, <1>4, ShapesStep DEF call, TypeOK

\* An operation of the right size begins with the right shape.
LEMMA BeginShape ==
    ASSUME TypeOK, Shapes, NEW t \in Threads, NEW o \in Ops, Sized(o), Begin(t, o), NEW s,
           script' = [script EXCEPT ![t] = s], s \in Seq(Ops),
           \A i \in DOMAIN s : s[i].kind \notin Checks /\ Sized(s[i])
    PROVE  /\ op' \in [Threads -> Ops] /\ todo' \in [Threads -> Seq(Keys)]
           /\ held' \in [Threads -> SUBSET Parts] /\ twice' \in [Threads -> BOOLEAN]
           /\ script' \in [Threads -> Seq(Ops)]
           /\ pc' \in [Threads -> {"snap", "idle", "lock", "big", "grab", "work", "note",
                                   "release", "ended", "dead"}]
           /\ Shapes'
  <1>1. o.keys \in Seq(Keys) /\ o.kind \in Singles \cup Batches
    BY DEF Ops
  <1>2. /\ op' \in [Threads -> Ops] /\ todo' \in [Threads -> Seq(Keys)]
        /\ held' \in [Threads -> SUBSET Parts] /\ twice' \in [Threads -> BOOLEAN]
        /\ script' \in [Threads -> Seq(Ops)]
        /\ pc' \in [Threads -> {"snap", "idle", "lock", "big", "grab", "work", "note",
                                "release", "ended", "dead"}]
    BY <1>1 DEF Begin, TypeOK
  <1>3. /\ op'[t] = o /\ todo'[t] = o.keys /\ script'[t] = s
        /\ pc'[t] = IF o.kind \in Batches THEN "big" ELSE "lock"
    BY DEF Begin, TypeOK
  <1>4. Shape(t)'
    BY <1>1, <1>3 DEF Shape, Under
  <1>5. Shapes'
    BY <1>4, ShapesStep DEF Begin, TypeOK
  <1> QED
    BY <1>2, <1>5

\* next() of a loader.
LEMMA NextLoadShape == ASSUME TypeOK, Shapes, NEW t \in Threads, NextLoad(t) PROVE TypeOK' /\ Shapes'
  <1>1. script[t] \in Seq(Ops) /\ script[t] # <<>>
    BY DEF NextLoad, TypeOK
  <1>2. \A i \in DOMAIN script[t] : script[t][i].kind \notin Checks /\ Sized(script[t][i])
    BY DEF Shapes, Shape
  <1>3. Head(script[t]) \in Ops /\ Head(script[t]) = script[t][1] /\ 1 \in DOMAIN script[t]
    BY <1>1
  <1>4. Tail(script[t]) \in Seq(Ops)
    BY <1>1
  <1>5. \A i \in DOMAIN Tail(script[t]) : i + 1 \in DOMAIN script[t] /\ Tail(script[t])[i] = script[t][i + 1]
    BY <1>1
  <1>6. script' = [script EXCEPT ![t] = Tail(script[t])] /\ Begin(t, Head(script[t]))
    BY DEF NextLoad
  <1>7. \A i \in DOMAIN Tail(script[t]) : Tail(script[t])[i].kind \notin Checks /\ Sized(Tail(script[t])[i])
    BY <1>2, <1>5
  <1> DEFINE o == Head(script[t])
             s == Tail(script[t])
  <1>8. o \in Ops /\ Sized(o)
    BY <1>2, <1>3
  <1> HIDE DEF o, s
  <1>9. /\ op' \in [Threads -> Ops] /\ todo' \in [Threads -> Seq(Keys)]
        /\ held' \in [Threads -> SUBSET Parts] /\ twice' \in [Threads -> BOOLEAN]
        /\ script' \in [Threads -> Seq(Ops)]
        /\ pc' \in [Threads -> {"snap", "idle", "lock", "big", "grab", "work", "note",
                                "release", "ended", "dead"}]
        /\ Shapes'
    BY <1>4, <1>6, <1>7, <1>8, BeginShape DEF o, s
  <1> QED
    BY <1>9 DEF NextLoad, TypeOK, store, server, verdict

\* __next__ of a verifier.
LEMMA NextVerifyShape == ASSUME TypeOK, Shapes, NEW t \in Threads, NextVerify(t) PROVE TypeOK' /\ Shapes'
  <1> DEFINE Fine == /\ op' \in [Threads -> Ops] /\ todo' \in [Threads -> Seq(Keys)]
                     /\ held' \in [Threads -> SUBSET Parts] /\ twice' \in [Threads -> BOOLEAN]
                     /\ script' \in [Threads -> Seq(Ops)]
                     /\ pc' \in [Threads -> {"snap", "idle", "lock", "big", "grab", "work", "note",
                                             "release", "ended", "dead"}]
                     /\ Shapes'
  <1>0. script' = script /\ script[t] \in Seq(Ops) /\ vkeys[t] \in SUBSET Keys /\ dkeys[t] \in SUBSET Keys
    BY DEF NextVerify, TypeOK
  <1>1. script' = [script EXCEPT ![t] = script[t]]
    BY <1>0 DEF TypeOK
  <1>2. \A i \in DOMAIN script[t] : script[t][i].kind \notin Checks /\ Sized(script[t][i])
    BY DEF Shapes, Shape
  <1>3. ASSUME NEW o \in Ops, Sized(o), Begin(t, o) PROVE Fine
    BY <1>0, <1>1, <1>2, <1>3, BeginShape
  <1> HIDE DEF Fine
  <1>4. ASSUME NEW k \in Keys, NEW kind \in Singles
        PROVE  [kind |-> kind, keys |-> <<k>>] \in Ops /\ Sized([kind |-> kind, keys |-> <<k>>])
    BY DEF Ops, Sized
  <1>5. ASSUME vkeys[t] # {}, NEW q,
               Class[t] = "BatchedValidateDataTask" => q \in Orders(vkeys[t]),
               Class[t] # "BatchedValidateDataTask" => q \in {<<k>> : k \in vkeys[t]},
               Begin(t, [kind |-> IF Class[t] = "BatchedValidateDataTask" THEN "bcheck" ELSE "check", keys |-> q])
        PROVE  Fine
    <2>1. CASE Class[t] = "BatchedValidateDataTask"
      <3>1. q \in Seq(Keys) /\ q # <<>>
        BY <1>0, <1>5, <2>1, OrdersOf
      <3>2. [kind |-> "bcheck", keys |-> q] \in Ops /\ Sized([kind |-> "bcheck", keys |-> q])
        BY <3>1 DEF Ops, Sized, Singles, Batches
      <3> QED
        BY <1>3, <1>5, <2>1, <3>2
    <2>2. CASE Class[t] # "BatchedValidateDataTask"
      <3>1. PICK k \in Keys : q = <<k>>
        BY <1>0, <1>5, <2>2
      <3> QED
        BY <1>3, <1>4, <1>5, <2>2, <3>1 DEF Singles
    <2> QED
      BY <2>1, <2>2
  <1>6. ASSUME NEW k \in dkeys[t], Begin(t, [kind |-> "checkdel", keys |-> <<k>>]) PROVE Fine
    BY <1>0, <1>3, <1>4, <1>6 DEF Singles
  <1>7. Fine
    BY <1>5, <1>6 DEF NextVerify
  <1>8. /\ vkeys' = vkeys \/ \E S : vkeys' = [vkeys EXCEPT ![t] = @ \ S]
        /\ dkeys' = dkeys \/ \E S : dkeys' = [dkeys EXCEPT ![t] = @ \ S]
    BY DEF NextVerify
  <1>9. vkeys' \in [Threads -> SUBSET Keys] /\ dkeys' \in [Threads -> SUBSET Keys]
    <2>1. vkeys \in [Threads -> SUBSET Keys] /\ dkeys \in [Threads -> SUBSET Keys]
      BY DEF TypeOK
    <2>2. \A S : /\ [vkeys EXCEPT ![t] = @ \ S] \in [Threads -> SUBSET Keys]
                 /\ [dkeys EXCEPT ![t] = @ \ S] \in [Threads -> SUBSET Keys]
      BY <2>1, TakenOut
    <2> QED
      BY <1>8, <2>1, <2>2
  <1> QED
    BY <1>7, <1>9 DEF Fine, NextVerify, TypeOK, store, server, verdict

\* The loop of run() ends.
LEMMA EndShape == ASSUME TypeOK, Shapes, NEW t \in Threads, End(t) PROVE TypeOK' /\ Shapes'
  <1>1. TypeOK'
    BY DEF End, TypeOK, store, server, plan, call, verdict
  <1>2. Shape(t)'
    BY DEF End, Shapes, Shape, TypeOK, plan, call, Under
  <1> QED
    BY <1>1, <1>2, ShapesStep DEF End, plan, call, TypeOK

\* Taking the lock of one key.
LEMMA AcquirePartitionShape ==
    ASSUME TypeOK, Shapes, NEW t \in Threads, AcquirePartition(t) PROVE TypeOK' /\ Shapes'
  <1> DEFINE p == PartOf[Head(todo[t])]
  <1>1. todo[t] \in Seq(Keys) /\ op[t] \in Ops
    BY DEF TypeOK
  <1>2. todo[t] = op[t].keys /\ todo[t] # <<>>
    BY DEF AcquirePartition, Shapes, Shape, Under, Sized
  <1>3. p \in Parts
    BY <1>1, <1>2, FirstAndRest, LoadingAssumption
  <1>4. /\ lock' = [lock EXCEPT ![p] = t] /\ held' = [held EXCEPT ![t] = {p}]
        /\ pc' = [pc EXCEPT ![t] = "work"] /\ pc[t] = "lock"
        /\ UNCHANGED <<big, valid, deleted, server, plan, op, todo, twice, verdict>>
    BY DEF AcquirePartition
  <1> HIDE DEF p
  <1>5. TypeOK'
    BY <1>3, <1>4 DEF TypeOK, server, plan, verdict
  <1>6. Shape(t)'
    BY <1>2, <1>4 DEF Shapes, Shape, TypeOK, plan, Under, Sized
  <1> QED
    BY <1>4, <1>5, <1>6, ShapesStep DEF plan, TypeOK

\* Taking acquire_lock.
LEMMA AcquireLockShape == ASSUME TypeOK, Shapes, NEW t \in Threads, AcquireLock(t) PROVE TypeOK' /\ Shapes'
  <1>1. TypeOK'
    BY DEF AcquireLock, TypeOK, server, plan, call, verdict
  <1>2. Shape(t)'
    BY DEF AcquireLock, Shapes, Shape, TypeOK, plan, call, Under
  <1> QED
    BY <1>1, <1>2, ShapesStep DEF AcquireLock, plan, call, TypeOK

\* Taking the lock of the next key of a batch.
LEMMA AcquireNextShape == ASSUME TypeOK, Shapes, NEW t \in Threads, AcquireNext(t) PROVE TypeOK' /\ Shapes'
  <1> DEFINE p == PartOf[Head(todo[t])]
  <1>1. todo[t] \in Seq(Keys) /\ todo[t] # <<>>
    BY DEF AcquireNext, TypeOK
  <1>2. p \in Parts /\ Tail(todo[t]) \in Seq(Keys) /\ Range(Tail(todo[t])) \subseteq Range(todo[t])
    BY <1>1, FirstAndRest, LoadingAssumption
  <1>3. /\ \/ UNCHANGED <<lock, held>>
           \/ lock' = [lock EXCEPT ![p] = t] /\ held' = [held EXCEPT ![t] = @ \cup {p}]
        /\ todo' = [todo EXCEPT ![t] = Tail(todo[t])] /\ pc[t] = "grab"
        /\ UNCHANGED <<big, valid, deleted, server, pc, plan, op, twice, verdict>>
    BY DEF AcquireNext
  <1> HIDE DEF p
  <1>4. TypeOK'
    <2>0. lock \in [Parts -> Threads \cup {None}] /\ held \in [Threads -> SUBSET Parts]
      BY DEF TypeOK
    <2>1. lock' \in [Parts -> Threads \cup {None}] /\ held' \in [Threads -> SUBSET Parts]
      BY <1>2, <1>3, <2>0
    <2> QED
      BY <1>2, <1>3, <2>1 DEF TypeOK, server, plan, verdict
  <1>5. Shape(t)'
    BY <1>2, <1>3 DEF Shapes, Shape, TypeOK, plan, Under
  <1> QED
    BY <1>3, <1>4, <1>5, ShapesStep DEF plan, TypeOK

\* The locks of a batch are taken.
LEMMA AcquireDoneShape == ASSUME TypeOK, Shapes, NEW t \in Threads, AcquireDone(t) PROVE TypeOK' /\ Shapes'
  <1>0. op[t] \in Ops /\ op[t].keys \in Seq(Keys)
    BY DEF TypeOK, Ops
  <1>1. PICK rest \in IF op[t].kind = "bupdate" THEN Sublist(op[t].keys, {k \in Keys : valid[k] # None})
                                              ELSE {op[t].keys} :
          /\ todo' = [todo EXCEPT ![t] = rest]
          /\ pc' = [pc EXCEPT ![t] = IF rest = <<>> THEN "note" ELSE "work"]
    BY DEF AcquireDone
  <1>2. rest \in Seq(Keys) /\ Range(rest) \subseteq Range(op[t].keys)
    BY <1>0, <1>1, SublistKeeps
  <1>3. /\ pc[t] = "grab" /\ big' = None
        /\ UNCHANGED <<lock, valid, deleted, server, plan, op, held, twice, verdict>>
    BY DEF AcquireDone
  <1>4. Sized(op[t]) /\ op[t].kind \in Batches
    BY <1>3 DEF Shapes, Shape, Under
  <1>5. rest = <<>> => op[t].kind = "bupdate"
    BY <1>1, <1>4 DEF Sized
  <1>6. TypeOK'
    BY <1>1, <1>2, <1>3 DEF TypeOK, server, plan, verdict
  <1>7. todo'[t] = rest /\ pc'[t] = IF rest = <<>> THEN "note" ELSE "work"
    BY <1>1 DEF TypeOK
  <1>8. Shape(t)'
    BY <1>2, <1>3, <1>4, <1>5, <1>7 DEF Shapes, Shape, plan, Under, Sets, Deletes, Singles, Batches
  <1> QED
    BY <1>1, <1>3, <1>6, <1>8, ShapesStep DEF plan, TypeOK

\* Giving a lock back.
LEMMA ReleaseShape == ASSUME TypeOK, Shapes, NEW t \in Threads, Release(t) PROVE TypeOK' /\ Shapes'
  <1>1. /\ pc[t] = "release"
        /\ UNCHANGED <<big, valid, deleted, server, plan, op, todo, verdict>>
        /\ twice' = [twice EXCEPT ![t] = FALSE]
        /\ pc' = pc \/ \E where \in {"dead", "idle"} : pc' = [pc EXCEPT ![t] = where]
        /\ lock' = lock \/ \E p \in held[t] : lock' = [lock EXCEPT ![p] = None]
        /\ held' = held \/ \E p : held' = [held EXCEPT ![t] = @ \ {p}]
    BY DEF Release
  <1>2. held' \in [Threads -> SUBSET Parts]
    <2>1. held \in [Threads -> SUBSET Parts]
      BY DEF TypeOK
    <2>2. \A p : [held EXCEPT ![t] = @ \ {p}] \in [Threads -> SUBSET Parts]
      BY <2>1, TakenOut
    <2> QED
      BY <1>1, <2>1, <2>2
  <1>3. TypeOK'
    <2>1. lock' \in [Parts -> Threads \cup {None}]
      BY <1>1 DEF TypeOK
    <2>2. pc' \in [Threads -> {"snap", "idle", "lock", "big", "grab", "work", "note",
                               "release", "ended", "dead"}]
      BY <1>1 DEF TypeOK
    <2>3. twice' \in [Threads -> BOOLEAN]
      BY <1>1 DEF TypeOK
    <2> QED
      BY <1>1, <1>2, <2>1, <2>2, <2>3 DEF TypeOK, server, plan, verdict
  <1>4. Shape(t)'
    BY <1>1 DEF Shapes, Shape, TypeOK, plan, Under
  <1> QED
    BY <1>1, <1>3, <1>4, ShapesStep DEF plan, TypeOK

\* Working on the first key and going on to the next.
LEMMA ProceedShape ==
    ASSUME TypeOK, Shapes, NEW t \in Threads, pc[t] = "work" \/ (pc[t] = "note" /\ op[t].kind \in Deletes),
           Proceed(t), UNCHANGED <<op, script>>
    PROVE  /\ todo' \in [Threads -> Seq(Keys)]
           /\ pc' \in [Threads -> {"snap", "idle", "lock", "big", "grab", "work", "note",
                                   "release", "ended", "dead"}]
           /\ Shapes'
  <1>1. todo[t] \in Seq(Keys) /\ todo[t] # <<>>
    BY DEF TypeOK, Shapes, Shape
  <1>2. /\ Tail(todo[t]) \in Seq(Keys) /\ Range(Tail(todo[t])) \subseteq Range(todo[t])
        /\ Len(todo[t]) # 1 => Tail(todo[t]) # <<>>
    BY <1>1, FirstAndRest
  <1>3. /\ todo' = [todo EXCEPT ![t] = Tail(todo[t])]
        /\ pc' = [pc EXCEPT ![t] = IF Len(todo[t]) = 1 THEN "release" ELSE "work"]
    BY DEF Proceed
  <1>4. Shape(t)'
    <2>1. todo'[t] = Tail(todo[t]) /\ pc'[t] = IF Len(todo[t]) = 1 THEN "release" ELSE "work"
      BY <1>3 DEF TypeOK
    <2> QED
      BY <1>2, <2>1 DEF Shapes, Shape, Under
  <1> QED
    BY <1>2, <1>3, <1>4, ShapesStep DEF TypeOK

\* Giving up the operation.
LEMMA GiveUpShape ==
    ASSUME TypeOK, Shapes, NEW t \in Threads, GiveUp(t), UNCHANGED <<op, script>>
    PROVE  /\ todo' \in [Threads -> Seq(Keys)]
           /\ pc' \in [Threads -> {"snap", "idle", "lock", "big", "grab", "work", "note",
                                   "release", "ended", "dead"}]
           /\ Shapes'
  <1>1. Shape(t)'
    BY DEF GiveUp, Shapes, Shape, TypeOK, Under
  <1> QED
    BY <1>1, ShapesStep DEF GiveUp, TypeOK

\* The key a thread works on.
LEMMA KeyType ==
    ASSUME TypeOK, Shapes, NEW t \in Threads, pc[t] = "work" \/ (pc[t] = "note" /\ op[t].kind \in Deletes)
    PROVE  Key(t) \in Keys /\ Key(t) \in Range(todo[t]) /\ Key(t) \in Range(op[t].keys)
  <1>1. todo[t] \in Seq(Keys) /\ todo[t] # <<>> /\ Range(todo[t]) \subseteq Range(op[t].keys)
    BY DEF TypeOK, Shapes, Shape, Under
  <1> QED
    BY <1>1, FirstAndRest DEF Key

\* The keys of an operation are keys.
LEMMA OpKeys == ASSUME TypeOK, NEW t \in Threads PROVE Range(op[t].keys) \subseteq Keys
  <1>1. op[t].keys \in Seq(Keys)
    BY DEF TypeOK, Ops
  <1> QED
    BY <1>1 DEF Range

\* client.set
LEMMA SetDocShape == ASSUME TypeOK, Shapes, NEW t \in Threads, SetDoc(t) PROVE TypeOK' /\ Shapes'
  <1>1. pc[t] = "work" /\ op[t].kind \in Sets /\ UNCHANGED <<store, plan, op, held, twice>>
    BY DEF SetDoc, Sets
  <1>2. Key(t) \in Keys /\ todo[t] \in Seq(Keys) /\ todo[t] # <<>> /\ Range(op[t].keys) \subseteq Keys
    BY <1>1, KeyType, OpKeys DEF TypeOK, Shapes, Shape
  <1>3. Tail(todo[t]) \in Seq(Keys) /\ Range(Tail(todo[t])) \subseteq Range(todo[t])
        /\ (Len(todo[t]) # 1 => Tail(todo[t]) # <<>>)
    BY <1>2, FirstAndRest
  <1>4. CASE /\ data' = [data EXCEPT ![Key(t)] = t]
             /\ todo' = [todo EXCEPT ![t] = Tail(@)]
             /\ pc' = [pc EXCEPT ![t] = IF Len(todo[t]) = 1 THEN "note" ELSE "work"]
             /\ UNCHANGED failed \/ SetException(t)
             /\ UNCHANGED <<tainted, blamed>>
    <2>1. TypeOK'
      BY <1>1, <1>2, <1>3, <1>4 DEF TypeOK, store, plan, SetException
    <2>2. todo'[t] = Tail(todo[t]) /\ pc'[t] = IF Len(todo[t]) = 1 THEN "note" ELSE "work"
      BY <1>4 DEF TypeOK
    <2>3. Shape(t)'
      BY <1>1, <1>3, <2>2 DEF Shapes, Shape, Under, Sets, Deletes, plan
    <2> QED
      BY <1>1, <1>4, <2>1, <2>3, ShapesStep DEF TypeOK, plan
  <1>5. CASE /\ Error(t, Key(t), t)
             /\ tainted' = tainted \cup Range(op[t].keys)
             /\ pc' = [pc EXCEPT ![t] = IF op[t].kind = "bcreate" THEN "note" ELSE "release"]
             /\ UNCHANGED todo
    <2>1. TypeOK'
      BY <1>1, <1>2, <1>5 DEF TypeOK, store, plan, verdict, Error, SetException
    <2>2. pc'[t] = IF op[t].kind = "bcreate" THEN "note" ELSE "release"
      BY <1>5 DEF TypeOK
    <2>3. Shape(t)'
      BY <1>1, <1>5, <2>2 DEF Shapes, Shape, Under, Sets, Deletes, plan
    <2> QED
      BY <1>1, <1>5, <2>1, <2>3, ShapesStep DEF TypeOK, plan
  <1> QED
    BY <1>4, <1>5 DEF SetDoc

\* partition.set
LEMMA NoteSetShape == ASSUME TypeOK, Shapes, NEW t \in Threads, NoteSet(t) PROVE TypeOK' /\ Shapes'
  <1>1. /\ pc[t] = "note" /\ UNCHANGED <<lock, big, server, plan, call, verdict>>
        /\ \E where \in {"release", "dead"} : pc' = [pc EXCEPT ![t] = where]
        /\ \E done : /\ valid' = [k \in Keys |-> IF k \in done THEN t ELSE valid[k]]
                     /\ deleted' = deleted \ done
    BY DEF NoteSet
  <1>2. TypeOK'
    BY <1>1 DEF TypeOK, server, plan, call, verdict
  <1>3. Shape(t)'
    BY <1>1 DEF Shapes, Shape, TypeOK, plan, call, Under
  <1> QED
    BY <1>1, <1>2, <1>3, ShapesStep DEF TypeOK, plan, call

\* client.delete
LEMMA DeleteDocShape == ASSUME TypeOK, Shapes, NEW t \in Threads, DeleteDoc(t) PROVE TypeOK' /\ Shapes'
  <1>1. pc[t] = "work" /\ op[t].kind \in Deletes /\ UNCHANGED <<store, plan, op, held, twice>>
    BY DEF DeleteDoc, Deletes
  <1>2. Key(t) \in Keys
    BY <1>1, KeyType
  <1>3. CASE data' = [data EXCEPT ![Key(t)] = None] /\ pc' = [pc EXCEPT ![t] = "note"] /\ UNCHANGED <<tainted, todo, verdict>>
    <2>1. TypeOK'
      BY <1>1, <1>2, <1>3 DEF TypeOK, store, plan, verdict
    <2>2. Shape(t)'
      BY <1>1, <1>3 DEF Shapes, Shape, TypeOK, Under, plan
    <2> QED
      BY <1>1, <1>3, <2>1, <2>2, ShapesStep DEF TypeOK, plan
  <1>4. CASE Proceed(t) /\ UNCHANGED <<server, verdict>>
    BY <1>1, <1>4, ProceedShape DEF TypeOK, store, server, plan, verdict
  <1>5. CASE SetException(t) /\ blamed' = blamed \cup {Key(t)} /\ GiveUp(t) /\ UNCHANGED server
    BY <1>1, <1>2, <1>5, GiveUpShape DEF TypeOK, store, server, plan, SetException
  <1>6. CASE Error(t, Key(t), None) /\ tainted' = tainted \cup {Key(t)} /\ (GiveUp(t) \/ Proceed(t))
    <2>1. data' \in [Keys -> Threads \cup {None}] /\ failed' \in [Threads -> BOOLEAN] /\ blamed' = blamed
      BY <1>2, <1>6 DEF TypeOK, Error, SetException
    <2> QED
      BY <1>1, <1>2, <1>6, <2>1, GiveUpShape, ProceedShape DEF TypeOK, store, plan
  <1> QED
    BY <1>3, <1>4, <1>5, <1>6 DEF DeleteDoc

\* partition.delete
LEMMA NoteDeleteShape == ASSUME TypeOK, Shapes, NEW t \in Threads, NoteDelete(t) PROVE TypeOK' /\ Shapes'
  <1>1. pc[t] = "note" /\ op[t].kind \in Deletes /\ UNCHANGED <<lock, big, server, plan, op, held, twice, verdict>>
    BY DEF NoteDelete, Deletes
  <1>2. Key(t) \in Keys
    BY <1>1, KeyType
  <1>3. /\ valid' \in [Keys -> Threads \cup {None}] /\ deleted' \subseteq Keys
        /\ \A k \in Keys : k \in deleted' => valid'[k] = None
    BY <1>2 DEF NoteDelete, TypeOK
  <1>4. Proceed(t)
    BY DEF NoteDelete
  <1> QED
    BY <1>1, <1>3, <1>4, ProceedShape DEF TypeOK, server, plan, verdict

\* client.get
LEMMA GetDocShape == ASSUME TypeOK, Shapes, NEW t \in Threads, GetDoc(t) PROVE TypeOK' /\ Shapes'
  <1>1. pc[t] = "work" /\ Proceed(t) /\ UNCHANGED <<store, server, plan, op, held, twice>>
    BY DEF GetDoc
  <1>2. Key(t) \in Keys
    BY <1>1, KeyType
  <1>3. failed' \in [Threads -> BOOLEAN] /\ blamed' \subseteq Keys
    BY <1>2 DEF GetDoc, TypeOK, SetException
  <1> QED
    BY <1>1, <1>3, ProceedShape DEF TypeOK, store, server, plan

\* client.getMulti
LEMMA GetMultiShape == ASSUME TypeOK, Shapes, NEW t \in Threads, GetMulti(t) PROVE TypeOK' /\ Shapes'
  <1>1. pc[t] = "work" /\ GiveUp(t) /\ UNCHANGED <<store, server, plan, op, held, twice>>
    BY DEF GetMulti
  <1>2. Range(op[t].keys) \subseteq Keys
    BY OpKeys
  <1>3. /\ \E b \in BOOLEAN : failed' = [failed EXCEPT ![t] = b]
        /\ \E S \in SUBSET Keys : blamed' = blamed \cup S
    <2> DEFINE differ == {k \in Range(op[t].keys) : valid[k] # None /\ data[k] # valid[k]}
    <2>1. \/ failed' = [failed EXCEPT ![t] = @ \/ differ # {}] /\ blamed' = blamed \cup differ
          \/ failed' = [failed EXCEPT ![t] = TRUE] /\ blamed' = blamed
      BY DEF GetMulti, SetException
    <2>2. differ \in SUBSET Keys /\ {} \in SUBSET Keys /\ (failed[t] \/ differ # {}) \in BOOLEAN
      BY <1>2
    <2> HIDE DEF differ
    <2> QED
      BY <2>1, <2>2
  <1>4. failed' \in [Threads -> BOOLEAN] /\ blamed' \subseteq Keys
    BY <1>3 DEF TypeOK
  <1> QED
    BY <1>1, <1>4, GiveUpShape DEF TypeOK, store, server, plan

\* _check_deleted_key
LEMMA CheckDeletedShape ==
    ASSUME TypeOK, Shapes, NEW t \in Threads, CheckDeleted(t) PROVE TypeOK' /\ Shapes'
  <1>1. pc[t] = "work" /\ Proceed(t) /\ UNCHANGED <<store, plan, op, held>>
    BY DEF CheckDeleted
  <1>2. Key(t) \in Keys
    BY <1>1, KeyType
  <1>3. /\ data' \in {data, [data EXCEPT ![Key(t)] = None]}
        /\ tainted' \in {tainted, tainted \cup {Key(t)}}
        /\ blamed' \in {blamed, blamed \cup {Key(t)}}
        /\ failed' \in {failed, [failed EXCEPT ![t] = TRUE]}
        /\ twice' = twice \/ \E b \in BOOLEAN : twice' = [twice EXCEPT ![t] = b]
    BY DEF CheckDeleted, Error, SetException, server, verdict
  <1>4. /\ data' \in [Keys -> Threads \cup {None}] /\ tainted' \subseteq Keys /\ blamed' \subseteq Keys
        /\ failed' \in [Threads -> BOOLEAN] /\ twice' \in [Threads -> BOOLEAN]
    BY <1>2, <1>3 DEF TypeOK
  <1> QED
    BY <1>1, <1>4, ProceedShape DEF TypeOK, store, plan

\* The server loses a document or brings one back.
LEMMA LoseShape == ASSUME TypeOK, Shapes, NEW k \in Keys, Lose(k) PROVE TypeOK' /\ Shapes'
  <1>1. TypeOK'
    BY DEF Lose, TypeOK, store, plan, call, verdict
  <1>2. Shapes'
    BY ShapeSame DEF Lose, Shapes, plan, call
  <1> QED
    BY <1>1, <1>2

\* Every step keeps types and shapes.
LEMMA StepShape == ASSUME TypeOK, Shapes, [Next]_vars PROVE TypeOK' /\ Shapes'
  <1>1. CASE UNCHANGED vars
    <2>1. TypeOK'
      BY <1>1 DEF TypeOK, vars, store, server, plan, call, verdict
    <2>2. Shapes'
      BY <1>1, ShapeSame DEF Shapes, vars, plan, call
    <2> QED
      BY <2>1, <2>2
  <1>2. ASSUME NEW t \in Threads, Thread(t) PROVE TypeOK' /\ Shapes'
    BY <1>2, KeySetShape, NextLoadShape, NextVerifyShape, EndShape, AcquirePartitionShape, AcquireLockShape,
       AcquireNextShape, AcquireDoneShape, ReleaseShape, SetDocShape, NoteSetShape, DeleteDocShape,
       NoteDeleteShape, GetDocShape, GetMultiShape, CheckDeletedShape DEF Thread
  <1> QED
    BY <1>1, <1>2, LoseShape DEF Next

\* Locks, partitions, the server and the threads stay well formed, whatever the scripts do.
THEOREM TypeCorrect == Spec => []TypeOK
  BY InitShape, StepShape, PTL DEF Spec

-----------------------------------------------------------------------------
(* The locks. *)

\* No BatchedValidateDataTask gets an error: its handler would release the lock twice (task.py:2575).
NoSecondRelease == \A t \in Faulty : Class[t] # "BatchedValidateDataTask"

\* A thread holds the locks of the partitions it has noted, and those of all keys of the
\* operation while it works on them.
Locked(t) ==
    /\ ~twice[t]
    /\ \A p \in Parts : p \in held[t] <=> lock[p] = t
    /\ pc[t] \in {"snap", "idle", "lock", "big", "ended"} => held[t] = {}
    /\ pc[t] \in {"work", "note"} => \A k \in Range(op[t].keys) : PartOf[k] \in held[t]
    /\ pc[t] = "grab" => \A k \in Range(op[t].keys) : k \in Range(todo[t]) \/ PartOf[k] \in held[t]

Locks == \A t \in Threads : Locked(t)

Worked(t) ==
    SetDoc(t) \/ NoteSet(t) \/ DeleteDoc(t) \/ NoteDelete(t) \/ GetDoc(t) \/ GetMulti(t) \/ CheckDeleted(t)

Same(u) ==
    /\ pc'[u] = pc[u] /\ op'[u] = op[u] /\ todo'[u] = todo[u] /\ held'[u] = held[u]
    /\ twice'[u] = twice[u] /\ script'[u] = script[u] /\ dkeys'[u] = dkeys[u]

\* Working on the keys changes no lock.
LEMMA WorkedStep ==
    ASSUME TypeOK, NEW t \in Threads, Worked(t)
    PROVE  /\ pc[t] \in {"work", "note"} /\ pc'[t] \in {"work", "note", "release", "dead"}
           /\ UNCHANGED <<lock, held, op, script, dkeys>>
           /\ \A u \in Threads \ {t} : Same(u)
           /\ NoSecondRelease => twice' = twice \/ twice' = [twice EXCEPT ![t] = FALSE]
  <1>1. CASE SetDoc(t)
    <2>1. /\ pc[t] = "work" /\ UNCHANGED <<lock, held, op, script, dkeys, twice>>
          /\ \E where \in {"note", "work", "release"} : pc' = [pc EXCEPT ![t] = where]
          /\ todo' = todo \/ todo' = [todo EXCEPT ![t] = Tail(@)]
      BY <1>1 DEF SetDoc, store, plan
    <2> QED
      BY <2>1 DEF TypeOK, Same
  <1>2. CASE NoteSet(t)
    <2>1. /\ pc[t] = "note" /\ UNCHANGED <<lock, held, op, script, dkeys, twice, todo>>
          /\ \E where \in {"dead", "release"} : pc' = [pc EXCEPT ![t] = where]
      BY <1>2 DEF NoteSet, plan, call
    <2> QED
      BY <2>1 DEF TypeOK, Same
  <1>3. CASE DeleteDoc(t)
    <2>1. /\ pc[t] = "work" /\ UNCHANGED <<lock, held, op, script, dkeys, twice>>
          /\ \E where \in {"note", "work", "release"} : pc' = [pc EXCEPT ![t] = where]
          /\ todo' = todo \/ todo' = [todo EXCEPT ![t] = Tail(@)]
      BY <1>3 DEF DeleteDoc, store, plan, Proceed, GiveUp
    <2> QED
      BY <2>1 DEF TypeOK, Same
  <1>4. CASE NoteDelete(t) \/ GetDoc(t) \/ GetMulti(t)
    <2>1. /\ pc[t] \in {"note", "work"} /\ UNCHANGED <<lock, held, op, script, dkeys, twice>>
          /\ \E where \in {"work", "release"} : pc' = [pc EXCEPT ![t] = where]
          /\ todo' = todo \/ todo' = [todo EXCEPT ![t] = Tail(@)]
      BY <1>4 DEF NoteDelete, GetDoc, GetMulti, store, plan, Proceed, GiveUp
    <2> QED
      BY <2>1 DEF TypeOK, Same
  <1>5. CASE CheckDeleted(t)
    <2>1. /\ pc[t] = "work" /\ UNCHANGED <<lock, held, op, script, dkeys>>
          /\ \E where \in {"work", "release"} : pc' = [pc EXCEPT ![t] = where]
          /\ todo' = [todo EXCEPT ![t] = Tail(@)]
      BY <1>5 DEF CheckDeleted, store, plan, Proceed
    <2>2. twice' = twice \/ (t \in Faulty /\ twice' = [twice EXCEPT ![t] = Class[t] = "BatchedValidateDataTask"])
      BY <1>5 DEF CheckDeleted, Error
    <2>3. NoSecondRelease => twice' = twice \/ twice' = [twice EXCEPT ![t] = FALSE]
      BY <2>2 DEF NoSecondRelease
    <2>4. \A u \in Threads \ {t} : twice'[u] = twice[u]
      BY <2>2 DEF TypeOK
    <2> QED
      BY <2>1, <2>3, <2>4 DEF TypeOK, Same
  <1> QED
    BY <1>1, <1>2, <1>3, <1>4, <1>5 DEF Worked

\* A step of one thread leaves the others alone.
LEMMA OthersSame ==
    ASSUME TypeOK, NEW t \in Threads, Thread(t), NEW u \in Threads \ {t} PROVE Same(u)
  <1>1. CASE KeySet(t)
    BY <1>1 DEF KeySet, TypeOK, Same, call
  <1>2. CASE NextLoad(t)
    BY <1>2 DEF NextLoad, Begin, TypeOK, Same
  <1>3. CASE NextVerify(t)
    <2>1. (\E o : Begin(t, o)) /\ script' = script /\ (dkeys' = dkeys \/ \E k : dkeys' = [dkeys EXCEPT ![t] = @ \ {k}])
      BY <1>3 DEF NextVerify
    <2> QED
      BY <2>1 DEF Begin, TypeOK, Same
  <1>4. CASE End(t) \/ AcquireLock(t)
    BY <1>4 DEF End, AcquireLock, TypeOK, Same, plan, call
  <1>5. CASE AcquirePartition(t) \/ AcquireNext(t)
    BY <1>5 DEF AcquirePartition, AcquireNext, TypeOK, Same, plan
  <1>6. CASE AcquireDone(t)
    BY <1>6 DEF AcquireDone, TypeOK, Same, plan
  <1>7. CASE Release(t)
    BY <1>7 DEF Release, TypeOK, Same, plan
  <1>8. CASE Worked(t)
    BY <1>8, WorkedStep
  <1> QED
    BY <1>1, <1>2, <1>3, <1>4, <1>5, <1>6, <1>7, <1>8 DEF Thread, Worked

\* Nobody holds a lock at the start.
LEMMA InitLocks == Init => Locks
  BY LoadingAssumption DEF Init, Locks, Locked

\* The locks of the other threads are the same.
LEMMA LocksStep ==
    ASSUME Locks, NEW t \in Threads, Locked(t)', \A u \in Threads \ {t} : Same(u),
           \A u \in Threads \ {t} : \A p \in Parts : lock'[p] = u <=> lock[p] = u
    PROVE  Locks'
  BY DEF Locks, Locked, Same

\* Waiting for locks, taking them and giving them back.
LEMMA ThreadLocks ==
    ASSUME TypeOK, Shapes, Locks, NoSecondRelease, NEW t \in Threads, Thread(t) PROVE Locks'
  <1>0. Locked(t) /\ \A u \in Threads \ {t} : Same(u)
    BY OthersSame DEF Locks
  <1>1. CASE KeySet(t)
    <2>1. pc[t] = "snap" /\ pc'[t] \in {"snap", "idle"} /\ UNCHANGED <<lock, held, twice>>
      BY <1>1 DEF KeySet, TypeOK, store, call
    <2>2. Locked(t)'
      BY <1>0, <2>1 DEF Locked
    <2> QED
      BY <1>0, <2>1, <2>2, LocksStep
  <1>2. CASE NextLoad(t) \/ NextVerify(t)
    <2>1. pc[t] = "idle" /\ (\E o : Begin(t, o)) /\ UNCHANGED lock
      BY <1>2 DEF NextLoad, NextVerify, store
    <2>2. pc'[t] \in {"big", "lock"} /\ held'[t] = {} /\ ~twice'[t]
      BY <2>1 DEF Begin, TypeOK
    <2>3. Locked(t)'
      BY <1>0, <2>1, <2>2 DEF Locked
    <2> QED
      BY <1>0, <2>1, <2>3, LocksStep
  <1>3. CASE End(t)
    <2>1. pc[t] = "idle" /\ pc'[t] = "ended" /\ UNCHANGED <<lock, held, twice>>
      BY <1>3 DEF End, TypeOK, store, call
    <2>2. Locked(t)'
      BY <1>0, <2>1 DEF Locked
    <2> QED
      BY <1>0, <2>1, <2>2, LocksStep
  <1>4. CASE AcquireLock(t)
    <2>1. pc[t] = "big" /\ pc'[t] = "grab" /\ UNCHANGED <<lock, held, twice, op, todo>>
      BY <1>4 DEF AcquireLock, TypeOK, call
    <2>2. todo[t] = op[t].keys
      BY <2>1 DEF Shapes, Shape
    <2>3. Locked(t)'
      BY <1>0, <2>1, <2>2 DEF Locked
    <2> QED
      BY <1>0, <2>1, <2>3, LocksStep
  <1>5. CASE AcquirePartition(t)
    <2> DEFINE p == PartOf[Head(todo[t])]
    <2>1. /\ pc[t] = "lock" /\ lock[p] = None
          /\ lock' = [lock EXCEPT ![p] = t] /\ held' = [held EXCEPT ![t] = {p}]
          /\ pc' = [pc EXCEPT ![t] = "work"] /\ UNCHANGED <<op, twice>>
      BY <1>5 DEF AcquirePartition
    <2>2. todo[t] \in Seq(Keys) /\ todo[t] # <<>> /\ todo[t] = op[t].keys /\ Len(todo[t]) = 1
      BY <2>1 DEF TypeOK, Shapes, Shape, Sized, Under
    <2>3. Head(todo[t]) \in Keys /\ Range(op[t].keys) = {Head(todo[t])}
      BY <2>2, FirstAndRest
    <2>4. p \in Parts /\ \A k \in Range(op[t].keys) : PartOf[k] = p
      BY <2>3, LoadingAssumption
    <2> HIDE DEF p
    <2>5. pc'[t] = "work" /\ held'[t] = {p} /\ lock'[p] = t /\ \A r \in Parts \ {p} : lock'[r] = lock[r]
      BY <2>1, <2>4 DEF TypeOK
    <2>6. held[t] = {}
      BY <1>0, <2>1 DEF Locked
    <2>7. Locked(t)'
      BY <1>0, <2>1, <2>4, <2>5, <2>6 DEF Locked
    <2> QED
      BY <1>0, <2>1, <2>5, <2>7, LocksStep, LoadingAssumption
  <1>6. CASE AcquireNext(t)
    <2> DEFINE p == PartOf[Head(todo[t])]
    <2>1. /\ pc[t] = "grab" /\ todo[t] # <<>> /\ UNCHANGED <<op, twice, pc>>
          /\ todo' = [todo EXCEPT ![t] = Tail(todo[t])]
          /\ \/ p \in held[t] /\ UNCHANGED <<lock, held>>
             \/ /\ p \notin held[t] /\ lock[p] = None
                /\ lock' = [lock EXCEPT ![p] = t]
                /\ held' = [held EXCEPT ![t] = @ \cup {p}]
      BY <1>6 DEF AcquireNext
    <2>2. todo[t] \in Seq(Keys) /\ Head(todo[t]) \in Keys /\ Range(todo[t]) \subseteq {Head(todo[t])} \cup Range(Tail(todo[t]))
      BY <2>1, FirstAndRest DEF TypeOK
    <2>3. p \in Parts
      BY <2>2, LoadingAssumption
    <2>4. /\ todo'[t] = Tail(todo[t]) /\ held'[t] = held[t] \cup {p} /\ lock'[p] = t
          /\ \A r \in Parts \ {p} : lock'[r] = lock[r]
          /\ lock[p] \in {None, t}
      BY <1>0, <2>1, <2>3 DEF TypeOK, Locked
    <2>5. \A k \in Range(op[t].keys) : k \in Range(Tail(todo[t])) \/ PartOf[k] \in held[t] \cup {p}
      BY <1>0, <2>1, <2>2 DEF Locked
    <2> HIDE DEF p
    <2>6. Locked(t)'
      BY <1>0, <2>1, <2>3, <2>4, <2>5 DEF Locked
    <2> QED
      BY <1>0, <2>4, <2>6, LocksStep, LoadingAssumption
  <1>7. CASE AcquireDone(t)
    <2>1. /\ pc[t] = "grab" /\ todo[t] = <<>> /\ UNCHANGED <<lock, held, twice, op>>
          /\ \E where \in {"note", "work"} : pc' = [pc EXCEPT ![t] = where]
      BY <1>7 DEF AcquireDone
    <2>2. Range(todo[t]) = {}
      BY <2>1 DEF Range
    <2>3. pc'[t] \in {"note", "work"}
      BY <2>1 DEF TypeOK
    <2>4. Locked(t)'
      BY <1>0, <2>1, <2>2, <2>3 DEF Locked
    <2> QED
      BY <1>0, <2>1, <2>4, LocksStep
  <1>8. CASE Release(t)
    <2>0. pc[t] = "release" /\ ~twice[t] /\ ~twice'[t] /\ held[t] \subseteq Parts
      BY <1>0, <1>8 DEF Release, TypeOK, Locked
    <2>1. ASSUME NEW p \in held[t], lock[p] # None, lock' = [lock EXCEPT ![p] = None],
                 held' = [held EXCEPT ![t] = @ \ {p}], UNCHANGED pc
          PROVE  Locks'
      <3>1. p \in Parts /\ lock[p] = t
        BY <1>0, <2>0 DEF Locked
      <3>2. held'[t] = held[t] \ {p} /\ lock'[p] = None /\ \A r \in Parts \ {p} : lock'[r] = lock[r]
        BY <2>1, <3>1 DEF TypeOK
      <3>3. Locked(t)'
        BY <1>0, <2>0, <2>1, <3>1, <3>2, LoadingAssumption DEF Locked
      <3> QED
        BY <1>0, <3>1, <3>2, <3>3, LocksStep, LoadingAssumption
    <2>2. CASE held[t] = {} /\ pc' = [pc EXCEPT ![t] = "idle"] /\ UNCHANGED <<lock, held>>
      <3>1. pc'[t] = "idle"
        BY <2>2 DEF TypeOK
      <3>2. Locked(t)'
        BY <1>0, <2>0, <2>2, <3>1 DEF Locked
      <3> QED
        BY <1>0, <2>2, <3>2, LocksStep
    <2>3. \A p \in held[t] : lock[p] # None
      BY <1>0, <2>0, LoadingAssumption DEF Locked
    <2> QED
      BY <1>8, <2>0, <2>1, <2>2, <2>3 DEF Release
  <1>9. CASE Worked(t)
    <2>1. /\ pc[t] \in {"work", "note"} /\ pc'[t] \in {"work", "note", "release", "dead"}
          /\ UNCHANGED <<lock, held, op>>
          /\ twice' = twice \/ twice' = [twice EXCEPT ![t] = FALSE]
      BY <1>9, WorkedStep
    <2>2. ~twice'[t]
      BY <1>0, <2>1 DEF Locked, TypeOK
    <2>3. Locked(t)'
      BY <1>0, <2>1, <2>2 DEF Locked
    <2> QED
      BY <1>0, <2>1, <2>3, LocksStep
  <1> QED
    BY <1>1, <1>2, <1>3, <1>4, <1>5, <1>6, <1>7, <1>8, <1>9 DEF Thread, Worked

-----------------------------------------------------------------------------
(* Server and store. *)

\* Thread t is between the change of k in the server and the note in the store, or died there.
Mid(t, k) ==
    /\ k \in Range(op[t].keys)
    /\ \/ op[t].kind \in Sets /\ pc[t] = "note"
       \/ op[t].kind \in {"bcreate", "bupdate"} /\ pc[t] = "work"
       \/ pc[t] = "dead"
       \/ op[t].kind \in Deletes /\ pc[t] = "note" /\ k = Key(t)

\* Server and store differ only about keys under the lock of a thread in between.
Settled(k) ==
    \/ k \in tainted \/ valid[k] = data[k]
    \/ \E t \in Threads : lock[PartOf[k]] = t /\ Mid(t, k)

\* What a thread is about to note is what the server holds.
Wrote(t, k) ==
    k \notin tainted =>
       /\ op[t].kind \in Sets /\ (pc[t] = "note" \/ (pc[t] = "work" /\ k \notin Range(todo[t]))) =>
             data[k] = t \/ (op[t].kind = "bupdate" /\ valid[k] = None)
       /\ op[t].kind = "update" /\ pc[t] = "note" => valid[k] # None
       /\ op[t].kind \in Deletes /\ pc[t] = "note" /\ k = Key(t) => data[k] = None

Agree == \A k \in Keys : Settled(k)
Written == \A t \in Threads : \A k \in Range(op[t].keys) : Wrote(t, k)

\* A thread that works under the lock of a key finds server and store in agreement, unless it
\* has changed a part of its batch.
LEMMA HeldAgrees ==
    ASSUME TypeOK, Locks, Agree, NEW t \in Threads, pc[t] = "work", op[t].kind \notin {"bcreate", "bupdate"},
           NEW k \in Range(op[t].keys), k \notin tainted
    PROVE  valid[k] = data[k]
  <1>1. k \in Keys
    BY OpKeys
  <1>2. PartOf[k] \in Parts /\ lock[PartOf[k]] = t
    BY <1>1, LoadingAssumption DEF Locks, Locked
  <1>3. ~Mid(t, k)
    BY DEF Mid
  <1> QED
    BY <1>1, <1>2, <1>3 DEF Agree, Settled

\* Server and store agree about what a thread holds that it has not touched.
LEMMA HeldUntouched ==
    ASSUME TypeOK, Agree, NEW t \in Threads, NEW k \in Keys, lock[PartOf[k]] = t, ~Mid(t, k)
    PROVE  k \in tainted \/ valid[k] = data[k]
  BY DEF Agree, Settled

\* A step of one thread that changes only keys it holds.
LEMMA AgreeStep ==
    ASSUME TypeOK, Agree, NEW t \in Threads, \A u \in Threads \ {t} : Same(u), tainted \subseteq tainted',
           \A u \in Threads \ {t} : \A p \in Parts : lock'[p] = u <=> lock[p] = u,
           \A k \in Keys : lock[PartOf[k]] # t => valid'[k] = valid[k] /\ data'[k] = data[k],
           \A k \in Keys : lock[PartOf[k]] = t => Settled(k)'
    PROVE  Agree'
  <1> SUFFICES ASSUME NEW k \in Keys, lock[PartOf[k]] # t PROVE Settled(k)'
    BY DEF Agree
  <1>1. PartOf[k] \in Parts /\ valid'[k] = valid[k] /\ data'[k] = data[k]
    BY LoadingAssumption
  <1>2. CASE k \in tainted \/ valid[k] = data[k]
    BY <1>1, <1>2 DEF Settled
  <1>3. ASSUME NEW u \in Threads, lock[PartOf[k]] = u, Mid(u, k) PROVE Settled(k)'
    <2>1. u # t /\ Same(u)
      BY <1>3
    <2>2. Mid(u, k)' /\ lock'[PartOf[k]] = u
      BY <1>1, <1>3, <2>1 DEF Mid, Same, Key
    <2> QED
      BY <2>2 DEF Settled
  <1> QED
    BY <1>2, <1>3 DEF Agree, Settled

\* What the other threads are about to note is not touched.
LEMMA WrittenStep ==
    ASSUME TypeOK, Locks, Written, NEW t \in Threads, \A u \in Threads \ {t} : Same(u), tainted \subseteq tainted',
           \A k \in Keys : lock[PartOf[k]] # t => valid'[k] = valid[k] /\ data'[k] = data[k],
           \A k \in Range(op'[t].keys) : Wrote(t, k)'
    PROVE  Written'
  <1> SUFFICES ASSUME NEW u \in Threads \ {t}, NEW k \in Range(op'[u].keys) PROVE Wrote(u, k)'
    BY DEF Written
  <1>1. Same(u) /\ k \in Range(op[u].keys) /\ k \in Keys
    BY OpKeys DEF Same
  <1>2. CASE pc[u] \in {"work", "note"}
    <2>1. PartOf[k] \in Parts /\ lock[PartOf[k]] = u
      BY <1>1, <1>2, LoadingAssumption DEF Locks, Locked
    <2>2. valid'[k] = valid[k] /\ data'[k] = data[k]
      BY <1>1, <2>1
    <2>3. Wrote(u, k)
      BY <1>1 DEF Written
    <2> QED
      BY <1>1, <2>2, <2>3 DEF Wrote, Same, Key
  <1>3. CASE pc[u] \notin {"work", "note"}
    BY <1>1, <1>3 DEF Wrote, Same
  <1> QED
    BY <1>2, <1>3

\* The same for a step after which the thread has nothing to note.
LEMMA NothingToNote ==
    ASSUME NEW t \in Threads, pc'[t] \notin {"work", "note"}
    PROVE  \A k : Wrote(t, k)'
  BY DEF Wrote

\* The start.
LEMMA InitData == Init => Agree /\ Written
  <1> SUFFICES ASSUME Init PROVE Agree /\ Written
    OBVIOUS
  <1>1. Agree
    BY DEF Init, Agree, Settled
  <1>2. Written
    BY DEF Init, Written, Wrote
  <1> QED
    BY <1>1, <1>2

\* Waiting for locks, taking them and giving them back.
Waited(t) ==
    \/ KeySet(t) \/ NextLoad(t) \/ NextVerify(t) \/ End(t)
    \/ AcquirePartition(t) \/ AcquireLock(t) \/ AcquireNext(t) \/ AcquireDone(t) \/ Release(t)

\* None of it touches a document.
LEMMA WaitedStep ==
    ASSUME TypeOK, NEW t \in Threads, Waited(t)
    PROVE  UNCHANGED <<valid, deleted, data, tainted, blamed>> /\ pc[t] \notin {"work", "note", "dead"}
  BY DEF Waited, KeySet, NextLoad, NextVerify, End, AcquirePartition, AcquireLock, AcquireNext, AcquireDone,
         Release, store, server, verdict

\* The locks of the others.
LEMMA OtherLocks ==
    ASSUME TypeOK, Locks, Locks', NEW t \in Threads, \A u \in Threads \ {t} : Same(u)
    PROVE  \A u \in Threads \ {t} : \A p \in Parts : lock'[p] = u <=> lock[p] = u
  BY DEF Locks, Locked, Same

\* What a batch has to write: of an update, the keys that are valid.
LEMMA WaitedWrote ==
    ASSUME TypeOK, Shapes, NEW t \in Threads, Waited(t), NEW k \in Range(op'[t].keys)
    PROVE  Wrote(t, k)'
  <1>1. CASE AcquirePartition(t)
    <2>1. pc'[t] = "work" /\ todo'[t] = op'[t].keys
      BY <1>1 DEF AcquirePartition, TypeOK, Shapes, Shape
    <2> QED
      BY <2>1 DEF Wrote
  <1>2. CASE AcquireDone(t)
    <2>1. PICK rest \in IF op[t].kind = "bupdate" THEN Sublist(op[t].keys, {x \in Keys : valid[x] # None})
                                                 ELSE {op[t].keys} :
            /\ todo' = [todo EXCEPT ![t] = rest]
            /\ pc' = [pc EXCEPT ![t] = IF rest = <<>> THEN "note" ELSE "work"]
      BY <1>2 DEF AcquireDone
    <2>2. /\ pc[t] = "grab" /\ UNCHANGED <<op, valid>> /\ op[t] \in Ops /\ op[t].keys \in Seq(Keys)
          /\ Sized(op[t]) /\ op[t].kind \in Batches
      BY <1>2 DEF AcquireDone, TypeOK, Ops, Shapes, Shape, Under
    <2>3. todo'[t] = rest /\ pc'[t] = IF rest = <<>> THEN "note" ELSE "work"
      BY <2>1 DEF TypeOK
    <2>4. CASE op[t].kind = "bupdate"
      <3>1. k \in Keys /\ (k \notin Range(rest) => valid[k] = None)
        BY <2>1, <2>2, <2>4, SublistKeeps, OpKeys
      <3>2. Range(<<>>) = {}
        BY DEF Range
      <3> QED
        BY <2>2, <2>3, <2>4, <3>1, <3>2 DEF Wrote, Deletes
    <2>5. CASE op[t].kind # "bupdate"
      <3>1. rest = op[t].keys /\ rest # <<>>
        BY <2>1, <2>2, <2>5 DEF Sized
      <3> QED
        BY <2>2, <2>3, <3>1 DEF Wrote
    <2> QED
      BY <2>4, <2>5
  <1>3. CASE ~AcquirePartition(t) /\ ~AcquireDone(t)
    <2>1. CASE KeySet(t) \/ End(t) \/ AcquireLock(t)
      BY <2>1, NothingToNote DEF KeySet, End, AcquireLock, TypeOK
    <2>2. CASE NextLoad(t) \/ NextVerify(t)
      <3>1. \E o : Begin(t, o)
        BY <2>2 DEF NextLoad, NextVerify
      <3>2. pc'[t] \in {"big", "lock"}
        BY <3>1 DEF Begin, TypeOK
      <3> QED
        BY <3>2, NothingToNote
    <2>3. CASE AcquireNext(t)
      BY <2>3, NothingToNote DEF AcquireNext
    <2>4. CASE Release(t)
      <3>1. pc[t] = "release" /\ (pc' = pc \/ \E where \in {"dead", "idle"} : pc' = [pc EXCEPT ![t] = where])
        BY <2>4 DEF Release
      <3>2. pc'[t] \in {"release", "dead", "idle"}
        BY <3>1 DEF TypeOK
      <3> QED
        BY <3>2, NothingToNote
    <2> QED
      BY <1>3, <2>1, <2>2, <2>3, <2>4 DEF Waited
  <1> QED
    BY <1>1, <1>2, <1>3

\* Waiting for locks leaves server and store as they are.
LEMMA WaitedData ==
    ASSUME TypeOK, Shapes, Locks, Locks', Agree, Written, NEW t \in Threads, Waited(t)
    PROVE  Agree' /\ Written'
  <1>1. UNCHANGED <<valid, data, tainted>> /\ pc[t] \notin {"work", "note", "dead"}
    BY WaitedStep
  <1>2. \A u \in Threads \ {t} : Same(u)
    BY OthersSame DEF Waited, Thread
  <1>3. \A k \in Keys : lock[PartOf[k]] = t => Settled(k)'
    BY <1>1 DEF Agree, Settled, Mid
  <1>4. Agree'
    BY <1>1, <1>2, <1>3, OtherLocks, AgreeStep
  <1>5. Written'
    BY <1>1, <1>2, WaitedWrote, WrittenStep
  <1> QED
    BY <1>4, <1>5

\* client.set
LEMMA SetDocData ==
    ASSUME TypeOK, Shapes, Locks, Agree, Written, NEW t \in Threads, SetDoc(t) PROVE Agree' /\ Written'
  <1>0. /\ UNCHANGED <<lock, op, valid>> /\ \A u \in Threads \ {t} : Same(u)
    BY WorkedStep DEF Worked, SetDoc, store
  <1>1. pc[t] = "work" /\ op[t].kind \in Sets /\ (op[t].kind = "update" => data[Key(t)] # None)
    BY DEF SetDoc, Sets
  <1>2. /\ Key(t) \in Keys /\ Key(t) \in Range(op[t].keys) /\ todo[t] \in Seq(Keys) /\ todo[t] # <<>>
        /\ Range(op[t].keys) \subseteq Keys
        /\ op[t].kind \in Singles => Len(todo[t]) = 1
    BY <1>1, KeyType, OpKeys DEF TypeOK, Shapes, Shape
  <1>3. Range(todo[t]) \subseteq {Key(t)} \cup Range(Tail(todo[t]))
    BY <1>2, FirstAndRest DEF Key
  <1>4. \A k \in Range(op[t].keys) : lock[PartOf[k]] = t
    BY <1>1, <1>2, LoadingAssumption DEF Locks, Locked
  <1>5. CASE /\ data' = [data EXCEPT ![Key(t)] = t]
             /\ todo' = [todo EXCEPT ![t] = Tail(@)]
             /\ pc' = [pc EXCEPT ![t] = IF Len(todo[t]) = 1 THEN "note" ELSE "work"]
             /\ UNCHANGED tainted
    <2>1. /\ todo'[t] = Tail(todo[t]) /\ pc'[t] = IF Len(todo[t]) = 1 THEN "note" ELSE "work"
          /\ data'[Key(t)] = t /\ \A k \in Keys \ {Key(t)} : data'[k] = data[k]
      BY <1>2, <1>5 DEF TypeOK
    <2>2. \A k \in Range(op[t].keys) : Mid(t, k)'
      BY <1>0, <1>1, <1>2, <2>1 DEF Mid, Sets, Singles
    <2>3. \A k \in Keys : lock[PartOf[k]] = t => Settled(k)'
      <3> SUFFICES ASSUME NEW k \in Keys, lock[PartOf[k]] = t PROVE Settled(k)'
        OBVIOUS
      <3>1. CASE k \in Range(op[t].keys)
        BY <1>0, <2>2, <3>1 DEF Settled
      <3>2. CASE k \notin Range(op[t].keys)
        <4>1. k \in tainted \/ valid[k] = data[k]
          BY <3>2, HeldUntouched DEF Mid
        <4> QED
          BY <1>0, <1>2, <1>5, <2>1, <3>2, <4>1 DEF Settled
      <3> QED
        BY <3>1, <3>2
    <2>4. Agree'
      BY <1>0, <1>2, <1>4, <1>5, <2>1, <2>3, AgreeStep
    <2>5. ASSUME NEW k \in Range(op'[t].keys), k \notin tainted PROVE Wrote(t, k)'
      <3>1. k \in Range(op[t].keys) /\ k \in Keys
        BY <1>0, <1>2, <2>5
      <3>2. (pc'[t] = "note" \/ k \notin Range(todo'[t])) => k = Key(t) \/ k \notin Range(todo[t])
        <4>1. CASE Len(todo[t]) = 1
          <5>1. Range(todo[t]) = {Key(t)}
            BY <1>2, <4>1, FirstAndRest DEF Key
          <5> QED
            BY <5>1
        <4>2. CASE Len(todo[t]) # 1
          BY <1>3, <2>1, <4>2
        <4> QED
          BY <4>1, <4>2
      <3>3. k \notin Range(todo[t]) => data[k] = t \/ (op[t].kind = "bupdate" /\ valid[k] = None)
        BY <1>1, <2>5, <3>1 DEF Written, Wrote
      <3>4. op[t].kind = "update" => valid[k] # None
        <4> SUFFICES ASSUME op[t].kind = "update" PROVE valid[k] # None
          OBVIOUS
        <4>1. op[t].keys \in Seq(Keys) /\ Len(op[t].keys) = 1 /\ op[t].keys # <<>>
          BY <1>1 DEF TypeOK, Ops, Shapes, Shape, Sized, Singles, Under
        <4>2. k = Key(t)
          BY <1>2, <3>1, <4>1, FirstAndRest
        <4>3. valid[k] = data[k]
          BY <1>1, <2>5, <3>1, HeldAgrees
        <4> QED
          BY <1>1, <4>2, <4>3
      <3>5. op'[t].kind \notin Deletes
        BY <1>0, <1>1 DEF Sets, Deletes
      <3> QED
        BY <1>0, <2>1, <3>1, <3>2, <3>3, <3>4, <3>5 DEF Wrote
    <2>6. \A k \in Range(op'[t].keys) : Wrote(t, k)'
      BY <1>5, <2>5 DEF Wrote
    <2>7. Written'
      BY <1>0, <1>2, <1>4, <1>5, <2>1, <2>6, WrittenStep
    <2> QED
      BY <2>4, <2>7
  <1>6. CASE /\ data' \in {data, [data EXCEPT ![Key(t)] = t]}
             /\ tainted' = tainted \cup Range(op[t].keys)
    <2>1. \A k \in Keys \ {Key(t)} : data'[k] = data[k]
      BY <1>2, <1>6 DEF TypeOK
    <2>2. \A k \in Keys : lock[PartOf[k]] = t => Settled(k)'
      <3> SUFFICES ASSUME NEW k \in Keys, lock[PartOf[k]] = t, k \notin tainted' PROVE Settled(k)'
        BY DEF Settled
      <3>1. k \notin Range(op[t].keys) /\ k # Key(t) /\ k \notin tainted
        BY <1>2, <1>6
      <3>2. valid[k] = data[k]
        BY <3>1, HeldUntouched DEF Mid
      <3> QED
        BY <1>0, <2>1, <3>1, <3>2 DEF Settled
    <2>3. Agree'
      BY <1>0, <1>2, <1>4, <1>6, <2>1, <2>2, AgreeStep
    <2>4. \A k \in Range(op'[t].keys) : Wrote(t, k)'
      BY <1>0, <1>6 DEF Wrote
    <2>5. Written'
      BY <1>0, <1>2, <1>4, <1>6, <2>1, <2>4, WrittenStep
    <2> QED
      BY <2>3, <2>5
  <1> QED
    BY <1>5, <1>6 DEF SetDoc, Error

\* partition.set
LEMMA NoteSetData ==
    ASSUME TypeOK, Shapes, Locks, Agree, Written, NEW t \in Threads, NoteSet(t) PROVE Agree' /\ Written'
  <1> DEFINE keys == op[t].keys
             gone == {i \in DOMAIN keys : op[t].kind = "bupdate" /\ valid[keys[i]] = None}
             done == {keys[i] : i \in {j \in DOMAIN keys : \A h \in gone : j < h}}
  <1>0. /\ UNCHANGED <<lock, op, data, tainted>> /\ \A u \in Threads \ {t} : Same(u)
    BY WorkedStep DEF Worked, NoteSet, server
  <1>1. /\ pc[t] = "note" /\ op[t].kind \in Sets
        /\ valid' = [k \in Keys |-> IF k \in done THEN t ELSE valid[k]]
        /\ pc' = [pc EXCEPT ![t] = IF gone = {} THEN "release" ELSE "dead"]
    BY DEF NoteSet, Sets
  <1>2. pc'[t] = IF gone = {} THEN "release" ELSE "dead"
    BY <1>1 DEF TypeOK
  <1>3. Range(keys) \subseteq Keys /\ keys \in Seq(Keys)
    BY OpKeys DEF TypeOK, Ops
  <1>4. done \subseteq Range(keys) /\ (gone = {} => done = Range(keys))
    BY DEF Range
  <1>5. \A k \in done : ~(op[t].kind = "bupdate" /\ valid[k] = None)
    <2> SUFFICES ASSUME NEW i \in DOMAIN keys, \A h \in gone : i < h, i \in gone PROVE FALSE
      OBVIOUS
    <2>1. i \in Nat /\ i < i
      BY <1>3
    <2> QED
      BY <2>1
  <1> HIDE DEF gone, done
  <1>6. \A k \in Range(keys) : lock[PartOf[k]] = t
    BY <1>1, <1>3, LoadingAssumption DEF Locks, Locked
  <1>7. \A k \in Keys : lock[PartOf[k]] = t => Settled(k)'
    <2> SUFFICES ASSUME NEW k \in Keys, lock[PartOf[k]] = t, k \notin tainted PROVE Settled(k)'
      BY <1>0 DEF Settled
    <2>1. CASE k \in done
      <3>1. data[k] = t
        BY <1>1, <1>4, <1>5, <2>1 DEF Written, Wrote
      <3> QED
        BY <1>0, <1>1, <2>1, <3>1 DEF Settled
    <2>2. CASE k \notin done /\ k \in Range(keys)
      <3>1. Mid(t, k)'
        BY <1>0, <1>2, <1>4, <2>2 DEF Mid
      <3> QED
        BY <1>0, <3>1 DEF Settled
    <2>3. CASE k \notin done /\ k \notin Range(keys)
      <3>1. valid[k] = data[k]
        BY <2>3, HeldUntouched DEF Mid
      <3> QED
        BY <1>0, <1>1, <2>3, <3>1 DEF Settled
    <2> QED
      BY <2>1, <2>2, <2>3
  <1>8. \A k \in Keys : lock[PartOf[k]] # t => valid'[k] = valid[k]
    BY <1>1, <1>4, <1>6
  <1>9. Agree'
    BY <1>0, <1>7, <1>8, AgreeStep
  <1>10. Written'
    BY <1>0, <1>2, <1>8, NothingToNote, WrittenStep
  <1> QED
    BY <1>9, <1>10

\* client.delete
LEMMA DeleteDocData ==
    ASSUME TypeOK, Shapes, Locks, Agree, Written, NEW t \in Threads, DeleteDoc(t) PROVE Agree' /\ Written'
  <1>0. /\ UNCHANGED <<lock, op, valid>> /\ \A u \in Threads \ {t} : Same(u)
    BY WorkedStep DEF Worked, DeleteDoc, store
  <1>1. pc[t] = "work" /\ op[t].kind \in Deletes /\ op[t].kind \notin {"bcreate", "bupdate"} /\ op[t].kind \notin Sets
    BY DEF DeleteDoc, Deletes, Sets
  <1>2. Key(t) \in Keys /\ Key(t) \in Range(op[t].keys)
    BY <1>1, KeyType
  <1>3. \A k \in Keys : ~Mid(t, k)
    BY <1>1 DEF Mid
  <1>4. lock[PartOf[Key(t)]] = t
    BY <1>1, <1>2, LoadingAssumption DEF Locks, Locked
  <1>5. data' = data \/ data' = [data EXCEPT ![Key(t)] = None]
    BY DEF DeleteDoc, server, Error
  <1>6. \A k \in Keys \ {Key(t)} : data'[k] = data[k]
    BY <1>2, <1>5 DEF TypeOK
  <1>7. tainted \subseteq tainted'
    BY DEF DeleteDoc, server
  <1>8. \/ Key(t) \in tainted' /\ pc'[t] \in {"work", "release"}
        \/ data' = data /\ pc'[t] \in {"work", "release"}
        \/ data'[Key(t)] = None /\ pc'[t] = "note" /\ todo' = todo
    <2>1. CASE data' = [data EXCEPT ![Key(t)] = None] /\ pc' = [pc EXCEPT ![t] = "note"] /\ UNCHANGED todo
      BY <1>2, <2>1 DEF TypeOK
    <2>2. CASE Proceed(t) /\ UNCHANGED data
      BY <2>2 DEF Proceed, TypeOK
    <2>3. CASE GiveUp(t) /\ UNCHANGED data
      BY <2>3 DEF GiveUp, TypeOK
    <2>4. CASE tainted' = tainted \cup {Key(t)} /\ (GiveUp(t) \/ Proceed(t))
      BY <2>4 DEF GiveUp, Proceed, TypeOK
    <2> QED
      BY <2>1, <2>2, <2>3, <2>4 DEF DeleteDoc, server
  <1>9. \A k \in Keys : lock[PartOf[k]] = t => Settled(k)'
    <2> SUFFICES ASSUME NEW k \in Keys, lock[PartOf[k]] = t, k \notin tainted' PROVE Settled(k)'
      BY DEF Settled
    <2>1. valid[k] = data[k]
      BY <1>3, <1>7, HeldUntouched
    <2>2. CASE data'[k] = data[k]
      BY <1>0, <2>1, <2>2 DEF Settled
    <2>3. CASE data'[k] # data[k]
      <3>1. k = Key(t) /\ data' # data
        BY <1>6, <2>3
      <3>2. pc'[t] = "note" /\ todo' = todo
        BY <1>8, <3>1
      <3>3. Mid(t, k)'
        BY <1>0, <1>1, <1>2, <3>1, <3>2 DEF Mid, Key
      <3> QED
        BY <1>0, <3>3 DEF Settled
    <2> QED
      BY <2>2, <2>3
  <1>10. Agree'
    BY <1>0, <1>4, <1>6, <1>7, <1>9, AgreeStep
  <1>11. \A k \in Range(op'[t].keys) : Wrote(t, k)'
    <2> SUFFICES ASSUME NEW k \in Range(op'[t].keys), pc'[t] = "note", k = Key(t)' PROVE data'[k] = None
      BY <1>0, <1>1 DEF Wrote, Sets
    <2>1. data'[Key(t)] = None /\ todo' = todo
      BY <1>8
    <2> QED
      BY <2>1 DEF Key
  <1>12. Written'
    BY <1>0, <1>4, <1>6, <1>7, <1>11, WrittenStep
  <1> QED
    BY <1>10, <1>12

\* partition.delete
LEMMA NoteDeleteData ==
    ASSUME TypeOK, Shapes, Locks, Agree, Written, NEW t \in Threads, NoteDelete(t) PROVE Agree' /\ Written'
  <1>0. /\ UNCHANGED <<lock, op, data, tainted>> /\ \A u \in Threads \ {t} : Same(u)
    BY WorkedStep DEF Worked, NoteDelete, server
  <1>1. pc[t] = "note" /\ op[t].kind \in Deletes /\ op[t].kind \notin Sets
    BY DEF NoteDelete, Deletes, Sets
  <1>2. Key(t) \in Keys /\ Key(t) \in Range(op[t].keys)
    BY <1>1, KeyType
  <1>3. valid'[Key(t)] = None /\ \A k \in Keys \ {Key(t)} : valid'[k] = valid[k] /\ ~Mid(t, k)
    BY <1>1, <1>2 DEF NoteDelete, TypeOK, Mid
  <1>4. lock[PartOf[Key(t)]] = t
    BY <1>1, <1>2, LoadingAssumption DEF Locks, Locked
  <1>5. Key(t) \notin tainted => data[Key(t)] = None
    BY <1>1, <1>2 DEF Written, Wrote
  <1>6. \A k \in Keys : lock[PartOf[k]] = t => Settled(k)'
    BY <1>0, <1>3, <1>5, HeldUntouched DEF Settled
  <1>7. Agree'
    BY <1>0, <1>3, <1>4, <1>6, AgreeStep
  <1>8. \A k \in Range(op'[t].keys) : Wrote(t, k)'
    <2>1. pc'[t] \in {"work", "release"}
      BY DEF NoteDelete, Proceed, TypeOK
    <2> QED
      BY <1>0, <1>1, <2>1 DEF Wrote, Deletes
  <1>9. Written'
    BY <1>0, <1>3, <1>4, <1>8, WrittenStep
  <1> QED
    BY <1>7, <1>9

\* Reading leaves server and store as they are.
LEMMA ReadData ==
    ASSUME TypeOK, Shapes, Locks, Agree, Written, NEW t \in Threads, Worked(t), pc[t] = "work",
           op[t].kind \notin {"bcreate", "bupdate"}, pc'[t] \in {"work", "release"},
           op[t].kind \in Sets => pc'[t] = "release", UNCHANGED valid, tainted \subseteq tainted',
           \A k \in Keys : data'[k] # data[k] => k \in tainted' /\ lock[PartOf[k]] = t
    PROVE  Agree' /\ Written'
  <1>0. /\ UNCHANGED <<lock, op>> /\ \A u \in Threads \ {t} : Same(u)
    BY WorkedStep
  <1>1. \A k \in Keys : lock[PartOf[k]] = t => Settled(k)'
    <2> SUFFICES ASSUME NEW k \in Keys, lock[PartOf[k]] = t, k \notin tainted' PROVE Settled(k)'
      BY DEF Settled
    <2>1. ~Mid(t, k)
      BY DEF Mid
    <2>2. valid[k] = data[k]
      BY <2>1, HeldUntouched
    <2> QED
      BY <2>2 DEF Settled
  <1>2. Agree'
    BY <1>0, <1>1, AgreeStep
  <1>3. \A k \in Range(op'[t].keys) : Wrote(t, k)'
    BY <1>0 DEF Wrote, Deletes, Sets
  <1>4. Written'
    BY <1>0, <1>3, WrittenStep
  <1> QED
    BY <1>2, <1>4


-----------------------------------------------------------------------------
(* Keys that are created once, and the deleted ones a verifier has seen. *)

\* No key is created by two operations of the loaders: a verifier whose list says that a key
\* is deleted deletes the document of whoever has created the key again.
CreatedOnce ==
    \A k \in Keys, t, u \in Threads : \A i \in DOMAIN Script[t], j \in DOMAIN Script[u] :
        /\ Script[t][i].kind \in Creates /\ k \in Range(Script[t][i].keys)
        /\ Script[u][j].kind \in Creates /\ k \in Range(Script[u][j].keys)
        => t = u /\ i = j

\* The operation i of thread t, the one under way if i is 0, will create k.
Creating(t, i, k) ==
    \/ i = 0 /\ pc[t] \in Under /\ op[t].kind \in Creates /\ k \in Range(op[t].keys)
    \/ i \in DOMAIN script[t] /\ script[t][i].kind \in Creates /\ k \in Range(script[t][i].keys)

\* The store has the key or had it.
Known(k) == valid[k] # None \/ k \in deleted

\* One operation creates a key, before the key is valid and before it is deleted.
Once(k) ==
    /\ \A t, u \in Threads : \A i, j \in Nat : Creating(t, i, k) /\ Creating(u, j, k) => t = u /\ i = j
    /\ k \notin tainted /\ Known(k) =>
          \A t \in Threads : \A i \in Nat : ~Creating(t, i, k)

\* What a verifier takes for deleted is deleted still.
StillDeleted(t) ==
    /\ dkeys[t] \subseteq deleted \cup tainted
    /\ op[t].kind = "checkdel" /\ pc[t] \in {"lock", "work"} => Range(op[t].keys) \subseteq deleted \cup tainted

Onces == \A k \in Keys : Once(k)
Deleteds == \A t \in Threads : StillDeleted(t)

\* The start.
LEMMA InitOnce == ASSUME CreatedOnce, Init PROVE Onces /\ Deleteds
  <1>1. ASSUME NEW t \in Threads, NEW i \in Nat, NEW k \in Keys
        PROVE  Creating(t, i, k) <=> i \in DOMAIN Script[t] /\ Script[t][i].kind \in Creates /\ k \in Range(Script[t][i].keys)
    BY DEF Creating, Init, Under
  <1>2. Onces
    <2> SUFFICES ASSUME NEW k \in Keys PROVE Once(k)
      BY DEF Onces
    <2>1. valid[k] = None /\ deleted = {}
      BY DEF Init
    <2>2. ASSUME NEW t \in Threads, NEW u \in Threads, NEW i \in Nat, NEW j \in Nat, Creating(t, i, k), Creating(u, j, k)
          PROVE  t = u /\ i = j
      BY <1>1, <2>2 DEF CreatedOnce
    <2> QED
      BY <2>1, <2>2 DEF Once, Known
  <1>3. Deleteds
    BY DEF Init, Deleteds, StillDeleted
  <1> QED
    BY <1>2, <1>3

\* Only next() takes an operation from the script.
LEMMA ScriptSame ==
    ASSUME TypeOK, NEW t \in Threads, Thread(t), ~NextLoad(t) PROVE script' = script
  BY WorkedStep DEF Thread, Worked, KeySet, NextVerify, End, AcquirePartition, AcquireLock, AcquireNext, AcquireDone,
     Release, plan

\* next() moves the operations of a loader up by one; any other step creates no more.
LEMMA CreatingStep ==
    ASSUME TypeOK, Shapes, NEW t \in Threads, Thread(t), NEW k
    PROVE  /\ \A u \in Threads \ {t} : \A i \in Nat : Creating(u, i, k)' <=> Creating(u, i, k)
           /\ \/ \A i \in Nat : Creating(t, i, k)' => Creating(t, i, k)
              \/ \A i \in Nat : Creating(t, i, k)' => Creating(t, i + 1, k)
  <1>1. \A u \in Threads \ {t} : \A i \in Nat : Creating(u, i, k)' <=> Creating(u, i, k)
    BY OthersSame DEF Same, Creating
  <1>2. CASE NextLoad(t)
    <2>1. script[t] \in Seq(Ops) /\ script[t] # <<>> /\ script'[t] = Tail(script[t]) /\ op'[t] = Head(script[t])
      BY <1>2 DEF NextLoad, Begin, TypeOK
    <2>2. /\ DOMAIN Tail(script[t]) = 1..(Len(script[t]) - 1) /\ Len(script[t]) \in Nat \ {0}
          /\ DOMAIN script[t] = 1..Len(script[t])
          /\ \A i \in 1..(Len(script[t]) - 1) : Tail(script[t])[i] = script[t][i + 1]
          /\ Head(script[t]) = script[t][1]
      BY <2>1
    <2>3. ASSUME NEW i \in Nat, Creating(t, i, k)' PROVE Creating(t, i + 1, k)
      <3>1. CASE i = 0
        <4>1. op'[t].kind \in Creates /\ k \in Range(op'[t].keys)
          BY <2>1, <2>2, <2>3, <3>1 DEF Creating
        <4> QED
          BY <2>1, <2>2, <3>1, <4>1 DEF Creating
      <3>2. CASE i # 0
        <4>1. i \in DOMAIN script'[t] /\ script'[t][i].kind \in Creates /\ k \in Range(script'[t][i].keys)
          BY <2>3, <3>2 DEF Creating
        <4>2. i + 1 \in DOMAIN script[t] /\ script'[t][i] = script[t][i + 1]
          BY <2>1, <2>2, <4>1
        <4> QED
          BY <4>1, <4>2 DEF Creating
      <3> QED
        BY <3>1, <3>2
    <2> QED
      BY <1>1, <2>3
  <1>3. CASE ~NextLoad(t)
    <2>1. script'[t] = script[t]
      BY <1>3, ScriptSame
    <2>2. (pc'[t] \in Under /\ op'[t].kind \in Creates => pc[t] \in Under /\ op'[t] = op[t])
      <3>1. CASE KeySet(t) \/ End(t)
        BY <3>1 DEF KeySet, End, TypeOK, Under
      <3>2. CASE NextVerify(t)
        <4>1. \E q : \/ Begin(t, [kind |-> "check", keys |-> q]) \/ Begin(t, [kind |-> "bcheck", keys |-> q])
                    \/ Begin(t, [kind |-> "checkdel", keys |-> q])
          BY <3>2 DEF NextVerify
        <4>2. op'[t].kind \notin Creates
          BY <4>1 DEF Begin, TypeOK, Creates
        <4> QED
          BY <4>2
      <3>3. CASE AcquirePartition(t) \/ AcquireLock(t) \/ AcquireNext(t) \/ AcquireDone(t)
        BY <3>3 DEF AcquirePartition, AcquireLock, AcquireNext, AcquireDone, Under, call
      <3>4. CASE Release(t)
        <4>1. pc[t] = "release" /\ (pc' = pc \/ \E where \in {"dead", "idle"} : pc' = [pc EXCEPT ![t] = where])
          BY <3>4 DEF Release
        <4> QED
          BY <4>1 DEF TypeOK, Under
      <3>5. CASE Worked(t)
        BY <3>5, WorkedStep DEF Under
      <3> QED
        BY <1>3, <3>1, <3>2, <3>3, <3>4, <3>5 DEF Thread, Worked
    <2> QED
      BY <1>1, <2>1, <2>2 DEF Creating
  <1> QED
    BY <1>2, <1>3

\* A key that is valid or deleted now was so before, or the step is the one that creates it.
LEMMA NewInStore ==
    ASSUME TypeOK, Shapes, Written, NEW t \in Threads, Thread(t), NEW k \in Keys, k \notin tainted'
    PROVE  /\ k \notin tainted
           /\ k \in deleted /\ k \notin deleted' => Creating(t, 0, k)
           /\ Known(k)' => Known(k) \/ (Creating(t, 0, k) /\ pc'[t] \notin Under)
  <1>1. k \notin tainted
    <2>1. tainted \subseteq tainted'
      BY WaitedStep DEF Thread, Waited, SetDoc, NoteSet, DeleteDoc, NoteDelete, GetDoc, GetMulti, CheckDeleted, server
    <2> QED
      BY <2>1
  <1>2. CASE NoteSet(t)
    <2> DEFINE keys == op[t].keys
               gone == {i \in DOMAIN keys : op[t].kind = "bupdate" /\ valid[keys[i]] = None}
               done == {keys[i] : i \in {j \in DOMAIN keys : \A h \in gone : j < h}}
    <2>1. /\ pc[t] = "note" /\ op[t].kind \in Sets
          /\ valid' = [x \in Keys |-> IF x \in done THEN t ELSE valid[x]] /\ deleted' = deleted \ done
          /\ pc' = [pc EXCEPT ![t] = IF gone = {} THEN "release" ELSE "dead"]
      BY <1>2 DEF NoteSet, Sets
    <2>2. done \subseteq Range(keys)
      BY DEF Range
    <2>3. keys \in Seq(Keys)
      BY DEF TypeOK, Ops
    <2>4. \A x \in done : ~(op[t].kind = "bupdate" /\ valid[x] = None)
      <3> SUFFICES ASSUME NEW i \in DOMAIN keys, \A h \in gone : i < h, i \in gone PROVE FALSE
        OBVIOUS
      <3>1. i \in Nat /\ i < i
        BY <2>3
      <3> QED
        BY <3>1
    <2> HIDE DEF gone, done
    <2>5. pc'[t] \notin Under
      BY <2>1 DEF TypeOK, Under
    <2>6. CASE k \notin done
      BY <1>1, <2>1, <2>6 DEF Known
    <2>7. CASE k \in done
      <3>1. op[t].kind = "update" => valid[k] # None
        BY <1>1, <2>1, <2>2, <2>7 DEF Written, Wrote
      <3>2. op[t].kind \in Creates \/ valid[k] # None
        BY <2>1, <2>4, <2>7, <3>1 DEF Sets, Creates
      <3>3. CASE op[t].kind \in Creates
        <4>1. Creating(t, 0, k)
          BY <2>1, <2>2, <2>7, <3>3 DEF Creating, Under
        <4> QED
          BY <1>1, <2>5, <4>1
      <3>4. CASE valid[k] # None
        BY <1>1, <3>4 DEF TypeOK, Known
      <3> QED
        BY <3>2, <3>3, <3>4
    <2> QED
      BY <2>6, <2>7
  <1>3. CASE NoteDelete(t)
    <2>1. /\ deleted' = IF valid[Key(t)] # None THEN deleted \cup {Key(t)} ELSE deleted
          /\ valid' = [valid EXCEPT ![Key(t)] = None]
      BY <1>3 DEF NoteDelete
    <2> QED
      BY <1>1, <2>1 DEF TypeOK, Known
  <1>4. CASE ~NoteSet(t) /\ ~NoteDelete(t)
    <2>1. UNCHANGED <<valid, deleted>>
      BY <1>4, WaitedStep DEF Thread, Waited, SetDoc, DeleteDoc, GetDoc, GetMulti, CheckDeleted, store
    <2> QED
      BY <1>1, <2>1 DEF Known
  <1> QED
    BY <1>2, <1>3, <1>4

\* A key is created by one operation still.
LEMMA OnceStep ==
    ASSUME TypeOK, Shapes, Written, Onces, NEW t \in Threads, Thread(t) PROVE Onces'
  <1> SUFFICES ASSUME NEW k \in Keys PROVE Once(k)'
    BY DEF Onces
  <1>0. Once(k)
    BY DEF Onces
  <1>1. /\ \A u \in Threads \ {t} : \A i \in Nat : Creating(u, i, k)' <=> Creating(u, i, k)
        /\ \/ \A i \in Nat : Creating(t, i, k)' => Creating(t, i, k)
           \/ \A i \in Nat : Creating(t, i, k)' => Creating(t, i + 1, k)
    BY CreatingStep
  <1>2. ASSUME NEW u \in Threads, NEW v \in Threads, NEW i \in Nat, NEW j \in Nat, Creating(u, i, k)', Creating(v, j, k)'
        PROVE  u = v /\ i = j
    <2>2. CASE u = t /\ v = t
      BY <1>0, <1>1, <1>2, <2>2 DEF Once
    <2>3. CASE u # t \/ v # t
      <3>1. \E m, n \in Nat : Creating(u, m, k) /\ Creating(v, n, k)
        BY <1>1, <1>2, <2>3
      <3>2. u = v
        BY <1>0, <3>1 DEF Once
      <3> QED
        BY <1>0, <1>1, <1>2, <2>3, <3>2 DEF Once
    <2> QED
      BY <2>2, <2>3
  <1>3. ASSUME k \notin tainted', Known(k)', NEW u \in Threads, NEW i \in Nat, Creating(u, i, k)' PROVE FALSE
    <2>1. k \notin tainted /\ (Known(k) \/ (Creating(t, 0, k) /\ pc'[t] \notin Under))
      BY <1>3, NewInStore
    <2>2. \E m \in Nat : Creating(u, m, k)
      BY <1>1, <1>3
    <2>3. CASE Known(k)
      BY <1>0, <2>1, <2>2, <2>3 DEF Once
    <2>4. CASE Creating(t, 0, k) /\ pc'[t] \notin Under
      <3>1. u = t
        BY <1>0, <2>2, <2>4 DEF Once
      <3>2. i \in DOMAIN script'[t] /\ script'[t] = script[t]
        <4>1. i \in DOMAIN script'[t]
          BY <1>3, <2>4, <3>1 DEF Creating
        <4>2. ~NextLoad(t)
          BY <2>4 DEF NextLoad, Begin, TypeOK, Under
        <4> QED
          BY <4>1, <4>2, ScriptSame
      <3>3. Creating(t, i, k)
        BY <1>3, <2>4, <3>1, <3>2 DEF Creating
      <3>4. i = 0
        BY <1>0, <2>4, <3>3 DEF Once
      <3>5. script[t] \in Seq(Ops)
        BY DEF TypeOK
      <3> QED
        BY <3>2, <3>4, <3>5
    <2> QED
      BY <2>1, <2>3, <2>4
  <1> QED
    BY <1>2, <1>3 DEF Once

\* What was deleted when a verifier looked stays deleted, or the server has failed for it.
LEMMA DeletedStays ==
    ASSUME TypeOK, Shapes, Written, Onces, NEW t \in Threads, Thread(t)
    PROVE  deleted \cup tainted \subseteq deleted' \cup tainted'
  <1> SUFFICES ASSUME NEW k \in deleted \cup tainted, k \notin tainted' PROVE k \in deleted'
    OBVIOUS
  <1>1. k \in Keys
    BY DEF TypeOK
  <1>2. k \notin tainted /\ (k \notin deleted' => Creating(t, 0, k))
    BY <1>1, NewInStore
  <1>3. ~Creating(t, 0, k)
    BY <1>1, <1>2 DEF Onces, Once, Known
  <1> QED
    BY <1>2, <1>3

\* A verifier's keys, as far as they are taken for deleted.
LEMMA StillDeletedStep ==
    ASSUME NEW t \in Threads, StillDeleted(t), deleted \cup tainted \subseteq deleted' \cup tainted',
           dkeys'[t] \subseteq dkeys[t] \cup deleted,
           op'[t].kind = "checkdel" /\ pc'[t] \in {"lock", "work"} =>
              \/ Range(op'[t].keys) \subseteq dkeys[t]
              \/ op[t].kind = "checkdel" /\ pc[t] \in {"lock", "work"} /\ op'[t] = op[t]
    PROVE  StillDeleted(t)'
  <1>1. dkeys'[t] \subseteq deleted' \cup tainted'
    BY DEF StillDeleted
  <1>2. ASSUME op'[t].kind = "checkdel", pc'[t] \in {"lock", "work"}
        PROVE  Range(op'[t].keys) \subseteq deleted' \cup tainted'
    BY <1>2 DEF StillDeleted
  <1> QED
    BY <1>1, <1>2 DEF StillDeleted

\* The keys of the verifiers.
LEMMA DeletedsStep ==
    ASSUME TypeOK, Shapes, Written, Onces, Deleteds, NEW t \in Threads, Thread(t) PROVE Deleteds'
  <1>0. deleted \cup tainted \subseteq deleted' \cup tainted'
    BY DeletedStays
  <1>1. ASSUME NEW u \in Threads \ {t} PROVE StillDeleted(u)'
    BY <1>0, OthersSame DEF Deleteds, StillDeleted, Same
  <1> SUFFICES StillDeleted(t)'
    BY <1>1 DEF Deleteds
  <1>2. StillDeleted(t)
    BY DEF Deleteds
  <1>3. CASE KeySet(t)
    <2>1. pc'[t] \notin {"lock", "work"} /\ dkeys'[t] \subseteq dkeys[t] \cup deleted
      <3>1. pc[t] = "snap" /\ \E where \in {"snap", "idle"} : pc' = [pc EXCEPT ![t] = where]
        BY <1>3 DEF KeySet, TypeOK
      <3>2. dkeys' = dkeys \/ \E S : dkeys' = [dkeys EXCEPT ![t] = @ \cup (S \cap deleted)]
        BY <1>3 DEF KeySet
      <3> QED
        BY <3>1, <3>2 DEF TypeOK
    <2> QED
      BY <1>0, <1>2, <2>1, StillDeletedStep
  <1>4. CASE NextLoad(t)
    <2>1. script[t] \in Seq(Ops) /\ script[t] # <<>> /\ op'[t] = Head(script[t]) /\ dkeys' = dkeys
      BY <1>4 DEF NextLoad, Begin, TypeOK
    <2>2. 1 \in DOMAIN script[t] /\ Head(script[t]) = script[t][1]
      BY <2>1
    <2>3. op'[t].kind # "checkdel"
      BY <2>1, <2>2 DEF Shapes, Shape, Checks
    <2> QED
      BY <1>0, <1>2, <2>1, <2>3, StillDeletedStep
  <1>5. CASE NextVerify(t)
    <2>1. ASSUME NEW k \in dkeys[t], Begin(t, [kind |-> "checkdel", keys |-> <<k>>]),
                 dkeys' = [dkeys EXCEPT ![t] = @ \ {k}]
          PROVE  StillDeleted(t)'
      <3>1. op'[t].keys = <<k>> /\ dkeys'[t] \subseteq dkeys[t]
        BY <2>1 DEF Begin, TypeOK
      <3>2. Range(<<k>>) = {k}
        BY DEF Range
      <3> QED
        BY <1>0, <1>2, <2>1, <3>1, <3>2, StillDeletedStep
    <2>2. ASSUME NEW q, Begin(t, [kind |-> "check", keys |-> q]) \/ Begin(t, [kind |-> "bcheck", keys |-> q]),
                 dkeys' = dkeys
          PROVE  StillDeleted(t)'
      <3>1. op'[t].kind # "checkdel"
        BY <2>2 DEF Begin, TypeOK
      <3> QED
        BY <1>0, <1>2, <2>2, <3>1, StillDeletedStep
    <2> QED
      BY <1>5, <2>1, <2>2 DEF NextVerify
  <1>6. CASE ~KeySet(t) /\ ~NextLoad(t) /\ ~NextVerify(t)
    <2>1. dkeys' = dkeys /\ op' = op
      BY <1>6, WorkedStep DEF Thread, Worked, End, AcquirePartition, AcquireLock, AcquireNext, AcquireDone, Release,
         plan, call
    <2>2. op[t].kind = "checkdel" /\ pc'[t] \in {"lock", "work"} => pc[t] \in {"lock", "work"}
      <3>1. CASE End(t) \/ AcquireLock(t) \/ AcquirePartition(t) \/ AcquireNext(t)
        BY <3>1 DEF End, AcquireLock, AcquirePartition, AcquireNext, TypeOK
      <3>2. CASE AcquireDone(t)
        BY <3>2 DEF AcquireDone, Shapes, Shape, Batches
      <3>3. CASE Release(t)
        <4>1. pc[t] = "release" /\ (pc' = pc \/ \E where \in {"dead", "idle"} : pc' = [pc EXCEPT ![t] = where])
          BY <3>3 DEF Release
        <4> QED
          BY <4>1 DEF TypeOK
      <3>4. CASE Worked(t)
        BY <3>4, WorkedStep DEF Shapes, Shape, Sets, Deletes
      <3> QED
        BY <1>6, <3>1, <3>2, <3>3, <3>4 DEF Thread, Worked
    <2> QED
      BY <1>0, <1>2, <2>1, <2>2, StillDeletedStep
  <1> QED
    BY <1>3, <1>4, <1>5, <1>6

-----------------------------------------------------------------------------
(* Reading, and deleting what should be deleted. *)

\* client.get and client.getMulti
LEMMA GetData ==
    ASSUME TypeOK, Shapes, Locks, Agree, Written, NEW t \in Threads, GetDoc(t) \/ GetMulti(t)
    PROVE  Agree' /\ Written' /\ UNCHANGED tainted /\ blamed' \subseteq blamed \cup tainted
  <1>1. UNCHANGED <<valid, data, tainted>> /\ pc[t] = "work" /\ op[t].kind \in {"read", "update", "check", "bcheck"}
    BY DEF GetDoc, GetMulti, store, server
  <1>2. op[t].kind \notin {"bcreate", "bupdate"} /\ (op[t].kind \in Sets => op[t].kind = "update")
    BY <1>1 DEF Sets
  <1>3. CASE GetDoc(t)
    <2>1. todo[t] \in Seq(Keys) /\ op[t].kind \in Singles /\ Len(todo[t]) = 1
      BY <1>1, <1>3 DEF GetDoc, Shapes, Shape, TypeOK, Singles
    <2>2. pc'[t] = "release"
      BY <1>3, <2>1 DEF GetDoc, Proceed, TypeOK
    <2>3. Agree' /\ Written'
      BY <1>1, <1>2, <1>3, <2>2, ReadData DEF Worked
    <2>4. Key(t) \in Range(op[t].keys)
      BY <1>1, KeyType
    <2>5. Differs(t) => Key(t) \in tainted
      BY <1>1, <1>2, <2>4, HeldAgrees DEF Differs
    <2> QED
      BY <1>1, <1>3, <2>3, <2>5 DEF GetDoc
  <1>4. CASE GetMulti(t)
    <2>1. pc'[t] = "release"
      BY <1>4 DEF GetMulti, GiveUp, TypeOK
    <2>2. Agree' /\ Written'
      BY <1>1, <1>2, <1>4, <2>1, ReadData DEF Worked
    <2>3. \A k \in Range(op[t].keys) : data[k] # valid[k] => k \in tainted
      BY <1>1, <1>2, HeldAgrees
    <2> QED
      BY <1>1, <1>4, <2>2, <2>3 DEF GetMulti
  <1> QED
    BY <1>3, <1>4

\* _check_deleted_key: the document is gone already, or the server has failed for the key.
LEMMA CheckDeletedData ==
    ASSUME TypeOK, Shapes, Locks, Agree, Written, Deleteds, NEW t \in Threads, CheckDeleted(t)
    PROVE  Agree' /\ Written' /\ tainted \subseteq tainted' /\ blamed' \subseteq blamed \cup tainted
  <1>1. pc[t] = "work" /\ op[t].kind = "checkdel" /\ UNCHANGED valid
    BY DEF CheckDeleted, store
  <1>2. Key(t) \in Keys /\ Key(t) \in Range(op[t].keys)
    BY <1>1, KeyType
  <1>3. lock[PartOf[Key(t)]] = t
    BY <1>1, <1>2, LoadingAssumption DEF Locks, Locked
  <1>4. Key(t) \in tainted \/ data[Key(t)] = None
    <2>1. Key(t) \in deleted \cup tainted
      BY <1>1, <1>2 DEF Deleteds, StillDeleted
    <2>2. Key(t) \in deleted => valid[Key(t)] = None
      BY <1>2 DEF TypeOK
    <2>3. Key(t) \in tainted \/ valid[Key(t)] = data[Key(t)]
      BY <1>1, <1>2, HeldAgrees
    <2> QED
      BY <2>1, <2>2, <2>3
  <1>5. tainted \subseteq tainted' /\ blamed' \subseteq blamed \cup tainted
    BY <1>4 DEF CheckDeleted, server, verdict, Error
  <1>6. \A k \in Keys : data'[k] # data[k] => k \in tainted' /\ lock[PartOf[k]] = t
    <2>1. \/ data' = data
          \/ data' = [data EXCEPT ![Key(t)] = None] /\ Key(t) \in tainted'
      BY <1>4, <1>5 DEF CheckDeleted, server, Error
    <2> QED
      BY <1>2, <1>3, <2>1 DEF TypeOK
  <1>7. pc'[t] \in {"work", "release"}
    BY DEF CheckDeleted, Proceed, TypeOK
  <1>8. op[t].kind \notin {"bcreate", "bupdate"} /\ op[t].kind \notin Sets
    BY <1>1 DEF Sets
  <1>9. Agree' /\ Written'
    BY <1>1, <1>5, <1>6, <1>7, <1>8, ReadData DEF Worked
  <1> QED
    BY <1>5, <1>9

\* A document is missing that should be deleted only if the server has failed for it.
LEMMA DeleteDocBlames ==
    ASSUME TypeOK, Shapes, Locks, Agree, NEW t \in Threads, DeleteDoc(t)
    PROVE  tainted \subseteq tainted' /\ blamed' \subseteq blamed \cup tainted
  <1>1. pc[t] = "work" /\ op[t].kind \notin {"bcreate", "bupdate"}
    BY DEF DeleteDoc
  <1>2. Key(t) \in Range(op[t].keys)
    BY <1>1, KeyType DEF DeleteDoc
  <1>3. data[Key(t)] = None /\ valid[Key(t)] # None => Key(t) \in tainted
    BY <1>1, <1>2, HeldAgrees
  <1> QED
    BY <1>3 DEF DeleteDoc, server, verdict, Error

\* The server loses a document or brings one back.
LEMMA LoseData ==
    ASSUME TypeOK, Shapes, Locks, Agree, Written, Onces, Deleteds, NEW k \in Keys, Lose(k)
    PROVE  Locks' /\ Agree' /\ Written' /\ Onces' /\ Deleteds' /\ tainted \subseteq tainted' /\ UNCHANGED blamed
  <1>1. /\ tainted' = tainted \cup {k} /\ UNCHANGED <<store, pc, plan, call, verdict>>
        /\ \A x \in Keys \ {k} : data'[x] = data[x]
    BY DEF Lose, TypeOK
  <1>2. Locks'
    BY <1>1 DEF Locks, Locked, store, call
  <1>3. Agree'
    <2> SUFFICES ASSUME NEW x \in Keys, x \notin tainted' PROVE Settled(x)'
      BY DEF Agree, Settled
    <2>1. Settled(x) /\ x \notin tainted /\ data'[x] = data[x]
      BY <1>1 DEF Agree
    <2>2. \A t \in Threads : Mid(t, x) => Mid(t, x)'
      BY <1>1 DEF Mid, Key, call
    <2> QED
      BY <1>1, <2>1, <2>2 DEF Settled, store
  <1>4. Written'
    <2> SUFFICES ASSUME NEW t \in Threads, NEW x \in Range(op'[t].keys), x \notin tainted' PROVE Wrote(t, x)'
      BY DEF Written, Wrote
    <2>1. x \in Range(op[t].keys) /\ x \in Keys /\ x # k /\ x \notin tainted
      BY <1>1, OpKeys DEF call
    <2>2. Wrote(t, x) /\ data'[x] = data[x]
      BY <1>1, <2>1 DEF Written
    <2> QED
      BY <1>1, <2>1, <2>2 DEF Wrote, Key, call, store
  <1>5. Onces'
    <2> SUFFICES ASSUME NEW x \in Keys PROVE Once(x)'
      BY DEF Onces
    <2>1. \A t \in Threads : \A i \in Nat : Creating(t, i, x)' <=> Creating(t, i, x)
      BY <1>1 DEF Creating, plan, call
    <2>2. Known(x)' <=> Known(x)
      BY <1>1 DEF Known, store
    <2> QED
      BY <1>1, <2>1, <2>2 DEF Onces, Once
  <1>6. Deleteds'
    BY <1>1 DEF Deleteds, StillDeleted, store, plan, call
  <1> QED
    BY <1>1, <1>2, <1>3, <1>4, <1>5, <1>6 DEF verdict

-----------------------------------------------------------------------------
(* The theorems. *)

\* The threads hold the locks they work under, server and store differ only under such a lock,
\* a thread notes what it wrote, and a deleted key stays deleted; blame is taken along because
\* each step shows it from the others.
Inv == TypeOK /\ Shapes /\ Locks /\ Agree /\ Written /\ Onces /\ Deleteds /\ NoFalseAlarm

\* The start.
LEMMA InvInit == ASSUME CreatedOnce, Init PROVE Inv
  BY InitShape, InitLocks, InitData, InitOnce DEF Inv, NoFalseAlarm, Init

\* Every step.
LEMMA InvStep == ASSUME NoSecondRelease, Inv, [Next]_vars PROVE Inv'
  <1>0. TypeOK /\ Shapes /\ Locks /\ Agree /\ Written /\ Onces /\ Deleteds /\ blamed \subseteq tainted
    BY DEF Inv, NoFalseAlarm
  <1>1. TypeOK' /\ Shapes'
    BY <1>0, StepShape
  <1>2. ASSUME NEW t \in Threads, Thread(t) PROVE Inv'
    <2>1. Locks' /\ Onces' /\ Deleteds'
      BY <1>0, <1>2, ThreadLocks, OnceStep, DeletedsStep
    <2>2. Agree' /\ Written' /\ tainted \subseteq tainted' /\ blamed' \subseteq blamed \cup tainted
      <3>1. CASE Waited(t)
        BY <1>0, <2>1, <3>1, WaitedData, WaitedStep
      <3>2. CASE SetDoc(t)
        BY <1>0, <3>2, SetDocData DEF SetDoc, Error, verdict
      <3>3. CASE NoteSet(t)
        BY <1>0, <3>3, NoteSetData DEF NoteSet, server, verdict
      <3>4. CASE DeleteDoc(t)
        BY <1>0, <3>4, DeleteDocData, DeleteDocBlames
      <3>5. CASE NoteDelete(t)
        BY <1>0, <3>5, NoteDeleteData DEF NoteDelete, server, verdict
      <3>6. CASE GetDoc(t) \/ GetMulti(t)
        BY <1>0, <3>6, GetData
      <3>7. CASE CheckDeleted(t)
        BY <1>0, <3>7, CheckDeletedData
      <3> QED
        BY <1>2, <3>1, <3>2, <3>3, <3>4, <3>5, <3>6, <3>7 DEF Thread, Waited
    <2> QED
      BY <1>0, <1>1, <2>1, <2>2 DEF Inv, NoFalseAlarm
  <1>3. ASSUME NEW k \in Keys, Lose(k) PROVE Inv'
    BY <1>0, <1>1, <1>3, LoseData DEF Inv, NoFalseAlarm
  <1>4. ASSUME UNCHANGED vars PROVE Inv'
    <2>1. UNCHANGED <<lock, valid, deleted, data, tainted, pc, script, dkeys, op, todo, held, twice, blamed>>
      BY <1>4 DEF vars, store, server, plan, call, verdict
    <2>2. Locks'
      BY <1>0, <2>1 DEF Locks, Locked
    <2>3. Agree'
      BY <1>0, <2>1 DEF Agree, Settled, Mid, Key
    <2>4. Written'
      BY <1>0, <2>1 DEF Written, Wrote, Key
    <2>5. Onces' /\ Deleteds'
      BY <1>0, <2>1 DEF Onces, Once, Known, Creating, Deleteds, StillDeleted
    <2> QED
      BY <1>0, <1>1, <2>1, <2>2, <2>3, <2>4, <2>5 DEF Inv, NoFalseAlarm
  <1> QED
    BY <1>2, <1>3, <1>4 DEF Next

\* A store nobody is working on says what the server holds, for any loaders and verifiers, as long
\* as no verifier releases a lock twice and no key is created again.
THEOREM StoreStaysTrue == ASSUME NoSecondRelease, CreatedOnce PROVE Spec => []StoreAgrees
  <1>1. Inv => StoreAgrees
    BY LoadingAssumption DEF Inv, StoreAgrees, Agree, Settled
  <1> QED
    BY <1>1, InvInit, InvStep, PTL DEF Spec

\* A loader or a verifier says that server and store differ only about keys for which the server
\* has failed, however old its list of keys.
THEOREM NoneMisblamed == ASSUME NoSecondRelease, CreatedOnce PROVE Spec => []NoFalseAlarm
  <1>1. Inv => NoFalseAlarm
    BY DEF Inv
  <1> QED
    BY <1>1, InvInit, InvStep, PTL DEF Spec
=============================================================================
