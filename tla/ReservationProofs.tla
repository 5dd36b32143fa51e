-------------------------- MODULE ReservationProofs -------------------------
(***************************************************************************)
(* Proof that the reservations of DynVm come back: reserved_count_by_label *)
(* is shared by all requests without a lock and changed at seven places,   *)
(* by different amounts and for different labels, but never exceeds what   *)
(* the requests still owe and what updates have missed.                    *)
(***************************************************************************)
EXTENDS DynVmProofs

-----------------------------------------------------------------------------
(* The invariant. *)

\* The requests that a label is reserved for.
For(l) == {s \in Requests : l \in Keys(LabelsFor[s])}

\* What a request with the local variables x still has to give back at w: a reservation for each name
\* it needs and has not made on this host, and one for each VM that was reported with an error.
\* Making such a VM gives back nothing, and it counts as made, so that it is owed for good once it
\* is vetted.  What sys.exit leaves is owed for good, too.
Owing == (Busy \ {"rollback"}) \cup {"exited"}
Debt(x, w) ==
    Cardinality(x.late) + IF w \in Owing THEN Cardinality(x.need) - Cardinality(x.made) ELSE 0
Owes(r) == Debt(q[r], pc[r])

Total(f) == FoldFunction(+, 0, f)

\* A label is reserved at most as often as its requests owe, and as updates have missed it.
Balanced == \A l \in DOMAIN reserved : reserved[l] <= stray[l] + Total([r \in For(l) |-> Owes(r)])

\* The local variables x of a request that is at w.  It visits a host once, and makes a name there
\* once, so that no VM is reported twice.
Tidy(r, x, w) ==
    /\ IsFiniteSet(x.late)
    /\ w \in {"new", "look"} =>
          x.late = {} /\ x.got = {} /\ \A i \in DOMAIN x.avail : i \in DOMAIN Hosts /\ x.avail[i].host = Hosts[i]
    /\ w = "settle" => x.made = {}
    /\ \A i, j \in DOMAIN x.avail : x.avail[i].host = x.avail[j].host => i = j
    /\ \A v \in x.late, i \in DOMAIN x.avail :
          w \notin Answers /\ i >= x.idx /\ v[1] = x.avail[i].host => w \in AtWork /\ i = x.idx /\ v[2] \notin x.batch

Accounts == Sound /\ Balanced /\ \A r \in Requests : Tidy(r, q[r], pc[r])

-----------------------------------------------------------------------------
(* Sums.  A fold takes the elements in an unspecified but fixed order, so that two sums over   *)
(* the same set are compared one element at a time; each induction over a finite set is an     *)
(* argument about the least size of a counterexample.                                          *)

Pick(s) == CHOOSE x \in s : TRUE
Adds(f, g, s) == IF s = {} THEN 0 ELSE f[Pick(s)] + g[s \ {Pick(s)}]
Partial(f, S, g) == g = [s \in SUBSET S |-> Adds(f, g, s)]

\* The definition of the fold.
LEMMA TotalDef == ASSUME NEW f PROVE Total(f) = (CHOOSE g : Partial(f, DOMAIN f, g))[DOMAIN f]
  BY DEF Total, FoldFunction, FoldFunctionOnSet, MapThenFoldSet, Partial, Adds, Pick

\* One element less.
LEMMA PickFacts ==
    ASSUME NEW S, IsFiniteSet(S), NEW s \in SUBSET S, s # {}
    PROVE  /\ Pick(s) \in s /\ s \ {Pick(s)} \in SUBSET S /\ IsFiniteSet(s)
           /\ Cardinality(s) \in Nat /\ Cardinality(s) > 0 /\ Cardinality(s \ {Pick(s)}) = Cardinality(s) - 1
  <1>1. Pick(s) \in s
    BY DEF Pick
  <1>2. IsFiniteSet(s)
    BY FS_Subset
  <1>3. Cardinality(s) \in Nat
    BY <1>2, FS_CardinalityType
  <1>4. Cardinality(s \ {Pick(s)}) = Cardinality(s) - 1
    BY <1>1, <1>2, FS_RemoveElement
  <1>5. Cardinality(s) # 0
    BY <1>2, FS_EmptySet
  <1> QED
    BY <1>1, <1>2, <1>3, <1>4, <1>5

\* The sizes of the subsets of a finite set.
LEMMA Sizes == ASSUME NEW S, IsFiniteSet(S) PROVE \A s \in SUBSET S : IsFiniteSet(s) /\ Cardinality(s) \in Nat
  BY FS_Subset, FS_CardinalityType

\* The function that the fold chooses exists.
LEMMA PartialExists ==
    ASSUME NEW S, IsFiniteSet(S), NEW f \in [S -> Int]
    PROVE  \E g \in [SUBSET S -> Int] : Partial(f, S, g)
  <1> DEFINE Upto(n) == {s \in SUBSET S : Cardinality(s) <= n}
             Stage(n) == \E g \in [Upto(n) -> Int] : \A s \in Upto(n) : g[s] = Adds(f, g, s)
             T == {n \in Nat : ~Stage(n)}
  <1>1. ASSUME NEW n \in Nat, n # 0 => Stage(n - 1) PROVE Stage(n)
    <2>1. CASE n = 0
      <3>1. ASSUME NEW s \in Upto(n), s # {} PROVE FALSE
        <4>1. Cardinality(s) \in Nat /\ Cardinality(s) > 0
          BY <3>1, PickFacts
        <4>2. Cardinality(s) <= 0
          BY <2>1, <3>1
        <4> QED
          BY <4>1, <4>2
      <3> DEFINE g == [s \in Upto(n) |-> 0]
      <3>2. g \in [Upto(n) -> Int] /\ \A s \in Upto(n) : g[s] = Adds(f, g, s)
        BY <3>1 DEF Adds
      <3> QED
        BY <3>2
    <2>2. CASE n # 0
      <3>1. PICK g \in [Upto(n - 1) -> Int] : \A s \in Upto(n - 1) : g[s] = Adds(f, g, s)
        BY <1>1, <2>2
      <3>2. ASSUME NEW s \in Upto(n), s # {} PROVE Pick(s) \in S /\ s \ {Pick(s)} \in Upto(n - 1)
        BY <3>2, PickFacts
      <3>3. Upto(n - 1) \subseteq Upto(n)
        BY Sizes
      <3> DEFINE h == [s \in Upto(n) |-> Adds(f, g, s)]
      <3>4. \A s \in Upto(n) : Adds(f, g, s) \in Int
        BY <3>2 DEF Adds
      <3>5. h \in [Upto(n) -> Int]
        BY <3>4
      <3>6. \A s \in Upto(n - 1) : h[s] = g[s]
        BY <3>1, <3>3
      <3>7. \A s \in Upto(n) : h[s] = Adds(f, h, s)
        <4> TAKE s \in Upto(n)
        <4>1. s # {} => h[s \ {Pick(s)}] = g[s \ {Pick(s)}]
          BY <3>2, <3>6
        <4>2. Adds(f, h, s) = Adds(f, g, s)
          <5> HIDE DEF h
          <5> QED
            BY <4>1 DEF Adds
        <4> QED
          BY <4>2
      <3> QED
        BY <3>5, <3>7
    <2> QED
      BY <2>1, <2>2
  <1> HIDE DEF Stage
  <1>2. T = {}
    <2> SUFFICES ASSUME T # {} PROVE FALSE
      OBVIOUS
    <2>1. PICK n \in T : \A m \in T : n <= m
      BY Least
    <2>2. n # 0 => n - 1 \in Nat /\ n - 1 \notin T
      BY <2>1
    <2> QED
      BY <1>1, <2>1, <2>2
  <1>3. Stage(Cardinality(S))
    BY <1>2, FS_CardinalityType
  <1>4. Upto(Cardinality(S)) = SUBSET S
    BY FS_Subset, FS_CardinalityType
  <1>5. PICK g \in [SUBSET S -> Int] : \A s \in SUBSET S : g[s] = Adds(f, g, s)
    BY <1>3, <1>4 DEF Stage
  <1>6. g = [s \in SUBSET S |-> Adds(f, g, s)]
    BY <1>5
  <1> QED
    BY <1>6 DEF Partial

\* So that the fold is its value for the whole set.
LEMMA TotalPartial ==
    ASSUME NEW S, IsFiniteSet(S), NEW f \in [S -> Int]
    PROVE  \E g : Partial(f, S, g) /\ Total(f) = g[S]
  <1>1. \E g : Partial(f, S, g)
    BY PartialExists
  <1> DEFINE c == CHOOSE g : Partial(f, S, g)
  <1>2. Partial(f, S, c)
    BY <1>1
  <1>3. DOMAIN f = S
    OBVIOUS
  <1>4. Total(f) = c[S]
    BY <1>3, TotalDef
  <1> QED
    BY <1>2, <1>4

\* Two sums differ at each subset by what one member differs by.
LEMMA Shift ==
    ASSUME NEW S, IsFiniteSet(S), NEW f \in [S -> Int], NEW h \in [S -> Int], NEW r \in S,
           \A x \in S \ {r} : h[x] = f[x]
    PROVE  Total(f) \in Int /\ Total(h) = Total(f) + (h[r] - f[r])
  <1>1. PICK a : Partial(f, S, a) /\ Total(f) = a[S]
    BY TotalPartial
  <1>2. PICK b : Partial(h, S, b) /\ Total(h) = b[S]
    BY TotalPartial
  <1> DEFINE Holds(s) == a[s] \in Int /\ b[s] = a[s] + (IF r \in s THEN h[r] - f[r] ELSE 0)
             T == {Cardinality(s) : s \in {u \in SUBSET S : ~Holds(u)}}
  <1>3. ASSUME NEW s \in SUBSET S, s # {} => Holds(s \ {Pick(s)}) PROVE Holds(s)
    <2>1. a[s] = Adds(f, a, s) /\ b[s] = Adds(h, b, s)
      BY <1>1, <1>2 DEF Partial
    <2>2. CASE s = {}
      BY <2>1, <2>2 DEF Adds
    <2>3. CASE s # {}
      <3> DEFINE x == Pick(s)
      <3>1. x \in s /\ x \in S
        BY <2>3, PickFacts
      <3>2. a[s] = f[x] + a[s \ {x}] /\ b[s] = h[x] + b[s \ {x}]
        BY <2>1, <2>3 DEF Adds
      <3>3. a[s \ {x}] \in Int /\ b[s \ {x}] = a[s \ {x}] + (IF r \in s \ {x} THEN h[r] - f[r] ELSE 0)
        BY <1>3, <2>3
      <3> HIDE DEF x
      <3>4. f[x] \in Int /\ h[x] \in Int /\ f[r] \in Int /\ h[r] \in Int
        BY <3>1
      <3>5. CASE x = r
        BY <3>1, <3>2, <3>3, <3>4, <3>5
      <3>6. CASE x # r
        <4>1. h[x] = f[x] /\ (r \in s \ {x} <=> r \in s)
          BY <3>1, <3>6
        <4> QED
          BY <3>2, <3>3, <3>4, <4>1
      <3> QED
        BY <3>5, <3>6
    <2> QED
      BY <2>2, <2>3
  <1> HIDE DEF Holds
  <1>4. T = {}
    <2> SUFFICES ASSUME T # {} PROVE FALSE
      OBVIOUS
    <2>1. T \subseteq Nat
      BY Sizes
    <2>2. PICK n \in T : \A m \in T : n <= m
      BY <2>1, Least
    <2>3. PICK s \in SUBSET S : ~Holds(s) /\ n = Cardinality(s)
      BY <2>2
    <2>4. s # {} /\ ~Holds(s \ {Pick(s)})
      BY <1>3, <2>3
    <2>5. s \ {Pick(s)} \in SUBSET S /\ Cardinality(s) \in Nat /\ Cardinality(s \ {Pick(s)}) = Cardinality(s) - 1
      BY <2>4, PickFacts
    <2>6. Cardinality(s) - 1 \in T
      BY <2>4, <2>5
    <2> QED
      BY <2>2, <2>3, <2>5, <2>6
  <1>5. Holds(S)
    BY <1>4
  <1> QED
    BY <1>1, <1>2, <1>5 DEF Holds

\* A sum of natural numbers is one.
LEMMA TotalNat == ASSUME NEW S, IsFiniteSet(S), NEW f \in [S -> Nat] PROVE Total(f) \in Nat
  <1>1. PICK a : Partial(f, S, a) /\ Total(f) = a[S]
    <2>1. f \in [S -> Int]
      OBVIOUS
    <2> QED
      BY <2>1, TotalPartial
  <1> DEFINE T == {Cardinality(s) : s \in {u \in SUBSET S : a[u] \notin Nat}}
  <1>2. ASSUME NEW s \in SUBSET S, s # {} => a[s \ {Pick(s)}] \in Nat PROVE a[s] \in Nat
    <2>1. a[s] = Adds(f, a, s)
      BY <1>1 DEF Partial
    <2>2. CASE s = {}
      BY <2>1, <2>2 DEF Adds
    <2>3. CASE s # {}
      <3>1. Pick(s) \in S
        BY <2>3, PickFacts
      <3>2. f[Pick(s)] \in Nat /\ a[s] = f[Pick(s)] + a[s \ {Pick(s)}]
        BY <2>1, <2>3, <3>1 DEF Adds
      <3> QED
        BY <1>2, <2>3, <3>2
    <2> QED
      BY <2>2, <2>3
  <1>3. T = {}
    <2> SUFFICES ASSUME T # {} PROVE FALSE
      OBVIOUS
    <2>1. T \subseteq Nat
      BY Sizes
    <2>2. PICK n \in T : \A m \in T : n <= m
      BY <2>1, Least
    <2>3. PICK s \in SUBSET S : a[s] \notin Nat /\ n = Cardinality(s)
      BY <2>2
    <2>4. s # {} /\ a[s \ {Pick(s)}] \notin Nat
      BY <1>2, <2>3
    <2>5. s \ {Pick(s)} \in SUBSET S /\ Cardinality(s) \in Nat /\ Cardinality(s \ {Pick(s)}) = Cardinality(s) - 1
      BY <2>4, PickFacts
    <2>6. Cardinality(s) - 1 \in T
      BY <2>4, <2>5
    <2> QED
      BY <2>2, <2>3, <2>5, <2>6
  <1> QED
    BY <1>1, <1>3

-----------------------------------------------------------------------------
(* What is owed. *)

\* The sizes of what a request needs, makes and has.
LEMMA LocalSizes ==
    ASSUME NEW r \in Requests, NEW x, NEW w, Fits(r, x, w)
    PROVE  /\ IsFiniteSet(x.need) /\ IsFiniteSet(x.made) /\ IsFiniteSet(x.got) /\ IsFiniteSet(x.batch)
           /\ {Cardinality(x.need), Cardinality(x.made), Cardinality(x.got)} \subseteq Nat
           /\ Cardinality(x.made) <= Cardinality(x.need)
           /\ Cardinality(x.need) + Cardinality(x.got) = CountOf[r]
  <1>1. /\ x.need \subseteq AllNames(r) /\ x.got \subseteq AllNames(r) /\ x.made \subseteq x.need /\ x.batch \subseteq x.need
        /\ x.need \cup x.got = AllNames(r) /\ x.need \cap x.got = {}
    BY DEF Fits
  <1>2. IsFiniteSet(AllNames(r))
    BY NameFacts
  <1>3. IsFiniteSet(x.need) /\ IsFiniteSet(x.got)
    BY <1>1, <1>2, FS_Subset
  <1>4. IsFiniteSet(x.made) /\ IsFiniteSet(x.batch) /\ Cardinality(x.made) <= Cardinality(x.need)
    BY <1>1, <1>3, FS_Subset
  <1>5. {Cardinality(x.need), Cardinality(x.made), Cardinality(x.got)} \subseteq Nat
    BY <1>3, <1>4, FS_CardinalityType
  <1>6. Cardinality(x.need \cup x.got) = Cardinality(x.need) + Cardinality(x.got) - Cardinality({})
    BY <1>1, <1>3, FS_Union
  <1>7. Cardinality({}) = 0
    BY FS_EmptySet
  <1>8. Cardinality(x.need) + Cardinality(x.got) = CountOf[r]
    <2>1. Cardinality(AllNames(r)) = Cardinality(x.need) + Cardinality(x.got) - 0
      BY <1>1, <1>6, <1>7
    <2>2. Cardinality(x.need) \in Nat /\ Cardinality(x.got) \in Nat
      BY <1>5
    <2>3. Cardinality(AllNames(r)) = CountOf[r]
      BY NameCount
    <2> QED
      BY <2>1, <2>2, <2>3
  <1> QED
    BY <1>3, <1>4, <1>5, <1>8

\* What a request owes is a natural number.
LEMMA DebtNat ==
    ASSUME NEW r \in Requests, NEW x, NEW w, Fits(r, x, w), IsFiniteSet(x.late)
    PROVE  Debt(x, w) \in Nat /\ Cardinality(x.late) \in Nat
  <1>1. Cardinality(x.late) \in Nat
    BY FS_CardinalityType
  <1>2. /\ Cardinality(x.need) \in Nat /\ Cardinality(x.made) \in Nat
        /\ Cardinality(x.made) <= Cardinality(x.need)
    BY LocalSizes
  <1> QED
    BY <1>1, <1>2 DEF Debt

Counted(r) == IsFiniteSet(q[r].late) /\ Fits(r, q[r], pc[r])

\* The requests of a label are finitely many.
LEMMA ForFinite == ASSUME IsFiniteSet(Requests), NEW l PROVE For(l) \subseteq Requests /\ IsFiniteSet(For(l))
  <1>1. For(l) \subseteq Requests
    BY DEF For
  <1> QED
    BY <1>1, FS_Subset

\* The counters are well typed.
CountersOk == reserved \in [Labels \cup {NoLabel} -> Nat] /\ stray \in [Labels \cup {NoLabel} -> Nat]

\* What a step of r does to the reservation of a label, as against to what is stray and to what it owes.
PaysFor(r, l) ==
    \/ reserved'[l] <= stray'[l]
    \/ l \in Keys(LabelsFor[r]) /\ reserved'[l] <= reserved[l] + (stray'[l] - stray[l]) + (Owes(r)' - Owes(r))
    \/ l \notin Keys(LabelsFor[r]) /\ reserved'[l] <= reserved[l] + (stray'[l] - stray[l])
Pays(r) == \A l \in Labels \cup {NoLabel} : PaysFor(r, l)

\* The sums follow one request.
LEMMA PaysBalanced ==
    ASSUME IsFiniteSet(Requests), Balanced, NEW r \in Requests, Pays(r), CountersOk, CountersOk',
           \A s \in Requests : Counted(s) /\ Counted(s)',
           \A s \in Requests \ {r} : q'[s] = q[s] /\ pc'[s] = pc[s]
    PROVE  Balanced'
  <1> SUFFICES ASSUME NEW l \in Labels \cup {NoLabel}
               PROVE  reserved'[l] <= stray'[l] + Total([s \in For(l) |-> Owes(s)'])
    <2>1. DOMAIN reserved' = Labels \cup {NoLabel}
      BY DEF CountersOk
    <2> QED
      BY <2>1 DEF Balanced
  <1> DEFINE f == [s \in For(l) |-> Owes(s)]
             h == [s \in For(l) |-> Owes(s)']
  <1>1. For(l) \subseteq Requests /\ IsFiniteSet(For(l))
    BY ForFinite
  <1>2. \A s \in Requests : Owes(s) \in Nat /\ Owes(s)' \in Nat
    <2> TAKE s \in Requests
    <2>1. Owes(s) \in Nat
      BY DebtNat DEF Counted, Owes
    <2>2. IsFiniteSet(q'[s].late) /\ Fits(s, q'[s], pc'[s])
      BY DEF Counted, Fits, AllNames
    <2>3. Debt(q'[s], pc'[s]) \in Nat
      BY <2>2, DebtNat
    <2>4. Owes(s)' \in Nat
      BY <2>3 DEF Owes
    <2> QED
      BY <2>1, <2>4
  <1>3. f \in [For(l) -> Nat] /\ h \in [For(l) -> Nat]
    BY <1>1, <1>2
  <1>4. \A s \in For(l) \ {r} : h[s] = f[s]
    BY <1>1 DEF Owes
  <1>5. /\ reserved[l] <= stray[l] + Total(f)
        /\ {reserved[l], stray[l], reserved'[l], stray'[l]} \subseteq Nat
    BY DEF Balanced, CountersOk
  <1>6. Total(f) \in Nat /\ Total(h) \in Nat
    BY <1>1, <1>3, TotalNat
  <1>7. CASE r \in For(l)
    <2>1. f \in [For(l) -> Int] /\ h \in [For(l) -> Int]
      BY <1>3
    <2>2. f[r] = Owes(r) /\ h[r] = Owes(r)' /\ l \in Keys(LabelsFor[r])
      BY <1>7 DEF For
    <2> HIDE DEF f, h
    <2>3. Total(h) = Total(f) + (h[r] - f[r])
      BY <1>1, <1>4, <1>7, <2>1, Shift
    <2>4. Total(h) = Total(f) + (Owes(r)' - Owes(r))
      BY <2>2, <2>3
    <2>5. reserved'[l] <= stray'[l] \/ reserved'[l] <= reserved[l] + (stray'[l] - stray[l]) + (Owes(r)' - Owes(r))
      BY <2>2 DEF Pays, PaysFor
    <2>6. Owes(r) \in Nat /\ Owes(r)' \in Nat
      BY <1>2
    <2>7. reserved'[l] <= stray'[l] + Total(h)
      BY <1>5, <1>6, <2>4, <2>5, <2>6
    <2> QED
      BY <2>7 DEF h
  <1>8. CASE r \notin For(l)
    <2>1. h = f
      BY <1>3, <1>4, <1>8
    <2>2. l \notin Keys(LabelsFor[r])
      BY <1>8 DEF For
    <2>3. reserved'[l] <= stray'[l] \/ reserved'[l] <= reserved[l] + (stray'[l] - stray[l])
      BY <2>2 DEF Pays, PaysFor
    <2> HIDE DEF f, h
    <2>5. reserved'[l] <= stray'[l] + Total(h)
      BY <1>5, <1>6, <2>1, <2>3
    <2> QED
      BY <2>5 DEF h
  <1> QED
    BY <1>7, <1>8

\* Nothing is given back, and no less is owed.
LEMMA PaysNothing ==
    ASSUME NEW r \in Requests, CountersOk, UNCHANGED counters,
           Owes(r) \in Nat, Owes(r)' \in Nat, Owes(r)' >= Owes(r)
    PROVE  Pays(r)
  <1>1. reserved' = reserved /\ stray' = stray
    BY DEF counters
  <1>2. \A l \in Labels \cup {NoLabel} : reserved[l] \in Nat /\ stray[l] \in Nat
    BY DEF CountersOk
  <1> QED
    BY <1>1, <1>2 DEF Pays, PaysFor

\* decrease_reserved gives back no more than what is owed less, or the rest is stray.
LEMMA PaysBack ==
    ASSUME NEW r \in Requests, NEW c \in Nat, NEW labels, CountersOk, DecreaseReserved(r, c, labels),
           Owes(r) \in Nat, Owes(r)' \in Nat, Owes(r)' >= Owes(r) - c
    PROVE  Pays(r)
  <1> DEFINE new == Decrease(reserved, c, labels)
             D == Labels \cup {NoLabel}
  <1>1. new \in [D -> Nat] /\ reserved \in [D -> Nat] /\ stray \in [D -> Nat] /\ Store(r, new, c, labels)
    BY ReservedType DEF CountersOk, DecreaseReserved
  <1>2. \A l \in D : new[l] = IF l \in Keys(labels) THEN IF reserved[l] < c THEN 0 ELSE reserved[l] - c ELSE reserved[l]
    BY <1>1 DEF Decrease
  <1> HIDE DEF new, D
  <1>3. /\ reserved' \in [D -> Nat] /\ stray' \in [D -> Nat]
        /\ \A l \in D :
              /\ reserved'[l] <= new[l] + (stray'[l] - stray[l]) /\ stray'[l] >= stray[l]
              /\ l \in Keys(LabelsFor[r]) \ Keys(labels) /\ new[l] = reserved[l] =>
                    reserved'[l] + c <= new[l] + (stray'[l] - stray[l])
    BY <1>1, StoreFacts
  <1>4. ASSUME NEW l \in D PROVE PaysFor(r, l)
    <2>1. {reserved[l], stray[l], reserved'[l], stray'[l], new[l]} \subseteq Nat
      BY <1>1, <1>3
    <2>2. reserved'[l] <= new[l] + (stray'[l] - stray[l])
      BY <1>3
    <2>3. CASE l \in Keys(labels)
      <3>1. new[l] = IF reserved[l] < c THEN 0 ELSE reserved[l] - c
        BY <1>2, <2>3
      <3>2. reserved'[l] <= stray'[l] \/ reserved'[l] <= reserved[l] + (stray'[l] - stray[l]) - c
        BY <2>1, <2>2, <3>1
      <3> QED
        BY <2>1, <3>2 DEF PaysFor
    <2>4. CASE l \notin Keys(labels)
      <3>1. new[l] = reserved[l]
        BY <1>2, <2>4
      <3>2. l \in Keys(LabelsFor[r]) => reserved'[l] + c <= reserved[l] + (stray'[l] - stray[l])
        BY <1>3, <2>4, <3>1
      <3>3. reserved'[l] <= reserved[l] + (stray'[l] - stray[l])
        BY <2>2, <3>1
      <3> QED
        BY <2>1, <3>2, <3>3 DEF PaysFor
    <2> QED
      BY <2>3, <2>4
  <1> QED
    BY <1>4 DEF Pays, D

\* increase_reserved adds what is owed more.
LEMMA PaysIn ==
    ASSUME NEW r \in Requests, NEW c \in Nat, CountersOk, IncreaseReserved(r, c),
           Owes(r) \in Nat, Owes(r)' \in Nat, Owes(r)' >= Owes(r) + c
    PROVE  Pays(r)
  <1> DEFINE new == Increase(reserved, c, LabelsFor[r])
             D == Labels \cup {NoLabel}
  <1>1. new \in [D -> Nat] /\ reserved \in [D -> Nat] /\ stray \in [D -> Nat] /\ Store(r, new, c, LabelsFor[r])
    BY ReservedType DEF CountersOk, IncreaseReserved
  <1>2. \A l \in D : new[l] = IF l \in Keys(LabelsFor[r]) THEN reserved[l] + c ELSE reserved[l]
    BY <1>1 DEF Increase
  <1> HIDE DEF new, D
  <1>3. /\ reserved' \in [D -> Nat] /\ stray' \in [D -> Nat]
        /\ \A l \in D : reserved'[l] <= new[l] + (stray'[l] - stray[l])
    BY <1>1, StoreFacts
  <1>4. ASSUME NEW l \in D PROVE PaysFor(r, l)
    <2>1. {reserved[l], stray[l], reserved'[l], stray'[l], new[l]} \subseteq Nat
      BY <1>1, <1>3
    <2> QED
      BY <1>2, <1>3, <2>1 DEF PaysFor
  <1> QED
    BY <1>4 DEF Pays, D

-----------------------------------------------------------------------------
(* One request moves. *)

\* A step of a request keeps its local variables tidy and gives back no less than it should.
Steady(r) == Tidy(r, q'[r], pc'[r]) /\ Pays(r)

\* What a request owes before and after it goes on.
LEMMA GoesOwing ==
    ASSUME Locally, NEW r \in Requests, NEW new, Goes(r, new), IsFiniteSet(q[r].late), IsFiniteSet(q'[r].late)
    PROVE  /\ Fits(r, q[r], pc[r]) /\ Fits(r, q'[r], pc'[r])
           /\ Owes(r) \in Nat /\ Owes(r)' \in Nat
           /\ Owes(r) = Debt(q[r], pc[r]) /\ Owes(r)' = Debt(q'[r], pc'[r])
           /\ {Cardinality(q[r].late), Cardinality(q'[r].late)} \subseteq Nat
  <1>1. Fits(r, q[r], pc[r]) /\ Fits(r, q'[r], pc'[r])
    BY DEF Goes, Locally, Fits, AllNames
  <1>2. Owes(r) = Debt(q[r], pc[r]) /\ Owes(r)' = Debt(q'[r], pc'[r])
    BY DEF Owes, Debt
  <1> QED
    BY <1>1, <1>2, DebtNat

\* It goes on from one place where it owes to another, with the same names needed and made.
LEMMA PaysQuietly ==
    ASSUME Sound, NEW r \in Requests, NEW new, Goes(r, new), IsFiniteSet(q[r].late), UNCHANGED counters,
           q'[r].late = q[r].late, q'[r].need = q[r].need, q'[r].made = q[r].made,
           {pc[r], pc'[r]} \subseteq Owing
    PROVE  Pays(r)
  <1>1. /\ Owes(r) \in Nat /\ Owes(r)' \in Nat
        /\ Owes(r) = Debt(q[r], pc[r]) /\ Owes(r)' = Debt(q'[r], pc'[r])
    BY GoesOwing DEF Sound
  <1>2. Owes(r)' = Owes(r)
    BY <1>1 DEF Debt
  <1>3. CountersOk
    BY DEF Sound, Shared, CountersOk
  <1> QED
    BY <1>1, <1>2, <1>3, PaysNothing

\* The hosts it works through.
LEMMA AvailFacts ==
    ASSUME NEW x \in Locals
    PROVE  /\ DOMAIN x.avail \subseteq Nat /\ DOMAIN x.avail = 1..Len(x.avail) /\ Len(x.avail) \in Nat /\ x.idx \in Nat
           /\ \A i \in DOMAIN x.avail : x.avail[i].host \in HostSet /\ x.avail[i].n \in Nat
  <1>1. x.avail \in Seq([host : HostSet, n : Nat]) /\ x.idx \in Nat
    BY LocalFields
  <1>2. \A i \in DOMAIN x.avail : x.avail[i] \in [host : HostSet, n : Nat]
    <2>1. \A S : \A z \in Seq(S) : \A i \in DOMAIN z : z[i] \in S
      OBVIOUS
    <2> QED
      BY <1>1, <2>1, Zenon
  <1> QED
    BY <1>1, <1>2

\* It stays on the same list of hosts, here or further on, and no error is reported.
LEMMA TidyStays ==
    ASSUME NEW r \in Requests, NEW x \in Locals, NEW w, Tidy(r, x, w), NEW y \in Locals, NEW z,
           y.avail = x.avail, y.late = x.late, w \notin Answers,
           \/ z \in Answers
           \/ y.idx = x.idx + 1 /\ z \notin AtWork /\ z \notin {"new", "look"}
           \/ /\ y.idx = x.idx /\ (y.batch \subseteq x.batch \/ w \notin AtWork) /\ z \notin {"new", "look"}
              /\ w \in AtWork => z \in AtWork,
           z = "settle" => y.made = {}
    PROVE  Tidy(r, y, z)
  <1>1. DOMAIN x.avail \subseteq Nat /\ x.idx \in Nat
    BY AvailFacts
  <1>2. IsFiniteSet(y.late)
    BY DEF Tidy
  <1>3. \A i, j \in DOMAIN y.avail : y.avail[i].host = y.avail[j].host => i = j
    BY DEF Tidy
  <1>5. ASSUME NEW v \in y.late, NEW i \in DOMAIN y.avail, z \notin Answers, i >= y.idx, v[1] = y.avail[i].host
        PROVE  z \in AtWork /\ i = y.idx /\ v[2] \notin y.batch
    <2>1. i \in Nat /\ i >= x.idx /\ v \in x.late /\ i \in DOMAIN x.avail /\ v[1] = x.avail[i].host
      BY <1>1, <1>5
    <2>2. w \in AtWork /\ i = x.idx /\ v[2] \notin x.batch
      BY <2>1 DEF Tidy
    <2>3. y.idx # x.idx + 1
      BY <1>1, <1>5, <2>2
    <2> QED
      BY <1>5, <2>2, <2>3
  <1>6. z \notin {"new", "look"}
    BY DEF Answers
  <1> QED
    BY <1>2, <1>3, <1>5, <1>6 DEF Tidy

\* getservers_service begins.
LEMMA ReserveSteady == ASSUME Sound, NEW r \in Requests, Tidy(r, q[r], pc[r]), Reserve(r) PROVE Steady(r)
  <1>1. Goes(r, {}) /\ pc'[r] \in {"host", "look"} /\ pc[r] = "new"
    BY ReserveGoes DEF Sound, Reserve
  <1>2. q[r] \in Locals /\ q[r].late = {} /\ q[r].got = {} /\ IsFiniteSet(q[r].late)
    BY <1>1 DEF Tidy, Sound, Locally
  <1>3. /\ q'[r].late = q[r].late /\ q'[r].need = q[r].need /\ q'[r].made = q[r].made /\ q'[r].got = q[r].got
        /\ \/ Pinned(r) /\ q'[r].avail = <<[host |-> PinnedTo[r], n |-> CountOf[r]]>> /\ pc'[r] = "host"
           \/ q'[r] = q[r]
    <2>1. q \in [Requests -> Locals] /\ pc \in [Requests -> Where]
      BY DEF Sound, Locally
    <2>2. CASE Pinned(r)
      <3>1. q'[r] = [q[r] EXCEPT !.avail = <<[host |-> PinnedTo[r], n |-> CountOf[r]]>>] /\ pc'[r] = "host"
        BY <2>1, <2>2 DEF Reserve, Goto
      <3> QED
        BY <1>2, <2>2, <3>1 DEF Locals
    <2>3. CASE ~Pinned(r)
      BY <2>3 DEF Reserve
    <2> QED
      BY <2>2, <2>3
  <1>4. Tidy(r, q'[r], pc'[r])
    <2>1. \A i, j \in DOMAIN q'[r].avail : q'[r].avail[i].host = q'[r].avail[j].host => i = j
      BY <1>3 DEF Tidy
    <2> QED
      BY <1>1, <1>2, <1>3, <2>1 DEF Tidy, AtWork
  <1>5. Pays(r)
    <2>1. /\ Fits(r, q[r], pc[r]) /\ Fits(r, q'[r], pc'[r]) /\ Owes(r) \in Nat /\ Owes(r)' \in Nat
          /\ Owes(r) = Debt(q[r], pc[r]) /\ Owes(r)' = Debt(q'[r], pc'[r])
      BY <1>1, <1>2, <1>3, GoesOwing DEF Sound
    <2>2. Cardinality({}) = 0
      BY FS_EmptySet
    <2>3. q'[r].late = {} /\ q'[r].got = {} /\ q'[r].made = {}
      BY <1>1, <1>2, <1>3, <2>1 DEF Fits
    <2>4. Cardinality(q'[r].need) \in Nat /\ Cardinality(q'[r].need) + 0 = CountOf[r]
      BY <2>1, <2>2, <2>3, LocalSizes
    <2>5. Owes(r) = 0
      BY <1>1, <1>2, <2>1, <2>2 DEF Debt, Owing, Busy
    <2>6. Owes(r)' = CountOf[r]
      <3>1. pc'[r] \in Owing
        BY <1>1 DEF Owing, Busy
      <3>2. Owes(r)' = 0 + (Cardinality(q'[r].need) - 0)
        BY <2>1, <2>2, <2>3, <3>1 DEF Debt
      <3> QED
        BY <2>4, <3>2
    <2>7. CountOf[r] \in Nat /\ CountersOk /\ IncreaseReserved(r, CountOf[r])
      BY DynVmAssumption DEF Sound, Shared, CountersOk, Reserve
    <2> QED
      BY <2>1, <2>5, <2>6, <2>7, PaysIn
  <1> QED
    BY <1>4, <1>5 DEF Steady

\* It has looked at one more host.
LEMMA LookSteady == ASSUME Sound, NEW r \in Requests, Tidy(r, q[r], pc[r]), Look(r) PROVE Steady(r)
  <1>1. Goes(r, {}) /\ pc'[r] \in {"look", "admit"} /\ pc[r] = "look" /\ UNCHANGED counters
    BY LookGoes DEF Sound, Shared, Look
  <1>2. /\ q[r] \in Locals /\ q[r].late = {} /\ q[r].got = {} /\ IsFiniteSet(q[r].late)
        /\ \A i \in DOMAIN q[r].avail : i \in DOMAIN Hosts /\ q[r].avail[i].host = Hosts[i]
    BY <1>1 DEF Tidy, Sound, Locally
  <1>3. /\ q'[r].late = q[r].late /\ q'[r].got = q[r].got /\ q'[r].need = q[r].need /\ q'[r].made = q[r].made
        /\ \A i \in DOMAIN q'[r].avail : i \in DOMAIN Hosts /\ q'[r].avail[i].host = Hosts[i]
    <2> DEFINE k == Len(q[r].avail) + 1
    <2>1. CASE q' = q
      BY <1>2, <2>1
    <2>2. ASSUME NEW n, k <= Len(Hosts), q' = [q EXCEPT ![r].avail = Append(@, [host |-> Hosts[k], n |-> n])]
          PROVE  /\ q'[r].late = q[r].late /\ q'[r].got = q[r].got /\ q'[r].need = q[r].need /\ q'[r].made = q[r].made
                 /\ \A i \in DOMAIN q'[r].avail : i \in DOMAIN Hosts /\ q'[r].avail[i].host = Hosts[i]
      <3> DEFINE e == [host |-> Hosts[k], n |-> n]
                 av == Append(q[r].avail, e)
      <3>1. q[r].avail \in Seq([host : HostSet, n : Nat]) /\ Hosts \in Seq(HostSet) /\ q \in [Requests -> Locals]
        BY <1>2, LocalFields, DynVmAssumption DEF Sound, Locally
      <3>2. q'[r] = [q[r] EXCEPT !.avail = av]
        BY <2>2, <3>1
      <3>3. /\ q'[r].late = q[r].late /\ q'[r].got = q[r].got /\ q'[r].need = q[r].need /\ q'[r].made = q[r].made
            /\ q'[r].avail = av
        <4> HIDE DEF av
        <4> QED
          BY <1>2, <3>2 DEF Locals
      <3>4. k \in DOMAIN Hosts /\ Len(q[r].avail) \in Nat /\ DOMAIN q[r].avail = 1..Len(q[r].avail)
        BY <2>2, <3>1
      <3>5. DOMAIN av = 1..k /\ av[k] = e /\ \A i \in DOMAIN q[r].avail : av[i] = q[r].avail[i]
        BY <3>1
      <3>6. ASSUME NEW i \in DOMAIN av PROVE i \in DOMAIN Hosts /\ av[i].host = Hosts[i]
        <4>1. CASE i = k
          BY <3>4, <3>5, <4>1
        <4>2. CASE i # k
          <5>1. i \in DOMAIN q[r].avail
            BY <3>4, <3>5, <3>6, <4>2
          <5> QED
            BY <1>2, <3>5, <5>1
        <4> QED
          BY <4>1, <4>2
      <3> QED
        BY <3>3, <3>6
    <2> QED
      BY <2>1, <2>2 DEF Look
  <1>4. \A i, j \in DOMAIN Hosts : Hosts[i] = Hosts[j] => i = j
    BY DynVmAssumption DEF IsInjective
  <1>5. Tidy(r, q'[r], pc'[r])
    BY <1>1, <1>2, <1>3, <1>4 DEF Tidy, AtWork
  <1>6. Pays(r)
    BY <1>1, <1>2, <1>3, PaysQuietly DEF Owing, Busy
  <1> QED
    BY <1>5, <1>6 DEF Steady

\* It is admitted, or refused and gives everything back.
LEMMA AdmitSteady == ASSUME Sound, NEW r \in Requests, Tidy(r, q[r], pc[r]), Admit(r) PROVE Steady(r)
  <1>1. Goes(r, {}) /\ pc[r] = "admit" /\ q' = q
    BY AdmitGoes DEF Sound, Admit
  <1>2. q[r] \in Locals /\ IsFiniteSet(q[r].late)
    BY DEF Tidy, Sound, Locally
  <1>3. \/ pc'[r] = "host" /\ UNCHANGED counters
        \/ pc'[r] = "refused" /\ DecreaseReserved(r, CountOf[r], LabelsFor[r])
    BY DEF Admit, Goto, Sound, Locally
  <1>4. Tidy(r, q'[r], pc'[r])
    <2>1. \/ pc'[r] \in Answers
          \/ pc'[r] = "host"
      BY <1>3 DEF Answers
    <2> QED
      BY <1>1, <1>2, <2>1, TidyStays DEF Answers, AtWork
  <1>5. CASE pc'[r] = "host" /\ UNCHANGED counters
    BY <1>1, <1>2, <1>4, <1>5, PaysQuietly DEF Owing, Busy, Steady
  <1>6. CASE pc'[r] = "refused" /\ DecreaseReserved(r, CountOf[r], LabelsFor[r])
    <2>1. /\ Fits(r, q[r], pc[r]) /\ Owes(r) \in Nat /\ Owes(r)' \in Nat
          /\ Owes(r) = Debt(q[r], pc[r]) /\ Owes(r)' = Debt(q'[r], pc'[r]) /\ Cardinality(q[r].late) \in Nat
      BY <1>1, <1>2, GoesOwing DEF Sound
    <2>2. /\ {Cardinality(q[r].need), Cardinality(q[r].made), Cardinality(q[r].got)} \subseteq Nat
          /\ Cardinality(q[r].need) + Cardinality(q[r].got) = CountOf[r]
      BY <2>1, LocalSizes
    <2>3. Owes(r)' >= Owes(r) - CountOf[r]
      BY <1>1, <1>6, <2>1, <2>2 DEF Debt, Owing, Busy
    <2>4. CountOf[r] \in Nat /\ CountersOk
      BY DynVmAssumption DEF Sound, Shared, CountersOk
    <2>6. Pays(r)
      BY <1>6, <2>1, <2>3, <2>4, PaysBack
    <2> QED
      BY <1>4, <2>6 DEF Steady
  <1> QED
    BY <1>3, <1>5, <1>6

\* A host has failed; what it made there is counted again as not made, and one of them may have been
\* reserved again.
LEMMA HostFailsSteady ==
    ASSUME Sound, NEW r \in Requests, Tidy(r, q[r], pc[r]), pc[r] \in Busy \ {"rollback", "look"}, HostFails(r),
           UNCHANGED counters \/ (IncreaseReserved(r, 1) /\ Cardinality(q[r].made) >= 1)
    PROVE  Steady(r)
  <1>1. Goes(r, {}) /\ pc'[r] \in {"host", "giveback"}
    BY HostFailsGoes DEF Sound, Serving
  <1>2. q[r] \in Locals /\ IsFiniteSet(q[r].late) /\ CountersOk
    BY DEF Tidy, Sound, Shared, Locally, CountersOk
  <1>3. /\ q'[r] \in Locals /\ q'[r].avail = q[r].avail /\ q'[r].idx = q[r].idx + 1 /\ q'[r].late = q[r].late
        /\ q'[r].need = q[r].need /\ q'[r].made = {}
    BY <1>1, <1>2 DEF HostFails, Sound, Goes, Locally, Locals
  <1>4. Tidy(r, q'[r], pc'[r])
    <2>1. pc[r] \notin Answers /\ pc'[r] \notin AtWork \cup {"new", "look"}
      BY <1>1 DEF Busy, Answers, AtWork
    <2> QED
      BY <1>1, <1>2, <1>3, <2>1, TidyStays
  <1>5. /\ Fits(r, q[r], pc[r]) /\ Owes(r) \in Nat /\ Owes(r)' \in Nat
        /\ Owes(r) = Debt(q[r], pc[r]) /\ Owes(r)' = Debt(q'[r], pc'[r]) /\ Cardinality(q[r].late) \in Nat
    BY <1>1, <1>2, <1>3, GoesOwing DEF Sound
  <1>6. Cardinality(q[r].need) \in Nat /\ Cardinality(q[r].made) \in Nat /\ Cardinality({}) = 0
    BY <1>5, LocalSizes, FS_EmptySet
  <1>7. Owes(r) = Cardinality(q[r].late) + (Cardinality(q[r].need) - Cardinality(q[r].made))
    BY <1>5 DEF Debt, Owing
  <1>8. Owes(r)' = Cardinality(q[r].late) + (Cardinality(q[r].need) - 0)
    BY <1>1, <1>3, <1>5, <1>6 DEF Debt, Owing, Busy
  <1>9. CASE UNCHANGED counters
    <2>1. Owes(r)' >= Owes(r)
      BY <1>5, <1>6, <1>7, <1>8
    <2> QED
      BY <1>2, <1>4, <1>5, <1>9, <2>1, PaysNothing DEF Steady
  <1>10. CASE IncreaseReserved(r, 1) /\ Cardinality(q[r].made) >= 1
    <2>1. Owes(r)' >= Owes(r) + 1 /\ 1 \in Nat
      BY <1>5, <1>6, <1>7, <1>8, <1>10
    <2> QED
      BY <1>2, <1>4, <1>5, <1>10, <2>1, PaysIn DEF Steady
  <1> QED
    BY <1>9, <1>10

\* With xhostref everything is given back then.
LEMMA GiveBackSteady == ASSUME Sound, NEW r \in Requests, Tidy(r, q[r], pc[r]), GiveBack(r) PROVE Steady(r)
  <1>1. Goes(r, {}) /\ q' = q /\ pc[r] = "giveback" /\ pc'[r] = "failed" /\ DecreaseReserved(r, CountOf[r], LabelsFor[r])
    BY GiveBackGoes DEF Sound, GiveBack
  <1>2. q[r] \in Locals /\ IsFiniteSet(q[r].late) /\ CountersOk /\ CountOf[r] \in Nat
    BY DynVmAssumption DEF Tidy, Sound, Shared, Locally, CountersOk
  <1>3. Tidy(r, q'[r], pc'[r])
    BY <1>1, <1>2, TidyStays DEF Answers
  <1>4. /\ Fits(r, q[r], pc[r]) /\ Owes(r) \in Nat /\ Owes(r)' \in Nat
        /\ Owes(r) = Debt(q[r], pc[r]) /\ Owes(r)' = Debt(q'[r], pc'[r]) /\ Cardinality(q[r].late) \in Nat
    BY <1>1, <1>2, GoesOwing DEF Sound
  <1>5. /\ {Cardinality(q[r].need), Cardinality(q[r].made), Cardinality(q[r].got)} \subseteq Nat
        /\ Cardinality(q[r].need) + Cardinality(q[r].got) = CountOf[r]
    BY <1>4, LocalSizes
  <1>6. Owes(r)' >= Owes(r) - CountOf[r]
    BY <1>1, <1>4, <1>5 DEF Debt, Owing, Busy
  <1> QED
    BY <1>1, <1>2, <1>3, <1>4, <1>6, PaysBack DEF Steady

\* It goes to the next host, or begins on one that has room for it.
LEMMA NextHostSteady == ASSUME Sound, NEW r \in Requests, Tidy(r, q[r], pc[r]), NextHost(r) PROVE Steady(r)
  <1>1. Goes(r, {}) /\ pc[r] = "host"
    BY NextHostGoes DEF Sound, NextHost
  <1>2. q[r] \in Locals /\ q'[r] \in Locals /\ IsFiniteSet(q[r].late) /\ Fits(r, q[r], pc[r])
    BY <1>1 DEF Goes, Tidy, Sound, Locally
  <1>3. q[r].made = {}
    BY <1>1, <1>2 DEF Fits
  <1>4. pc[r] \notin Answers /\ pc[r] \notin AtWork /\ "host" \notin AtWork /\ "settle" \notin AtWork /\ "clone" \notin {"new", "look"}
    BY <1>1 DEF Answers, AtWork
  <1>c. UNCHANGED counters
    BY DEF NextHost
  <1>5. CASE Goto(r, "settle") /\ q' = q
    <2>1. pc'[r] = "settle"
      BY <1>5 DEF Goto, Sound, Locally
    <2>2. Tidy(r, q'[r], pc'[r])
      BY <1>2, <1>3, <1>4, <1>5, <2>1, TidyStays
    <2>3. Pays(r)
      BY <1>1, <1>2, <1>5, <1>c, <2>1, PaysQuietly DEF Owing, Busy
    <2> QED
      BY <2>2, <2>3 DEF Steady
  <1>6. CASE q' = [q EXCEPT ![r].idx = @ + 1] /\ pc' = pc
    <2>1. /\ q'[r].avail = q[r].avail /\ q'[r].idx = q[r].idx + 1 /\ q'[r].late = q[r].late
          /\ q'[r].need = q[r].need /\ q'[r].made = q[r].made /\ pc'[r] = "host"
      BY <1>1, <1>2, <1>6 DEF Sound, Locally, Locals
    <2>2. Tidy(r, q'[r], pc'[r])
      BY <1>2, <1>4, <2>1, TidyStays
    <2>3. Pays(r)
      BY <1>1, <1>2, <1>6, <1>c, <2>1, PaysQuietly DEF Owing, Busy
    <2> QED
      BY <2>2, <2>3 DEF Steady
  <1>7. CASE HostFails(r)
    BY <1>1, <1>7, <1>c, HostFailsSteady DEF Busy
  <1>8. ASSUME NEW batch, q' = [q EXCEPT ![r].batch = batch], Goto(r, "clone")
        PROVE  Steady(r)
    <2>1. /\ q'[r].avail = q[r].avail /\ q'[r].idx = q[r].idx /\ q'[r].late = q[r].late
          /\ q'[r].need = q[r].need /\ q'[r].made = q[r].made /\ pc'[r] = "clone"
      BY <1>1, <1>2, <1>8 DEF Sound, Locally, Locals, Goto
    <2>3. Tidy(r, q'[r], pc'[r])
      BY <1>2, <1>4, <2>1, TidyStays
    <2>4. Pays(r)
      BY <1>1, <1>2, <1>8, <1>c, <2>1, PaysQuietly DEF Owing, Busy
    <2> QED
      BY <2>3, <2>4 DEF Steady
  <1>9. \/ Goto(r, "settle") /\ q' = q
        \/ q' = [q EXCEPT ![r].idx = @ + 1] /\ pc' = pc
        \/ HostFails(r)
        \/ \E batch : q' = [q EXCEPT ![r].batch = batch] /\ Goto(r, "clone")
    BY DEF NextHost
  <1> QED
    BY <1>5, <1>6, <1>7, <1>8, <1>9

\* The local variables after the next name was taken.
LEMMA NextNameFields ==
    ASSUME Sound, NEW r \in Requests, Tidy(r, q[r], pc[r]), pc[r] \in AtWork \ {"vet"},
           NEW new \in SUBSET {FirstName(q[r].batch)}, NextName(r, new)
    PROVE  /\ Goes(r, new) /\ Tidy(r, q'[r], pc'[r]) /\ IsFiniteSet(q[r].late)
           /\ {pc[r], pc'[r]} \subseteq Owing
           /\ q'[r].late = q[r].late /\ q'[r].need = q[r].need /\ q'[r].made = q[r].made \cup new
  <1> DEFINE n == FirstName(q[r].batch)
  <1>1. Goes(r, new) /\ pc'[r] \in {"vet", "clone"}
    BY NextNameGoes DEF Sound
  <1>2. q[r] \in Locals /\ q'[r] \in Locals /\ IsFiniteSet(q[r].late)
    BY <1>1 DEF Goes, Sound, Locally, Tidy
  <1>3. /\ q'[r].avail = q[r].avail /\ q'[r].idx = q[r].idx /\ q'[r].late = q[r].late /\ q'[r].need = q[r].need
        /\ q'[r].batch = q[r].batch \ {n} /\ q'[r].made = q[r].made \cup new
    BY <1>2 DEF NextName, Sound, Locally, Locals
  <1>4. /\ pc[r] \notin Answers /\ pc[r] \in AtWork /\ pc'[r] \in AtWork /\ pc'[r] \notin {"new", "look", "settle"}
        /\ {pc[r], pc'[r]} \subseteq Owing
    BY <1>1 DEF Answers, AtWork, Owing, Busy
  <1>6. Tidy(r, q'[r], pc'[r])
    BY <1>2, <1>3, <1>4, TidyStays
  <1> QED
    BY <1>1, <1>2, <1>3, <1>4, <1>6

\* A name that was not made.
LEMMA NotMadeSteady ==
    ASSUME Sound, NEW r \in Requests, Tidy(r, q[r], pc[r]), pc[r] \in AtWork \ {"vet"}, NextName(r, {}),
           UNCHANGED counters
    PROVE  Steady(r)
  <1>1. /\ Goes(r, {}) /\ Tidy(r, q'[r], pc'[r]) /\ IsFiniteSet(q[r].late)
        /\ {pc[r], pc'[r]} \subseteq Owing
        /\ q'[r].late = q[r].late /\ q'[r].need = q[r].need /\ q'[r].made = q[r].made
    <2>1. {} \in SUBSET {FirstName(q[r].batch)} /\ q[r].made \cup {} = q[r].made
      OBVIOUS
    <2> QED
      BY <2>1, NextNameFields
  <1>2. Pays(r)
    BY <1>1, PaysQuietly
  <1> QED
    BY <1>1, <1>2 DEF Steady

\* It works on with the same VM.
LEMMA WorksOnSteady ==
    ASSUME Sound, NEW r \in Requests, Tidy(r, q[r], pc[r]), pc[r] \in AtWork, Goes(r, {}), pc'[r] \in AtWork,
           q'[r].avail = q[r].avail, q'[r].idx = q[r].idx, q'[r].late = q[r].late, q'[r].need = q[r].need,
           q'[r].batch = q[r].batch, q'[r].made = q[r].made, UNCHANGED counters
    PROVE  Steady(r)
  <1>1. q[r] \in Locals /\ q'[r] \in Locals /\ IsFiniteSet(q[r].late)
    BY DEF Goes, Sound, Locally, Tidy
  <1>2. /\ pc[r] \notin Answers /\ pc'[r] \notin {"new", "look", "settle"}
        /\ {pc[r], pc'[r]} \subseteq Owing
    BY DEF Answers, AtWork, Owing, Busy
  <1>3. Tidy(r, q'[r], pc'[r])
    BY <1>1, <1>2, TidyStays
  <1>4. Pays(r)
    BY <1>1, <1>2, PaysQuietly
  <1> QED
    BY <1>3, <1>4 DEF Steady

\* A name is made once on a host, so that one more is made.
LEMMA MadeOnce ==
    ASSUME NEW r \in Requests, Fits(r, q[r], pc[r]), NEW n \in q[r].batch
    PROVE  Cardinality(q[r].made \cup {n}) = Cardinality(q[r].made) + 1 /\ Cardinality(q[r].made) \in Nat
  <1>1. n \notin q[r].made
    BY DEF Fits
  <1>2. IsFiniteSet(q[r].made) /\ Cardinality(q[r].made) \in Nat
    BY LocalSizes, FS_CardinalityType
  <1> QED
    BY <1>1, <1>2, FS_AddElement

\* A VM is reported with an error, for the first time.
LEMMA LateSteady ==
    ASSUME Sound, NEW r \in Requests, Tidy(r, q[r], pc[r]), pc[r] \in AtWork \ {"vet"}, NextLate(r), UNCHANGED counters
    PROVE  Steady(r)
  <1> DEFINE n == FirstName(q[r].batch)
             v == <<At(r), n>>
  <1>0. pc[r] \in AtWork \ {"vet"} /\ q[r] \in Locals /\ Fits(r, q[r], pc[r]) /\ IsFiniteSet(q[r].late)
    BY DEF Sound, Locally, Tidy
  <1>1. Goes(r, {n}) /\ pc'[r] \in {"vet", "clone"} /\ n \in q[r].batch
    BY <1>0, NextLateGoes, WorkedOn DEF Sound
  <1>2. /\ q'[r].avail = q[r].avail /\ q'[r].idx = q[r].idx /\ q'[r].need = q[r].need
        /\ q'[r].batch = q[r].batch \ {n} /\ q'[r].made = q[r].made \cup {n} /\ q'[r].late = q[r].late \cup {v}
    BY <1>0 DEF NextLate, Sound, Locally, Locals
  <1> HIDE DEF n
  <1>3. v[1] = q[r].avail[q[r].idx].host /\ v[2] = n
    BY DEF At
  <1>4. q[r].idx \in DOMAIN q[r].avail /\ q[r].idx \in Nat /\ DOMAIN q[r].avail \subseteq Nat
    BY <1>0, AvailFacts DEF Fits
  <1> HIDE DEF v
  <1>5. v \notin q[r].late
    <2>1. pc[r] \notin Answers /\ q[r].idx >= q[r].idx
      BY <1>0, <1>4 DEF Answers, AtWork
    <2> QED
      BY <1>1, <1>3, <1>4, <2>1 DEF Tidy
  <1>6. /\ IsFiniteSet(q'[r].late) /\ Cardinality(q'[r].late) = Cardinality(q[r].late) + 1
        /\ Cardinality(q[r].late) \in Nat
    BY <1>0, <1>2, <1>5, FS_AddElement, FS_CardinalityType
  <1>7. Tidy(r, q'[r], pc'[r])
    <2>1. pc[r] \notin Answers /\ pc[r] \in AtWork /\ pc'[r] \in AtWork /\ pc'[r] \notin {"new", "look", "settle"}
      BY <1>0, <1>1 DEF Answers, AtWork
    <2>2. ASSUME NEW u \in q'[r].late, NEW i \in DOMAIN q'[r].avail, i >= q'[r].idx, u[1] = q'[r].avail[i].host
          PROVE  i = q'[r].idx /\ u[2] \notin q'[r].batch
      <3>1. CASE u \in q[r].late
        BY <1>2, <2>1, <2>2, <3>1 DEF Tidy
      <3>2. CASE u = v
        <4>1. q[r].avail[i].host = q[r].avail[q[r].idx].host /\ i \in DOMAIN q[r].avail
          BY <1>2, <1>3, <2>2, <3>2
        <4>2. i = q[r].idx
          BY <1>4, <4>1 DEF Tidy
        <4> QED
          BY <1>2, <1>3, <3>2, <4>2
      <3> QED
        BY <1>2, <3>1, <3>2
    <2>3. \A i, j \in DOMAIN q'[r].avail : q'[r].avail[i].host = q'[r].avail[j].host => i = j
      BY <1>2, <2>1 DEF Tidy
    <2> QED
      BY <1>6, <2>1, <2>2, <2>3 DEF Tidy
  <1>8. /\ Owes(r) \in Nat /\ Owes(r)' \in Nat
        /\ Owes(r) = Debt(q[r], pc[r]) /\ Owes(r)' = Debt(q'[r], pc'[r])
    BY <1>0, <1>1, <1>6, GoesOwing DEF Sound
  <1>9. Owes(r)' = Owes(r)
    <2>1. Cardinality(q'[r].made) = Cardinality(q[r].made) + 1 /\ Cardinality(q[r].made) \in Nat
      BY <1>0, <1>1, <1>2, MadeOnce
    <2>2. Cardinality(q[r].need) \in Nat
      BY <1>0, LocalSizes
    <2>3. pc[r] \in Owing /\ pc'[r] \in Owing
      BY <1>0, <1>1 DEF Owing, Busy, AtWork
    <2>4. Owes(r) = Cardinality(q[r].late) + (Cardinality(q[r].need) - Cardinality(q[r].made))
      BY <1>8, <2>3 DEF Debt
    <2>5. Owes(r)' = Cardinality(q'[r].late) + (Cardinality(q[r].need) - Cardinality(q'[r].made))
      BY <1>2, <1>8, <2>3 DEF Debt
    <2> QED
      BY <1>6, <2>1, <2>2, <2>4, <2>5
  <1>10. CountersOk
    BY DEF Sound, Shared, CountersOk
  <1>11. Pays(r)
    BY <1>8, <1>9, <1>10, PaysNothing
  <1> QED
    BY <1>7, <1>11 DEF Steady

\* It was not made, or is reported with an error.
LEMMA UnmadeSteady ==
    ASSUME Sound, NEW r \in Requests, Tidy(r, q[r], pc[r]), pc[r] \in AtWork \ {"vet"},
           NextName(r, {}) \/ NextLate(r) \/ Unmade(r), UNCHANGED counters
    PROVE  Steady(r)
  BY NotMadeSteady, LateSteady DEF Unmade

\* It only moves on.
LEMMA GotoSteady ==
    ASSUME Sound, NEW r \in Requests, Tidy(r, q[r], pc[r]), pc[r] \in AtWork \ {"vet"},
           NEW w \in {"ip", "record", "save"}, Goto(r, w), q' = q, UNCHANGED counters
    PROVE  Steady(r)
  <1>1. Fits(r, q[r], pc[r])
    BY DEF Sound, Locally
  <1>2. Fits(r, q[r], w) /\ pc[r] \in Serving
    BY <1>1 DEF Fits, Where, Busy, AtWork, Serving
  <1>3. Goes(r, {}) /\ pc'[r] \in AtWork
    BY <1>2, Passes DEF Sound, AtWork
  <1> QED
    BY <1>3, WorksOnSteady

\* A VM is cloned, or not.
LEMMA CloneSteady == ASSUME Sound, NEW r \in Requests, Tidy(r, q[r], pc[r]), Clone(r) PROVE Steady(r)
  <1>1. pc[r] = "clone" /\ pc[r] \in AtWork \ {"vet"} /\ UNCHANGED counters
    BY DEF Clone, AtWork
  <1>2. CASE Goto(r, "ip") /\ q' = q
    BY <1>1, <1>2, GotoSteady
  <1>3. CASE Unmade(r)
    BY <1>1, <1>3, UnmadeSteady
  <1>4. CASE Goto(r, "exited") /\ q' = q
    <2>1. pc'[r] = "exited" /\ q[r] \in Locals /\ IsFiniteSet(q[r].late) /\ CountersOk /\ Fits(r, q[r], pc[r])
      BY <1>4 DEF Goto, Sound, Shared, Locally, Tidy, CountersOk
    <2>2. Tidy(r, q'[r], pc'[r])
      BY <1>1, <1>4, <2>1, TidyStays DEF Answers
    <2>3. Owes(r)' = Owes(r) /\ Owes(r) \in Nat
      <3>1. Owes(r) = Debt(q[r], pc[r]) /\ Owes(r)' = Debt(q[r], pc'[r])
        BY <1>4 DEF Owes, Debt
      <3>2. Debt(q[r], pc[r]) = Debt(q[r], pc'[r])
        BY <1>1, <2>1 DEF Debt, Owing, Busy
      <3> QED
        BY <2>1, <3>1, <3>2, DebtNat
    <2>4. Pays(r)
      BY <1>1, <2>1, <2>3, PaysNothing
    <2> QED
      BY <2>2, <2>4 DEF Steady
  <1> QED
    BY <1>2, <1>3, <1>4 DEF Clone

\* It waits for the address.
LEMMA GetIpSteady == ASSUME Sound, NEW r \in Requests, Tidy(r, q[r], pc[r]), GetIp(r) PROVE Steady(r)
  <1>1. pc[r] \in AtWork \ {"vet"} /\ UNCHANGED counters /\ q[r] \in Locals
    BY DEF GetIp, AtWork, Sound, Locally
  <1>2. CASE Goto(r, "record") /\ q' = q
    BY <1>1, <1>2, GotoSteady
  <1>3. CASE NextName(r, {}) \/ NextLate(r) \/ Unmade(r)
    BY <1>1, <1>3, UnmadeSteady
  <1>4. CASE q[r].tries + 1 # IpAttempts /\ q' = [q EXCEPT ![r].tries = @ + 1] /\ Goto(r, "clone")
    <2>1. /\ q'[r].avail = q[r].avail /\ q'[r].idx = q[r].idx /\ q'[r].late = q[r].late /\ q'[r].need = q[r].need
          /\ q'[r].batch = q[r].batch /\ q'[r].made = q[r].made /\ q'[r].got = q[r].got
      BY <1>1, <1>4 DEF Sound, Locally, Locals
    <2>2. Goes(r, {}) /\ pc'[r] \in AtWork
      <3>1. pc'[r] \in AtWork
        BY <1>4 DEF Sound, Locally, Goto, AtWork
      <3>2. Goes(r, {}) \/ Goes(r, {FirstName(q[r].batch)})
        BY GetIpGoes DEF Sound, Made
      <3> QED
        BY <2>1, <3>1, <3>2 DEF Goes
    <2> QED
      BY <1>1, <2>1, <2>2, WorksOnSteady
  <1> QED
    BY <1>2, <1>3, <1>4 DEF GetIp

\* The timer is started, or the VM is reported with an error.
LEMMA RecordSteady == ASSUME Sound, NEW r \in Requests, Tidy(r, q[r], pc[r]), Record(r) PROVE Steady(r)
  <1>1. pc[r] \in AtWork \ {"vet"} /\ UNCHANGED counters
    BY DEF Record, AtWork
  <1>2. CASE Goto(r, "save") /\ q' = q
    BY <1>1, <1>2, GotoSteady
  <1>3. CASE NextLate(r)
    BY <1>1, <1>3, LateSteady
  <1> QED
    BY <1>2, <1>3 DEF Record

\* The document is written, and a reservation is given back for the labels of the host.
LEMMA SaveSteady == ASSUME Sound, NEW r \in Requests, Tidy(r, q[r], pc[r]), Save(r) PROVE Steady(r)
  <1> DEFINE n == FirstName(q[r].batch)
  <1>1. pc[r] = "save" /\ pc[r] \in AtWork \ {"vet"} /\ NextName(r, {n}) /\ {n} \in SUBSET {n}
    BY DEF Save, AtWork
  <1>2. /\ Goes(r, {n}) /\ Tidy(r, q'[r], pc'[r]) /\ IsFiniteSet(q[r].late)
        /\ {pc[r], pc'[r]} \subseteq Owing
        /\ q'[r].late = q[r].late /\ q'[r].need = q[r].need /\ q'[r].made = q[r].made \cup {n}
    BY <1>1, NextNameFields
  <1>3. n \in q[r].batch /\ At(r) \in HostSet
    BY <1>1, WorkedOn DEF Sound
  <1>4. DecreaseReserved(r, 1, LabelsOf[At(r)])
    BY DEF Save
  <1> HIDE DEF n
  <1>5. /\ Fits(r, q[r], pc[r]) /\ Owes(r) \in Nat /\ Owes(r)' \in Nat
        /\ Owes(r) = Debt(q[r], pc[r]) /\ Owes(r)' = Debt(q'[r], pc'[r]) /\ Cardinality(q[r].late) \in Nat
    BY <1>2, GoesOwing DEF Sound
  <1>6. Owes(r)' >= Owes(r) - 1
    <2>1. Cardinality(q'[r].made) = Cardinality(q[r].made) + 1 /\ Cardinality(q[r].made) \in Nat
      BY <1>2, <1>3, <1>5, MadeOnce
    <2>2. Cardinality(q[r].need) \in Nat
      BY <1>5, LocalSizes
    <2>3. Owes(r) = Cardinality(q[r].late) + (Cardinality(q[r].need) - Cardinality(q[r].made))
      BY <1>2, <1>5 DEF Debt
    <2>4. Owes(r)' = Cardinality(q[r].late) + (Cardinality(q[r].need) - Cardinality(q'[r].made))
      BY <1>2, <1>5 DEF Debt
    <2> QED
      BY <1>5, <2>1, <2>2, <2>3, <2>4
  <1>7. Pays(r)
    <2>1. CountersOk /\ 1 \in Nat
      BY DEF Sound, Shared, CountersOk
    <2> QED
      BY <1>4, <1>5, <1>6, <2>1, PaysBack
  <1> QED
    BY <1>2, <1>7 DEF Steady

\* One VM is vetted.  One that fails is reserved again, and is no longer made.
LEMMA VetOneSteady ==
    ASSUME Sound, NEW r \in Requests, Tidy(r, q[r], pc[r]), NEW n \in Names, VetOne(r, n) PROVE Steady(r)
  <1>1. /\ pc[r] = "vet" /\ pc[r] \in AtWork /\ n \in q[r].made /\ q[r] \in Locals /\ Fits(r, q[r], pc[r])
        /\ IsFiniteSet(q[r].late) /\ Goes(r, {}) /\ CountersOk
    BY VetOneGoes DEF VetOne, AtWork, Sound, Shared, Locally, Tidy, CountersOk
  <1>2. IsFiniteSet(q[r].made) /\ Cardinality(q[r].made) \in Nat /\ Cardinality(q[r].made) >= 1
    <2>1. IsFiniteSet(q[r].made) /\ Cardinality(q[r].made) \in Nat
      BY <1>1, LocalSizes, FS_CardinalityType
    <2>2. Cardinality(q[r].made) # 0
      BY <1>1, <2>1, FS_EmptySet
    <2> QED
      BY <2>1, <2>2
  <1>3. CASE q' = [q EXCEPT ![r].vetted = @ \cup {n}] /\ pc' = pc /\ UNCHANGED counters
    <2>1. /\ q'[r].avail = q[r].avail /\ q'[r].idx = q[r].idx /\ q'[r].late = q[r].late /\ q'[r].need = q[r].need
          /\ q'[r].batch = q[r].batch /\ q'[r].made = q[r].made /\ pc'[r] \in AtWork
      BY <1>1, <1>3 DEF Sound, Locally, Locals
    <2> QED
      BY <1>1, <1>3, <2>1, WorksOnSteady
  <1>4. CASE q' = [q EXCEPT ![r].made = @ \ {n}] /\ pc' = pc /\ IncreaseReserved(r, 1)
    <2>1. /\ q'[r].avail = q[r].avail /\ q'[r].idx = q[r].idx /\ q'[r].late = q[r].late /\ q'[r].need = q[r].need
          /\ q'[r].batch = q[r].batch /\ q'[r].made = q[r].made \ {n} /\ pc'[r] = pc[r] /\ q'[r] \in Locals
      BY <1>1, <1>4 DEF Goes, Sound, Locally, Locals
    <2>2. Tidy(r, q'[r], pc'[r])
      <3>1. pc[r] \notin Answers /\ pc'[r] \notin {"new", "look", "settle"}
        BY <1>1, <2>1 DEF Answers
      <3> QED
        BY <1>1, <2>1, <3>1, TidyStays
    <2>3. /\ Owes(r) \in Nat /\ Owes(r)' \in Nat
          /\ Owes(r) = Debt(q[r], pc[r]) /\ Owes(r)' = Debt(q'[r], pc'[r]) /\ Cardinality(q[r].late) \in Nat
      BY <1>1, <2>1, GoesOwing DEF Sound
    <2>4. Cardinality(q'[r].made) = Cardinality(q[r].made) - 1
      <3>1. Cardinality(q[r].made \ {n}) = Cardinality(q[r].made) - 1
        BY <1>1, <1>2, FS_RemoveElement
      <3> QED
        BY <2>1, <3>1
    <2>5. Cardinality(q[r].need) \in Nat
      BY <1>1, LocalSizes
    <2>6. pc[r] \in Owing
      BY <1>1 DEF Owing, Busy
    <2>7. Owes(r) = Cardinality(q[r].late) + (Cardinality(q[r].need) - Cardinality(q[r].made))
      BY <2>3, <2>6 DEF Debt
    <2>8. Owes(r)' = Cardinality(q[r].late) + (Cardinality(q[r].need) - Cardinality(q'[r].made))
      BY <2>1, <2>3, <2>6 DEF Debt
    <2>9. Owes(r)' >= Owes(r) + 1
      BY <1>2, <2>3, <2>4, <2>5, <2>7, <2>8
    <2>10. Pays(r)
      BY <1>1, <1>4, <2>3, <2>9, PaysIn
    <2> QED
      BY <2>2, <2>10 DEF Steady
  <1>5. CASE HostFails(r) /\ (UNCHANGED counters \/ IncreaseReserved(r, 1))
    <2>1. pc[r] \in Busy \ {"rollback", "look"}
      BY <1>1 DEF Busy
    <2> QED
      BY <1>2, <1>5, <2>1, HostFailsSteady
  <1> QED
    BY <1>3, <1>4, <1>5 DEF VetOne

\* All of them are in order and no longer needed.
LEMMA VetEndSteady == ASSUME Sound, NEW r \in Requests, Tidy(r, q[r], pc[r]), VetEnd(r) PROVE Steady(r)
  <1>1. /\ pc[r] = "vet" /\ q[r] \in Locals /\ Fits(r, q[r], pc[r]) /\ IsFiniteSet(q[r].late)
        /\ Goes(r, {}) /\ pc'[r] \in {"settle", "host"} /\ UNCHANGED counters /\ CountersOk
    BY VetEndGoes DEF VetEnd, Sound, Shared, Locally, Tidy, CountersOk
  <1>2. /\ q'[r] \in Locals /\ q'[r].avail = q[r].avail /\ q'[r].idx = q[r].idx + 1 /\ q'[r].late = q[r].late
        /\ q'[r].need = q[r].need \ q[r].made /\ q'[r].made = {}
    <2>1. q \in [Requests -> Locals] /\ q'[r] \in Locals
      BY <1>1 DEF Goes, Sound, Locally
    <2>2. q'[r] = [q[r] EXCEPT !.got = @ \cup q[r].made, !.need = @ \ q[r].made, !.idx = @ + 1, !.made = {}, !.vetted = {}]
      BY <2>1 DEF VetEnd
    <2> QED
      BY <1>1, <2>1, <2>2 DEF Locals
  <1>3. Tidy(r, q'[r], pc'[r])
    <2>1. pc[r] \notin Answers /\ pc'[r] \notin AtWork /\ pc'[r] \notin {"new", "look"}
      BY <1>1 DEF Answers, AtWork
    <2> QED
      BY <1>1, <1>2, <2>1, TidyStays
  <1>4. /\ Owes(r) \in Nat /\ Owes(r)' \in Nat
        /\ Owes(r) = Debt(q[r], pc[r]) /\ Owes(r)' = Debt(q'[r], pc'[r]) /\ Cardinality(q[r].late) \in Nat
    BY <1>1, <1>2, GoesOwing DEF Sound
  <1>5. /\ IsFiniteSet(q[r].need) /\ IsFiniteSet(q[r].made) /\ Cardinality(q[r].need) \in Nat
        /\ Cardinality(q[r].made) \in Nat
    BY <1>1, LocalSizes
  <1>6. Cardinality(q[r].need \ q[r].made) = Cardinality(q[r].need) - Cardinality(q[r].made)
    <2>1. q[r].need \cap q[r].made = q[r].made
      BY <1>1 DEF Fits
    <2>2. Cardinality(q[r].need \ q[r].made) = Cardinality(q[r].need) - Cardinality(q[r].need \cap q[r].made)
      BY <1>5, FS_Difference
    <2> QED
      BY <2>1, <2>2
  <1>7. Cardinality({}) = 0
    BY FS_EmptySet
  <1>8. pc[r] \in Owing /\ pc'[r] \in Owing
    BY <1>1 DEF Owing, Busy
  <1>9. Owes(r) = Cardinality(q[r].late) + (Cardinality(q[r].need) - Cardinality(q[r].made))
    BY <1>4, <1>8 DEF Debt
  <1>10. Owes(r)' = Cardinality(q[r].late) + (Cardinality(q[r].need \ q[r].made) - 0)
    BY <1>2, <1>4, <1>7, <1>8 DEF Debt
  <1>11. Owes(r)' >= Owes(r)
    BY <1>4, <1>5, <1>6, <1>9, <1>10
  <1>12. Pays(r)
    BY <1>1, <1>4, <1>11, PaysNothing
  <1> QED
    BY <1>3, <1>12 DEF Steady

\* Nothing is made that is not had, so that the rest is what is still needed.
LEMMA SettleSteady == ASSUME Sound, NEW r \in Requests, Tidy(r, q[r], pc[r]), Settle(r) PROVE Steady(r)
  <1>1. /\ pc[r] = "settle" /\ q[r] \in Locals /\ Fits(r, q[r], pc[r]) /\ IsFiniteSet(q[r].late) /\ q[r].made = {}
        /\ Goes(r, {}) /\ pc'[r] \in {"ok", "rollback"} /\ CountersOk
        /\ DecreaseReserved(r, CountOf[r] - Cardinality(q[r].got), LabelsFor[r])
    BY SettleGoes DEF Settle, Sound, Shared, Locally, Tidy, CountersOk
  <1>2. q'[r].avail = <<>> /\ q'[r].late = q[r].late
    BY <1>1 DEF Settle, Sound, Locally, Locals
  <1>3. Tidy(r, q'[r], pc'[r])
    <2>1. DOMAIN q'[r].avail = {}
      BY <1>2
    <2> QED
      BY <1>1, <1>2, <2>1 DEF Tidy, AtWork
  <1>4. /\ Owes(r) \in Nat /\ Owes(r)' \in Nat
        /\ Owes(r) = Debt(q[r], pc[r]) /\ Owes(r)' = Debt(q'[r], pc'[r]) /\ Cardinality(q[r].late) \in Nat
    BY <1>1, <1>2, GoesOwing DEF Sound
  <1>5. /\ Cardinality(q[r].need) \in Nat /\ Cardinality(q[r].got) \in Nat
        /\ Cardinality(q[r].need) + Cardinality(q[r].got) = CountOf[r] /\ Cardinality({}) = 0
    BY <1>1, LocalSizes, FS_EmptySet
  <1>6. CountOf[r] - Cardinality(q[r].got) = Cardinality(q[r].need)
    BY <1>5
  <1>7. Owes(r) = Cardinality(q[r].late) + (Cardinality(q[r].need) - 0)
    BY <1>1, <1>4, <1>5 DEF Debt, Owing, Busy
  <1>8. Owes(r)' = Cardinality(q[r].late)
    BY <1>1, <1>2, <1>4 DEF Debt, Owing, Busy
  <1>9. Owes(r)' >= Owes(r) - Cardinality(q[r].need)
    BY <1>4, <1>5, <1>7, <1>8
  <1>10. Pays(r)
    <2>1. DecreaseReserved(r, Cardinality(q[r].need), LabelsFor[r])
      BY <1>1, <1>6
    <2> QED
      BY <1>1, <1>4, <1>5, <1>9, <2>1, PaysBack
  <1> QED
    BY <1>3, <1>10 DEF Steady

\* The rollback has ended; nothing was owed any more.
LEMMA RollbackEndSteady ==
    ASSUME Sound, Locally', NEW r \in Requests, Tidy(r, q[r], pc[r]), RollbackEnd(r) PROVE Steady(r)
  <1>1. /\ pc[r] = "rollback" /\ pc'[r] = "failed" /\ q' = q /\ q[r] \in Locals /\ IsFiniteSet(q[r].late)
        /\ UNCHANGED counters /\ CountersOk
    BY DEF RollbackEnd, Goto, Sound, Shared, Locally, Tidy, CountersOk
  <1>2. Tidy(r, q'[r], pc'[r])
    BY <1>1, TidyStays DEF Answers
  <1>3. Cardinality(q[r].late) \in Nat
    BY <1>1, FS_CardinalityType
  <1>4. Owes(r) = Cardinality(q[r].late) /\ Owes(r)' = Cardinality(q[r].late)
    BY <1>1, <1>3 DEF Owes, Debt, Owing, Busy
  <1>5. Pays(r)
    BY <1>1, <1>3, <1>4, PaysNothing
  <1> QED
    BY <1>2, <1>5 DEF Steady

-----------------------------------------------------------------------------
(* The invariant holds. *)

\* A step of one request.
LEMMA GetserversAccounts ==
    ASSUME IsFiniteSet(Requests), Accounts, Sound', NEW r \in Requests, Getservers(r)
    PROVE  Accounts'
  <1>1. Sound /\ Balanced /\ \A s \in Requests : Tidy(s, q[s], pc[s])
    BY DEF Accounts
  <1>2. Locally /\ Locally' /\ CountersOk /\ CountersOk'
    BY <1>1 DEF Sound, Shared, CountersOk
  <1>3. Steady(r)
    BY <1>1, <1>2, ReserveSteady, LookSteady, AdmitSteady, NextHostSteady, CloneSteady, GetIpSteady, RecordSteady,
       SaveSteady, VetOneSteady, VetEndSteady, GiveBackSteady, SettleSteady, RollbackEndSteady DEF Getservers
  <1>4. \A s \in Requests \ {r} : q'[s] = q[s] /\ pc'[s] = pc[s]
    <2>1. q \in [Requests -> Locals] /\ pc \in [Requests -> Where]
      BY <1>2 DEF Locally
    <2> QED
      BY <2>1 DEF Getservers, Reserve, Look, Admit, NextHost, HostFails, Clone, GetIp, Record, Save, NextName, NextLate,
                  Unmade, VetOne, VetEnd, GiveBack, Settle, RollbackEnd, Goto
  <1>5. \A s \in Requests : Tidy(s, q'[s], pc'[s])
    BY <1>1, <1>3, <1>4 DEF Steady
  <1>6. \A s \in Requests : Counted(s) /\ Counted(s)'
    <2> TAKE s \in Requests
    <2>1. IsFiniteSet(q[s].late) /\ IsFiniteSet(q'[s].late)
      BY <1>1, <1>5 DEF Tidy
    <2> QED
      BY <1>2, <2>1 DEF Counted, Locally, Fits, AllNames
  <1>7. Balanced'
    BY <1>1, <1>2, <1>3, <1>4, <1>6, PaysBalanced DEF Steady
  <1>8. \A s \in Requests : Tidy(s, q[s], pc[s])'
    BY <1>5 DEF Tidy
  <1> QED
    BY <1>7, <1>8 DEF Accounts

\* A step that leaves the requests and the reservations alone.
LEMMA ElsewhereAccounts == ASSUME Accounts, Sound', pc' = pc, q' = q, UNCHANGED counters PROVE Accounts'
  <1>1. Balanced'
    BY DEF Accounts, Balanced, Owes, Debt, counters
  <1>2. \A s \in Requests : Tidy(s, q[s], pc[s])'
    BY DEF Accounts, Tidy
  <1> QED
    BY <1>1, <1>2 DEF Accounts

\* The debts of the requests of a label add up to a natural number, for local variables x at w.
LEMMA DebtsNat ==
    ASSUME IsFiniteSet(Requests), NEW x, NEW w, \A r \in Requests : IsFiniteSet(x[r].late) /\ Fits(r, x[r], w[r]), NEW l
    PROVE  Total([r \in For(l) |-> Debt(x[r], w[r])]) \in Nat
  <1>1. For(l) \subseteq Requests /\ IsFiniteSet(For(l))
    BY ForFinite
  <1>2. ASSUME NEW r \in Requests PROVE Debt(x[r], w[r]) \in Nat
    BY DebtNat
  <1>3. [r \in For(l) |-> Debt(x[r], w[r])] \in [For(l) -> Nat]
    BY <1>1, <1>2
  <1> QED
    BY <1>1, <1>3, TotalNat

\* A restart.
LEMMA RestartAccounts == ASSUME IsFiniteSet(Requests), Accounts, Sound', Restart PROVE Accounts'
  <1>1. /\ Locally' /\ q' = q /\ \A l \in DOMAIN reserved' : reserved'[l] = 0 /\ stray'[l] = 0
        /\ \A r \in Requests : pc'[r] = IF pc[r] \in Busy \cup {"exited"} THEN "lost" ELSE pc[r]
    BY DEF Sound, Restart
  <1>2. ASSUME NEW r \in Requests PROVE Tidy(r, q'[r], pc'[r])
    <2>1. Tidy(r, q[r], pc[r]) /\ q[r] \in Locals
      BY DEF Accounts, Sound, Locally
    <2>2. CASE pc[r] \in Busy
      BY <1>1, <2>1, <2>2, TidyStays DEF Answers, Busy
    <2>3. CASE pc[r] \notin Busy
      BY <1>1, <2>1, <2>3 DEF Tidy, AtWork, Answers
    <2> QED
      BY <2>2, <2>3
  <1>3. \A r \in Requests : IsFiniteSet(q'[r].late)
    BY <1>2 DEF Tidy
  <1>4. \A r \in Requests : Fits(r, q'[r], pc'[r])
    BY <1>1 DEF Locally, Fits, AllNames
  <1>5. \A l : Total([r \in For(l) |-> Debt(q'[r], pc'[r])]) \in Nat
    BY <1>3, <1>4, DebtsNat
  <1>6. Balanced'
    BY <1>1, <1>5 DEF Balanced, Owes
  <1>7. \A r \in Requests : Tidy(r, q[r], pc[r])'
    BY <1>2 DEF Tidy
  <1> QED
    BY <1>6, <1>7 DEF Accounts

\* Nothing has been asked for yet.
LEMMA InitAccounts == ASSUME IsFiniteSet(Requests), Init, Sound PROVE Accounts
  <1>1. ASSUME NEW r \in Requests PROVE Tidy(r, q[r], pc[r])
    <2>1. q[r].avail = <<>> /\ q[r].late = {} /\ q[r].got = {} /\ pc[r] = "new"
      BY DEF Init
    <2>2. DOMAIN q[r].avail = {} /\ IsFiniteSet(q[r].late)
      BY <2>1, FS_EmptySet
    <2> QED
      BY <2>1, <2>2 DEF Tidy, AtWork
  <1>2. \A r \in Requests : IsFiniteSet(q[r].late)
    BY <1>1 DEF Tidy
  <1>3. \A l : Total([r \in For(l) |-> Debt(q[r], pc[r])]) \in Nat
    BY <1>2, DebtsNat DEF Sound, Locally
  <1>4. \A l \in DOMAIN reserved : reserved[l] = 0 /\ stray[l] = 0
    BY DEF Init
  <1>5. Balanced
    BY <1>3, <1>4 DEF Balanced, Owes
  <1> QED
    BY <1>1, <1>5 DEF Accounts

\* Every step.
LEMMA NextAccounts == ASSUME IsFiniteSet(Requests), Inv', Accounts, [Next]_vars PROVE Accounts'
  <1>1. Sound'
    BY DEF Inv
  <1>2. CASE \E r \in Requests : Getservers(r)
    BY <1>1, <1>2, GetserversAccounts
  <1>3. CASE Restart
    BY <1>1, <1>3, RestartAccounts
  <1>4. CASE \/ \E r \in Requests : UserRelease(r)
             \/ \E t \in Threads : ReleaseServers(t)
             \/ \E v \in Vms : TimerFires(v) \/ Lapse(v) \/ SetExpiry(v)
             \/ ExpireVms
             \/ UNCHANGED vars
    <2>1. pc' = pc /\ q' = q /\ UNCHANGED counters
      BY <1>4 DEF UserRelease, ReleaseServers, FindVm, DeleteVm, UpdateDoc, TimerFires, Lapse, SetExpiry,
                  ExpireVms, ExpireSelect, ExpireRow, ExpireRowEnd, vars, counters
    <2> QED
      BY <1>1, <2>1, ElsewhereAccounts
  <1> QED
    BY <1>2, <1>3, <1>4 DEF Next

-----------------------------------------------------------------------------

\* Once no request is being served every reservation has been given back, for any number of hosts,
\* labels and VMs and finitely many requests, whatever failed, was restarted or ran at the same time,
\* but for what a lost update or a decrease for other labels than the request's has missed, one for
\* each VM whose creation reported an address and an error, and what requests ended by sys.exit had not
\* made (getservers_service, create_vms, create_vms_single_host, increase_reserved, decrease_reserved).
THEOREM ReservationsReturn == ASSUME IsFiniteSet(Requests) PROVE Spec => []ReservedReturns
  <1>1. Accounts => ReservedReturns
    <2> SUFFICES ASSUME Accounts, Idle, NEW l \in DOMAIN reserved
                 PROVE  reserved[l] <= stray[l] +
                           FoldFunction(+, 0, [r \in {s \in Requests : l \in Keys(LabelsFor[s])} |-> LeftBehind(r)])
      BY DEF ReservedReturns
    <2>1. reserved[l] <= stray[l] + Total([r \in For(l) |-> Owes(r)])
      BY DEF Accounts, Balanced
    <2>2. ASSUME NEW r \in Requests PROVE Owes(r) = LeftBehind(r)
      <3>1. pc[r] \in Owing <=> pc[r] = "exited"
        BY DEF Idle, Owing, Busy
      <3> QED
        BY <3>1 DEF Owes, Debt, LeftBehind
    <2>3. [r \in For(l) |-> Owes(r)] = [r \in {s \in Requests : l \in Keys(LabelsFor[s])} |-> LeftBehind(r)]
      BY <2>2 DEF For
    <2> QED
      BY <2>1, <2>3 DEF Total
  <1>2. Init /\ Inv => Accounts
    BY InitAccounts DEF Inv
  <1>3. Inv' /\ Accounts /\ [Next]_vars => Accounts'
    BY NextAccounts
  <1> QED
    BY <1>1, <1>2, <1>3, Invariant, PTL DEF Spec
=============================================================================
