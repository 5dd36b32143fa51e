---------------------------- MODULE DynVmProofs -----------------------------
(***************************************************************************)
(* Proofs about DynVm, for any hosts, requests, labels, users and faults:  *)
(* type correctness, and that an answer of an all-or-none request keeps    *)
(* its promise.                                                            *)
(***************************************************************************)
EXTENDS DynVm, FiniteSetTheorems, TLAPS

-----------------------------------------------------------------------------
(* The invariant. *)

AllNames(r) == GenerateVmNames(r, CountOf[r])
LateNames(r) == {v[2] : v \in q[r].late}
AtWork == {"clone", "ip", "record", "save", "vet"}

Where == {"new"} \cup Busy \cup Answers

\* The local variables x of a request that is at w.  What it has and what it needs are all its
\* names, and what it makes on a host is needed.
Fits(r, x, w) ==
    /\ x \in Locals /\ w \in Where /\ x.idx > 0
    /\ x.need \cup x.got = AllNames(r) /\ x.need \cap x.got = {}
    /\ x.batch \cup x.made \subseteq x.need /\ x.batch \cap x.made = {}
    /\ w \in {"new", "look", "admit", "host", "giveback"} => x.batch = {} /\ x.made = {}
    /\ w = "vet" => x.batch = {}
    /\ w \in AtWork => x.idx \in DOMAIN x.avail
    /\ w \in AtWork \ {"vet"} => x.batch # {}

\* A name that was made runs on some host, unless somebody wanted it deleted or it was reported
\* with an error.
Runs(n) == \E h \in HostSet : <<h, n>> \in up
Kept(r) ==
    pc[r] \notin {"rollback", "failed", "lost"} =>
       \A n \in (q[r].got \cup q[r].made) \ (asked \cup LateNames(r)) : Runs(n)

\* The VM whose timer was started still runs as its document is written.
Saved(r) ==
    pc[r] = "save" => LET n == FirstName(q[r].batch) IN n \in asked \/ <<At(r), n>> \in up

\* An answer of an all-or-none request is complete.
Complete(r) == pc[r] = "ok" /\ r \in AllOrNone => q[r].need = {}

\* Whoever deletes VMs of a request that is not rolled back was asked to.
Entitled(t) ==
    /\ t \notin Requests => job[t].todo \subseteq asked
    /\ t \in Requests => job[t].todo \subseteq AllNames(t) /\ (job[t].at # "idle" => pc[t] = "rollback")
    /\ job[t].at # "idle" => job[t].todo # {}

Good(r) == Kept(r) /\ Saved(r) /\ Complete(r)

\* What the requests share.
Shared ==
    /\ up \subseteq Vms /\ IsFiniteSet(up) /\ timer \subseteq Vms
    /\ doc \in [Vms -> {"none", "deleted"} \cup Open]
    /\ extended \subseteq Vms /\ rows \subseteq Vms /\ row \in Vms \cup {NoRow}
    /\ reserved \in [Labels \cup {NoLabel} -> Nat] /\ stray \in [Labels \cup {NoLabel} -> Nat]
    /\ linked \in BOOLEAN
    /\ job \in [Threads -> Job] /\ asked \subseteq Names /\ faults \in 0..MaxFaults

Locally == /\ pc \in [Requests -> Where] /\ q \in [Requests -> Locals]
           /\ \A r \in Requests : Fits(r, q[r], pc[r])

Sound == Shared /\ Locally
Inv == /\ Sound /\ \A t \in Threads : Entitled(t)
       /\ \A r \in Requests : Good(r)

-----------------------------------------------------------------------------
(* Names, and the first of them. *)

\* A set of numbers has a least one.
LEMMA Least == ASSUME NEW T, T \subseteq Nat, T # {} PROVE \E x \in T : \A y \in T : x <= y
  <1>1. PICK x \in T : \A y \in T : ~(<<y, x>> \in OpToRel(<, Nat))
    <2>1. IsWellFoundedOn(OpToRel(<, Nat), Nat)
      BY NatLessThanWellFounded
    <2> QED
      BY <2>1, WFMin, Zenon
  <1>2. \A y \in T : ~(y < x)
    BY <1>1 DEF OpToRel
  <1> QED
    BY <1>2

\* The names of a request are its own, and numbered.
LEMMA NameFacts ==
    /\ \A r \in Requests : AllNames(r) \subseteq Names /\ AllNames(r) # {} /\ IsFiniteSet(AllNames(r))
    /\ \A n \in Names : n = <<n[1], n[2]>> /\ n[1] \in Requests /\ n[2] \in Nat
    /\ \A r \in Requests : \A n \in AllNames(r) : n[1] = r
  <1> USE DynVmAssumption
  <1>1. ASSUME NEW r \in Requests
        PROVE  /\ \A n \in AllNames(r) : n = <<r, n[2]>> /\ n[1] = r /\ n[2] \in Nat
               /\ AllNames(r) # {} /\ IsFiniteSet(AllNames(r))
    <2>1. CASE CountOf[r] = 1
      <3>1. AllNames(r) = {<<r, 0>>}
        BY <2>1 DEF AllNames, GenerateVmNames
      <3>2. IsFiniteSet(AllNames(r))
        <4>1. \A x : IsFiniteSet({x})
          BY FS_Singleton, Zenon
        <4> QED
          BY <3>1, <4>1, ZenonT(40)
      <3>3. \A n \in AllNames(r) : n = <<r, n[2]>> /\ n[1] = r /\ n[2] \in Nat
        BY <3>1
      <3> QED
        BY <3>1, <3>2, <3>3
    <2>2. CASE CountOf[r] # 1
      <3>1. AllNames(r) = {<<r, i>> : i \in 1..CountOf[r]} /\ CountOf[r] \in Nat /\ 1 \in 1..CountOf[r]
        BY <2>2 DEF AllNames, GenerateVmNames
      <3>2. IsFiniteSet(1..CountOf[r])
        BY <3>1, FS_Interval
      <3>3. IsFiniteSet(AllNames(r))
        <4> DEFINE name == [i \in 1..CountOf[r] |-> <<r, i>>]
        <4>1. name \in Surjection(1..CountOf[r], AllNames(r))
          BY <3>1 DEF Surjection
        <4> QED
          BY <3>2, <4>1, FS_Surjection, ZenonT(60)
      <3>4. \A n \in AllNames(r) : n = <<r, n[2]>> /\ n[1] = r /\ n[2] \in Nat
        BY <3>1
      <3>5. <<r, 1>> \in AllNames(r)
        BY <3>1
      <3> QED
        BY <3>3, <3>4, <3>5
    <2> QED
      BY <2>1, <2>2
  <1>2. Names = UNION {AllNames(r) : r \in Requests}
    BY DEF Names, AllNames
  <1> QED
    BY <1>1, <1>2

\* The first of some names is one of them.
LEMMA FirstIn == ASSUME NEW S, S \subseteq Names, S # {} PROVE FirstName(S) \in S
  <1> DEFINE T == {n[2] : n \in S}
  <1>1. T \subseteq Nat /\ T # {}
    BY NameFacts
  <1>2. PICK x \in T : \A y \in T : x <= y
    BY <1>1, Least
  <1>3. \E n \in S : \A m \in S : n[2] <= m[2]
    BY <1>2
  <1> QED
    BY <1>3 DEF FirstName

\* The number of VMs on a host.
LEMMA RunningCount == ASSUME NEW h, IsFiniteSet(up) PROVE Cardinality(RunningOn(h)) \in Nat
  <1>1. RunningOn(h) \subseteq up
    BY DEF RunningOn
  <1> QED
    BY <1>1, FS_Subset, FS_CardinalityType

\* The larger and the smaller of two numbers.
LEMMA Extremes == ASSUME NEW a \in Int, NEW b \in Int
    PROVE  /\ Max({a, b}) \in {a, b} /\ Max({a, b}) >= a /\ Max({a, b}) >= b
           /\ Min({a, b}) \in {a, b}
  <1>1. \E x \in {a, b} : \A y \in {a, b} : x >= y
    OBVIOUS
  <1>2. \E x \in {a, b} : \A y \in {a, b} : x =< y
    OBVIOUS
  <1> QED
    BY <1>1, <1>2 DEF Max, Min

\* What a host can take.
LEMMA AvailableType == ASSUME IsFiniteSet(up), NEW h \in HostSet PROVE AvailableCount(h) \in Nat
  <1> DEFINE used == Cardinality(RunningOn(h))
             least == Min({MaxOf[h] - used, RoomOf[h] - used})
  <1>1. used \in Nat /\ MaxOf[h] \in Nat /\ RoomOf[h] \in Nat
    BY RunningCount, DynVmAssumption
  <1>2. least \in Int
    <2>1. MaxOf[h] - used \in Int /\ RoomOf[h] - used \in Int
      BY <1>1
    <2> QED
      BY <2>1, Extremes
  <1>3. Max({0, least}) \in Int /\ Max({0, least}) >= 0
    <2> HIDE DEF least
    <2>1. 0 \in Int /\ least \in Int
      BY <1>2
    <2> QED
      BY <2>1, Extremes
  <1> QED
    BY <1>3 DEF AvailableCount

\* The reservations stay natural numbers.
LEMMA ReservedType ==
    ASSUME NEW D, NEW res \in [D -> Nat], NEW count \in Int, NEW labels
    PROVE  /\ Decrease(res, count, labels) \in [D -> Nat]
           /\ count >= 0 => Increase(res, count, labels) \in [D -> Nat]
  BY DEF Decrease, Increase

\* So do those that are stray, and a counter grows by no more than what is new or stray.
LEMMA StoreFacts ==
    ASSUME NEW D, reserved \in [D -> Nat], stray \in [D -> Nat], NEW r \in Requests, NEW new \in [D -> Nat],
           NEW count \in Nat, NEW labels, Store(r, new, count, labels)
    PROVE  /\ reserved' \in [D -> Nat] /\ stray' \in [D -> Nat]
           /\ \A l \in D :
                 /\ reserved'[l] <= new[l] + (stray'[l] - stray[l]) /\ stray'[l] >= stray[l]
                 /\ l \in Keys(LabelsFor[r]) \ Keys(labels) /\ new[l] = reserved[l] =>
                       reserved'[l] + count <= new[l] + (stray'[l] - stray[l])
  <1>1. PICK lost \in SUBSET {l \in D : new[l] # reserved[l]} :
           /\ reserved' = [l \in D |-> IF l \in lost THEN reserved[l] ELSE new[l]]
           /\ stray' = [l \in D |-> stray[l] +
                           IF l \in lost /\ new[l] < reserved[l] THEN reserved[l] - new[l]
                           ELSE IF l \in Keys(LabelsFor[r]) \ Keys(labels) THEN count ELSE 0]
    BY DEF Store
  <1>2. ASSUME NEW l \in D
        PROVE  /\ reserved'[l] \in Nat /\ stray'[l] \in Nat
               /\ reserved'[l] <= new[l] + (stray'[l] - stray[l]) /\ stray'[l] >= stray[l]
               /\ l \in Keys(LabelsFor[r]) \ Keys(labels) /\ new[l] = reserved[l] =>
                     reserved'[l] + count <= new[l] + (stray'[l] - stray[l])
    <2>1. reserved[l] \in Nat /\ stray[l] \in Nat /\ new[l] \in Nat
      OBVIOUS
    <2>2. /\ reserved'[l] = IF l \in lost THEN reserved[l] ELSE new[l]
          /\ stray'[l] = stray[l] + IF l \in lost /\ new[l] < reserved[l] THEN reserved[l] - new[l]
                                    ELSE IF l \in Keys(LabelsFor[r]) \ Keys(labels) THEN count ELSE 0
      BY <1>1
    <2>3. l \in lost => new[l] # reserved[l]
      BY <1>1
    <2> QED
      BY <2>1, <2>2, <2>3
  <1>3. reserved' \in [D -> Nat]
    BY <1>1, <1>2
  <1>4. stray' \in [D -> Nat]
    <2>1. DOMAIN stray' = D /\ stray' = [l \in D |-> stray'[l]]
      BY <1>1
    <2> QED
      BY <1>2, <2>1
  <1> QED
    BY <1>2, <1>3, <1>4

\* The counters stay well typed.
LEMMA CountersType ==
    ASSUME NEW D, reserved \in [D -> Nat], stray \in [D -> Nat], NEW r \in Requests, NEW count \in Nat, NEW labels,
           IncreaseReserved(r, count) \/ DecreaseReserved(r, count, labels)
    PROVE  reserved' \in [D -> Nat] /\ stray' \in [D -> Nat]
  <1>1. Increase(reserved, count, LabelsFor[r]) \in [D -> Nat] /\ Decrease(reserved, count, labels) \in [D -> Nat]
    BY ReservedType
  <1>2. CASE IncreaseReserved(r, count)
    BY <1>1, <1>2, StoreFacts DEF IncreaseReserved
  <1>3. CASE DecreaseReserved(r, count, labels)
    BY <1>1, <1>3, StoreFacts DEF DecreaseReserved
  <1> QED
    BY <1>2, <1>3

-----------------------------------------------------------------------------
(* One request moves. *)

\* Its local variables become x and it is at w; the others stay.
Moved(r, x, w) == q' = [q EXCEPT ![r] = x] /\ pc' = [pc EXCEPT ![r] = w]

\* The others stay as they are.
LEMMA MovedFacts ==
    ASSUME Locally, NEW r \in Requests, NEW x, NEW w, Moved(r, x, w), Fits(r, x, w)
    PROVE  /\ Locally' /\ q'[r] = x /\ pc'[r] = w
           /\ \A s \in Requests \ {r} : q'[s] = q[s] /\ pc'[s] = pc[s]
  <1>1. x \in Locals /\ w \in Where
    BY DEF Fits
  <1>2. /\ q' \in [Requests -> Locals] /\ pc' \in [Requests -> Where] /\ q'[r] = x /\ pc'[r] = w
        /\ \A s \in Requests \ {r} : q'[s] = q[s] /\ pc'[s] = pc[s]
    BY <1>1 DEF Moved, Locally
  <1>3. \A s \in Requests : Fits(s, q'[s], pc'[s])
    BY <1>2 DEF Locally
  <1>4. Locally'
    BY <1>2, <1>3 DEF Locally, Fits, AllNames
  <1> QED
    BY <1>2, <1>4

Serving == ({"new"} \cup Busy) \ {"rollback"}

\* The request goes on: it gains no name but the new ones, and forgets no error.
Goes(r, new) ==
    /\ Locally' /\ \A s \in Requests \ {r} : q'[s] = q[s] /\ pc'[s] = pc[s]
    /\ q[r].late \subseteq q'[r].late /\ q'[r].got \cup q'[r].made \subseteq q[r].got \cup q[r].made \cup new
    /\ pc[r] \in Serving

\* From where it moves to.
LEMMA MovedGoes ==
    ASSUME Locally, NEW r \in Requests, NEW x, NEW w, NEW new, Moved(r, x, w), Fits(r, x, w),
           q[r].late \subseteq x.late, x.got \cup x.made \subseteq q[r].got \cup q[r].made \cup new,
           pc[r] \in Serving
    PROVE  Goes(r, new) /\ q'[r] = x /\ pc'[r] = w
  BY MovedFacts DEF Goes

\* It only moves on.
LEMMA Passes ==
    ASSUME Locally, NEW r \in Requests, NEW w, q' = q, Goto(r, w), Fits(r, q[r], w),
           pc[r] \in Serving
    PROVE  Goes(r, {}) /\ q' = q /\ pc'[r] = w
  <1>1. Moved(r, q[r], w)
    BY DEF Moved, Goto, Locally
  <1> QED
    BY <1>1, MovedGoes

\* The fields of the local variables.
LEMMA LocalFields ==
    ASSUME NEW x \in Locals
    PROVE  /\ x.avail \in Seq([host : HostSet, n : Nat]) /\ x.idx \in Nat /\ x.need \subseteq Names
           /\ x.batch \subseteq Names /\ x.made \subseteq Names /\ x.vetted \subseteq Names
           /\ x.got \subseteq Names /\ x.late \subseteq Vms /\ x.tries \in 0..(IpAttempts - 1)
  BY DEF Locals

\* The host and the name a request works on.
LEMMA WorkedOn ==
    ASSUME Locally, NEW r \in Requests, pc[r] \in AtWork
    PROVE  /\ At(r) \in HostSet
           /\ pc[r] # "vet" => /\ FirstName(q[r].batch) \in q[r].batch
                               /\ <<At(r), FirstName(q[r].batch)>> \in Vms
  <1>1. q[r] \in Locals /\ Fits(r, q[r], pc[r])
    BY DEF Locally
  <1>2. q[r].avail \in Seq([host : HostSet, n : Nat]) /\ q[r].idx \in DOMAIN q[r].avail /\ q[r].batch \subseteq Names
    BY <1>1, LocalFields DEF Fits
  <1>3. q[r].avail[q[r].idx] \in [host : HostSet, n : Nat]
    <2>1. \A S : \A z \in Seq(S) : \A i \in DOMAIN z : z[i] \in S
      OBVIOUS
    <2> QED
      BY <1>2, <2>1, Zenon
  <1>4. At(r) \in HostSet
    BY <1>3 DEF At
  <1>5. ASSUME pc[r] # "vet" PROVE FirstName(q[r].batch) \in q[r].batch
    <2>1. q[r].batch # {}
      BY <1>1, <1>5 DEF Fits
    <2> QED
      BY <1>2, <2>1, FirstIn
  <1> QED
    BY <1>2, <1>4, <1>5 DEF Vms

\* getservers_service begins.
LEMMA ReserveGoes == ASSUME Locally, NEW r \in Requests, Reserve(r) PROVE Goes(r, {}) /\ pc'[r] \in {"host", "look"}
  <1>1. q[r] \in Locals /\ Fits(r, q[r], pc[r]) /\ pc[r] = "new"
    BY DEF Locally, Reserve
  <1>2. CASE Pinned(r)
    <2> DEFINE av == <<[host |-> PinnedTo[r], n |-> CountOf[r]]>>
               x == [q[r] EXCEPT !.avail = av]
    <2>1. av \in Seq([host : HostSet, n : Nat])
      BY <1>2, DynVmAssumption DEF Pinned
    <2>2. Moved(r, x, "host")
      BY <1>2 DEF Reserve, Goto, Moved
    <2> HIDE DEF av
    <2>3. /\ x \in Locals /\ x.idx = q[r].idx /\ x.need = q[r].need /\ x.batch = q[r].batch /\ x.made = q[r].made
          /\ x.got = q[r].got /\ x.late = q[r].late
      BY <1>1, <2>1 DEF Locals
    <2> HIDE DEF x
    <2>4. Fits(r, x, "host")
      BY <1>1, <2>3 DEF Fits, Where, Busy, AtWork
    <2> QED
      BY <1>1, <2>2, <2>3, <2>4, MovedGoes DEF Serving
  <1>3. CASE ~Pinned(r)
    <2>1. q' = q /\ Goto(r, "look")
      BY <1>3 DEF Reserve
    <2>2. Fits(r, q[r], "look")
      BY <1>1 DEF Fits, Where, Busy, AtWork
    <2> QED
      BY <1>1, <2>1, <2>2, Passes DEF Serving
  <1> QED
    BY <1>2, <1>3

\* It has looked at a host, or at all of them.
LEMMA LookGoes ==
    ASSUME Locally, IsFiniteSet(up), NEW r \in Requests, Look(r) PROVE Goes(r, {}) /\ pc'[r] \in {"look", "admit"}
  <1>1. q[r] \in Locals /\ Fits(r, q[r], pc[r]) /\ pc[r] = "look" /\ pc[r] \in Serving
    BY DEF Locally, Look, Serving, Busy
  <1> DEFINE i == Len(q[r].avail) + 1
  <1>2. CASE Goto(r, "admit") /\ q' = q
    <2>1. Fits(r, q[r], "admit")
      BY <1>1 DEF Fits, Where, Busy, AtWork
    <2> QED
      BY <1>1, <1>2, <2>1, Passes
  <1>3. ASSUME i <= Len(Hosts), NEW n \in {0, AvailableCount(Hosts[i])}, pc' = pc,
               q' = [q EXCEPT ![r].avail = Append(@, [host |-> Hosts[i], n |-> n])]
        PROVE  Goes(r, {}) /\ pc'[r] = "look"
    <2> DEFINE av == Append(q[r].avail, [host |-> Hosts[i], n |-> n])
               x == [q[r] EXCEPT !.avail = av]
    <2>1. q[r].avail \in Seq([host : HostSet, n : Nat])
      BY <1>1, LocalFields
    <2>2. Hosts[i] \in HostSet
      <3>1. Hosts \in Seq(HostSet) /\ Len(q[r].avail) \in Nat
        BY <2>1, DynVmAssumption
      <3> QED
        BY <1>3, <3>1
    <2>3. n \in Nat
      BY <2>2, AvailableType
    <2>4. av \in Seq([host : HostSet, n : Nat])
      BY <2>1, <2>2, <2>3
    <2>5. Moved(r, x, "look")
      BY <1>1, <1>3 DEF Moved, Locally
    <2> HIDE DEF av
    <2>6. /\ x \in Locals /\ x.idx = q[r].idx /\ x.need = q[r].need /\ x.batch = q[r].batch /\ x.made = q[r].made
          /\ x.got = q[r].got /\ x.late = q[r].late
      BY <1>1, <2>4 DEF Locals
    <2> HIDE DEF x
    <2>7. Fits(r, x, "look")
      BY <1>1, <2>6 DEF Fits, Where, Busy, AtWork
    <2> QED
      BY <1>1, <2>5, <2>6, <2>7, MovedGoes
  <1> QED
    BY <1>2, <1>3 DEF Look

\* It is admitted or refused.
LEMMA AdmitGoes ==
    ASSUME Locally, NEW r \in Requests, Admit(r) PROVE Goes(r, {}) /\ pc'[r] \in {"host", "refused"}
  <1>1. q[r] \in Locals /\ Fits(r, q[r], pc[r]) /\ pc[r] = "admit"
    BY DEF Locally, Admit
  <1>2. q' = q /\ (Goto(r, "host") \/ Goto(r, "refused"))
    BY DEF Admit
  <1>3. Fits(r, q[r], "host") /\ Fits(r, q[r], "refused")
    BY <1>1 DEF Fits, Where, Busy, Answers, AtWork
  <1> QED
    BY <1>1, <1>2, <1>3, Passes DEF Serving, Busy

\* A host has failed.
LEMMA HostFailsGoes ==
    ASSUME Locally, NEW r \in Requests, HostFails(r), pc[r] \in Serving
    PROVE  Goes(r, {}) /\ pc'[r] \in {"host", "giveback"}
  <1>1. q[r] \in Locals /\ Fits(r, q[r], pc[r])
    BY DEF Locally
  <1> DEFINE x == [q[r] EXCEPT !.idx = @ + 1, !.batch = {}, !.made = {}, !.vetted = {}]
             w == IF Pinned(r) THEN "giveback" ELSE "host"
  <1>2. Moved(r, x, w)
    BY DEF HostFails, Goto, Moved, Locally
  <1>3. /\ x \in Locals /\ x.idx = q[r].idx + 1 /\ x.need = q[r].need /\ x.batch = {} /\ x.made = {}
        /\ x.got = q[r].got /\ x.late = q[r].late
    <2>1. q[r].idx \in Nat /\ q[r].idx + 1 \in Nat
      BY <1>1, LocalFields
    <2> QED
      BY <1>1, <2>1 DEF Locals
  <1> HIDE DEF x
  <1>4. q[r].idx \in Nat
    BY <1>1, LocalFields
  <1>5. Fits(r, x, w) /\ w \in {"host", "giveback"}
    BY <1>1, <1>3, <1>4 DEF Fits, Where, Busy, Answers, AtWork
  <1> HIDE DEF w
  <1> QED
    BY <1>1, <1>2, <1>3, <1>5, MovedGoes

\* It goes to the next host, or begins there.
LEMMA NextHostGoes ==
    ASSUME Locally, NEW r \in Requests, NextHost(r)
    PROVE  Goes(r, {}) /\ pc'[r] \in {"settle", "host", "giveback", "clone"}
  <1>1. q[r] \in Locals /\ Fits(r, q[r], pc[r]) /\ pc[r] = "host" /\ pc[r] \in Serving
    BY DEF Locally, NextHost, Serving, Busy
  <1>2. q[r].idx \in Nat /\ q[r].idx > 0 /\ q[r].avail \in Seq([host : HostSet, n : Nat]) /\ q[r].need \subseteq Names
    BY <1>1, LocalFields DEF Fits
  <1>3. CASE Goto(r, "settle") /\ q' = q
    <2>1. Fits(r, q[r], "settle")
      BY <1>1 DEF Fits, Where, Busy, AtWork
    <2> QED
      BY <1>1, <1>3, <2>1, Passes
  <1>4. CASE q' = [q EXCEPT ![r].idx = @ + 1] /\ pc' = pc
    <2> DEFINE x == [q[r] EXCEPT !.idx = @ + 1]
    <2>1. Moved(r, x, "host")
      BY <1>1, <1>4 DEF Moved, Locally
    <2>2. /\ x \in Locals /\ x.idx = q[r].idx + 1 /\ x.need = q[r].need /\ x.batch = q[r].batch /\ x.made = q[r].made
          /\ x.got = q[r].got /\ x.late = q[r].late
      <3>1. q[r].idx + 1 \in Nat
        BY <1>2
      <3> QED
        BY <1>1, <3>1 DEF Locals
    <2> HIDE DEF x
    <2>3. Fits(r, x, "host")
      BY <1>1, <1>2, <2>2 DEF Fits, Where, Busy, AtWork
    <2> QED
      BY <1>1, <2>1, <2>2, <2>3, MovedGoes
  <1>5. CASE HostFails(r)
    BY <1>1, <1>5, HostFailsGoes
  <1>6. ASSUME NEW k, k > 0, NEW batch \in kSubset(k, q[r].need), q' = [q EXCEPT ![r].batch = batch],
               Goto(r, "clone"), q[r].idx <= Len(q[r].avail)
        PROVE  Goes(r, {}) /\ pc'[r] = "clone"
    <2> DEFINE x == [q[r] EXCEPT !.batch = batch]
    <2>1. batch \subseteq q[r].need /\ batch # {}
      <3>1. batch \subseteq q[r].need /\ Cardinality(batch) = k
        BY <1>6 DEF kSubset
      <3>2. Cardinality({}) = 0
        BY FS_EmptySet
      <3>3. batch = {} => 0 > 0
        BY <1>6, <3>1, <3>2, Zenon
      <3>4. ~(0 > 0)
        OBVIOUS
      <3> QED
        BY <3>1, <3>3, <3>4
    <2>2. Moved(r, x, "clone")
      BY <1>6 DEF Moved, Goto, Locally
    <2>3. /\ x \in Locals /\ x.avail = q[r].avail /\ x.idx = q[r].idx /\ x.need = q[r].need /\ x.batch = batch
          /\ x.made = q[r].made /\ x.got = q[r].got /\ x.late = q[r].late
      BY <1>1, <1>2, <2>1 DEF Locals
    <2> HIDE DEF x
    <2>4. q[r].idx \in DOMAIN q[r].avail
      BY <1>2, <1>6
    <2>5. Fits(r, x, "clone")
      BY <1>1, <2>1, <2>3, <2>4 DEF Fits, Where, Busy, AtWork
    <2> QED
      BY <1>1, <2>2, <2>3, <2>5, MovedGoes
  <1>7. \/ Goto(r, "settle") /\ q' = q
        \/ q' = [q EXCEPT ![r].idx = @ + 1] /\ pc' = pc
        \/ HostFails(r)
        \/ \E k : \E batch \in kSubset(k, q[r].need) :
              k > 0 /\ q' = [q EXCEPT ![r].batch = batch] /\ Goto(r, "clone") /\ q[r].idx <= Len(q[r].avail)
    BY DEF NextHost
  <1> QED
    BY <1>3, <1>4, <1>5, <1>6, <1>7

\* It goes to the next name.
LEMMA NextNameGoes ==
    ASSUME Locally, NEW r \in Requests, pc[r] \in AtWork \ {"vet"},
           NEW new \in SUBSET {FirstName(q[r].batch)}, NextName(r, new)
    PROVE  Goes(r, new) /\ pc'[r] \in {"vet", "clone"}
  <1> DEFINE n == FirstName(q[r].batch)
             x == [q[r] EXCEPT !.batch = @ \ {n}, !.made = @ \cup new, !.tries = 0]
             w == IF q[r].batch = {n} THEN "vet" ELSE "clone"
  <1>1. q[r] \in Locals /\ Fits(r, q[r], pc[r]) /\ pc[r] \in Serving /\ n \in q[r].batch
    BY WorkedOn DEF Locally, Serving, Busy, AtWork
  <1>2. Moved(r, x, w)
    BY DEF NextName, Goto, Moved, Locally
  <1> HIDE DEF n
  <1>3. q[r].batch \subseteq Names /\ q[r].made \subseteq Names /\ q[r].batch \subseteq q[r].need /\ new \subseteq {n}
    BY <1>1, LocalFields DEF Fits, n
  <1>4. /\ x \in Locals /\ x.avail = q[r].avail /\ x.idx = q[r].idx /\ x.need = q[r].need
        /\ x.batch = q[r].batch \ {n} /\ x.made = q[r].made \cup new /\ x.got = q[r].got /\ x.late = q[r].late
    <2>1. q[r].batch \ {n} \in SUBSET Names /\ q[r].made \cup new \in SUBSET Names /\ 0 \in 0..(IpAttempts - 1)
      BY <1>1, <1>3 DEF IpAttempts
    <2> QED
      BY <1>1, <2>1 DEF Locals
  <1> HIDE DEF x
  <1>5. Fits(r, x, w) /\ w \in {"vet", "clone"}
    BY <1>1, <1>3, <1>4 DEF Fits, Where, Busy, AtWork
  <1> HIDE DEF w
  <1> QED
    BY <1>1, <1>2, <1>4, <1>5, MovedGoes

\* The same for a name with an address and an error.
LEMMA NextLateGoes ==
    ASSUME Locally, NEW r \in Requests, pc[r] \in AtWork \ {"vet"}, NextLate(r)
    PROVE  /\ Goes(r, {FirstName(q[r].batch)}) /\ pc'[r] \in {"vet", "clone"}
           /\ <<At(r), FirstName(q[r].batch)>> \in q'[r].late
  <1> DEFINE n == FirstName(q[r].batch)
             v == <<At(r), n>>
             x == [q[r] EXCEPT !.batch = @ \ {n}, !.made = @ \cup {n}, !.late = @ \cup {v}, !.tries = 0]
             w == IF q[r].batch = {n} THEN "vet" ELSE "clone"
  <1>1. q[r] \in Locals /\ Fits(r, q[r], pc[r]) /\ pc[r] \in Serving /\ n \in q[r].batch /\ v \in Vms
    BY WorkedOn DEF Locally, Serving, Busy, AtWork
  <1>2. Moved(r, x, w)
    BY DEF NextLate, Goto, Moved, Locally
  <1> HIDE DEF n, v
  <1>3. q[r].batch \subseteq Names /\ q[r].made \subseteq Names /\ q[r].batch \subseteq q[r].need /\ q[r].late \subseteq Vms
    BY <1>1, LocalFields DEF Fits
  <1>4. /\ x \in Locals /\ x.avail = q[r].avail /\ x.idx = q[r].idx /\ x.need = q[r].need
        /\ x.batch = q[r].batch \ {n} /\ x.made = q[r].made \cup {n} /\ x.got = q[r].got
        /\ x.late = q[r].late \cup {v}
    <2>1. /\ q[r].batch \ {n} \in SUBSET Names /\ q[r].made \cup {n} \in SUBSET Names
          /\ q[r].late \cup {v} \in SUBSET Vms /\ 0 \in 0..(IpAttempts - 1)
      BY <1>1, <1>3 DEF IpAttempts
    <2> QED
      BY <1>1, <2>1 DEF Locals
  <1> HIDE DEF x
  <1>5. Fits(r, x, w) /\ w \in {"vet", "clone"}
    BY <1>1, <1>3, <1>4 DEF Fits, Where, Busy, AtWork
  <1> HIDE DEF w
  <1>6. Goes(r, {n}) /\ q'[r] = x /\ pc'[r] = w
    BY <1>1, <1>2, <1>4, <1>5, MovedGoes
  <1> QED
    BY <1>4, <1>5, <1>6 DEF n, v

\* The name that a request works on is made and late, or nothing is made.
Made(r) ==
    \/ Goes(r, {})
    \/ Goes(r, {FirstName(q[r].batch)}) /\ <<At(r), FirstName(q[r].batch)>> \in q'[r].late

\* It was not made, or is late.
LEMMA UnmadeGoes ==
    ASSUME Locally, NEW r \in Requests, pc[r] \in AtWork \ {"vet"}, NextName(r, {}) \/ NextLate(r) \/ Unmade(r)
    PROVE  Made(r) /\ pc'[r] \in {"vet", "clone"}
  <1>1. CASE NextName(r, {})
    BY <1>1, NextNameGoes DEF Made
  <1>2. CASE NextLate(r)
    BY <1>2, NextLateGoes DEF Made
  <1> QED
    BY <1>1, <1>2 DEF Unmade

\* A VM is cloned, or not.
LEMMA CloneGoes ==
    ASSUME Locally, NEW r \in Requests, Clone(r)
    PROVE  /\ Made(r) /\ pc'[r] \in {"ip", "vet", "clone", "exited"}
           /\ up' \in {up, up \cup {<<At(r), FirstName(q[r].batch)>>}}
  <1>1. Fits(r, q[r], pc[r]) /\ pc[r] = "clone" /\ pc[r] \in Serving /\ pc[r] \in AtWork \ {"vet"}
    BY DEF Locally, Clone, Serving, Busy, AtWork
  <1>2. up' \in {up, up \cup {<<At(r), FirstName(q[r].batch)>>}}
    BY DEF Clone
  <1>3. CASE (Goto(r, "ip") \/ Goto(r, "exited")) /\ q' = q
    <2>1. Fits(r, q[r], "ip") /\ Fits(r, q[r], "exited")
      BY <1>1 DEF Fits, Where, Busy, Answers, AtWork
    <2> QED
      BY <1>1, <1>2, <1>3, <2>1, Passes DEF Made
  <1>4. CASE Unmade(r)
    BY <1>1, <1>2, <1>4, UnmadeGoes
  <1> QED
    BY <1>3, <1>4 DEF Clone

\* It waits for the address.
LEMMA GetIpGoes ==
    ASSUME Locally, NEW r \in Requests, GetIp(r)
    PROVE  /\ Made(r) /\ pc'[r] \in {"record", "vet", "clone"}
           /\ up' \in {up, up \ {<<At(r), FirstName(q[r].batch)>>}}
  <1>1. /\ Fits(r, q[r], pc[r]) /\ pc[r] = "ip" /\ pc[r] \in Serving /\ pc[r] \in AtWork \ {"vet"} /\ q[r] \in Locals
    BY DEF Locally, GetIp, Serving, Busy, AtWork
  <1>2. up' \in {up, up \ {<<At(r), FirstName(q[r].batch)>>}}
    BY DEF GetIp
  <1>3. CASE Goto(r, "record") /\ q' = q
    <2>1. Fits(r, q[r], "record")
      BY <1>1 DEF Fits, Where, Busy, AtWork
    <2> QED
      BY <1>1, <1>2, <1>3, <2>1, Passes DEF Made
  <1>4. CASE NextName(r, {}) \/ NextLate(r) \/ Unmade(r)
    BY <1>1, <1>2, <1>4, UnmadeGoes
  <1>5. CASE q[r].tries + 1 # IpAttempts /\ q' = [q EXCEPT ![r].tries = @ + 1] /\ Goto(r, "clone")
    <2> DEFINE x == [q[r] EXCEPT !.tries = @ + 1]
    <2>1. Moved(r, x, "clone")
      BY <1>5 DEF Moved, Goto, Locally
    <2>2. q[r].tries + 1 \in 0..(IpAttempts - 1)
      <3>1. q[r].tries \in 0..(IpAttempts - 1)
        BY <1>1, LocalFields
      <3> QED
        BY <1>5, <3>1 DEF IpAttempts
    <2>3. /\ x \in Locals /\ x.avail = q[r].avail /\ x.idx = q[r].idx /\ x.need = q[r].need /\ x.batch = q[r].batch
          /\ x.made = q[r].made /\ x.got = q[r].got /\ x.late = q[r].late
      BY <1>1, <2>2 DEF Locals
    <2> HIDE DEF x
    <2>4. Fits(r, x, "clone")
      BY <1>1, <2>3 DEF Fits, Where, Busy, AtWork
    <2>5. Goes(r, {}) /\ pc'[r] = "clone"
      BY <1>1, <2>1, <2>3, <2>4, MovedGoes
    <2> QED
      BY <1>2, <2>5 DEF Made
  <1> QED
    BY <1>3, <1>4, <1>5 DEF GetIp

\* The timer is started, or the VM is late.
LEMMA RecordGoes ==
    ASSUME Locally, NEW r \in Requests, Record(r)
    PROVE  LET n == FirstName(q[r].batch)
               v == <<At(r), n>>
           IN  /\ pc[r] = "record" /\ v \in Vms
               /\ \/ Goes(r, {}) /\ pc'[r] = "save" /\ q' = q /\ v \in up /\ up' = up /\ timer' = timer \cup {v}
                  \/ /\ Goes(r, {n}) /\ pc'[r] \in {"vet", "clone"} /\ v \in q'[r].late
                     /\ up' \in {up, up \ {v}} /\ timer' = timer
  <1> DEFINE v == <<At(r), FirstName(q[r].batch)>>
  <1>1. Fits(r, q[r], pc[r]) /\ pc[r] = "record" /\ pc[r] \in Serving /\ pc[r] \in AtWork \ {"vet"}
    BY DEF Locally, Record, Serving, Busy, AtWork
  <1>2. v \in Vms
    BY <1>1, WorkedOn
  <1>3. CASE Goto(r, "save") /\ q' = q /\ v \in up /\ up' = up /\ timer' = timer \cup {v}
    <2>1. Fits(r, q[r], "save")
      BY <1>1 DEF Fits, Where, Busy, AtWork
    <2> QED
      BY <1>1, <1>2, <1>3, <2>1, Passes
  <1>4. CASE NextLate(r) /\ up' \in {up, up \ {v}} /\ timer' = timer
    BY <1>1, <1>2, <1>4, NextLateGoes
  <1> QED
    BY <1>3, <1>4 DEF Record

\* The document is written.
LEMMA SaveGoes ==
    ASSUME Locally, NEW r \in Requests, Save(r)
    PROVE  Goes(r, {FirstName(q[r].batch)}) /\ pc[r] = "save" /\ pc'[r] \in {"vet", "clone"}
  <1>1. pc[r] = "save" /\ pc[r] \in AtWork \ {"vet"} /\ NextName(r, {FirstName(q[r].batch)})
    BY DEF Save, AtWork
  <1> QED
    BY <1>1, NextNameGoes

\* One VM is vetted.
LEMMA VetOneGoes ==
    ASSUME Locally, NEW r \in Requests, NEW n \in Names, VetOne(r, n)
    PROVE  Goes(r, {}) /\ pc'[r] \in {"vet", "host", "giveback"}
  <1>1. /\ Fits(r, q[r], pc[r]) /\ pc[r] = "vet" /\ pc[r] \in Serving /\ q[r] \in Locals
    BY DEF Locally, VetOne, Serving, Busy
  <1>2. CASE q' = [q EXCEPT ![r].vetted = @ \cup {n}] /\ pc' = pc
    <2> DEFINE x == [q[r] EXCEPT !.vetted = @ \cup {n}]
    <2>1. Moved(r, x, "vet")
      BY <1>1, <1>2 DEF Moved, Locally
    <2>2. q[r].vetted \subseteq Names
      BY <1>1, LocalFields
    <2>3. /\ x \in Locals /\ x.avail = q[r].avail /\ x.idx = q[r].idx /\ x.need = q[r].need /\ x.batch = q[r].batch
          /\ x.made = q[r].made /\ x.got = q[r].got /\ x.late = q[r].late
      BY <1>1, <2>2 DEF Locals
    <2> HIDE DEF x
    <2>4. Fits(r, x, "vet")
      BY <1>1, <2>3 DEF Fits, Where, Busy, AtWork
    <2> QED
      BY <1>1, <2>1, <2>3, <2>4, MovedGoes
  <1>3. CASE q' = [q EXCEPT ![r].made = @ \ {n}] /\ pc' = pc
    <2> DEFINE x == [q[r] EXCEPT !.made = @ \ {n}]
    <2>1. Moved(r, x, "vet")
      BY <1>1, <1>3 DEF Moved, Locally
    <2>2. q[r].made \subseteq Names
      BY <1>1, LocalFields
    <2>3. /\ x \in Locals /\ x.avail = q[r].avail /\ x.idx = q[r].idx /\ x.need = q[r].need /\ x.batch = q[r].batch
          /\ x.made = q[r].made \ {n} /\ x.got = q[r].got /\ x.late = q[r].late
      BY <1>1, <2>2 DEF Locals
    <2> HIDE DEF x
    <2>4. Fits(r, x, "vet")
      BY <1>1, <2>3 DEF Fits, Where, Busy, AtWork
    <2> QED
      BY <1>1, <2>1, <2>3, <2>4, MovedGoes
  <1>4. CASE HostFails(r)
    BY <1>1, <1>4, HostFailsGoes
  <1> QED
    BY <1>2, <1>3, <1>4 DEF VetOne

\* All of them are in order.
LEMMA VetEndGoes ==
    ASSUME Locally, NEW r \in Requests, VetEnd(r) PROVE Goes(r, {}) /\ pc'[r] \in {"settle", "host"}
  <1>1. /\ Fits(r, q[r], pc[r]) /\ pc[r] = "vet" /\ pc[r] \in Serving /\ q[r] \in Locals
    BY DEF Locally, VetEnd, Serving, Busy
  <1> DEFINE x == [q[r] EXCEPT !.got = @ \cup q[r].made, !.need = @ \ q[r].made, !.idx = @ + 1, !.made = {},
                               !.vetted = {}]
             w == IF Pinned(r) THEN "settle" ELSE "host"
  <1>2. Moved(r, x, w)
    BY DEF VetEnd, Goto, Moved, Locally
  <1>3. /\ q[r].got \subseteq Names /\ q[r].made \subseteq Names /\ q[r].need \subseteq Names /\ q[r].idx \in Nat
        /\ q[r].idx + 1 \in Nat
    BY <1>1, LocalFields
  <1>4. /\ x \in Locals /\ x.idx = q[r].idx + 1 /\ x.need = q[r].need \ q[r].made /\ x.batch = q[r].batch
        /\ x.made = {} /\ x.got = q[r].got \cup q[r].made /\ x.late = q[r].late
    BY <1>1, <1>3 DEF Locals
  <1> HIDE DEF x
  <1>5. Fits(r, x, w) /\ w \in {"settle", "host"}
    BY <1>1, <1>3, <1>4 DEF Fits, Where, Busy, AtWork
  <1> HIDE DEF w
  <1> QED
    BY <1>1, <1>2, <1>4, <1>5, MovedGoes

\* What was reserved is given back.
LEMMA GiveBackGoes ==
    ASSUME Locally, NEW r \in Requests, GiveBack(r) PROVE Goes(r, {}) /\ q' = q /\ pc'[r] = "failed"
  <1>1. q[r] \in Locals /\ Fits(r, q[r], pc[r]) /\ pc[r] = "giveback"
    BY DEF Locally, GiveBack
  <1>2. q' = q /\ Goto(r, "failed")
    BY DEF GiveBack
  <1>3. Fits(r, q[r], "failed")
    BY <1>1 DEF Fits, Where, Answers, AtWork
  <1> QED
    BY <1>1, <1>2, <1>3, Passes DEF Serving, Busy

\* The request is answered, or rolled back.
LEMMA SettleGoes ==
    ASSUME Locally, NEW r \in Requests, Settle(r)
    PROVE  /\ Goes(r, {}) /\ pc'[r] \in {"ok", "rollback"}
           /\ pc'[r] = "ok" /\ r \in AllOrNone => q'[r].need = {}
           /\ job' = IF pc'[r] = "rollback" THEN [job EXCEPT ![r] = Searching(AllNames(r))] ELSE job
  <1>1. /\ Fits(r, q[r], pc[r]) /\ pc[r] = "settle" /\ pc[r] \in Serving /\ q[r] \in Locals
    BY DEF Locally, Settle, Serving, Busy
  <1> DEFINE x == [q[r] EXCEPT !.avail = <<>>, !.idx = 1]
             w == IF q[r].need # {} /\ r \in AllOrNone THEN "rollback" ELSE "ok"
  <1>2. Moved(r, x, w)
    BY DEF Settle, Goto, Moved, Locally
  <1>3. /\ x \in Locals /\ x.idx = 1 /\ x.need = q[r].need /\ x.batch = q[r].batch
        /\ x.made = q[r].made /\ x.got = q[r].got /\ x.late = q[r].late
    <2>1. <<>> \in Seq([host : HostSet, n : Nat]) /\ 1 \in Nat
      OBVIOUS
    <2> QED
      BY <1>1, <2>1 DEF Locals
  <1> HIDE DEF x
  <1>4. Fits(r, x, w) /\ w \in {"ok", "rollback"}
    BY <1>1, <1>3 DEF Fits, Where, Busy, Answers, AtWork
  <1>5. Goes(r, {}) /\ q'[r] = x /\ pc'[r] = w
    <2> HIDE DEF w
    <2> QED
      BY <1>1, <1>2, <1>3, <1>4, MovedGoes
  <1>6. job' = IF w = "rollback" THEN [job EXCEPT ![r] = Searching(AllNames(r))] ELSE job
    BY DEF Settle, AllNames
  <1> QED
    BY <1>3, <1>4, <1>5, <1>6

-----------------------------------------------------------------------------
(* What the requests share. *)

\* The record of a call of release_servers changes.
LEMMA JobFacts ==
    ASSUME job \in [Threads -> Job], NEW t \in Threads, NEW x \in Job, job' = [job EXCEPT ![t] = x]
    PROVE  job' \in [Threads -> Job] /\ job'[t] = x /\ \A u \in Threads \ {t} : job'[u] = job[u]
  OBVIOUS

\* Its fields.
LEMMA JobFields ==
    ASSUME NEW x \in Job
    PROVE  /\ x.at \in {"idle", "find", "delete", "mark"} /\ x.todo \subseteq Names
           /\ x.host \in HostSet \cup {NoHost} /\ x.found \in BOOLEAN
  BY DEF Job

\* The records a call begins and ends with.
LEMMA JobTypes ==
    /\ NoJob \in Job /\ NoJob.at = "idle" /\ NoJob.todo = {}
    /\ \A names \in SUBSET Names :
          /\ Searching(names) \in Job /\ Searching(names).at = "find" /\ Searching(names).todo = names
    /\ \A t, found : found \in BOOLEAN =>
          Returned(t, found) \in Job /\ Returned(t, found).at = "idle" /\ Returned(t, found).todo = {}
  <1>1. NoJob \in Job /\ NoJob.at = "idle" /\ NoJob.todo = {}
    BY DEF NoJob, Job
  <1>2. ASSUME NEW names \in SUBSET Names
        PROVE Searching(names) \in Job /\ Searching(names).at = "find" /\ Searching(names).todo = names
    BY DEF NoJob, Job, Searching
  <1>3. ASSUME NEW t, NEW found \in BOOLEAN
        PROVE Returned(t, found) \in Job /\ Returned(t, found).at = "idle" /\ Returned(t, found).todo = {}
    <2>1. (found /\ t = Expirer) \in BOOLEAN
      OBVIOUS
    <2> HIDE DEF Expirer
    <2> QED
      BY <2>1 DEF NoJob, Job, Returned
  <1> QED
    BY <1>1, <1>2, <1>3

\* The threads.
LEMMA ThreadFacts ==
    /\ \A r \in Requests : r \in Threads /\ <<"user", r>> \in Threads /\ <<"user", r>> \notin Requests
    /\ \A v \in Vms : <<"timer", v>> \in Threads /\ <<"timer", v>> \notin Requests
    /\ Expirer \in Threads /\ Expirer \notin Requests
  <1>1. \A r \in Requests : <<"user", r>> \in Users
    BY DEF Users
  <1>2. \A v \in Vms : <<"timer", v>> \in Timers
    BY DEF Timers
  <1> QED
    BY <1>1, <1>2, ThreadAssumption DEF Threads

\* A failure is counted.
LEMMA FaultType == ASSUME faults \in 0..MaxFaults, Fault PROVE faults' \in 0..MaxFaults
  BY DynVmAssumption DEF Fault

\* A request has as many names as it asks for.
LEMMA NameCount == ASSUME NEW r \in Requests PROVE Cardinality(AllNames(r)) = CountOf[r]
  <1>1. CountOf[r] \in Nat \ {0}
    BY DynVmAssumption
  <1>2. CASE CountOf[r] = 1
    <2>1. AllNames(r) = {<<r, 0>>}
      BY <1>2 DEF AllNames, GenerateVmNames
    <2>2. Cardinality({<<r, 0>>}) = 1
      BY FS_Singleton, ZenonT(40)
    <2> QED
      BY <1>2, <2>1, <2>2, ZenonT(40)
  <1>3. CASE CountOf[r] # 1
    <2>1. AllNames(r) = {<<r, i>> : i \in 1..CountOf[r]}
      BY <1>3 DEF AllNames, GenerateVmNames
    <2> DEFINE name == [i \in 1..CountOf[r] |-> <<r, i>>]
    <2>2. name \in [1..CountOf[r] -> AllNames(r)]
      BY <2>1
    <2>3. \A i, j \in 1..CountOf[r] : name[i] = name[j] => i = j
      OBVIOUS
    <2>4. \A n \in AllNames(r) : \E i \in 1..CountOf[r] : name[i] = n
      BY <2>1
    <2> HIDE DEF name
    <2>5. name \in Bijection(1..CountOf[r], AllNames(r))
      BY <2>2, <2>3, <2>4 DEF Bijection, Injection, Surjection, IsInjective
    <2>6. ExistsBijection(1..CountOf[r], AllNames(r))
      BY <2>5 DEF ExistsBijection
    <2> QED
      BY <1>1, <2>6, FS_CountingElements
  <1> QED
    BY <1>2, <1>3

\* The count of a request less what it has is a natural number.
LEMMA Missing == ASSUME Locally, NEW r \in Requests PROVE CountOf[r] - Cardinality(q[r].got) \in Nat
  <1>1. q[r].got \subseteq AllNames(r)
    BY DEF Locally, Fits
  <1>2. Cardinality(q[r].got) \in Nat /\ Cardinality(q[r].got) <= Cardinality(AllNames(r))
    BY <1>1, NameFacts, FS_Subset, FS_CardinalityType
  <1> QED
    BY <1>2, NameCount, DynVmAssumption

\* A VM more or less.
LEMMA OneVm ==
    ASSUME up \subseteq Vms, IsFiniteSet(up), NEW v, up' \in {up, up \ {v}} \/ (up' = up \cup {v} /\ v \in Vms)
    PROVE  up' \subseteq Vms /\ IsFiniteSet(up')
  <1>1. IsFiniteSet(up \cup {v}) /\ IsFiniteSet(up \ {v})
    BY FS_AddElement, FS_RemoveElement
  <1> QED
    BY <1>1


\* A step of a request.
LEMMA GetserversShared ==
    ASSUME Shared, Locally, NEW r \in Requests, Getservers(r)
    PROVE  Shared'
  <1> USE DEF Shared, xen, records, expiry, counters
  <1>0. CountOf[r] \in Nat
    BY DynVmAssumption
  <1>1. ASSUME NEW c \in Nat, NEW labels, IncreaseReserved(r, c) \/ DecreaseReserved(r, c, labels)
        PROVE  reserved' \in [Labels \cup {NoLabel} -> Nat] /\ stray' \in [Labels \cup {NoLabel} -> Nat]
    BY <1>1, CountersType
  <1>2. CASE Reserve(r)
    <2>1. reserved' \in [Labels \cup {NoLabel} -> Nat] /\ stray' \in [Labels \cup {NoLabel} -> Nat]
      BY <1>0, <1>1, <1>2 DEF Reserve
    <2> QED
      BY <1>2, <2>1 DEF Reserve
  <1>3. CASE Look(r)
    <2>1. faults' \in 0..MaxFaults
      BY <1>3, FaultType DEF Look
    <2> QED
      BY <1>3, <2>1 DEF Look
  <1>4. CASE Admit(r)
    <2>1. reserved' \in [Labels \cup {NoLabel} -> Nat] /\ stray' \in [Labels \cup {NoLabel} -> Nat]
      <3>1. (reserved' = reserved /\ stray' = stray) \/ DecreaseReserved(r, CountOf[r], LabelsFor[r])
        BY <1>4 DEF Admit
      <3>2. CASE DecreaseReserved(r, CountOf[r], LabelsFor[r])
        BY <1>0, <1>1, <3>2
      <3> QED
        BY <3>1, <3>2
    <2> QED
      BY <1>4, <2>1 DEF Admit
  <1>5. CASE NextHost(r)
    <2>1. faults' \in 0..MaxFaults
      BY <1>5, FaultType DEF NextHost
    <2> QED
      BY <1>5, <2>1 DEF NextHost
  <1>6. CASE Clone(r)
    <2>1. faults' \in 0..MaxFaults
      BY <1>6, FaultType DEF Clone
    <2>2. <<At(r), FirstName(q[r].batch)>> \in Vms
      BY <1>6, WorkedOn DEF Clone, AtWork
    <2>3. up' \subseteq Vms /\ IsFiniteSet(up')
      BY <1>6, <2>2, CloneGoes, OneVm
    <2> QED
      BY <1>6, <2>1, <2>3 DEF Clone
  <1>7. CASE GetIp(r)
    <2>1. faults' \in 0..MaxFaults
      BY <1>7, FaultType DEF GetIp
    <2>2. up' \subseteq Vms /\ IsFiniteSet(up')
      BY <1>7, GetIpGoes, OneVm
    <2> QED
      BY <1>7, <2>1, <2>2 DEF GetIp
  <1>8. CASE Record(r)
    <2>1. faults' \in 0..MaxFaults
      BY <1>8, FaultType DEF Record
    <2>2. up' \subseteq Vms /\ IsFiniteSet(up')
      BY <1>8, RecordGoes, OneVm
    <2>3. timer' \subseteq Vms
      BY <1>8, RecordGoes
    <2> QED
      BY <1>8, <2>1, <2>2, <2>3 DEF Record
  <1>9. CASE Save(r)
    <2>1. faults' \in 0..MaxFaults
      BY <1>9, FaultType DEF Save
    <2>2. reserved' \in [Labels \cup {NoLabel} -> Nat] /\ stray' \in [Labels \cup {NoLabel} -> Nat]
      <3>1. DecreaseReserved(r, 1, LabelsOf[At(r)]) /\ 1 \in Nat
        BY <1>9 DEF Save
      <3> QED
        BY <1>1, <3>1
    <2>3. doc' \in [Vms -> {"none", "deleted"} \cup Open]
      BY <1>9 DEF Save, Open
    <2> QED
      BY <1>9, <2>1, <2>2, <2>3 DEF Save
  <1>10. ASSUME NEW n \in Names, VetOne(r, n) PROVE Shared'
    <2>1. faults' \in 0..MaxFaults
      BY <1>10, FaultType DEF VetOne, HostFails
    <2>2. reserved' \in [Labels \cup {NoLabel} -> Nat] /\ stray' \in [Labels \cup {NoLabel} -> Nat]
      <3>1. (reserved' = reserved /\ stray' = stray) \/ IncreaseReserved(r, 1)
        BY <1>10 DEF VetOne
      <3>2. CASE IncreaseReserved(r, 1)
        BY <1>1, <3>2
      <3> QED
        BY <3>1, <3>2
    <2> QED
      BY <1>10, <2>1, <2>2 DEF VetOne
  <1>11. CASE VetEnd(r)
    BY <1>11 DEF VetEnd
  <1>12. CASE Settle(r)
    <2>1. reserved' \in [Labels \cup {NoLabel} -> Nat] /\ stray' \in [Labels \cup {NoLabel} -> Nat]
      BY <1>1, <1>12, Missing DEF Settle
    <2>2. job' \in [Threads -> Job]
      <3>1. Searching(AllNames(r)) \in Job /\ r \in Threads
        BY NameFacts, JobTypes, ThreadFacts
      <3> QED
        BY <1>12, <3>1, SettleGoes, JobFacts
    <2> QED
      BY <1>12, <2>1, <2>2 DEF Settle
  <1>13. CASE RollbackEnd(r)
    BY <1>13 DEF RollbackEnd
  <1>14. CASE GiveBack(r)
    <2>1. reserved' \in [Labels \cup {NoLabel} -> Nat] /\ stray' \in [Labels \cup {NoLabel} -> Nat]
      BY <1>0, <1>1, <1>14 DEF GiveBack
    <2> QED
      BY <1>14, <2>1 DEF GiveBack
  <1> QED
    BY <1>2, <1>3, <1>4, <1>5, <1>6, <1>7, <1>8, <1>9, <1>10, <1>11, <1>12, <1>13, <1>14 DEF Getservers

\* The requests do not move.
LEMMA Unmoved == ASSUME Locally, pc' = pc, q' = q PROVE Locally'
  BY DEF Locally, Fits, AllNames

\* A step of release_servers: who it works for is the same, and it only forgets names.
LEMMA ReleaseFacts ==
    ASSUME Shared, NEW t \in Threads, job[t].at # "idle" => job[t].todo # {}, ReleaseServers(t)
    PROVE  /\ Shared' /\ pc' = pc /\ q' = q /\ asked' = asked
           /\ \A u \in Threads \ {t} : job'[u] = job[u]
           /\ job'[t].todo \subseteq job[t].todo /\ job[t].at # "idle"
           /\ job'[t].at # "idle" => job'[t].todo # {}
           /\ \E v : v[2] \in job[t].todo /\ up' \in {up, up \ {v}} /\ v = <<v[1], v[2]>>
  <1> DEFINE n == FirstName(job[t].todo)
             x == job'[t]
  <1> USE DEF xen, records, expiry, counters
  <1>1. /\ job \in [Threads -> Job] /\ job[t] \in Job /\ job[t].todo \subseteq Names /\ job[t].at # "idle"
        /\ job[t].found \in BOOLEAN /\ job[t].host \in HostSet \cup {NoHost}
        /\ pc' = pc /\ q' = q /\ asked' = asked
    <2>1. job \in [Threads -> Job] /\ job[t] \in Job
      BY DEF Shared
    <2>2. pc' = pc /\ q' = q /\ asked' = asked /\ job[t].at # "idle"
      BY DEF ReleaseServers, FindVm, DeleteVm, UpdateDoc
    <2> QED
      BY <2>1, <2>2, JobFields
  <1>2. n \in job[t].todo
    BY <1>1, FirstIn
  <1>3. ASSUME NEW y \in Job, job' = [job EXCEPT ![t] = y]
        PROVE  job' \in [Threads -> Job] /\ job'[t] = y /\ \A u \in Threads \ {t} : job'[u] = job[u]
    BY <1>1, <1>3, JobFacts
  <1> HIDE DEF n
  <1>4. CASE FindVm(t)
    <2> DEFINE there(lost) == HostsWith(n) \ lost
               after(lost) == IF there(lost) # {} THEN [job[t] EXCEPT !.at = "delete", !.host = Hosts[Min(there(lost))]]
                              ELSE IF job[t].todo = {n} THEN Returned(t, job[t].found)
                              ELSE [job[t] EXCEPT !.todo = job[t].todo \ {n}]
    <2>1. PICK lost : job' = [job EXCEPT ![t] = after(lost)]
      BY <1>4 DEF FindVm, n
    <2> DEFINE S == there(lost)
               y == after(lost)
    <2>2. ASSUME S # {} PROVE Hosts[Min(S)] \in HostSet
      <3>1. S \subseteq DOMAIN Hosts /\ DOMAIN Hosts \subseteq Nat /\ \A i \in DOMAIN Hosts : Hosts[i] \in HostSet
        BY DynVmAssumption DEF HostsWith
      <3>2. PICK i \in S : \A j \in S : i <= j
        BY <2>2, <3>1, Least
      <3>3. Min(S) \in S
        BY <3>1, <3>2 DEF Min
      <3> QED
        BY <3>1, <3>3
    <2>3. y \in Job /\ y.todo \subseteq job[t].todo /\ (y.at # "idle" => y.todo # {})
      <3>1. CASE S # {}
        <4> DEFINE z == [job[t] EXCEPT !.at = "delete", !.host = Hosts[Min(S)]]
        <4>1. y = z /\ Hosts[Min(S)] \in HostSet \cup {NoHost}
          BY <2>2, <3>1
        <4>2. z \in Job /\ z.todo = job[t].todo
          BY <1>1, <4>1 DEF Job
        <4> QED
          BY <1>2, <4>1, <4>2
      <3>2. CASE S = {} /\ job[t].todo = {n}
        <4>1. y = Returned(t, job[t].found)
          BY <3>2
        <4> QED
          BY <1>1, <4>1, JobTypes
      <3>3. CASE S = {} /\ job[t].todo # {n}
        <4> DEFINE z == [job[t] EXCEPT !.todo = job[t].todo \ {n}]
        <4>1. y = z /\ job[t].todo \ {n} \in SUBSET Names /\ job[t].todo \ {n} # {}
          BY <1>1, <1>2, <3>3
        <4>2. z \in Job /\ z.todo = job[t].todo \ {n}
          BY <1>1, <4>1 DEF Job
        <4> QED
          BY <4>1, <4>2
      <3> QED
        BY <3>1, <3>2, <3>3
    <2>4. job' = [job EXCEPT ![t] = y]
      BY <2>1
    <2> HIDE DEF y
    <2>5. /\ job' \in [Threads -> Job] /\ job'[t] = y /\ \A u \in Threads \ {t} : job'[u] = job[u]
      BY <1>3, <2>3, <2>4
    <2>6. faults' \in 0..MaxFaults
      BY <1>4, FaultType DEF FindVm, Shared
    <2>7. Shared'
      BY <1>4, <2>5, <2>6 DEF FindVm, Shared
    <2>8. up' = up
      BY <1>4 DEF FindVm
    <2>9. \E v : v[2] \in job[t].todo /\ up' \in {up, up \ {v}} /\ v = <<v[1], v[2]>>
      <3> DEFINE v == <<n, n>>
      <3>1. v[2] \in job[t].todo /\ up' \in {up, up \ {v}} /\ v = <<v[1], v[2]>>
        BY <1>2, <2>8
      <3> QED
        BY <3>1
    <2> QED
      BY <1>1, <2>3, <2>5, <2>7, <2>9
  <1>5. CASE DeleteVm(t)
    <2> DEFINE v == <<job[t].host, n>>
               a == [job[t] EXCEPT !.at = IF v \in up THEN "mark" ELSE "find", !.found = TRUE,
                                   !.host = IF v \in up THEN @ ELSE NoHost]
               b == [job[t] EXCEPT !.at = "find", !.found = TRUE, !.host = NoHost]
    <2>1. \/ up' = up \ {v} /\ job' = [job EXCEPT ![t] = a]
          \/ up' = up /\ job' = [job EXCEPT ![t] = b]
          \/ up' = up /\ job' = [job EXCEPT ![t] = Returned(t, TRUE)]
      BY <1>1, <1>5 DEF DeleteVm, n
    <2>2. a \in Job /\ a.todo = job[t].todo
      BY <1>1 DEF Job
    <2>3. b \in Job /\ b.todo = job[t].todo
      BY <1>1 DEF Job
    <2> HIDE DEF a, b
    <2>4. Returned(t, TRUE) \in Job /\ Returned(t, TRUE).at = "idle" /\ Returned(t, TRUE).todo = {}
      BY JobTypes
    <2>5. PICK y \in {a, b, Returned(t, TRUE)} : job' = [job EXCEPT ![t] = y]
      BY <2>1
    <2>6. y \in Job /\ y.todo \subseteq job[t].todo /\ (y.at # "idle" => y.todo # {})
      BY <1>2, <2>2, <2>3, <2>4, <2>5
    <2>7. job' \in [Threads -> Job] /\ job'[t] = y /\ \A u \in Threads \ {t} : job'[u] = job[u]
      BY <1>3, <2>5, <2>6
    <2>8. faults' \in 0..MaxFaults
      BY <1>5, FaultType DEF DeleteVm, Shared
    <2>9. up' \in {up, up \ {v}} /\ v[2] \in job[t].todo /\ v = <<v[1], v[2]>>
      BY <1>2, <2>1
    <2> HIDE DEF v
    <2>10. Shared'
      <3>1. up' \subseteq Vms /\ IsFiniteSet(up')
        BY <2>9, OneVm DEF Shared
      <3> QED
        BY <1>5, <2>7, <2>8, <3>1 DEF DeleteVm, Shared
    <2> QED
      BY <1>1, <2>6, <2>7, <2>9, <2>10
  <1>6. CASE UpdateDoc(t)
    <2> DEFINE y == [job[t] EXCEPT !.at = "find", !.host = NoHost]
    <2>1. job' = [job EXCEPT ![t] = y]
      BY <1>1, <1>6 DEF UpdateDoc
    <2>2. y \in Job /\ y.todo = job[t].todo
      BY <1>1 DEF Job
    <2> HIDE DEF y
    <2>3. job' \in [Threads -> Job] /\ job'[t] = y /\ \A u \in Threads \ {t} : job'[u] = job[u]
      BY <1>3, <2>1, <2>2
    <2>4. faults' \in 0..MaxFaults
      BY <1>6, FaultType DEF UpdateDoc, Shared
    <2>5. doc' \in [Vms -> {"none", "deleted"} \cup Open] /\ extended' \subseteq Vms
      BY <1>6 DEF UpdateDoc, Shared, MarkDeleted
    <2>6. Shared'
      BY <1>6, <2>3, <2>4, <2>5 DEF UpdateDoc, Shared
    <2>7. up' = up
      BY <1>6 DEF UpdateDoc
    <2>8. \E v : v[2] \in job[t].todo /\ up' \in {up, up \ {v}} /\ v = <<v[1], v[2]>>
      <3> DEFINE v == <<n, n>>
      <3>1. v[2] \in job[t].todo /\ up' \in {up, up \ {v}} /\ v = <<v[1], v[2]>>
        BY <1>2, <2>7
      <3> QED
        BY <3>1
    <2> QED
      BY <1>1, <1>2, <2>2, <2>3, <2>6, <2>8
  <1> QED
    BY <1>4, <1>5, <1>6 DEF ReleaseServers

-----------------------------------------------------------------------------
(* Who deletes, and what is kept. *)

\* A call of release_servers that is left alone.
LEMMA StaysEntitled ==
    ASSUME NEW t \in Threads, Entitled(t), asked \subseteq asked', job'[t] = job[t],
           t \in Requests /\ pc[t] = "rollback" /\ job[t].at # "idle" => pc'[t] = "rollback"
    PROVE  Entitled(t)'
  BY DEF Entitled, AllNames

\* A request that is left alone: what is deleted is not its own, was asked for, or it is being
\* rolled back.
LEMMA Undisturbed ==
    ASSUME NEW r \in Requests, Fits(r, q[r], pc[r]), Good(r), q'[r] = q[r], pc'[r] = pc[r], asked \subseteq asked',
           pc[r] # "rollback" => \A n \in AllNames(r) \ asked' : \A h : <<h, n>> \in up => <<h, n>> \in up'
    PROVE  Good(r)'
  <1>1. q[r].got \cup q[r].made \cup q[r].batch \subseteq AllNames(r)
    BY DEF Fits
  <1>2. Kept(r)'
    <2> SUFFICES ASSUME pc[r] \notin {"rollback", "failed", "lost"},
                        NEW n \in (q[r].got \cup q[r].made) \ (asked' \cup LateNames(r)')
                 PROVE  Runs(n)'
      BY DEF Kept
    <2>1. LateNames(r)' = LateNames(r)
      BY DEF LateNames
    <2>2. Runs(n)
      BY <2>1 DEF Good, Kept
    <2>3. n \in AllNames(r) \ asked'
      BY <1>1
    <2> QED
      BY <2>2, <2>3 DEF Runs
  <1>3. Saved(r)'
    <2> SUFFICES ASSUME pc[r] = "save", FirstName(q[r].batch) \notin asked'
                 PROVE  <<At(r)', FirstName(q[r].batch)>> \in up'
      BY DEF Saved
    <2>1. At(r)' = At(r)
      BY DEF At
    <2>2. <<At(r), FirstName(q[r].batch)>> \in up
      BY DEF Good, Saved
    <2>3. FirstName(q[r].batch) \in AllNames(r)
      <3>1. q[r].batch # {} /\ q[r].batch \subseteq Names
        BY LocalFields DEF Fits, AtWork
      <3> QED
        BY <1>1, <3>1, FirstIn
    <2> QED
      BY <2>1, <2>2, <2>3
  <1>4. Complete(r)'
    BY DEF Good, Complete
  <1> QED
    BY <1>2, <1>3, <1>4 DEF Good

\* A request that goes on: what it had is kept, and what is new runs or is late.
LEMMA GoesGood ==
    ASSUME NEW r \in Requests, NEW new, Good(r), Goes(r, new), asked' = asked,
           \A n \in q[r].got \cup q[r].made : \A h : <<h, n>> \in up => <<h, n>> \in up',
           \A n \in new : n \in asked \/ n \in LateNames(r)' \/ Runs(n)',
           Saved(r)', Complete(r)'
    PROVE  Good(r)'
  <1>1. Kept(r)'
    <2> SUFFICES ASSUME NEW n \in (q'[r].got \cup q'[r].made) \ (asked \cup LateNames(r)') PROVE Runs(n)'
      BY DEF Kept
    <2>1. CASE n \in new
      BY <2>1
    <2>2. CASE n \in q[r].got \cup q[r].made
      <3>1. LateNames(r) \subseteq LateNames(r)'
        BY DEF LateNames, Goes
      <3>2. Runs(n)
        BY <2>2, <3>1 DEF Good, Kept, Goes, Serving, Busy
      <3> QED
        BY <2>2, <3>2 DEF Runs
    <2> QED
      BY <2>1, <2>2 DEF Goes
  <1> QED
    BY <1>1 DEF Good

\* The names of two requests are different.
LEMMA NamesApart ==
    ASSUME NEW r \in Requests, NEW s \in Requests, r # s, NEW n \in AllNames(r) PROVE n \notin AllNames(s)
  BY NameFacts

\* A step of a request: it keeps its promises and disturbs nobody.
LEMMA GetserversGood ==
    ASSUME Inv, NEW r \in Requests, Getservers(r)
    PROVE  Locally' /\ (\A t \in Threads : Entitled(t)') /\ \A s \in Requests : Good(s)'
  <1> USE DEF xen, records, expiry, counters
  <1>1. Shared /\ Locally /\ Good(r) /\ Fits(r, q[r], pc[r]) /\ IsFiniteSet(up) /\ q[r] \in Locals
    BY DEF Inv, Sound, Shared, Locally
  <1>2. asked' = asked
    BY DEF Getservers, Reserve, Look, Admit, NextHost, Clone, GetIp, Record, Save, VetOne, VetEnd, GiveBack, Settle,
           RollbackEnd
  <1> DEFINE n == FirstName(q[r].batch)
             v == <<At(r), n>>
  <1>3. ASSUME NEW new, Goes(r, new), up' \in {up, up \cup {v}, up \ {v}}, up' # up => pc[r] \in AtWork \ {"vet"},
               \A m \in new : m \in asked \/ m \in LateNames(r)' \/ Runs(m)',
               Saved(r)', Complete(r)',
               job' = job \/ (job' = [job EXCEPT ![r] = Searching(AllNames(r))] /\ pc'[r] = "rollback")
        PROVE  Locally' /\ (\A t \in Threads : Entitled(t)') /\ \A s \in Requests : Good(s)'
    <2>1. Locally' /\ \A s \in Requests \ {r} : q'[s] = q[s] /\ pc'[s] = pc[s]
      BY <1>3 DEF Goes
    <2>2. ASSUME NEW m, NEW h, <<h, m>> \in up, <<h, m>> \notin up'
          PROVE  m \in AllNames(r) /\ m \notin q[r].got \cup q[r].made
      <3>1. up' = up \ {v} /\ up' # up
        BY <1>3, <2>2
      <3>2. n \in q[r].batch
        BY <1>1, <1>3, <3>1, WorkedOn
      <3>3. <<h, m>> = v
        BY <2>2, <3>1
      <3>4. m = n
        BY <3>3
      <3> QED
        BY <1>1, <3>2, <3>4 DEF Fits
    <2>3. Good(r)'
      BY <1>1, <1>2, <1>3, <2>2, GoesGood
    <2>4. ASSUME NEW s \in Requests \ {r} PROVE Good(s)'
      <3>1. \A m \in AllNames(s) : \A h : <<h, m>> \in up => <<h, m>> \in up'
        BY <2>2, NamesApart
      <3>2. Good(s) /\ Fits(s, q[s], pc[s]) /\ q'[s] = q[s] /\ pc'[s] = pc[s]
        BY <2>1 DEF Inv, Sound, Locally
      <3> QED
        BY <1>2, <3>1, <3>2, Undisturbed
    <2>5. ASSUME NEW t \in Threads PROVE Entitled(t)'
      <3>1. Entitled(t) /\ r \in Threads /\ job \in [Threads -> Job]
        BY <1>1, ThreadFacts DEF Inv, Shared
      <3>2. CASE job'[t] = job[t]
        <4>1. t = r => pc[t] # "rollback"
          BY <1>3 DEF Goes, Serving
        <4>2. t # r /\ t \in Requests => pc'[t] = pc[t]
          BY <2>1
        <4> QED
          BY <1>2, <3>1, <3>2, <4>1, <4>2, StaysEntitled
      <3>3. CASE job'[t] # job[t]
        <4>1. job' = [job EXCEPT ![r] = Searching(AllNames(r))] /\ pc'[r] = "rollback"
          BY <1>3, <3>3
        <4>2. t = r
          BY <3>1, <3>3, <4>1
        <4>3. AllNames(r) \subseteq Names /\ AllNames(r) # {}
          BY NameFacts
        <4>4. job'[r] = Searching(AllNames(r))
          BY <3>1, <4>1
        <4>5. job'[r].todo = AllNames(r)
          BY <4>3, <4>4, JobTypes
        <4> QED
          BY <4>1, <4>2, <4>3, <4>5 DEF Entitled, AllNames
      <3> QED
        BY <3>2, <3>3
    <2> QED
      BY <2>1, <2>3, <2>4, <2>5
  <1>4. ASSUME Goes(r, {}), up' \in {up, up \cup {v}, up \ {v}}, up' # up => pc[r] \in AtWork \ {"vet"},
               pc'[r] \notin {"save", "ok"}, job' = job
        PROVE  Locally' /\ (\A t \in Threads : Entitled(t)') /\ \A s \in Requests : Good(s)'
    <2>1. Saved(r)' /\ Complete(r)'
      BY <1>4 DEF Saved, Complete
    <2> QED
      BY <1>3, <1>4, <2>1
  <1> HIDE DEF v, n
  <1>4a. ASSUME Made(r), up' \in {up, up \cup {v}, up \ {v}}, pc[r] \in AtWork \ {"vet"},
                pc'[r] \notin {"save", "ok"}, job' = job
         PROVE  Locally' /\ (\A t \in Threads : Entitled(t)') /\ \A s \in Requests : Good(s)'
    <2>1. CASE Goes(r, {})
      BY <1>4, <1>4a, <2>1
    <2>2. CASE Goes(r, {n}) /\ v \in q'[r].late
      <3>1. n \in LateNames(r)'
        BY <2>2 DEF LateNames, v
      <3>2. Saved(r)' /\ Complete(r)'
        BY <1>4a DEF Saved, Complete
      <3> QED
        BY <1>3, <1>4a, <2>2, <3>1, <3>2
    <2> QED
      BY <1>4a, <2>1, <2>2 DEF Made, v, n
  <1>4b. CASE GiveBack(r)
    <2>1. up' = up /\ job' = job
      BY <1>4b DEF GiveBack
    <2> QED
      BY <1>1, <1>4, <1>4b, <2>1, GiveBackGoes
  <1>5. CASE Reserve(r)
    <2>1. up' = up /\ job' = job
      BY <1>5 DEF Reserve
    <2> QED
      BY <1>1, <1>4, <1>5, <2>1, ReserveGoes
  <1>6. CASE Look(r)
    <2>1. up' = up /\ job' = job
      BY <1>6 DEF Look
    <2> QED
      BY <1>1, <1>4, <1>6, <2>1, LookGoes
  <1>7. CASE Admit(r)
    <2>1. up' = up /\ job' = job
      BY <1>7 DEF Admit
    <2> QED
      BY <1>1, <1>4, <1>7, <2>1, AdmitGoes
  <1>8. CASE NextHost(r)
    <2>1. up' = up /\ job' = job
      BY <1>8 DEF NextHost
    <2> QED
      BY <1>1, <1>4, <1>8, <2>1, NextHostGoes
  <1>9. CASE Clone(r)
    <2>1. job' = job /\ pc[r] \in AtWork \ {"vet"}
      BY <1>9 DEF Clone, AtWork
    <2>2. Made(r) /\ pc'[r] \notin {"save", "ok"} /\ up' \in {up, up \cup {v}, up \ {v}}
      BY <1>1, <1>9, CloneGoes DEF v, n
    <2> QED
      BY <1>4a, <2>1, <2>2
  <1>10. CASE GetIp(r)
    <2>1. job' = job /\ pc[r] \in AtWork \ {"vet"}
      BY <1>10 DEF GetIp, AtWork
    <2>2. Made(r) /\ pc'[r] \notin {"save", "ok"} /\ up' \in {up, up \cup {v}, up \ {v}}
      BY <1>1, <1>10, GetIpGoes DEF v, n
    <2> QED
      BY <1>4a, <2>1, <2>2
  <1>11. CASE Record(r)
    <2>1. job' = job /\ pc[r] \in AtWork \ {"vet"}
      BY <1>11 DEF Record, AtWork
    <2>2. CASE Goes(r, {}) /\ pc'[r] = "save" /\ q' = q /\ v \in up /\ up' = up
      <3>1. Saved(r)'
        BY <2>2 DEF Saved, At, v, n
      <3>2. Complete(r)'
        BY <2>2 DEF Complete
      <3> QED
        BY <1>3, <2>1, <2>2, <3>1, <3>2
    <2>3. CASE Goes(r, {n}) /\ pc'[r] \in {"vet", "clone"} /\ v \in q'[r].late /\ up' \in {up, up \ {v}}
      <3>1. n \in LateNames(r)'
        BY <2>3 DEF LateNames, v
      <3>2. Saved(r)' /\ Complete(r)'
        BY <2>3 DEF Saved, Complete
      <3> QED
        BY <1>3, <2>1, <2>3, <3>1, <3>2
    <2> QED
      BY <1>1, <1>11, <2>2, <2>3, RecordGoes DEF v, n
  <1>12. CASE Save(r)
    <2>1. up' = up /\ job' = job
      BY <1>12 DEF Save
    <2>2. Goes(r, {n}) /\ pc[r] = "save" /\ pc'[r] \in {"vet", "clone"}
      BY <1>1, <1>12, SaveGoes DEF n
    <2>3. At(r) \in HostSet
      BY <1>1, <2>2, WorkedOn DEF AtWork
    <2>4. n \in asked \/ \E h \in HostSet : <<h, n>> \in up'
      <3>1. n \in asked \/ v \in up
        BY <1>1, <2>2 DEF Good, Saved, v, n
      <3>2. v \in up => \E h \in HostSet : <<h, n>> \in up'
        BY <2>1, <2>3 DEF v
      <3> QED
        BY <3>1, <3>2
    <2>5. Saved(r)' /\ Complete(r)'
      BY <2>2 DEF Saved, Complete
    <2>6. \A m \in {n} : m \in asked \/ m \in LateNames(r)' \/ Runs(m)'
      BY <2>4 DEF Runs
    <2> QED
      BY <1>3, <2>1, <2>2, <2>5, <2>6
  <1>13. ASSUME NEW m \in Names, VetOne(r, m)
         PROVE  Locally' /\ (\A t \in Threads : Entitled(t)') /\ \A s \in Requests : Good(s)'
    <2>1. up' = up /\ job' = job
      BY <1>13 DEF VetOne
    <2> QED
      BY <1>1, <1>4, <1>13, <2>1, VetOneGoes
  <1>14. CASE VetEnd(r)
    <2>1. up' = up /\ job' = job
      BY <1>14 DEF VetEnd
    <2> QED
      BY <1>1, <1>4, <1>14, <2>1, VetEndGoes
  <1>15. CASE Settle(r)
    <2>1. up' = up
      BY <1>15 DEF Settle
    <2>2. Goes(r, {}) /\ pc'[r] \in {"ok", "rollback"} /\ (pc'[r] = "ok" /\ r \in AllOrNone => q'[r].need = {})
      BY <1>1, <1>15, SettleGoes
    <2>3. job' = job \/ (job' = [job EXCEPT ![r] = Searching(AllNames(r))] /\ pc'[r] = "rollback")
      BY <1>1, <1>15, SettleGoes
    <2>4. Saved(r)' /\ Complete(r)'
      BY <2>2 DEF Saved, Complete
    <2> QED
      BY <1>3, <2>1, <2>2, <2>3, <2>4
  <1>16. CASE RollbackEnd(r)
    <2>1. Moved(r, q[r], "failed") /\ up' = up /\ job' = job /\ q' = q /\ pc[r] = "rollback" /\ job[r].at = "idle"
      BY <1>1, <1>16 DEF RollbackEnd, Moved, Goto, Locally
    <2>2. Fits(r, q[r], "failed")
      BY <1>1, <2>1 DEF Fits, Where, Answers, AtWork
    <2>3. Locally' /\ pc'[r] = "failed" /\ \A s \in Requests \ {r} : q'[s] = q[s] /\ pc'[s] = pc[s]
      BY <1>1, <2>1, <2>2, MovedFacts
    <2>4. Good(r)'
      BY <2>3 DEF Good, Kept, Saved, Complete
    <2>5. ASSUME NEW s \in Requests \ {r} PROVE Good(s)'
      <3>1. Good(s) /\ Fits(s, q[s], pc[s]) /\ q'[s] = q[s] /\ pc'[s] = pc[s]
        BY <2>3 DEF Inv, Sound, Locally
      <3> QED
        BY <1>2, <2>1, <3>1, Undisturbed
    <2>6. ASSUME NEW t \in Threads PROVE Entitled(t)'
      <3>1. Entitled(t) /\ job'[t] = job[t]
        BY <2>1 DEF Inv
      <3>2. t \in Requests /\ pc[t] = "rollback" /\ job[t].at # "idle" => pc'[t] = "rollback"
        BY <2>1, <2>3
      <3> QED
        BY <1>2, <3>1, <3>2, StaysEntitled
    <2> QED
      BY <2>3, <2>4, <2>5, <2>6
  <1> QED
    BY <1>5, <1>6, <1>7, <1>8, <1>9, <1>10, <1>11, <1>12, <1>13, <1>14, <1>15, <1>16, <1>4b
    DEF Getservers

\* A step of release_servers deletes what it was asked to delete.
LEMMA ReleaseGood ==
    ASSUME Inv, NEW t \in Threads, ReleaseServers(t)
    PROVE  Inv'
  <1>1. Shared /\ Locally /\ Entitled(t) /\ (job[t].at # "idle" => job[t].todo # {})
    BY DEF Inv, Sound, Entitled
  <1>2. /\ Shared' /\ pc' = pc /\ q' = q /\ asked' = asked
        /\ \A u \in Threads \ {t} : job'[u] = job[u]
        /\ job'[t].todo \subseteq job[t].todo /\ job[t].at # "idle"
        /\ job'[t].at # "idle" => job'[t].todo # {}
        /\ \E v : v[2] \in job[t].todo /\ up' \in {up, up \ {v}} /\ v = <<v[1], v[2]>>
    BY <1>1, ReleaseFacts
  <1>3. Locally'
    BY <1>1, <1>2, Unmoved
  <1>4. ASSUME NEW u \in Threads PROVE Entitled(u)'
    <2>1. CASE u = t
      BY <1>1, <1>2, <2>1 DEF Entitled, AllNames
    <2>2. CASE u # t
      <3>1. Entitled(u)
        BY DEF Inv
      <3> QED
        BY <1>2, <2>2, <3>1, StaysEntitled
    <2> QED
      BY <2>1, <2>2
  <1>5. ASSUME NEW r \in Requests PROVE Good(r)'
    <2>1. Good(r) /\ Fits(r, q[r], pc[r])
      BY <1>1 DEF Inv, Locally
    <2>2. PICK v : v[2] \in job[t].todo /\ up' \in {up, up \ {v}} /\ v = <<v[1], v[2]>>
      BY <1>2
    <2>3. ASSUME pc[r] # "rollback", NEW n \in AllNames(r) \ asked', NEW h, <<h, n>> \in up, <<h, n>> \notin up'
          PROVE  FALSE
      <3>1. <<h, n>> = v
        BY <2>2, <2>3
      <3>2. v[2] = n
        BY <3>1
      <3>3. n \in job[t].todo
        BY <2>2, <3>2
      <3>4. t \in Requests /\ n \in AllNames(t) /\ pc[t] = "rollback"
        BY <1>1, <1>2, <2>3, <3>3 DEF Entitled
      <3> QED
        BY <2>3, <3>4, NamesApart
    <2> QED
      BY <1>2, <2>1, <2>3, Undisturbed
  <1> QED
    BY <1>2, <1>3, <1>4, <1>5 DEF Inv, Sound

\* Names are handed to release_servers by somebody who is not a request, or a call ends.
LEMMA HandedOver ==
    ASSUME Inv, Shared', pc' = pc, q' = q, up' = up, asked \subseteq asked', NEW t \in Threads \ Requests,
           \A u \in Threads \ {t} : job'[u] = job[u],
           job'[t].todo \subseteq asked', job'[t].at # "idle" => job'[t].todo # {}
    PROVE  Inv'
  <1>1. Locally'
    BY Unmoved DEF Inv, Sound
  <1>2. ASSUME NEW u \in Threads PROVE Entitled(u)'
    <2>1. CASE u = t
      BY <2>1 DEF Entitled
    <2>2. CASE u # t
      <3>1. Entitled(u)
        BY DEF Inv
      <3> QED
        BY <2>2, <3>1, StaysEntitled
    <2> QED
      BY <2>1, <2>2
  <1>3. ASSUME NEW r \in Requests PROVE Good(r)'
    <2>1. Good(r) /\ Fits(r, q[r], pc[r])
      BY DEF Inv, Sound, Locally
    <2> QED
      BY <2>1, Undisturbed
  <1> QED
    BY <1>1, <1>2, <1>3 DEF Inv, Sound

\* The users, the timers, the clock and the expirer.
LEMMA OthersGood ==
    ASSUME Inv, \/ \E r \in Requests : UserRelease(r)
                \/ \E v \in Vms : TimerFires(v) \/ Lapse(v) \/ SetExpiry(v)
                \/ ExpireVms
    PROVE  Inv'
  <1> USE DEF xen, records, expiry, counters
  <1>1. Shared /\ job \in [Threads -> Job]
    BY DEF Inv, Sound, Shared
  <1>2. \A v \in Vms : v[2] \in Names
    BY DEF Vms
  <1>3. ASSUME NEW r \in Requests, UserRelease(r) PROVE Inv'
    <2> DEFINE t == <<"user", r>>
    <2>1. PICK names \in SUBSET Names : names # {} /\ job' = [job EXCEPT ![t] = Searching(names)] /\ asked' = asked \cup names
      BY <1>3 DEF UserRelease
    <2>2. t \in Threads \ Requests /\ Searching(names) \in Job /\ Searching(names).todo = names
      BY ThreadFacts, JobTypes
    <2> HIDE DEF t
    <2>3. job' \in [Threads -> Job] /\ job'[t] = Searching(names) /\ \A u \in Threads \ {t} : job'[u] = job[u]
      BY <1>1, <2>1, <2>2, JobFacts
    <2>4. Shared' /\ pc' = pc /\ q' = q /\ up' = up
      BY <1>1, <1>3, <2>1, <2>3 DEF UserRelease, Shared
    <2> QED
      BY <2>1, <2>2, <2>3, <2>4, HandedOver
  <1>4. ASSUME NEW v \in Vms, TimerFires(v) PROVE Inv'
    <2> DEFINE t == <<"timer", v>>
    <2>1. job' = [job EXCEPT ![t] = Searching({v[2]})] /\ asked' = asked \cup {v[2]} /\ {v[2]} \in SUBSET Names
      BY <1>2, <1>4 DEF TimerFires
    <2>2. t \in Threads \ Requests /\ Searching({v[2]}) \in Job /\ Searching({v[2]}).todo = {v[2]}
      BY <2>1, ThreadFacts, JobTypes
    <2> HIDE DEF t
    <2>3. job' \in [Threads -> Job] /\ job'[t] = Searching({v[2]}) /\ \A u \in Threads \ {t} : job'[u] = job[u]
      BY <1>1, <2>1, <2>2, JobFacts
    <2>4. Shared' /\ pc' = pc /\ q' = q /\ up' = up
      BY <1>1, <1>4, <2>1, <2>3 DEF TimerFires, Shared
    <2> QED
      BY <2>1, <2>2, <2>3, <2>4, HandedOver
  <1>5. ASSUME NEW v \in Vms, Lapse(v) \/ SetExpiry(v) PROVE Inv'
    <2>1. Shared' /\ pc' = pc /\ q' = q /\ up' = up /\ job' = job /\ asked' = asked
      BY <1>1, <1>5 DEF Lapse, SetExpiry, Shared, Open
    <2>2. Entitled(Expirer)
      BY ThreadFacts DEF Inv
    <2> QED
      BY <2>1, <2>2, ThreadFacts, HandedOver DEF Entitled
  <1>6. CASE ExpireSelect
    <2>1. Shared' /\ pc' = pc /\ q' = q /\ up' = up /\ job' = job /\ asked' = asked
      BY <1>1, <1>6 DEF ExpireSelect, Shared
    <2>2. Entitled(Expirer)
      BY ThreadFacts DEF Inv
    <2> QED
      BY <2>1, <2>2, ThreadFacts, HandedOver DEF Entitled
  <1>7. ASSUME NEW v \in Vms, ExpireRow(v) PROVE Inv'
    <2> HIDE DEF Expirer
    <2>1. job' = [job EXCEPT ![Expirer] = Searching({v[2]})] /\ asked' = asked \cup {v[2]} /\ {v[2]} \in SUBSET Names
      BY <1>2, <1>7 DEF ExpireRow
    <2>2. Expirer \in Threads \ Requests /\ Searching({v[2]}) \in Job /\ Searching({v[2]}).todo = {v[2]}
      BY <2>1, ThreadFacts, JobTypes
    <2>3. job' \in [Threads -> Job] /\ job'[Expirer] = Searching({v[2]}) /\ \A u \in Threads \ {Expirer} : job'[u] = job[u]
      BY <1>1, <2>1, <2>2, JobFacts
    <2>4. Shared' /\ pc' = pc /\ q' = q /\ up' = up
      BY <1>1, <1>7, <2>1, <2>3 DEF ExpireRow, Shared
    <2> QED
      BY <2>1, <2>2, <2>3, <2>4, HandedOver
  <1>8. CASE ExpireRowEnd
    <2>1. job' = [job EXCEPT ![Expirer] = NoJob] /\ asked' = asked /\ pc' = pc /\ q' = q /\ up' = up
      BY <1>8 DEF ExpireRowEnd
    <2>2. Expirer \in Threads \ Requests /\ NoJob \in Job /\ NoJob.at = "idle" /\ NoJob.todo = {}
      BY ThreadFacts, JobTypes
    <2>3. job' \in [Threads -> Job] /\ job'[Expirer] = NoJob /\ \A u \in Threads \ {Expirer} : job'[u] = job[u]
      BY <1>1, <2>1, <2>2, JobFacts
    <2>4. faults' \in 0..MaxFaults
      BY <1>1, <1>8, FaultType DEF ExpireRowEnd, Shared
    <2>5. doc' \in [Vms -> {"none", "deleted"} \cup Open] /\ extended' \subseteq Vms
      BY <1>1, <1>8 DEF ExpireRowEnd, Shared, MarkDeleted
    <2>6. Shared'
      BY <1>1, <1>8, <2>1, <2>3, <2>4, <2>5 DEF ExpireRowEnd, Shared
    <2> QED
      BY <2>1, <2>2, <2>3, <2>6, HandedOver
  <1> QED
    BY <1>3, <1>4, <1>5, <1>6, <1>7, <1>8 DEF ExpireVms

\* A restart loses the requests in progress and every call of release_servers.
LEMMA RestartGood == ASSUME Inv, Restart PROVE Inv'
  <1> USE DEF xen, records, expiry, counters
  <1>1. Shared /\ Locally
    BY DEF Inv, Sound
  <1>2. faults' \in 0..MaxFaults
    BY <1>1, FaultType DEF Restart, Shared
  <1>3. job' = [t \in Threads |-> NoJob] /\ job' \in [Threads -> Job]
    BY JobTypes DEF Restart
  <1>4. Shared'
    BY <1>1, <1>2, <1>3 DEF Restart, Shared
  <1>5. /\ q' = q /\ up' = up /\ asked' = asked
        /\ \A r \in Requests : pc'[r] = IF pc[r] \in Busy \cup {"exited"} THEN "lost" ELSE pc[r]
    BY DEF Restart
  <1>6. \A r \in Requests : Fits(r, q[r], pc'[r])
    <2> TAKE r \in Requests
    <2>1. Fits(r, q[r], pc[r])
      BY <1>1 DEF Locally
    <2>2. Fits(r, q[r], "lost")
      BY <2>1 DEF Fits, Where, Answers, AtWork
    <2> QED
      BY <1>5, <2>1, <2>2
  <1>7. Locally'
    <2>1. pc' \in [Requests -> Where]
      BY <1>1 DEF Restart, Locally, Where, Answers
    <2> QED
      BY <1>1, <1>5, <1>6, <2>1 DEF Locally, Fits, AllNames
  <1>8. \A t \in Threads : Entitled(t)'
    BY <1>3, JobTypes DEF Entitled
  <1>9. ASSUME NEW r \in Requests PROVE Good(r)'
    <2>1. CASE pc[r] \in Busy \cup {"exited"}
      BY <1>5, <2>1 DEF Good, Kept, Saved, Complete
    <2>2. CASE pc[r] \notin Busy \cup {"exited"}
      <3>1. Good(r) /\ Fits(r, q[r], pc[r])
        BY <1>1 DEF Inv, Locally
      <3> QED
        BY <1>5, <2>2, <3>1, Undisturbed
    <2> QED
      BY <2>1, <2>2
  <1> QED
    BY <1>4, <1>7, <1>8, <1>9 DEF Inv, Sound

\* Nothing has been asked for yet.
LEMMA InitInv == ASSUME Init PROVE Inv
  <1>1. Shared
    <2>1. IsFiniteSet(up)
      BY FS_EmptySet DEF Init
    <2>2. job \in [Threads -> Job]
      BY JobTypes DEF Init
    <2>3. faults \in 0..MaxFaults
      BY DynVmAssumption DEF Init
    <2> QED
      BY <2>1, <2>2, <2>3 DEF Init, Shared
  <1> DEFINE x(r) == [avail |-> <<>>, idx |-> 1, need |-> AllNames(r), batch |-> {}, made |-> {}, vetted |-> {},
                      got |-> {}, late |-> {}, tries |-> 0]
  <1>2. q = [r \in Requests |-> x(r)] /\ pc = [r \in Requests |-> "new"]
    BY DEF Init, AllNames
  <1>3. ASSUME NEW r \in Requests PROVE x(r) \in Locals /\ Fits(r, x(r), "new")
    <2>1. <<>> \in Seq([host : HostSet, n : Nat]) /\ AllNames(r) \subseteq Names /\ 0 \in 0..(IpAttempts - 1)
      BY NameFacts DEF IpAttempts
    <2>2. x(r) \in Locals
      BY <2>1 DEF Locals
    <2> QED
      BY <2>2 DEF Fits, Where, AtWork
  <1>4. Locally
    BY <1>2, <1>3 DEF Locally, Where
  <1>5. \A r \in Requests : q[r].got = {} /\ q[r].made = {} /\ pc[r] = "new"
    BY <1>2
  <1>6. \A r \in Requests : Good(r)
    BY <1>5 DEF Good, Kept, Saved, Complete
  <1>7. \A t \in Threads : Entitled(t)
    BY JobTypes DEF Init, Entitled
  <1> QED
    BY <1>1, <1>4, <1>6, <1>7 DEF Inv, Sound

\* The invariant is inductive.
LEMMA Inductive == ASSUME Inv, [Next]_vars PROVE Inv'
  <1>1. ASSUME NEW r \in Requests, Getservers(r) PROVE Inv'
    <2>1. Shared /\ Locally
      BY DEF Inv, Sound
    <2> QED
      BY <1>1, <2>1, GetserversShared, GetserversGood DEF Inv, Sound
  <1>2. ASSUME NEW t \in Threads, ReleaseServers(t) PROVE Inv'
    BY <1>2, ReleaseGood
  <1>3. CASE Restart
    BY <1>3, RestartGood
  <1>4. CASE UNCHANGED vars
    <2>1. Shared' /\ pc' = pc /\ q' = q /\ up' = up /\ job' = job /\ asked' = asked
      BY <1>4 DEF vars, Inv, Sound, Shared
    <2>2. Entitled(Expirer)
      BY ThreadFacts DEF Inv
    <2> QED
      BY <2>1, <2>2, ThreadFacts, HandedOver DEF Entitled
  <1> QED
    BY <1>1, <1>2, <1>3, <1>4, OthersGood DEF Next

LEMMA Invariant == Spec => []Inv
  BY InitInv, Inductive, PTL DEF Spec

-----------------------------------------------------------------------------

\* The state of the service stays well typed, whatever fails and in whichever order its threads
\* run: the reservations never go below zero, and a request that works on a host has a host to
\* work on and a name to make there (dynvm_server_manager.py).
THEOREM TypeCorrect == Spec => []TypeOK
  <1>1. Inv => TypeOK
    <2> SUFFICES ASSUME Inv PROVE TypeOK
      OBVIOUS
    <2>1. Shared /\ Locally
      BY DEF Inv, Sound
    <2>2. \A r \in Requests : /\ pc[r] \in {"clone", "ip", "record", "save", "vet"} => q[r].idx \in DOMAIN q[r].avail
                              /\ pc[r] \in {"clone", "ip", "record", "save"} => q[r].batch # {}
      BY <2>1 DEF Locally, Fits, AtWork
    <2> QED
      BY <2>1, <2>2 DEF TypeOK, Shared, Locally, Where
  <1> QED
    BY <1>1, Invariant, PTL

\* An answer to an all-or-none request lists every VM that was asked for, and each of them runs on
\* some host until somebody asks for it to be deleted, whatever other requests, users, timers, the
\* expirer and restarts do meanwhile; except a VM whose creation reported an address and an error
\* (getservers_service, create_vms, release_servers).
THEOREM PromisesKept == Spec => []PromisedVms
  <1>1. Inv => PromisedVms
    <2> SUFFICES ASSUME Inv, NEW r \in AllOrNone, pc[r] = "ok",
                        NEW n \in AllNames(r) \ (asked \cup LateNames(r))
                 PROVE  n \in q[r].got /\ \E h \in HostSet : <<h, n>> \in up
      BY DEF PromisedVms, AllNames, LateNames
    <2>1. r \in Requests
      BY DynVmAssumption
    <2>2. Good(r) /\ Fits(r, q[r], pc[r])
      BY <2>1 DEF Inv, Sound, Locally
    <2>3. n \in q[r].got
      BY <2>2 DEF Good, Complete, Fits
    <2>4. Runs(n)
      BY <2>2, <2>3 DEF Good, Kept
    <2> QED
      BY <2>3, <2>4 DEF Runs
  <1> QED
    BY <1>1, Invariant, PTL
=============================================================================
