--------------------------- MODULE OwnershipProofs ---------------------------
(***************************************************************************)
(* Proofs about Dispatch that go beyond the single booking: that nothing   *)
(* stays booked for nobody, that the repair script never works on a booked *)
(* node, that a server found dead is not used, and that the servers of a   *)
(* running build stay its own.  For all values of the constants, but for   *)
(* the assumptions a theorem names.                                        *)
(***************************************************************************)
EXTENDS DispatchProofs

(* Nothing stays booked for nobody. *)

\* Somebody will release s, which is booked under u.
Covered(s, u) ==
    \/ \E d \in Dispatchers : Active(d) /\ desc[d] = u
    \/ \E j \in JobIds :
          /\ jobs[j].desc = u
          /\ \/ jobs[j].phase = "running"
             \/ jobs[j].phase = "cleaning" /\ (jobs[j].byUser # "none" \/ s \in DOMAIN jobs[j].plan)

\* A booking that is still there was there before, and its release had not failed.
OldBooking(s) == s \notin unreleased /\ pool[s].state = "booked" /\ pool'[s] = pool[s]

-----------------------------------------------------------------------------
(* The repair script. *)

\* The nodes the repair script has read stay in failedInstall until it is through with them.
CleanerRows ==
    /\ cleaner.on # NoServer => cleaner.on \notin cleaner.rows
    /\ \A s \in cleaner.rows \cup ({cleaner.on} \ {NoServer}) : pool[s].state = "failedInstall"

-----------------------------------------------------------------------------
(* Ownership. *)

Live(j) == jobs[j].phase # "none"
Holding(d) == Active(d) /\ pc[d] # "release"

\* Dispatchers and builds work under different descriptors.  A dispatcher that gives its
\* servers back after a lost reply shares its descriptor with the build.
Names ==
    /\ \A d, e \in Dispatchers : d # e /\ Active(d) /\ Active(e) => desc[d] # desc[e]
    /\ \A j, k \in JobIds : j # k /\ Live(j) /\ Live(k) => jobs[j].desc # jobs[k].desc
    /\ \A d \in Dispatchers, j \in JobIds :
          Active(d) /\ Live(j) /\ (pc[d] # "release" \/ ~LostReply) => desc[d] # jobs[j].desc

\* The servers a dispatcher has got are booked under its descriptor, and the ones that did not
\* answer are none of those it will use.
Held(d) ==
    Holding(d) =>
       /\ Range(servers[d]) \cup Range(addl[d]) \cup bad[d] \cup Range(txn[d].list) \subseteq BookedBy(pool, desc[d])
       /\ (Range(servers[d]) \cup Range(addl[d])) \cap bad[d] = {}
       /\ Range(txn[d].list) \cap (Range(servers[d]) \cup Range(addl[d]) \cup bad[d]) = {}
       /\ pc[d] # "got" => txn[d].list = <<>>

\* Those of a running build are booked under its descriptor.
Owned(j) ==
    jobs[j].phase = "running" =>
        jobs[j].servers \cup jobs[j].addl \subseteq BookedBy(pool, jobs[j].desc)

Own == Names /\ (\A d \in Dispatchers : Held(d)) /\ (~LostReply => \A j \in JobIds : Owned(j))

-----------------------------------------------------------------------------
(* Nothing stays booked for nobody: the steps. *)

\* A booking that was there is still covered if its dispatcher and its build are as before.
LEMMA AccountedStep ==
    ASSUME BookingsAccounted,
           \A s \in Servers : s \notin unreleased' /\ pool'[s].state = "booked" => OldBooking(s),
           \A s \in Servers : \A u : Covered(s, u) =>
               \/ Covered(s, u)'
               \/ ~(s \notin unreleased' /\ pool'[s].state = "booked" /\ pool'[s].username = u)
    PROVE  BookingsAccounted'
  <1> SUFFICES ASSUME NEW s \in Servers, s \notin unreleased', pool'[s].state = "booked"
               PROVE  \A u : u = pool'[s].username => Covered(s, u)'
    BY DEF BookingsAccounted, Covered
  <1>1. OldBooking(s)
    OBVIOUS
  <1>2. Covered(s, pool[s].username)
    BY <1>1 DEF OldBooking, BookingsAccounted, Covered
  <1> QED
    BY <1>1, <1>2 DEF OldBooking

\* No build and no active dispatcher changes.
LEMMA SameCover ==
    ASSUME NEW s, NEW u, Covered(s, u), UNCHANGED jobs,
           \A d \in Dispatchers : Active(d) => Active(d)' /\ desc'[d] = desc[d]
    PROVE  Covered(s, u)'
  BY DEF Covered

\* The steps of a dispatcher that write nothing and end nothing.
LEMMA QuietAccounted ==
    ASSUME BookingsAccounted, UNCHANGED <<pool, unreleased, jobs>>,
           \A d \in Dispatchers : Active(d) => Active(d)' /\ desc'[d] = desc[d]
    PROVE  BookingsAccounted'
  BY AccountedStep, SameCover DEF OldBooking

\* A statement that frees servers makes no booking.
LEMMA FreesOld ==
    ASSUME NEW names, Frees(names), UNCHANGED unreleased
    PROVE  \A s \in Servers : s \notin unreleased' /\ pool'[s].state = "booked" => OldBooking(s)
  BY DEF Frees, OldBooking

\* The servers of a descriptor are free, or on record as not released, after GiveBack.
LEMMA GiveBackLeaves ==
    ASSUME TypeOK, NEW d \in Dispatchers, GiveBack(d)
    PROVE  /\ \A s \in Servers : s \notin unreleased' /\ pool'[s].state = "booked" => OldBooking(s)
           /\ \A s \in Servers : ~(s \notin unreleased' /\ pool'[s].state = "booked" /\ pool'[s].username = desc[d])
  <1>1. CASE pool' = ReleaseServers(pool, desc[d], "available") /\ UNCHANGED unreleased
    BY <1>1 DEF ReleaseServers, BookedBy, OldBooking, TypeOK
  <1>2. CASE unreleased' = unreleased \cup BookedBy(pool, desc[d]) /\ UNCHANGED pool
    BY <1>2 DEF BookedBy, OldBooking
  <1> QED
    BY <1>1, <1>2 DEF GiveBack, Write

\* A dispatcher that ends its round has given its servers back.
LEMMA GiveBackAccounted ==
    ASSUME TypeOK, BookingsAccounted, NEW d \in Dispatchers, GiveBack(d), UNCHANGED jobs,
           \A e \in Dispatchers \ {d} : Active(e) => Active(e)' /\ desc'[e] = desc[e]
    PROVE  BookingsAccounted'
  <1>1. ASSUME NEW s \in Servers, NEW u, Covered(s, u), u # desc[d] PROVE Covered(s, u)'
    BY <1>1 DEF Covered
  <1> QED
    BY <1>1, GiveBackLeaves, AccountedStep

\* The commit books for a dispatcher at work.
LEMMA CommitAccounted ==
    ASSUME TypeOK, BookingsAccounted, NEW d \in Dispatchers, Commit(d)
    PROVE  BookingsAccounted'
  <1> DEFINE rows == Range(txn[d].rows)
  <1>1. \A e \in Dispatchers : Active(e) => Active(e)' /\ desc'[e] = desc[e]
    BY DEF Commit, Active, locals, TypeOK
  <1>2. \A s, u : Covered(s, u) => Covered(s, u)'
    BY <1>1, SameCover DEF Commit
  <1>3. Active(d)' /\ desc'[d] = desc[d]
    BY <1>1 DEF Commit, Active
  <1>4. \A s \in Servers : pool'[s] = IF s \in rows THEN [state |-> "booked", username |-> desc[d]] ELSE pool[s]
    BY DEF Commit, Book
  <1>5. unreleased' = unreleased \ rows
    BY DEF Commit
  <1> SUFFICES ASSUME NEW s \in Servers, s \notin unreleased', pool'[s].state = "booked"
               PROVE  \A u : u = pool'[s].username => Covered(s, u)'
    BY DEF BookingsAccounted, Covered
  <1>6. CASE s \in rows
    BY <1>3, <1>4, <1>6 DEF Covered
  <1>7. CASE s \notin rows
    <2>1. Covered(s, pool[s].username) /\ pool'[s] = pool[s]
      BY <1>4, <1>5, <1>7 DEF BookingsAccounted, Covered
    <2> QED
      BY <1>2, <2>1
  <1> QED
    BY <1>6, <1>7

\* Jenkins queues a build under the descriptor of the dispatcher.
LEMMA QueueCovers ==
    ASSUME TypeOK, NEW d \in Dispatchers, NEW j \in JobIds, Queue(d, j)
    PROVE  /\ \A s : \A u : u = desc[d] => Covered(s, u)'
           /\ \A k \in JobIds : jobs[k].phase # "none" => jobs'[k] = jobs[k]
  <1>1. jobs'[j].desc = desc[d] /\ jobs'[j].phase = "running"
    BY DEF Queue, TypeOK
  <1>2. \A k \in JobIds : jobs[k].phase # "none" => jobs'[k] = jobs[k]
    BY DEF Queue, TypeOK
  <1> QED
    BY <1>1, <1>2 DEF Covered

\* A launch hands the servers to the build; after an exception the dispatcher keeps them.
LEMMA LaunchAccounted ==
    ASSUME TypeOK, BookingsAccounted, NEW d \in Dispatchers, Launch(d) \/ LaunchRaises(d)
    PROVE  BookingsAccounted'
  <1>1. UNCHANGED <<pool, unreleased>>
    BY DEF Launch, LaunchRaises
  <1>2. \A e \in Dispatchers \ {d} : Active(e) => Active(e)' /\ desc'[e] = desc[e]
    BY DEF Launch, LaunchRaises, NextRound, Forget, Active, TypeOK
  <1>3. CASE \E j \in JobIds : Queue(d, j)
    <2>1. PICK j \in JobIds : Queue(d, j)
      BY <1>3
    <2>2. ASSUME NEW s \in Servers, NEW u, Covered(s, u) PROVE Covered(s, u)'
      <3>1. CASE u = desc[d]
        BY <2>1, <3>1, QueueCovers
      <3>2. CASE u # desc[d]
        BY <1>2, <2>1, <2>2, <3>2, QueueCovers DEF Covered
      <3> QED
        BY <3>1, <3>2
    <2> QED
      BY <1>1, <2>2, AccountedStep DEF OldBooking
  <1>4. CASE LaunchRaises(d) /\ UNCHANGED jobs
    <2>1. Active(d)' /\ desc'[d] = desc[d]
      BY <1>4 DEF LaunchRaises, Active, TypeOK
    <2> QED
      BY <1>1, <1>2, <1>4, <2>1, QuietAccounted
  <1> QED
    BY <1>3, <1>4 DEF Launch, LaunchRaises

\* What a build still has to release is left with it, or goes on record.
LEMMA FinishAccounted ==
    ASSUME TypeOK, BookingsAccounted, NEW j \in JobIds, Finish(j)
    PROVE  BookingsAccounted'
  <1>1. UNCHANGED pool /\ \A d \in Dispatchers : Active(d) => Active(d)' /\ desc'[d] = desc[d]
    BY DEF Finish, dvars, Active
  <1>2. PICK plan, st : /\ Planned(j, plan, st)
                        /\ \/ st \in {"available", "failedInstall"} /\ UNCHANGED unreleased
                           \/ unreleased' = unreleased \cup
                                (BookedBy(pool, jobs[j].desc) \ (DOMAIN plan \cup jobs[j].addl))
    BY DEF Finish
  <1>3. /\ jobs'[j].desc = jobs[j].desc /\ jobs'[j].phase = "cleaning" /\ jobs'[j].byUser = st
        /\ DOMAIN jobs'[j].plan = DOMAIN plan \cup jobs[j].addl
        /\ \A k \in JobIds \ {j} : jobs'[k] = jobs[k]
    <2>1. jobs[j] \in Jobs
      BY DEF TypeOK
    <2>2. jobs'[j] = [jobs[j] EXCEPT !.phase = "cleaning", !.byUser = st, !.plan = WithAddl(plan, jobs[j].addl)]
      BY <1>2 DEF Planned, TypeOK
    <2>3. \A k \in JobIds \ {j} : jobs'[k] = jobs[k]
      BY <1>2 DEF Planned, TypeOK
    <2>4. DOMAIN WithAddl(plan, jobs[j].addl) = DOMAIN plan \cup jobs[j].addl
      BY DEF WithAddl
    <2> QED
      BY <2>1, <2>2, <2>3, <2>4 DEF Jobs
  <1>4. ASSUME NEW s \in Servers, s \notin unreleased', pool'[s].state = "booked" PROVE OldBooking(s)
    BY <1>1, <1>2, <1>4 DEF OldBooking
  <1>5. ASSUME NEW s \in Servers, NEW u, Covered(s, u),
               s \notin unreleased', pool'[s].state = "booked", pool'[s].username = u
        PROVE  Covered(s, u)'
    <2>1. CASE u = jobs[j].desc
      <3>1. s \in BookedBy(pool, jobs[j].desc)
        BY <1>1, <1>5, <2>1 DEF BookedBy
      <3>2. st # "none" \/ s \in DOMAIN plan \cup jobs[j].addl
        BY <1>2, <1>5, <3>1
      <3> QED
        BY <1>3, <2>1, <3>2 DEF Covered
    <2>2. CASE u # jobs[j].desc
      BY <1>1, <1>3, <1>5, <2>2 DEF Covered
    <2> QED
      BY <2>1, <2>2
  <1> QED
    BY <1>4, <1>5, AccountedStep

\* The cleanup frees servers under its descriptor, or their failed release goes on record.
LEMMA CleanupAccounted ==
    ASSUME TypeOK, BookingsAccounted, NEW j \in JobIds, NEW ips, NEW new, CleanupUpdate(new, ips), dlocals' = dlocals,
           pool' = new => Frees({jobs[j].desc}),
           \A s \in ips : s \in Servers /\ pool' = new => pool'[s].state # "booked",
           \A k \in JobIds \ {j} : jobs'[k] = jobs[k],
           jobs[j].phase = "cleaning" /\ jobs'[j].phase = "cleaning" /\ jobs'[j].desc = jobs[j].desc,
           \A s \in BookedBy(pool, jobs[j].desc) \ ips :
               jobs[j].byUser # "none" \/ s \in DOMAIN jobs[j].plan => jobs'[j].byUser # "none" \/ s \in DOMAIN jobs'[j].plan
    PROVE  BookingsAccounted'
  <1>1. \A d \in Dispatchers : Active(d) => Active(d)' /\ desc'[d] = desc[d]
    BY DEF dlocals, Active
  <1>2. \/ pool' = new /\ UNCHANGED unreleased
        \/ UNCHANGED pool /\ unreleased' = unreleased \cup ips
    BY DEF CleanupUpdate, Write
  <1>3. ASSUME NEW s \in Servers, s \notin unreleased', pool'[s].state = "booked" PROVE OldBooking(s) /\ s \notin ips
    BY <1>2, <1>3 DEF OldBooking, Frees
  <1>4. ASSUME NEW s \in Servers, NEW u, Covered(s, u),
               s \notin unreleased', pool'[s].state = "booked", pool'[s].username = u
        PROVE  Covered(s, u)'
    <2>1. s \notin ips /\ pool[s].state = "booked" /\ pool[s].username = u
      BY <1>3, <1>4 DEF OldBooking
    <2>2. CASE u = jobs[j].desc /\ (jobs[j].byUser # "none" \/ s \in DOMAIN jobs[j].plan)
      <3>1. s \in BookedBy(pool, jobs[j].desc) \ ips
        BY <2>1, <2>2 DEF BookedBy
      <3> QED
        BY <2>2, <3>1 DEF Covered
    <2>3. CASE ~(u = jobs[j].desc /\ (jobs[j].byUser # "none" \/ s \in DOMAIN jobs[j].plan))
      BY <1>1, <1>4, <2>3 DEF Covered
    <2> QED
      BY <2>2, <2>3
  <1> QED
    BY <1>3, <1>4, AccountedStep

\* By descriptor: nothing is left under it.
LEMMA CleanupByUserAccounted ==
    ASSUME TypeOK, BookingsAccounted, NEW j \in JobIds, CleanupByUser(j)
    PROVE  BookingsAccounted'
  <1> DEFINE u == jobs[j].desc
             new == UpdateByUser(pool, u, jobs[j].byUser)
             ips == BookedBy(pool, u)
  <1>1. jobs[j] \in Jobs /\ pool \in [Servers -> Doc]
    BY DEF TypeOK
  <1>2. jobs[j].byUser # "booked"
    BY <1>1 DEF Jobs
  <1>3. CleanupUpdate(new, ips) /\ UNCHANGED dlocals /\ jobs[j].phase = "cleaning"
    BY DEF CleanupByUser
  <1>4. jobs' = [jobs EXCEPT ![j].byUser = "none"]
    BY DEF CleanupByUser
  <1>5. /\ jobs'[j].phase = jobs[j].phase /\ jobs'[j].desc = jobs[j].desc
        /\ \A k \in JobIds \ {j} : jobs'[k] = jobs[k]
    BY <1>1, <1>4 DEF TypeOK, Jobs
  <1>6. pool' = new => Frees({u})
    BY <1>1, <1>2, FreeingWrites
  <1>7. \A s \in ips : s \in Servers /\ pool' = new => pool'[s].state # "booked"
    BY <1>1, <1>2 DEF UpdateByUser, Doc
  <1> HIDE DEF new, ips
  <1>8. \A s \in BookedBy(pool, jobs[j].desc) \ ips :
               jobs[j].byUser # "none" \/ s \in DOMAIN jobs[j].plan => jobs'[j].byUser # "none" \/ s \in DOMAIN jobs'[j].plan
    BY DEF ips
  <1> QED
    BY <1>3, <1>5, <1>6, <1>7, <1>8, CleanupAccounted

\* By address: the other servers stay in the plan.
LEMMA CleanupByIpAccounted ==
    ASSUME TypeOK, BookingsAccounted, NEW j \in JobIds, CleanupByIp(j)
    PROVE  BookingsAccounted'
  <1>1. jobs[j] \in Jobs /\ pool \in [Servers -> Doc]
    BY DEF TypeOK
  <1>2. PICK ip \in DOMAIN jobs[j].plan :
            /\ CleanupUpdate(UpdateByIp(pool, ip, jobs[j].desc, jobs[j].plan[ip]),
                             {ip} \cap BookedBy(pool, jobs[j].desc))
            /\ jobs' = [jobs EXCEPT ![j].plan = [s \in DOMAIN jobs[j].plan \ {ip} |-> jobs[j].plan[s]]]
    BY DEF CleanupByIp, TypeOK
  <1>3. jobs[j].plan \in Plans
    BY <1>1 DEF Jobs, Plans, Verdict
  <1>4. ip \in Servers /\ jobs[j].plan[ip] # "booked"
    BY <1>3, PlanMember DEF Verdict
  <1> DEFINE u == jobs[j].desc
             new == UpdateByIp(pool, ip, u, jobs[j].plan[ip])
             ips == {ip} \cap BookedBy(pool, u)
  <1>5. UNCHANGED dlocals /\ jobs[j].phase = "cleaning"
    BY DEF CleanupByIp
  <1>6. /\ jobs'[j].phase = jobs[j].phase /\ jobs'[j].desc = jobs[j].desc
        /\ \A k \in JobIds \ {j} : jobs'[k] = jobs[k]
    BY <1>1, <1>2 DEF TypeOK, Jobs
  <1>7. jobs'[j].byUser = jobs[j].byUser /\ DOMAIN jobs'[j].plan = DOMAIN jobs[j].plan \ {ip}
    BY <1>1, <1>2 DEF TypeOK, Jobs
  <1>8. pool' = new => Frees({u})
    BY <1>1, <1>4, FreeingWrites
  <1>9. \A s \in ips : s \in Servers /\ pool' = new => pool'[s].state # "booked"
    BY <1>1, <1>4 DEF UpdateByIp, Doc
  <1>10. \A s \in BookedBy(pool, jobs[j].desc) \ ips :
               jobs[j].byUser # "none" \/ s \in DOMAIN jobs[j].plan => jobs'[j].byUser # "none" \/ s \in DOMAIN jobs'[j].plan
    BY <1>7
  <1>11. CleanupUpdate(new, ips)
    BY <1>2
  <1> HIDE DEF new, ips
  <1> QED
    BY <1>5, <1>6, <1>8, <1>9, <1>10, <1>11, CleanupAccounted

\* A build that ends has nothing left to release.
LEMMA JobEndsAccounted ==
    ASSUME TypeOK, BookingsAccounted, NEW j \in JobIds, JobEnds(j)
    PROVE  BookingsAccounted'
  <1>1. UNCHANGED <<pool, unreleased>> /\ \A d \in Dispatchers : Active(d) => Active(d)' /\ desc'[d] = desc[d]
    BY DEF JobEnds, dvars, Active
  <1>2. \A k \in JobIds \ {j} : jobs'[k] = jobs[k]
    BY DEF JobEnds, TypeOK
  <1>3. jobs[j].phase = "cleaning" /\ jobs[j].byUser = "none" /\ DOMAIN jobs[j].plan = {}
    BY DEF JobEnds
  <1>4. \A s \in Servers : \A u : Covered(s, u) => Covered(s, u)'
    BY <1>1, <1>2, <1>3 DEF Covered
  <1> QED
    BY <1>1, <1>4, AccountedStep DEF OldBooking

\* A statement of a script beside the dispatchers only frees servers.
LEMMA FreesAccounted ==
    ASSUME BookingsAccounted, NEW names, Frees(names), UNCHANGED <<unreleased, jobs>>,
           \A d \in Dispatchers : Active(d) => Active(d)' /\ desc'[d] = desc[d]
    PROVE  BookingsAccounted'
  BY FreesOld, SameCover, AccountedStep

\* Every step of every script keeps the account.
LEMMA StepAccounted ==
    ASSUME TypeOK, BookingsAccounted, [Next]_vars
    PROVE  BookingsAccounted'
  <1>0. pool \in [Servers -> Doc]
    BY DEF TypeOK
  <1>1. CASE UNCHANGED vars
    BY <1>1, QuietAccounted DEF vars, dvars, Active
  <1>2. ASSUME NEW d \in Dispatchers, Dispatcher(d) PROVE BookingsAccounted'
    <2>1. CASE Scan(d)
      BY <2>1, QuietAccounted DEF Scan, TypeOK, Active
    <2>2. CASE Prepare(d)
      BY <2>2, QuietAccounted DEF Prepare, TypeOK, Active
    <2>3. CASE Count(d) \/ Select(d) \/ Stage(d)
      BY <2>3, QuietAccounted DEF Count, Select, Stage, TypeOK, Active, locals
    <2>4. CASE Retry(d) \/ GiveUp(d)
      BY <2>4, QuietAccounted DEF Retry, GiveUp, TypeOK, Active, locals
    <2>5. CASE GotServers(d)
      <3>1. \E step \in {"count", "release", "mark"} : pc' = [pc EXCEPT ![d] = step]
        BY <2>5 DEF GotServers
      <3> QED
        BY <2>5, <3>1, QuietAccounted DEF GotServers, TypeOK, Active
    <2>6. CASE GotAddl(d)
      BY <2>6, QuietAccounted DEF GotAddl, TypeOK, Active
    <2>7. CASE Mark(d)
      <3>1. /\ UNCHANGED <<unreleased, jobs>>
            /\ \A e \in Dispatchers : Active(e) => Active(e)' /\ desc'[e] = desc[e]
        BY <2>7 DEF Mark, TypeOK, Active
      <3>2. UNCHANGED pool \/ \E s \in bad[d] : pool' = ReleaseIp(pool, s, "ssh_failed")
        BY <2>7 DEF Mark, Write
      <3>3. bad[d] \subseteq Servers
        BY DEF TypeOK
      <3> QED
        BY <1>0, <3>1, <3>2, <3>3, QuietAccounted, FreeingWrites, FreesAccounted
    <2>8. CASE Release(d) \/ Drop(d)
      <3>1. \A e \in Dispatchers \ {d} : Active(e) => Active(e)' /\ desc'[e] = desc[e]
        BY <2>8 DEF Release, Drop, NextRound, Forget, Active, TypeOK
      <3> QED
        BY <2>8, <3>1, GiveBackAccounted DEF Release, Drop
    <2> QED
      BY <1>2, <2>1, <2>2, <2>3, <2>4, <2>5, <2>6, <2>7, <2>8, CommitAccounted, LaunchAccounted DEF Dispatcher
  <1>3. ASSUME NEW j \in JobIds, Job(j) PROVE BookingsAccounted'
    BY <1>3, FinishAccounted, CleanupByUserAccounted, CleanupByIpAccounted, JobEndsAccounted DEF Job
  <1>4. CASE Cleaner
    <2>1. CASE CleanerEnd
      <3>1. cleaner.on \in Servers
        BY <2>1 DEF CleanerEnd, TypeOK
      <3>2. UNCHANGED pool \/ \E st \in {"available", "sshFailed"} : pool' = UpdateCleaned(pool, cleaner.on, st)
        BY <2>1 DEF CleanerEnd, Write
      <3>3. /\ UNCHANGED <<unreleased, jobs>>
            /\ \A e \in Dispatchers : Active(e) => Active(e)' /\ desc'[e] = desc[e]
        BY <2>1 DEF CleanerEnd, dlocals, Active
      <3> QED
        BY <1>0, <3>1, <3>2, <3>3, QuietAccounted, FreeingWrites, FreesAccounted
    <2>2. CASE ~CleanerEnd
      BY <1>4, <2>2, QuietAccounted DEF Cleaner, CleanerStart, CleanerTake, dvars, Active
    <2> QED
      BY <2>1, <2>2
  <1>5. ASSUME NEW names, NEW p, NEW st, Overdue(names, p, st) PROVE BookingsAccounted'
    <2>1. Frees(names) /\ UNCHANGED <<unreleased, jobs>>
      BY <1>0, <1>5, FreeingWrites DEF Overdue, Write
    <2>2. \A e \in Dispatchers : Active(e) => Active(e)' /\ desc'[e] = desc[e]
      BY <1>5 DEF Overdue, dlocals, Active
    <2> QED
      BY <2>1, <2>2, FreesAccounted
  <1> QED
    BY <1>1, <1>2, <1>3, <1>4, <1>5 DEF Next

\* Whatever the scripts do, and whether or not the transaction library notices conflicts or a
\* reply of Jenkins is lost: a booked server belongs to a dispatcher at work, to a running build
\* or to a cleanup that will come to it, or its release has failed.
THEOREM AllAccounted == Spec => []BookingsAccounted
  <1>1. Init => BookingsAccounted
    BY DEF Init, BookingsAccounted
  <1>2. TypeOK /\ BookingsAccounted /\ [Next]_vars => BookingsAccounted'
    BY StepAccounted
  <1> QED
    BY <1>1, <1>2, TypeCorrect, PTL DEF Spec

-----------------------------------------------------------------------------
(* The repair script: the steps. *)

\* Every script but the repair itself leaves a node in failedInstall alone.
LEMMA FailedStay ==
    ASSUME TypeOK, TrackSelect, StagedAvailable, "failedInstall" \notin OverdueStates, Next, ~CleanerEnd,
           NEW s \in Servers, pool[s].state = "failedInstall"
    PROVE  pool'[s].state = "failedInstall"
  <1>0. pool \in [Servers -> Doc]
    BY DEF TypeOK
  <1>1. ASSUME NEW d \in Dispatchers, Dispatcher(d) PROVE pool'[s].state = "failedInstall"
    <2>1. CASE Mark(d)
      <3>1. UNCHANGED pool \/ \E x \in bad[d] : pool' = ReleaseIp(pool, x, "ssh_failed")
        BY <2>1 DEF Mark, Write
      <3>2. bad[d] \subseteq Servers
        BY DEF TypeOK
      <3> QED
        BY <1>0, <3>1, <3>2 DEF ReleaseIp, Doc
    <2>2. CASE Release(d) \/ Drop(d)
      <3>1. UNCHANGED pool \/ pool' = ReleaseServers(pool, desc[d], "available")
        BY <2>2 DEF Release, Drop, GiveBack, Write
      <3> QED
        BY <3>1 DEF ReleaseServers, BookedBy
    <2>3. CASE Commit(d)
      BY <2>3 DEF Commit, StagedAvailable, Book
    <2>4. CASE ~Mark(d) /\ ~Release(d) /\ ~Drop(d) /\ ~Commit(d)
      BY <1>1, <2>4 DEF Dispatcher, Scan, Prepare, Count, Select, Stage, Retry, GiveUp,
                        GotServers, GotAddl, Launch, LaunchRaises
    <2> QED
      BY <2>1, <2>2, <2>3, <2>4
  <1>2. ASSUME NEW j \in JobIds, Job(j) PROVE pool'[s].state = "failedInstall"
    <2>1. CASE Finish(j) \/ JobEnds(j)
      BY <2>1 DEF Finish, JobEnds
    <2>2. CASE CleanupByUser(j)
      BY <2>2 DEF CleanupByUser, CleanupUpdate, Write, UpdateByUser, BookedBy
    <2>3. CASE CleanupByIp(j)
      <3>1. \/ UNCHANGED pool
            \/ \E ip \in DOMAIN jobs[j].plan : pool' = UpdateByIp(pool, ip, jobs[j].desc, jobs[j].plan[ip])
        BY <2>3 DEF CleanupByIp, CleanupUpdate, Write
      <3> QED
        BY <1>0, <3>1 DEF UpdateByIp, BookedBy, Doc
    <2> QED
      BY <1>2, <2>1, <2>2, <2>3 DEF Job
  <1>3. CASE Cleaner
    BY <1>3 DEF Cleaner, CleanerStart, CleanerTake
  <1>4. ASSUME NEW names, NEW p, NEW st \in OverdueStates, Overdue(names, p, st) PROVE pool'[s].state = "failedInstall"
    BY <1>0, <1>4 DEF Overdue, Write, ReleaseOverdue
  <1> QED
    BY <1>1, <1>2, <1>3, <1>4 DEF Next

\* The rows of the repair script stay in failedInstall until it is through with them.
LEMMA StepCleaner ==
    ASSUME TypeOK, TrackSelect, StagedAvailable, "failedInstall" \notin OverdueStates, CleanerRows, [Next]_vars
    PROVE  CleanerRows'
  <1>0. pool \in [Servers -> Doc] /\ cleaner \in [rows : SUBSET Servers, on : Servers \cup {NoServer}]
    BY DEF TypeOK
  <1>1. CASE UNCHANGED vars
    BY <1>1 DEF vars, CleanerRows
  <1>2. CASE CleanerEnd
    <2>1. cleaner'.on = NoServer /\ cleaner'.rows \subseteq cleaner.rows
      BY <1>0, <1>2 DEF CleanerEnd
    <2>2. cleaner.on \in Servers
      BY <1>0, <1>2 DEF CleanerEnd
    <2>3. \A s \in Servers : s # cleaner.on => pool'[s] = pool[s]
      BY <1>0, <1>2, <2>2 DEF CleanerEnd, Write, UpdateCleaned
    <2>4. \A s \in cleaner.rows : s \in Servers /\ s # cleaner.on /\ pool[s].state = "failedInstall"
      BY <1>0, <1>2 DEF CleanerEnd, CleanerRows
    <2> QED
      BY <2>1, <2>3, <2>4 DEF CleanerRows
  <1>3. CASE Next /\ ~CleanerEnd
    <2>1. \A s \in Servers : pool[s].state = "failedInstall" => pool'[s].state = "failedInstall"
      BY <1>3, FailedStay
    <2>2. \/ UNCHANGED cleaner
          \/ CleanerStart
          \/ \E s \in Servers : CleanerTake(s)
      BY <1>3 DEF Next, Dispatcher, Job, Cleaner, Overdue, Scan, Prepare, Count, Select, Stage, Commit,
                  Retry, GiveUp, GotServers, GotAddl, Mark, Launch, LaunchRaises, Release, Drop,
                  Finish, CleanupByUser, CleanupByIp, JobEnds
    <2>3. CASE UNCHANGED cleaner
      BY <1>0, <2>1, <2>3 DEF CleanerRows
    <2>4. CASE CleanerStart
      BY <1>0, <2>1, <2>4 DEF CleanerRows, CleanerStart
    <2>5. ASSUME NEW s \in Servers, CleanerTake(s) PROVE CleanerRows'
      BY <1>0, <2>1, <2>5 DEF CleanerRows, CleanerTake
    <2> QED
      BY <2>2, <2>3, <2>4, <2>5
  <1> QED
    BY <1>1, <1>2, <1>3

\* If the transaction library validates the rows it has selected and the overdue script is not
\* started for nodes in failedInstall, nobody has booked a node that the repair script works
\* on, from its SELECT to its update, although it holds no lock and reads its rows once.
THEOREM CleanerSafe ==
    ASSUME TrackSelect, "failedInstall" \notin OverdueStates
    PROVE  Spec => []CleanerSparesBooked
  <1>1. Init => StagedAvailable /\ CleanerRows
    BY DEF Init, StagedAvailable, CleanerRows
  <1>2. TypeOK /\ StagedAvailable /\ CleanerRows /\ [Next]_vars => StagedAvailable' /\ CleanerRows'
    BY StepAvailable, StepCleaner
  <1>3. CleanerRows => CleanerSparesBooked
    BY DEF CleanerRows, CleanerSparesBooked
  <1> QED
    BY <1>1, <1>2, <1>3, TypeCorrect, PTL DEF Spec

-----------------------------------------------------------------------------
(* Ownership: the steps. *)

\* A statement that frees servers of some names spares those of everybody else.
LEMMA OthersKeep ==
    ASSUME pool \in [Servers -> Doc], NEW names, Frees(names), NEW v, v \notin names
    PROVE  BookedBy(pool, v) \subseteq BookedBy(pool', v)
  BY DEF Frees, BookedBy

\* A commit takes no booked server.
LEMMA CommitKeeps ==
    ASSUME TypeOK, StagedAvailable, NEW d \in Dispatchers, Commit(d), NEW v
    PROVE  BookedBy(pool, v) \subseteq BookedBy(pool', v)
  BY DEF Commit, StagedAvailable, Book, BookedBy

\* A dispatcher that takes no step holds what it held, if nobody frees its servers.
LEMMA HeldSame ==
    ASSUME NEW d \in Dispatchers, Held(d), pc'[d] = pc[d], desc'[d] = desc[d], servers'[d] = servers[d],
           addl'[d] = addl[d], bad'[d] = bad[d], txn'[d].list = txn[d].list,
           Holding(d) => BookedBy(pool, desc[d]) \subseteq BookedBy(pool', desc[d])
    PROVE  Held(d)'
  BY DEF Held, Holding, Active

\* A running build owns what it owned, if nobody frees its servers.
LEMMA OwnedSame ==
    ASSUME NEW j \in JobIds, Owned(j), jobs'[j] = jobs[j],
           Live(j) => BookedBy(pool, jobs[j].desc) \subseteq BookedBy(pool', jobs[j].desc)
    PROVE  Owned(j)'
  BY DEF Owned, Live

\* No write to the pool changes a server_list.
LEMMA WriteList ==
    ASSUME TypeOK, NEW new, Write(new)
    PROVE  \A e \in Dispatchers : txn'[e].list = txn[e].list
  <1> SUFFICES ASSUME NEW e \in Dispatchers PROVE txn'[e].list = txn[e].list
    OBVIOUS
  <1>1. txn[e] \in Txns
    BY DEF TypeOK
  <1>2. txn'[e] = txn[e] \/ txn'[e] = [txn[e] EXCEPT !.dirty = TRUE]
    BY DEF Write, Conflicted
  <1> QED
    BY <1>1, <1>2 DEF Txns

\* The names stay different while no dispatcher starts and no build is queued.
LEMMA NamesSame ==
    ASSUME Names,
           \A d \in Dispatchers : Active(d)' => /\ Active(d) /\ desc'[d] = desc[d]
                                                /\ pc[d] = "release" => pc'[d] = "release",
           \A j \in JobIds : Live(j)' => Live(j) /\ jobs'[j].desc = jobs[j].desc
    PROVE  Names'
  <1>1. \A d, e \in Dispatchers : d # e /\ Active(d)' /\ Active(e)' => desc'[d] # desc'[e]
    BY DEF Names
  <1>2. \A j, k \in JobIds : j # k /\ Live(j)' /\ Live(k)' => jobs'[j].desc # jobs'[k].desc
    BY DEF Names
  <1>3. \A d \in Dispatchers, j \in JobIds :
          Active(d)' /\ Live(j)' /\ (pc'[d] # "release" \/ ~LostReply) => desc'[d] # jobs'[j].desc
    BY DEF Names
  <1> QED
    BY <1>1, <1>2, <1>3 DEF Names

\* A step of one dispatcher that leaves the pool, the others and the builds alone.
LEMMA LocalStep ==
    ASSUME TypeOK, Own, NEW d \in Dispatchers, UNCHANGED <<pool, jobs>>,
           \A e \in Dispatchers \ {d} :
              /\ pc'[e] = pc[e] /\ desc'[e] = desc[e] /\ servers'[e] = servers[e]
              /\ addl'[e] = addl[e] /\ bad'[e] = bad[e] /\ txn'[e] = txn[e],
           Active(d)' => /\ Active(d) /\ desc'[d] = desc[d]
                         /\ pc[d] = "release" => pc'[d] = "release",
           Held(d)'
    PROVE  Own'
  <1>1. \A e \in Dispatchers \ {d} : Held(e)'
    BY HeldSame DEF Own
  <1>2. \A j \in JobIds : Owned(j) => Owned(j)'
    BY DEF Owned
  <1>3. Names'
    <2>1. \A e \in Dispatchers : Active(e)' => /\ Active(e) /\ desc'[e] = desc[e]
                                               /\ pc[e] = "release" => pc'[e] = "release"
      BY DEF Active
    <2>2. \A j \in JobIds : Live(j)' => Live(j) /\ jobs'[j].desc = jobs[j].desc
      BY DEF Live
    <2> QED
      BY <2>1, <2>2, NamesSame DEF Own
  <1> QED
    BY <1>1, <1>2, <1>3 DEF Own

\* check_servers_via_ssh returns servers of the list that answered.
LEMMA AliveRange ==
    ASSUME NEW q \in Seq(Servers), NEW dead, NEW kept \in Alive(q, dead)
    PROVE  Range(kept) \subseteq Range(q) \ dead
  <1> DEFINE left == {i \in DOMAIN q : q[i] \notin dead}
             size == Cardinality(left)
  <1>1. PICK f \in [1..size -> left] : kept = [i \in 1..size |-> q[f[i]]]
    BY DEF Alive
  <1> HIDE DEF size
  <1> QED
    BY <1>1 DEF Range

\* Nobody holds anything at the start.
LEMMA InitOwn == Init => Own
  BY DEF Init, Own, Names, Held, Owned, Holding, Active, Live, NoJob

\* Looking for a test holds nothing.
LEMMA ScanOwn == ASSUME TypeOK, Own, NEW d \in Dispatchers, Scan(d) PROVE Own'
  <1>1. ~Active(d)' /\ Held(d)'
    BY DEF Scan, Active, Held, Holding, TypeOK
  <1> QED
    BY <1>1, LocalStep DEF Scan, TypeOK

\* The steps of get_servers up to the commit touch no server_list.
LEMMA LookupOwn ==
    ASSUME TypeOK, Own, NEW d \in Dispatchers, Count(d) \/ Select(d) \/ Stage(d) PROVE Own'
  <1>0. txn[d] \in Txns
    BY DEF TypeOK
  <1>1. UNCHANGED <<pool, jobs, locals>>
    BY DEF Count, Select, Stage
  <1>2. txn'[d].list = txn[d].list /\ \A e \in Dispatchers \ {d} : txn'[e] = txn[e]
    <2>1. CASE Select(d)
      <3>1. PICK rows : txn' = [txn EXCEPT ![d] = [@ EXCEPT !.rows = rows, !.dirty = FALSE]]
        BY <2>1 DEF Select
      <3> QED
        BY <1>0, <3>1 DEF TypeOK, Txns
    <2>2. CASE Count(d) \/ Stage(d)
      BY <2>2 DEF Count, Stage
    <2> QED
      BY <2>1, <2>2
  <1>3. /\ pc[d] \in {"count", "select", "stage"}
        /\ pc'[d] \in {"got", "select", "stage", "commit"}
        /\ \A e \in Dispatchers \ {d} : pc'[e] = pc[e]
    BY DEF Count, Select, Stage, TypeOK
  <1>4. Active(d) /\ Holding(d)
    BY <1>3 DEF Active, Holding
  <1>5. Held(d)
    BY DEF Own
  <1>6. Held(d)'
    <2>1. txn[d].list = <<>>
      BY <1>3, <1>4, <1>5 DEF Held
    <2> QED
      BY <1>1, <1>2, <1>4, <1>5, <2>1 DEF Held, locals
  <1> QED
    BY <1>1, <1>2, <1>3, <1>4, <1>6, LocalStep DEF locals

\* An attempt that fails returns an empty list.
LEMMA GiveUpOwn == ASSUME TypeOK, Own, NEW d \in Dispatchers, GiveUp(d) PROVE Own'
  <1>1. txn'[d].list = <<>> /\ \A e \in Dispatchers \ {d} : txn'[e] = txn[e]
    BY DEF GiveUp, TypeOK, NoTxn
  <1>2. /\ pc[d] \in {"count", "select", "stage", "commit"}
        /\ pc'[d] = "got"
        /\ \A e \in Dispatchers \ {d} : pc'[e] = pc[e]
    BY DEF GiveUp, TypeOK
  <1>3. Active(d) /\ Holding(d)
    BY <1>2 DEF Active, Holding
  <1>4. Held(d)
    BY DEF Own
  <1>5. UNCHANGED <<pool, jobs, locals>>
    BY DEF GiveUp
  <1>6. Range(txn'[d].list) = {}
    BY <1>1 DEF Range
  <1>7. Held(d)'
    BY <1>1, <1>3, <1>4, <1>5, <1>6 DEF Held, locals
  <1> QED
    BY <1>1, <1>2, <1>3, <1>5, <1>7, LocalStep DEF locals

\* A dispatcher starts under a name nobody carries, with empty lists.
LEMMA PrepareOwn == ASSUME TypeOK, UniqueNames, Own, NEW d \in Dispatchers, Prepare(d) PROVE Own'
  <1>1. PICK name : name \notin LiveNames /\ desc' = [desc EXCEPT ![d] = name]
    BY DEF Prepare
  <1>2. /\ \A e \in Dispatchers \ {d} : /\ pc'[e] = pc[e] /\ desc'[e] = desc[e] /\ servers'[e] = servers[e]
                                        /\ addl'[e] = addl[e] /\ bad'[e] = bad[e] /\ txn'[e] = txn[e]
        /\ desc'[d] = name /\ pc'[d] = "count"
        /\ servers'[d] = <<>> /\ addl'[d] = <<>> /\ bad'[d] = {} /\ txn'[d].list = <<>>
    BY <1>1 DEF Prepare, TypeOK, NoTxn
  <1>3. UNCHANGED <<pool, jobs>>
    BY DEF Prepare
  <1>4. \A e \in Dispatchers \ {d} : Held(e)'
    BY <1>2, <1>3, HeldSame DEF Own
  <1>5. Range(<<>>) = {}
    BY DEF Range
  <1>6. Held(d)'
    BY <1>2, <1>5 DEF Held
  <1>7. \A j \in JobIds : Owned(j) => Owned(j)'
    BY <1>3 DEF Owned
  <1>8. Names'
    <2>1. /\ \A e \in Dispatchers : Active(e) => desc[e] # name
          /\ \A j \in JobIds : Live(j) => jobs[j].desc # name
      BY <1>1 DEF LiveNames, Live
    <2>2. \A e \in Dispatchers \ {d} : Active(e)' <=> Active(e)
      BY <1>2 DEF Active
    <2>3. \A j \in JobIds : (Live(j)' <=> Live(j)) /\ jobs'[j].desc = jobs[j].desc
      BY <1>3 DEF Live
    <2>4. Names
      BY DEF Own
    <2>5. \A e, f \in Dispatchers : e # f /\ Active(e)' /\ Active(f)' => desc'[e] # desc'[f]
      BY <1>2, <2>1, <2>2, <2>4 DEF Names
    <2>6. \A j, k \in JobIds : j # k /\ Live(j)' /\ Live(k)' => jobs'[j].desc # jobs'[k].desc
      BY <2>3, <2>4 DEF Names
    <2>7. \A e \in Dispatchers, j \in JobIds :
             Active(e)' /\ Live(j)' /\ (pc'[e] # "release" \/ ~LostReply) => desc'[e] # jobs'[j].desc
      BY <1>2, <2>1, <2>2, <2>3, <2>4 DEF Names
    <2> QED
      BY <2>5, <2>6, <2>7 DEF Names
  <1> QED
    BY <1>4, <1>6, <1>7, <1>8 DEF Own

\* A commit adds free servers to those of the dispatcher.
LEMMA CommitOwn ==
    ASSUME TypeOK, StagedAvailable, Own, NEW d \in Dispatchers, Commit(d) PROVE Own'
  <1> DEFINE new == Book(pool, Range(txn[d].rows), desc[d])
  <1>0. txn[d] \in Txns /\ Conflicted(Range(txn[d].rows)) \in [Dispatchers -> Txns]
    BY ConflictedType DEF TypeOK
  <1>1. /\ pool' = new
        /\ txn' = [Conflicted(Range(txn[d].rows)) EXCEPT ![d] = [txn[d] EXCEPT !.list = @ \o txn[d].rows]]
        /\ pc[d] = "commit" /\ ~txn[d].dirty
        /\ UNCHANGED <<locals, jobs>>
    BY DEF Commit
  <1>2. pc'[d] = "got" /\ \A e \in Dispatchers \ {d} : pc'[e] = pc[e]
    BY DEF Commit, TypeOK
  <1>3. \A v : BookedBy(pool, v) \subseteq BookedBy(pool', v)
    BY CommitKeeps
  <1>4. txn'[d].list = txn[d].list \o txn[d].rows
    BY <1>0, <1>1 DEF Txns
  <1>5. \A e \in Dispatchers \ {d} : txn'[e].list = txn[e].list
    <2> SUFFICES ASSUME NEW e \in Dispatchers \ {d} PROVE txn'[e].list = txn[e].list
      OBVIOUS
    <2>1. txn[e] \in Txns
      BY DEF TypeOK
    <2>2. txn'[e] = Conflicted(Range(txn[d].rows))[e]
      BY <1>0, <1>1
    <2> HIDE DEF new
    <2>3. txn'[e] = txn[e] \/ txn'[e] = [txn[e] EXCEPT !.dirty = TRUE]
      BY <2>2 DEF Conflicted
    <2> QED
      BY <2>1, <2>3 DEF Txns
  <1>6. Active(d) /\ Holding(d)
    BY <1>1 DEF Active, Holding
  <1>7. Held(d)
    BY DEF Own
  <1>8. txn[d].list = <<>>
    BY <1>1, <1>6, <1>7 DEF Held
  <1>9. txn'[d].list = txn[d].rows
    BY <1>0, <1>4, <1>8 DEF Txns
  <1>10. Range(txn[d].rows) \subseteq Servers
    BY <1>0 DEF Txns, Range
  <1>11. Range(txn[d].rows) \subseteq BookedBy(pool', desc[d])
    BY <1>1, <1>10 DEF Book, BookedBy
  <1>12. Range(txn[d].rows) \cap BookedBy(pool, desc[d]) = {}
    BY <1>1 DEF StagedAvailable, BookedBy
  <1>13. Held(d)'
    BY <1>1, <1>2, <1>3, <1>6, <1>7, <1>9, <1>11, <1>12 DEF Held, locals
  <1>14. \A e \in Dispatchers \ {d} : Held(e)'
    BY <1>1, <1>2, <1>3, <1>5, HeldSame DEF Own, locals
  <1>15. \A j \in JobIds : Owned(j) => Owned(j)'
    BY <1>1, <1>3, OwnedSame
  <1>16. Names'
    <2>1. \A e \in Dispatchers : Active(e)' => /\ Active(e) /\ desc'[e] = desc[e]
                                               /\ pc[e] = "release" => pc'[e] = "release"
      BY <1>1, <1>2, <1>6 DEF Active, locals
    <2>2. \A j \in JobIds : Live(j)' => Live(j) /\ jobs'[j].desc = jobs[j].desc
      BY <1>1 DEF Live
    <2> QED
      BY <2>1, <2>2, NamesSame DEF Own
  <1> QED
    BY <1>13, <1>14, <1>15, <1>16 DEF Own

\* check_vm keeps the servers that answered apart from those that did not.
LEMMA GotServersOwn == ASSUME TypeOK, Own, NEW d \in Dispatchers, GotServers(d) PROVE Own'
  <1>0. txn[d] \in Txns /\ txn[d].list \in Seq(Servers) /\ servers[d] \in Seq(Servers)
    BY DEF TypeOK, Txns
  <1>1. PICK dead, kept : /\ dead \subseteq Range(txn[d].list) /\ kept \in Alive(txn[d].list, dead)
                          /\ servers' = [servers EXCEPT ![d] = servers[d] \o kept]
                          /\ bad' = [bad EXCEPT ![d] = @ \cup dead]
                          /\ \E step \in {"count", "release", "mark"} : pc' = [pc EXCEPT ![d] = step]
    BY DEF GotServers
  <1>2. /\ pc[d] = "got" /\ txn' = [txn EXCEPT ![d] = NoTxn]
        /\ UNCHANGED <<pool, desc, addl, jobs>>
    BY DEF GotServers
  <1>3. kept \in Seq(Servers) /\ Range(kept) \subseteq Range(txn[d].list) \ dead
    BY <1>0, <1>1, AliveType, AliveRange
  <1>4. /\ Range(servers'[d]) = Range(servers[d]) \cup Range(kept)
        /\ bad'[d] = bad[d] \cup dead
        /\ txn'[d].list = <<>> /\ Range(txn'[d].list) = {}
    <2>1. servers'[d] = servers[d] \o kept /\ bad'[d] = bad[d] \cup dead
      BY <1>1 DEF TypeOK
    <2>2. txn'[d].list = <<>>
      BY <1>2 DEF TypeOK, NoTxn
    <2>3. Range(<<>>) = {}
      BY DEF Range
    <2> QED
      BY <1>0, <1>3, <2>1, <2>2, <2>3, RangeConcatenation
  <1>5. Active(d) /\ Holding(d) /\ Held(d)
    BY <1>2 DEF Active, Holding, Own
  <1>6. Held(d)'
    BY <1>2, <1>3, <1>4, <1>1, <1>5 DEF Held
  <1>7. \A e \in Dispatchers \ {d} :
          /\ pc'[e] = pc[e] /\ desc'[e] = desc[e] /\ servers'[e] = servers[e]
          /\ addl'[e] = addl[e] /\ bad'[e] = bad[e] /\ txn'[e] = txn[e]
    BY <1>1, <1>2 DEF TypeOK
  <1> QED
    BY <1>2, <1>5, <1>6, <1>7, LocalStep

\* The servers of the additional pool are booked for the test as well.
LEMMA GotAddlOwn == ASSUME TypeOK, Own, NEW d \in Dispatchers, GotAddl(d) PROVE Own'
  <1>1. /\ pc[d] = "got" /\ txn' = [txn EXCEPT ![d] = NoTxn]
        /\ addl' = [addl EXCEPT ![d] = txn[d].list]
        /\ UNCHANGED <<pool, desc, servers, bad, jobs>>
    BY DEF GotAddl
  <1>2. addl'[d] = txn[d].list /\ txn'[d].list = <<>> /\ Range(txn'[d].list) = {}
    BY <1>1 DEF TypeOK, NoTxn, Range
  <1>3. Active(d) /\ Holding(d) /\ Held(d)
    BY <1>1 DEF Active, Holding, Own
  <1>4. Held(d)'
    BY <1>1, <1>2, <1>3 DEF Held
  <1>5. \A e \in Dispatchers \ {d} :
          /\ pc'[e] = pc[e] /\ desc'[e] = desc[e] /\ servers'[e] = servers[e]
          /\ addl'[e] = addl[e] /\ bad'[e] = bad[e] /\ txn'[e] = txn[e]
    BY <1>1 DEF GotAddl, TypeOK
  <1> QED
    BY <1>1, <1>3, <1>4, <1>5, LocalStep

\* Only servers the test will not use are released while it is dispatched.
LEMMA MarkOwn == ASSUME TypeOK, Own, NEW d \in Dispatchers, Mark(d) PROVE Own'
  <1>0. pc[d] = "mark" /\ Active(d) /\ Holding(d) /\ Held(d)
    BY DEF Mark, Active, Holding, Own
  <1>1. CASE pool' = pool /\ txn' = txn
    <2>1. bad'[d] \subseteq bad[d] /\ \A e \in Dispatchers \ {d} : bad'[e] = bad[e]
      BY <1>1 DEF Mark, TypeOK
    <2>2. pc'[d] \in {"mark", "launch", "drop"} /\ \A e \in Dispatchers \ {d} : pc'[e] = pc[e]
      BY <1>0 DEF Mark, TypeOK
    <2>3. UNCHANGED <<desc, servers, addl, jobs>>
      BY DEF Mark
    <2>4. Held(d)'
      BY <1>0, <1>1, <2>1, <2>2, <2>3 DEF Held
    <2> QED
      BY <1>0, <1>1, <2>1, <2>2, <2>3, <2>4, LocalStep
  <1>2. ASSUME NEW s \in bad[d], Write(ReleaseIp(pool, s, "ssh_failed")), bad' = [bad EXCEPT ![d] = @ \ {s}],
               pc' = pc, UNCHANGED <<desc, servers, addl, jobs>>
        PROVE  Own'
    <2>1. s \in Servers /\ pool[s].username = desc[d]
      BY <1>0 DEF Held, BookedBy
    <2>2. pool \in [Servers -> Doc]
      BY DEF TypeOK
    <2>3. Frees({desc[d]})
      BY <1>2, <2>1, <2>2, FreeingWrites DEF Write
    <2>4. \A e \in Dispatchers : txn'[e].list = txn[e].list
      BY <1>2, WriteList
    <2>5. \A v : v # desc[d] => BookedBy(pool, v) \subseteq BookedBy(pool', v)
      BY <2>2, <2>3, OthersKeep
    <2>6. \A e \in Dispatchers \ {d} : Active(e) => desc[e] # desc[d]
      BY <1>0 DEF Own, Names
    <2>7. \A e \in Dispatchers \ {d} : Held(e)'
      BY <1>2, <2>4, <2>5, <2>6, HeldSame DEF Own, Holding, TypeOK
    <2>8. BookedBy(pool, desc[d]) \ {s} \subseteq BookedBy(pool', desc[d])
      BY <1>2, <2>1, <2>2 DEF Write, ReleaseIp, BookedBy
    <2>9. bad'[d] = bad[d] \ {s}
      BY <1>2 DEF TypeOK
    <2>10. Held(d)'
      BY <1>0, <1>2, <2>4, <2>8, <2>9 DEF Held
    <2>11. \A j \in JobIds : Owned(j) => Owned(j)'
      BY <1>0, <1>2, <2>5, OwnedSame DEF Own, Names
    <2>12. Names'
      <3>1. \A e \in Dispatchers : Active(e)' => /\ Active(e) /\ desc'[e] = desc[e]
                                                 /\ pc[e] = "release" => pc'[e] = "release"
        BY <1>2 DEF Active
      <3>2. \A j \in JobIds : Live(j)' => Live(j) /\ jobs'[j].desc = jobs[j].desc
        BY <1>2 DEF Live
      <3> QED
        BY <3>1, <3>2, NamesSame DEF Own
    <2> QED
      BY <2>7, <2>10, <2>11, <2>12 DEF Own
  <1> QED
    BY <1>1, <1>2 DEF Mark

\* A build takes over the name of the dispatcher that queued it.
LEMMA QueueNames ==
    ASSUME TypeOK, Names, NEW d \in Dispatchers, pc[d] = "launch", NEW j \in JobIds, Queue(d, j),
           \A e \in Dispatchers \ {d} : pc'[e] = pc[e] /\ desc'[e] = desc[e],
           Active(d)' => desc'[d] = desc[d] /\ pc'[d] = "release" /\ LostReply
    PROVE  Names'
  <1>1. Active(d) /\ \A e \in Dispatchers \ {d} : Active(e)' <=> Active(e)
    BY DEF Active
  <1>2. /\ jobs'[j].desc = desc[d]
        /\ \A k \in JobIds \ {j} : jobs'[k] = jobs[k] /\ (Live(k)' <=> Live(k))
    BY DEF Queue, TypeOK, Live
  <1>3. \A e, f \in Dispatchers : e # f /\ Active(e)' /\ Active(f)' => desc'[e] # desc'[f]
    BY <1>1 DEF Names
  <1>4. \A k \in JobIds : Live(k) => jobs[k].desc # desc[d]
    BY <1>1 DEF Names
  <1>5. \A k, l \in JobIds : k # l /\ Live(k)' /\ Live(l)' => jobs'[k].desc # jobs'[l].desc
    BY <1>2, <1>4 DEF Names
  <1>6. \A e \in Dispatchers, k \in JobIds :
          Active(e)' /\ Live(k)' /\ (pc'[e] # "release" \/ ~LostReply) => desc'[e] # jobs'[k].desc
    <2> SUFFICES ASSUME NEW e \in Dispatchers, NEW k \in JobIds, Active(e)', Live(k)',
                        pc'[e] # "release" \/ ~LostReply
                 PROVE  desc'[e] # jobs'[k].desc
      OBVIOUS
    <2>1. e # d
      OBVIOUS
    <2>2. Active(e) /\ pc'[e] = pc[e] /\ desc'[e] = desc[e] /\ desc[e] # desc[d]
      BY <1>1, <2>1 DEF Names
    <2>3. k # j => Live(k) /\ jobs'[k] = jobs[k]
      BY <1>2
    <2> QED
      BY <1>2, <2>2, <2>3 DEF Names
  <1> QED
    BY <1>3, <1>5, <1>6 DEF Names

\* What NextRound and the handler of exceptions leave: a dispatcher without servers.
LEMMA ForgetOthers ==
    ASSUME TypeOK, NEW d \in Dispatchers, Forget(d)
    PROVE  \A e \in Dispatchers \ {d} : /\ desc'[e] = desc[e] /\ servers'[e] = servers[e]
                                        /\ addl'[e] = addl[e] /\ bad'[e] = bad[e]
  BY DEF Forget, TypeOK

\* The servers a test is launched on become those of its build.
LEMMA LaunchOwn == ASSUME TypeOK, Own, NEW d \in Dispatchers, Launch(d) PROVE Own'
  <1>1. PICK j \in JobIds : Queue(d, j)
    BY DEF Launch
  <1>2. /\ pc[d] = "launch" /\ UNCHANGED <<pool, txn>>
        /\ Forget(d)
        /\ \E step \in {"done", "scan"} : pc' = [pc EXCEPT ![d] = step]
    BY DEF Launch, NextRound
  <1>3. ~Active(d)' /\ \A e \in Dispatchers \ {d} : pc'[e] = pc[e]
    BY <1>2 DEF TypeOK, Active
  <1>4. Names'
    BY <1>1, <1>2, <1>3, QueueNames, ForgetOthers DEF Own
  <1>5. \A e \in Dispatchers \ {d} : Held(e)'
    BY <1>2, <1>3, ForgetOthers, HeldSame DEF Own
  <1>6. Held(d)'
    BY <1>3 DEF Held, Holding
  <1>7. \A k \in JobIds \ {j} : Owned(k) => Owned(k)'
    BY <1>1, <1>2, OwnedSame DEF Queue, TypeOK
  <1>8. Owned(j)'
    <2>1. Holding(d) /\ Held(d)
      BY <1>2 DEF Holding, Active, Own
    <2>2. jobs'[j].desc = desc[d] /\ jobs'[j].servers = Range(servers[d]) /\ jobs'[j].addl = Range(addl[d])
      BY <1>1 DEF Queue, TypeOK
    <2> QED
      BY <1>2, <2>1, <2>2 DEF Owned, Held
  <1> QED
    BY <1>4, <1>5, <1>6, <1>7, <1>8 DEF Own

\* A request that raises sends the dispatcher to give its servers back.
LEMMA LaunchRaisesOwn == ASSUME TypeOK, Own, NEW d \in Dispatchers, LaunchRaises(d) PROVE Own'
  <1>1. pc[d] = "launch" /\ UNCHANGED <<pool, txn, desc, servers, addl, bad>>
    BY DEF LaunchRaises
  <1>2. pc'[d] = "release" /\ \A e \in Dispatchers \ {d} : pc'[e] = pc[e]
    BY DEF LaunchRaises, TypeOK
  <1>3. Held(d)'
    BY <1>2 DEF Held, Holding
  <1>4. CASE UNCHANGED jobs
    <2>1. Active(d)
      BY <1>1 DEF Active
    <2> QED
      BY <1>1, <1>2, <1>3, <1>4, <2>1, LocalStep
  <1>5. CASE LostReply /\ \E j \in JobIds : Queue(d, j)
    <2>1. Names'
      BY <1>1, <1>2, <1>5, QueueNames DEF Own
    <2>2. \A e \in Dispatchers \ {d} : Held(e)'
      BY <1>1, <1>2, HeldSame DEF Own
    <2> QED
      BY <1>3, <1>5, <2>1, <2>2 DEF Own
  <1> QED
    BY <1>4, <1>5 DEF LaunchRaises

\* A dispatcher gives back what is booked under its name, and nobody else's.
LEMMA GivesOwn ==
    ASSUME TypeOK, Own, NEW d \in Dispatchers, Release(d) \/ Drop(d) PROVE Own'
  <1>0. pool \in [Servers -> Doc]
    BY DEF TypeOK
  <1>1. /\ pc[d] \in {"release", "drop"} /\ Forget(d) /\ UNCHANGED jobs
        /\ \E step \in {"scan", "done"} : pc' = [pc EXCEPT ![d] = step]
    <2>1. CASE Release(d)
      BY <2>1 DEF Release
    <2>2. CASE Drop(d)
      BY <2>2 DEF Drop, NextRound
    <2> QED
      BY <2>1, <2>2
  <1>2. Active(d) /\ ~Active(d)' /\ \A e \in Dispatchers \ {d} : pc'[e] = pc[e]
    BY <1>1 DEF TypeOK, Active
  <1>3. UNCHANGED <<pool, txn>> \/ Write(ReleaseServers(pool, desc[d], "available"))
    BY DEF Release, Drop, GiveBack
  <1>4. \A e \in Dispatchers : txn'[e].list = txn[e].list
    BY <1>3, WriteList
  <1>5. \A v : v # desc[d] => BookedBy(pool, v) \subseteq BookedBy(pool', v)
    <2>1. pool' = pool \/ Frees({desc[d]})
      BY <1>0, <1>3, FreeingWrites DEF Write
    <2> QED
      BY <1>0, <2>1, OthersKeep
  <1>6. \A e \in Dispatchers \ {d} : Held(e)'
    BY <1>1, <1>2, <1>4, <1>5, ForgetOthers, HeldSame DEF Own, Names, Holding
  <1>7. Held(d)'
    BY <1>2 DEF Held, Holding
  <1>8. ~LostReply => \A j \in JobIds : Owned(j)'
    BY <1>1, <1>2, <1>5, OwnedSame DEF Own, Names
  <1>9. Names'
    <2>1. \A e \in Dispatchers : Active(e)' => /\ Active(e) /\ desc'[e] = desc[e]
                                               /\ pc[e] = "release" => pc'[e] = "release"
      BY <1>1, <1>2, ForgetOthers DEF Active
    <2>2. \A j \in JobIds : Live(j)' => Live(j) /\ jobs'[j].desc = jobs[j].desc
      BY <1>1 DEF Live
    <2> QED
      BY <2>1, <2>2, NamesSame DEF Own
  <1> QED
    BY <1>6, <1>7, <1>8, <1>9 DEF Own

\* A step of a build or of a script that spares the servers of the dispatchers and of the builds
\* that stay running.
LEMMA OutsideStep ==
    ASSUME TypeOK, Own, UNCHANGED <<pc, desc, servers, addl, bad>>,
           (\E new : Write(new)) \/ UNCHANGED <<pool, txn>>,
           \A e \in Dispatchers : Holding(e) => BookedBy(pool, desc[e]) \subseteq BookedBy(pool', desc[e]),
           \A k \in JobIds : Live(k)' => Live(k) /\ jobs'[k].desc = jobs[k].desc,
           \A k \in JobIds : jobs'[k].phase = "running" =>
               jobs'[k] = jobs[k] /\ BookedBy(pool, jobs[k].desc) \subseteq BookedBy(pool', jobs[k].desc)
    PROVE  Own'
  <1>1. \A e \in Dispatchers : txn'[e].list = txn[e].list
    BY WriteList
  <1>2. \A e \in Dispatchers : Held(e)'
    BY <1>1, HeldSame DEF Own
  <1>3. \A k \in JobIds : Owned(k) => Owned(k)'
    BY DEF Owned
  <1>4. Names'
    <2>1. \A e \in Dispatchers : Active(e)' => /\ Active(e) /\ desc'[e] = desc[e]
                                               /\ pc[e] = "release" => pc'[e] = "release"
      BY DEF Active
    <2> QED
      BY <2>1, NamesSame DEF Own
  <1> QED
    BY <1>2, <1>3, <1>4 DEF Own

\* The end of a build and its cleanup touch the servers of that build only.
LEMMA JobOwn == ASSUME TypeOK, Own, NEW j \in JobIds, Job(j) PROVE Own'
  <1>0. pool \in [Servers -> Doc] /\ jobs[j] \in Jobs
    BY DEF TypeOK
  <1>1. Live(j) /\ UNCHANGED <<pc, desc, servers, addl, bad>>
    BY DEF Job, Finish, CleanupByUser, CleanupByIp, JobEnds, Live, dlocals, dvars
  <1>2. /\ \A e \in Dispatchers : Holding(e) => desc[e] # jobs[j].desc
        /\ \A k \in JobIds \ {j} : Live(k) => jobs[k].desc # jobs[j].desc
    BY <1>1 DEF Own, Names, Holding
  <1>3. /\ \A k \in JobIds \ {j} : jobs'[k] = jobs[k]
        /\ jobs'[j].phase # "running"
        /\ jobs'[j].phase # "none" => jobs'[j].desc = jobs[j].desc
    <2>1. CASE Finish(j)
      <3>1. PICK plan, st : Planned(j, plan, st)
        BY <2>1 DEF Finish
      <3> QED
        BY <1>0, <3>1 DEF Planned, TypeOK, Jobs
    <2>2. CASE CleanupByUser(j)
      BY <1>0, <2>2 DEF CleanupByUser, TypeOK, Jobs
    <2>3. CASE CleanupByIp(j)
      <3>1. PICK plan : jobs' = [jobs EXCEPT ![j].plan = plan]
        BY <2>3 DEF CleanupByIp
      <3> QED
        BY <1>0, <2>3, <3>1 DEF CleanupByIp, TypeOK, Jobs
    <2>4. CASE JobEnds(j)
      BY <2>4 DEF JobEnds, TypeOK, NoJob
    <2> QED
      BY <2>1, <2>2, <2>3, <2>4 DEF Job
  <1>4. (\E new : Write(new)) \/ UNCHANGED <<pool, txn>>
    BY DEF Job, Finish, CleanupByUser, CleanupByIp, JobEnds, CleanupUpdate, dvars
  <1>5. pool' = pool \/ Frees({jobs[j].desc})
    <2>1. CASE Finish(j) \/ JobEnds(j)
      BY <2>1 DEF Finish, JobEnds
    <2>2. CASE CleanupByUser(j)
      <3>1. jobs[j].byUser # "booked"
        BY <1>0 DEF Jobs
      <3>2. pool' = pool \/ pool' = UpdateByUser(pool, jobs[j].desc, jobs[j].byUser)
        BY <2>2 DEF CleanupByUser, CleanupUpdate, Write
      <3> QED
        BY <1>0, <3>1, <3>2, FreeingWrites
    <2>3. CASE CleanupByIp(j)
      <3>1. PICK ip \in DOMAIN jobs[j].plan :
              pool' = pool \/ pool' = UpdateByIp(pool, ip, jobs[j].desc, jobs[j].plan[ip])
        BY <2>3 DEF CleanupByIp, CleanupUpdate, Write
      <3>2. jobs[j].plan \in Plans
        BY <1>0 DEF Jobs, Plans, Verdict
      <3>3. ip \in Servers /\ jobs[j].plan[ip] # "booked"
        BY <3>2, PlanMember DEF Verdict
      <3> QED
        BY <1>0, <3>1, <3>3, FreeingWrites
    <2> QED
      BY <2>1, <2>2, <2>3 DEF Job
  <1>6. \A v : v # jobs[j].desc => BookedBy(pool, v) \subseteq BookedBy(pool', v)
    BY <1>0, <1>5, OthersKeep
  <1>7. \A k \in JobIds : Live(k)' => Live(k) /\ jobs'[k].desc = jobs[k].desc
    BY <1>1, <1>3 DEF Live
  <1>8. \A k \in JobIds : jobs'[k].phase = "running" =>
            jobs'[k] = jobs[k] /\ BookedBy(pool, jobs[k].desc) \subseteq BookedBy(pool', jobs[k].desc)
    BY <1>2, <1>3, <1>6 DEF Live
  <1>9. \A e \in Dispatchers : Holding(e) => BookedBy(pool, desc[e]) \subseteq BookedBy(pool', desc[e])
    BY <1>2, <1>6
  <1> QED
    BY <1>1, <1>4, <1>7, <1>8, <1>9, OutsideStep

\* The repair script writes to nodes nobody has booked.
LEMMA CleanerOwn == ASSUME TypeOK, Own, Cleaner PROVE Own'
  <1>0. pool \in [Servers -> Doc]
    BY DEF TypeOK
  <1>1. UNCHANGED <<pc, desc, servers, addl, bad, jobs>>
    BY DEF Cleaner, CleanerStart, CleanerTake, CleanerEnd, dlocals, dvars
  <1>2. (\E new : Write(new)) \/ UNCHANGED <<pool, txn>>
    BY DEF Cleaner, CleanerStart, CleanerTake, CleanerEnd, dvars
  <1>3. pool' = pool \/ \E s, st : s \in Servers /\ st # "booked" /\ pool' = UpdateCleaned(pool, s, st)
    <2>1. CASE CleanerEnd
      <3>1. cleaner.on \in Servers
        BY <2>1 DEF CleanerEnd, TypeOK
      <3> QED
        BY <2>1, <3>1 DEF CleanerEnd, Write
    <2>2. CASE ~CleanerEnd
      BY <2>2 DEF Cleaner, CleanerStart, CleanerTake
    <2> QED
      BY <2>1, <2>2
  <1>4. \A v : BookedBy(pool, v) \subseteq BookedBy(pool', v)
    BY <1>0, <1>3 DEF UpdateCleaned, BookedBy
  <1> QED
    BY <1>1, <1>2, <1>4, OutsideStep DEF Live

\* The overdue script releases bookings of names that are not in use.
LEMMA OverdueOwn ==
    ASSUME TypeOK, Punctual, Own, NEW names, NEW p, NEW st, Overdue(names, p, st) PROVE Own'
  <1>0. pool \in [Servers -> Doc]
    BY DEF TypeOK
  <1>1. UNCHANGED <<pc, desc, servers, addl, bad, jobs>> /\ Write(ReleaseOverdue(pool, p, names, st))
    BY DEF Overdue, dlocals
  <1>2. \A v : v \notin names => BookedBy(pool, v) \subseteq BookedBy(pool', v)
    BY <1>0, <1>1, FreeingWrites, OthersKeep DEF Write
  <1>3. \A e \in Dispatchers : Holding(e) => desc[e] \notin names
    BY DEF Overdue, Idle, Holding
  <1>4. \A k \in JobIds : jobs[k].phase = "running" => jobs[k].desc \notin names
    BY DEF Overdue, Idle
  <1> QED
    BY <1>1, <1>2, <1>3, <1>4, OutsideStep DEF Live

\* Every step keeps the servers of the dispatchers and of the builds their own, when the library
\* runs the lambda of get_servers once.
LEMMA StepOwn ==
    ASSUME TypeOK, StagedAvailable, MaxAttempts = 1, UniqueNames, Punctual, Own, [Next]_vars PROVE Own'
  <1>1. CASE UNCHANGED vars
    BY <1>1 DEF vars, dvars, Own, Names, Held, Owned, Holding, Active, Live
  <1>2. ASSUME NEW d \in Dispatchers, Dispatcher(d) PROVE Own'
    <2>1. ~Retry(d)
      <3>1. txn[d] \in Txns
        BY DEF TypeOK
      <3>2. txn[d].tries \in 0..1
        BY <3>1 DEF Txns
      <3>3. Retry(d) => txn[d].tries + 1 < 1
        BY DEF Retry
      <3> QED
        BY <3>2, <3>3
    <2> QED
      BY <1>2, <2>1, ScanOwn, PrepareOwn, LookupOwn, CommitOwn, GiveUpOwn, GotServersOwn, GotAddlOwn,
         MarkOwn, LaunchOwn, LaunchRaisesOwn, GivesOwn DEF Dispatcher
  <1> QED
    BY <1>1, <1>2, JobOwn, CleanerOwn, OverdueOwn DEF Next

\* The names and the servers stay apart if the library validates the rows it selected and runs the
\* lambda of get_servers once, no two dispatchers use a name and no name is overdue while in use.
LEMMA AlwaysOwn == ASSUME TrackSelect, MaxAttempts = 1, UniqueNames, Punctual PROVE Spec => []Own
  <1>1. TypeOK /\ StagedAvailable /\ Own /\ [Next]_vars => Own'
    BY StepOwn
  <1>2. Spec => []StagedAvailable
    BY StagedFree
  <1> QED
    BY <1>1, <1>2, InitOwn, TypeCorrect, PTL DEF Spec

\* A server that did not answer ssh while its test was dispatched is never among the servers the
\* test is launched on, under four assumptions: the library validates the rows it selected and runs
\* the lambda of get_servers once, no descriptor is used by two at a time, and the overdue script
\* finds no name in use.  The second is needed: server_list survives the lambda, so that a
\* second run of it may return an address twice or one that is not booked (run dispatch_txn_retry).
THEOREM NoDeadUsed ==
    ASSUME TrackSelect, MaxAttempts = 1, UniqueNames, Punctual PROVE Spec => []NoDeadServerUsed
  <1>1. Own => NoDeadServerUsed
    BY DEF Own, Held, Holding, Active, NoDeadServerUsed
  <1> QED
    BY <1>1, AlwaysOwn, PTL

\* The servers of a running build are booked under its descriptor, whatever the other dispatchers,
\* the cleanups of the other builds, the repair and the overdue script do, if in addition no reply
\* of Jenkins is lost.  Each premise is needed: the run dispatch_txn_retry refutes the property for
\* MaxAttempts = 2, a build that was queued although the reply of Jenkins was lost runs on
\* servers its dispatcher has given back, a library that does not validate what it selected lets a
\* second booking take over the first, one of two builds with the same name frees the servers of
\* both, and the overdue script frees those of a build that runs for more than two days.
THEOREM RunningJobsOwn ==
    ASSUME TrackSelect, MaxAttempts = 1, ~LostReply, UniqueNames, Punctual
    PROVE  Spec => []RunningJobsOwnServers
  <1>1. Own => RunningJobsOwnServers
    BY DEF Own, Owned, RunningJobsOwnServers
  <1> QED
    BY <1>1, AlwaysOwn, PTL
=============================================================================
