------------------------------- MODULE DynVm --------------------------------
(***************************************************************************)
(* The dynamic VM service, regression_automation/dynvm_server_manager.py.  *)
(*                                                                         *)
(* Flask serves every request in a thread of its own.  A request of        *)
(* getservers reserves, looks for room on the Xen hosts, clones VMs host   *)
(* by host, vets them and answers.  VMs go when their user releases them,  *)
(* when the threading.Timer started with them fires, or when the thread    *)
(* expire_vms finds their document expired; all three call                 *)
(* release_servers, which works by name.  The service may be restarted:    *)
(* the reservations, the timers and the requests are gone then, the VMs    *)
(* and the documents are not.                                              *)
(*                                                                         *)
(* Three simplifications.  A request asks for names nobody has used        *)
(* before, so that a VM is known by its host and its name: the code does   *)
(* not check this, it relies on its callers.  VMs all have the size of the *)
(* template, so that what a host can take is a number of VMs.  An update   *)
(* of a counter that another thread overwrites is never seen by a third.   *)
(***************************************************************************)
EXTENDS Integers, Sequences, FiniteSets, FiniteSetsExt, SequencesExt

CONSTANTS
    Hosts,         \* the sections xenhost<n> of the configuration, in order
    MaxOf,         \* host.vms.max.<os> of a host
    RoomOf,        \* how many VMs its CPUs, memory and disks can take
    LabelsOf,      \* host.labels
    Requests,      \* requests of getservers
    CountOf,       \* their count
    LabelsFor,     \* their labels
    IgnoreLabels,  \* the requests with ignorelabels=true
    PinnedTo,      \* their xhostref, or NoHost
    AllOrNone,     \* the requests with allornone=true
    CheckVms,      \* the requests with checkvms=true
    MaxFaults,     \* how many calls may fail, restarts included (bound)
    Releasing,     \* the requests whose user calls releaseservers (bound)
    Timed,         \* those whose VMs live long enough to expire (bound)
    NoHost, NoLabel

HostSet == Range(Hosts)
Labels == UNION (Range(LabelsOf) \cup Range(LabelsFor))

ASSUME DynVmAssumption ==
    /\ Hosts \in Seq(HostSet) /\ IsInjective(Hosts) /\ NoHost \notin HostSet /\ NoLabel \notin Labels
    /\ {MaxOf, RoomOf} \subseteq [HostSet -> Nat] /\ DOMAIN LabelsOf = HostSet
    /\ CountOf \in [Requests -> Nat \ {0}] /\ DOMAIN LabelsFor = Requests
    /\ PinnedTo \in [Requests -> HostSet \cup {NoHost}]
    /\ IgnoreLabels \cup AllOrNone \cup CheckVms \cup Releasing \cup Timed \subseteq Requests
    /\ MaxFaults \in Nat

IpAttempts == 2        \* ipaddr_max_retries = 3, counted from 1 up to, not including, 3
PrefixCount == 9       \* vm_count of /releaseservers/<username>/available

\* generate_vm_names
GenerateVmNames(r, count) ==
    IF count = 1 THEN {<<r, 0>>} ELSE {<<r, i>> : i \in 1..count}

Names == UNION {GenerateVmNames(r, CountOf[r]) : r \in Requests}
Vms == HostSet \X Names
Users == {<<"user", r>> : r \in Requests}
Timers == {<<"timer", v>> : v \in Vms}
Expirer == <<"expire_vms">>
Threads == Requests \cup Users \cup Timers \cup {Expirer}

ASSUME ThreadAssumption == Requests \cap (Users \cup Timers \cup {Expirer}) = {}

VARIABLES
    up,        \* the VMs that exist on the hosts
    doc,       \* the documents of QE-dynserver-pool; overdue: available, past its expired_time
    extended,  \* those whose expired_time was moved by setexpiry after it had passed
    timer,     \* the VMs whose threading.Timer is waiting
    reserved,  \* reserved_count_by_label
    stray,     \* history: the reservations that a decrease has missed
    pc, q,     \* the requests and their local variables
    job,       \* the calls of release_servers
    rows,      \* the expired documents expire_vms has read and not yet treated
    row,       \* the one it treats, or NoRow
    linked,    \* the one connection of expire_vms to the documents was made
    asked,     \* the names somebody else wanted deleted
    faults     \* failures so far

vars == <<up, doc, extended, timer, reserved, stray, pc, q, job, rows, row, linked, asked, faults>>
xen == <<up, timer>>
expiry == <<rows, row, linked>>
counters == <<reserved, stray>>
NoRow == <<>>
records == <<doc, extended>>

Open == {"available", "overdue"}
Answers == {"ok", "failed", "refused", "lost", "exited"}
Busy == {"look", "admit", "host", "clone", "ip", "record", "save", "vet", "giveback", "settle", "rollback"}

Locals == [avail : Seq([host : HostSet, n : Nat]), idx : Nat, need : SUBSET Names,
           batch : SUBSET Names, made : SUBSET Names, vetted : SUBSET Names,
           got : SUBSET Names, late : SUBSET Vms, tries : 0..(IpAttempts - 1)]
Job == [at : {"idle", "find", "delete", "mark"}, todo : SUBSET Names,
        host : HostSet \cup {NoHost}, found : BOOLEAN]

TypeOK ==
    /\ up \subseteq Vms /\ timer \subseteq Vms
    /\ doc \in [Vms -> {"none", "deleted"} \cup Open]
    /\ extended \subseteq Vms /\ rows \subseteq Vms /\ row \in Vms \cup {NoRow}
    /\ {reserved, stray} \subseteq [Labels \cup {NoLabel} -> Nat] /\ linked \in BOOLEAN
    /\ pc \in [Requests -> {"new"} \cup Busy \cup Answers]
    /\ q \in [Requests -> Locals]
    /\ \A r \in Requests :
          /\ pc[r] \in {"clone", "ip", "record", "save", "vet"} => q[r].idx \in DOMAIN q[r].avail
          /\ pc[r] \in {"clone", "ip", "record", "save"} => q[r].batch # {}
    /\ job \in [Threads -> Job]
    /\ asked \subseteq Names /\ faults \in 0..MaxFaults

NoJob == [at |-> "idle", todo |-> {}, host |-> NoHost, found |-> FALSE]
Searching(names) == [NoJob EXCEPT !.at = "find", !.todo = names]

\* The end of a call of release_servers; only expire_vms looks at what it returns.
Returned(t, found) == [NoJob EXCEPT !.found = found /\ t = Expirer]

Init ==
    /\ up = {} /\ timer = {} /\ extended = {} /\ rows = {} /\ row = NoRow /\ asked = {}
    /\ doc = [v \in Vms |-> "none"]
    /\ reserved = [l \in Labels \cup {NoLabel} |-> 0] /\ stray = reserved
    /\ pc = [r \in Requests |-> "new"]
    /\ q = [r \in Requests |-> [avail |-> <<>>, idx |-> 1, need |-> GenerateVmNames(r, CountOf[r]),
                batch |-> {}, made |-> {}, vetted |-> {}, got |-> {}, late |-> {}, tries |-> 0]]
    /\ job = [t \in Threads |-> NoJob]
    /\ faults \in {0, 1} \cap 0..MaxFaults /\ linked = (faults = 0)

Fault == faults < MaxFaults /\ faults' = faults + 1

-----------------------------------------------------------------------------
(* Reservations and room. *)

Keys(labels) == IF labels = {} THEN {NoLabel} ELSE labels

\* increase_reserved
Increase(res, count, labels) ==
    [l \in DOMAIN res |-> IF l \in Keys(labels) THEN res[l] + count ELSE res[l]]

\* Defect: without max.
DecreaseUnclamped(res, count, labels) ==
    [l \in DOMAIN res |-> IF l \in Keys(labels) THEN res[l] - count ELSE res[l]]

\* decrease_reserved
Decrease(res, count, labels) ==
    [l \in DOMAIN res |-> IF l \in Keys(labels)
                          THEN IF res[l] < count THEN 0 ELSE res[l] - count
                          ELSE res[l]]

\* Another thread may be between its read and its write of a counter.
Racing(r) == \E s \in Requests \ {r} : pc[s] \notin Answers \cup {"rollback"}

\* The counters become new, each by a read and a write without a lock: an update is lost when another
\* thread has read before it and writes after it.  What a lost decrease leaves behind is stray, and
\* so is what was reserved for a label that the decrease is not for.
Store(r, new, count, labels) ==
    \E lost \in IF Racing(r) THEN SUBSET {l \in DOMAIN reserved : new[l] # reserved[l]} ELSE {{}} :
       /\ reserved' = [l \in DOMAIN reserved |-> IF l \in lost THEN reserved[l] ELSE new[l]]
       /\ stray' = [l \in DOMAIN stray |-> stray[l] +
                       IF l \in lost /\ new[l] < reserved[l] THEN reserved[l] - new[l]
                       ELSE IF l \in Keys(LabelsFor[r]) \ Keys(labels) THEN count ELSE 0]

IncreaseReserved(r, count) == Store(r, Increase(reserved, count, LabelsFor[r]), count, LabelsFor[r])
DecreaseReserved(r, count, labels) == Store(r, Decrease(reserved, count, labels), count, labels)

\* get_reserved
GetReserved(labels) == Max({reserved[l] : l \in Keys(labels)})

\* list_vms / get_vms_usage: the VMs running on a host.
RunningOn(h) == {v \in up : v[1] = h}

\* get_available_count, capped by host.vms.max
AvailableCount(h) ==
    LET used == Cardinality(RunningOn(h)) IN Max({0, Min({MaxOf[h] - used, RoomOf[h] - used})})

\* host_is_overprovisioned
Overprovisioned(h, extra) == Cardinality(RunningOn(h)) + extra > MaxOf[h]

\* get_all_xen_hosts_count: the hosts a request may use.
LabelsMatch(r, h) ==
    \/ r \in IgnoreLabels
    \/ LabelsOf[h] # {} /\ LabelsOf[h] \cap LabelsFor[r] # {}
    \/ LabelsOf[h] = {} /\ LabelsFor[r] = {}

-----------------------------------------------------------------------------
(* getservers_service *)

Goto(r, where) == pc' = [pc EXCEPT ![r] = where]
At(r) == q[r].avail[q[r].idx].host
Pinned(r) == PinnedTo[r] # NoHost
FirstName(S) == CHOOSE n \in S : \A m \in S : n[2] <= m[2]

\* getservers_service up to the branch on xhostref.
Reserve(r) ==
    /\ pc[r] = "new"
    /\ IncreaseReserved(r, CountOf[r])
    /\ IF Pinned(r)
       THEN /\ Goto(r, "host")
            /\ q' = [q EXCEPT ![r].avail = <<[host |-> PinnedTo[r], n |-> CountOf[r]]>>]
       ELSE Goto(r, "look") /\ UNCHANGED q
    /\ UNCHANGED <<xen, records, job, expiry, asked, faults>>

\* get_all_available_count, one host: one that cannot be reached or may not be used has no room for
\* the request.
Look(r) ==
    LET i == Len(q[r].avail) + 1 IN
    /\ pc[r] = "look"
    /\ \/ i > Len(Hosts) /\ Goto(r, "admit") /\ UNCHANGED <<q, faults>>
       \/ /\ i <= Len(Hosts)
          /\ \E n \in {0, AvailableCount(Hosts[i])} :
                /\ n > 0 => LabelsMatch(r, Hosts[i])
                /\ IF n = 0 /\ LabelsMatch(r, Hosts[i]) /\ AvailableCount(Hosts[i]) > 0 THEN Fault ELSE UNCHANGED faults
                /\ q' = [q EXCEPT ![r].avail = Append(@, [host |-> Hosts[i], n |-> n])]
          /\ UNCHANGED pc
    /\ UNCHANGED <<xen, records, counters, job, expiry, asked>>

\* The comparison with what others have reserved.
Admit(r) ==
    /\ pc[r] = "admit"
    /\ LET room == FoldFunction(+, 0, [i \in DOMAIN q[r].avail |-> q[r].avail[i].n])
           others == GetReserved(LabelsFor[r]) - CountOf[r]
       IN  \/ /\ room - others >= CountOf[r]
              /\ Goto(r, "host") /\ UNCHANGED counters
           \/ /\ room - others < CountOf[r]
              /\ DecreaseReserved(r, CountOf[r], LabelsFor[r])
              /\ Goto(r, "refused")
    /\ UNCHANGED <<xen, records, q, job, expiry, asked, faults>>

\* Defect: the reservation is kept when the exception is caught.
HostFailsKeeps(r) ==
    /\ q' = [q EXCEPT ![r].idx = @ + 1, ![r].batch = {}, ![r].made = {}, ![r].vetted = {}]
    /\ Goto(r, IF Pinned(r) THEN "failed" ELSE "host")

\* Defect: the same host again.
HostFailsRetries(r) ==
    /\ q' = [q EXCEPT ![r].batch = {}, ![r].made = {}, ![r].vetted = {}]
    /\ Goto(r, IF Pinned(r) THEN "giveback" ELSE "host")

\* An exception out of create_vms_single_host: on to the next host, or, with xhostref, the end.
HostFails(r) ==
    /\ q' = [q EXCEPT ![r].idx = @ + 1, ![r].batch = {}, ![r].made = {}, ![r].vetted = {}]
    /\ Goto(r, IF Pinned(r) THEN "giveback" ELSE "host")

\* The handler with xhostref.
GiveBack(r) ==
    /\ pc[r] = "giveback"
    /\ DecreaseReserved(r, CountOf[r], LabelsFor[r])
    /\ Goto(r, "failed")
    /\ UNCHANGED <<xen, records, q, job, expiry, asked, faults>>

\* The loop over the hosts, up to create_vms.
NextHost(r) ==
    /\ pc[r] = "host"
    /\ \/ /\ q[r].need = {} \/ q[r].idx > Len(q[r].avail)
          /\ Goto(r, "settle") /\ UNCHANGED <<q, faults>>
       \/ /\ q[r].need # {} /\ q[r].idx <= Len(q[r].avail)
          /\ q[r].avail[q[r].idx].n = 0
          /\ q' = [q EXCEPT ![r].idx = @ + 1]
          /\ UNCHANGED <<pc, faults>>
       \/ /\ q[r].need # {} /\ q[r].idx <= Len(q[r].avail)
          /\ LET k == Min({Cardinality(q[r].need), q[r].avail[q[r].idx].n})
             IN  /\ k > 0
                 /\ \/ Overprovisioned(At(r), k) /\ HostFails(r) /\ UNCHANGED faults
                    \/ Fault /\ HostFails(r)
                    \/ /\ ~Overprovisioned(At(r), k)
                       /\ \E batch \in kSubset(k, q[r].need) :
                             q' = [q EXCEPT ![r].batch = batch]
                       /\ Goto(r, "clone") /\ UNCHANGED faults
    /\ UNCHANGED <<xen, records, counters, job, expiry, asked>>

\* create_vm and create_vms go on to the next name, or to the vetting.
NextName(r, made) ==
    LET n == FirstName(q[r].batch) IN
    /\ q' = [q EXCEPT ![r].batch = @ \ {n}, ![r].made = @ \cup made, ![r].tries = 0]
    /\ Goto(r, IF q[r].batch = {n} THEN "vet" ELSE "clone")

\* The same for a name that has an address and an error.
NextLate(r) ==
    LET n == FirstName(q[r].batch) IN
    /\ q' = [q EXCEPT ![r].batch = @ \ {n}, ![r].made = @ \cup {n}, ![r].late = @ \cup {<<At(r), n>>},
                      ![r].tries = 0]
    /\ Goto(r, IF q[r].batch = {n} THEN "vet" ELSE "clone")

\* create_vm has failed.  It returns the address it read last: the empty string in the first attempt,
\* none or a local one, which is not empty, in a later one.
Unmade(r) == IF q[r].tries = 0 THEN NextName(r, {}) ELSE NextLate(r)

\* create_vm: clone, provision, start.  Xen refuses what the host cannot take.  The handler
\* deletes what there is by then; with a host that fails, that may fail too.  Without the template,
\* which is looked for before the first attempt, sys.exit passes all handlers and ends the thread.
Clone(r) ==
    LET v == <<At(r), FirstName(q[r].batch)>> IN
    /\ pc[r] = "clone"
    /\ \/ /\ Cardinality(RunningOn(At(r))) < RoomOf[At(r)]
          /\ up' = up \cup {v}
          /\ Goto(r, "ip") /\ UNCHANGED <<q, faults>>
       \/ /\ Cardinality(RunningOn(At(r))) >= RoomOf[At(r)]
          /\ Unmade(r) /\ UNCHANGED <<up, faults>>
       \/ Fault /\ Unmade(r) /\ up' \in {up, up \cup {v}}
       \/ Fault /\ q[r].tries = 0 /\ Goto(r, "exited") /\ UNCHANGED <<up, q>>
    /\ UNCHANGED <<timer, records, counters, job, expiry, asked>>

\* create_vm: wait for the address; without one, destroy the VM and try again.  A call that fails
\* once there was none returns it with the error, and the VM counts as made.
GetIp(r) ==
    LET v == <<At(r), FirstName(q[r].batch)>> IN
    /\ pc[r] = "ip"
    /\ \/ v \in up /\ Goto(r, "record") /\ UNCHANGED <<up, q, faults>>
       \/ v \notin up /\ Unmade(r) /\ UNCHANGED <<up, faults>>
       \/ Fault /\ (Unmade(r) \/ NextLate(r)) /\ up' \in {up, up \ {v}}
       \/ /\ v \in up /\ Fault
          /\ up' = up \ {v}
          /\ IF q[r].tries + 1 = IpAttempts
             THEN NextName(r, {})
             ELSE q' = [q EXCEPT ![r].tries = @ + 1] /\ Goto(r, "clone")
    /\ UNCHANGED <<timer, records, counters, job, expiry, asked>>

\* create_vm: read the VM's record and start its timer.  An exception here deletes the VM, unless
\* that fails too, but create_vm still returns its address, so that the VM counts as made.
Record(r) ==
    LET v == <<At(r), FirstName(q[r].batch)>> IN
    /\ pc[r] = "record"
    /\ \/ /\ v \in up
          /\ timer' = timer \cup {v}
          /\ Goto(r, "save") /\ UNCHANGED <<up, q, faults>>
       \/ /\ \/ v \notin up /\ UNCHANGED <<up, faults>>
             \/ v \in up /\ Fault /\ up' \in {up, up \ {v}}
          /\ NextLate(r) /\ UNCHANGED timer
    /\ UNCHANGED <<records, counters, job, expiry, asked>>

\* save_dynvm_doc, which gives up silently, and the decrease in create_vms with the labels of
\* the host.
Save(r) ==
    LET v == <<At(r), FirstName(q[r].batch)>> IN
    /\ pc[r] = "save"
    /\ \/ doc' = [doc EXCEPT ![v] = "available"] /\ UNCHANGED faults
       \/ Fault /\ UNCHANGED doc
    /\ DecreaseReserved(r, 1, LabelsOf[At(r)])
    /\ NextName(r, {v[2]})
    /\ UNCHANGED <<xen, extended, job, expiry, asked>>

\* create_vms_single_host, one VM of the answer of create_vms: a VM that fails is counted as
\* reserved again.  'deletevm' is called with the name where a list of names is expected and
\* deletes nothing, and the entry added for the error makes the loop over the dictionary raise,
\* unless there is one already.  A list of VMs that cannot be had is a string, too long for any
\* maximum, or raises.
VetOne(r, n) ==
    /\ pc[r] = "vet" /\ n \in q[r].made \ q[r].vetted
    /\ \/ /\ ~Overprovisioned(At(r), 0)
          /\ r \in CheckVms => <<At(r), n>> \in up
          /\ q' = [q EXCEPT ![r].vetted = @ \cup {n}]
          /\ UNCHANGED <<pc, counters, faults>>
       \/ /\ \/ Overprovisioned(At(r), 0) /\ UNCHANGED faults
             \/ /\ r \in CheckVms /\ (<<At(r), n>> \notin up \/ <<At(r), n>> \in q[r].late)
                /\ UNCHANGED faults
             \/ Fault
          /\ IncreaseReserved(r, 1)
          /\ IF <<At(r), n>> \in q[r].late
             THEN q' = [q EXCEPT ![r].made = @ \ {n}] /\ UNCHANGED pc
             ELSE HostFails(r)
       \/ Fault /\ HostFails(r) /\ UNCHANGED counters
    /\ UNCHANGED <<xen, records, job, expiry, asked>>

\* All of them are in order: they are removed from the names still needed.
VetEnd(r) ==
    /\ pc[r] = "vet" /\ q[r].vetted = q[r].made
    /\ q' = [q EXCEPT ![r].got = @ \cup q[r].made, ![r].need = @ \ q[r].made,
                      ![r].idx = @ + 1, ![r].made = {}, ![r].vetted = {}]
    /\ Goto(r, IF Pinned(r) THEN "settle" ELSE "host")
    /\ UNCHANGED <<xen, records, counters, job, expiry, asked, faults>>

\* Defect: an incomplete set is handed out.
SettleAnyway(r) ==
    /\ pc[r] = "settle"
    /\ DecreaseReserved(r, CountOf[r] - Cardinality(q[r].got), LabelsFor[r])
    /\ Goto(r, "ok")
    /\ UNCHANGED <<xen, records, q, job, expiry, asked, faults>>

\* Release what was made if that is not everything.
Settle(r) ==
    /\ pc[r] = "settle"
    /\ DecreaseReserved(r, CountOf[r] - Cardinality(q[r].got), LabelsFor[r])
    /\ IF q[r].need # {} /\ r \in AllOrNone
       THEN /\ job' = [job EXCEPT ![r] = Searching(GenerateVmNames(r, CountOf[r]))]
            /\ Goto(r, "rollback")
       ELSE Goto(r, "ok") /\ UNCHANGED job
    /\ q' = [q EXCEPT ![r].avail = <<>>, ![r].idx = 1]
    /\ UNCHANGED <<xen, records, expiry, asked, faults>>

\* release_servers has returned, or raised, which is ignored.
RollbackEnd(r) ==
    /\ pc[r] = "rollback" /\ job[r].at = "idle"
    /\ Goto(r, "failed")
    /\ UNCHANGED <<xen, records, counters, q, job, expiry, asked, faults>>

-----------------------------------------------------------------------------
(* release_servers, in whichever thread *)

HostsWith(n) == {i \in DOMAIN Hosts : <<Hosts[i], n>> \in up}

\* get_vm_existed_xenhost_ref: the first host that has the name; one that cannot be reached is
\* skipped.
FindVm(t) ==
    LET n == FirstName(job[t].todo) IN
    /\ job[t].at = "find"
    /\ \E lost \in {{}} \cup {{i} : i \in HostsWith(n)} :
          /\ IF lost = {} THEN UNCHANGED faults ELSE Fault
          /\ LET there == HostsWith(n) \ lost IN
             job' = [job EXCEPT ![t] =
               IF there # {} THEN [@ EXCEPT !.at = "delete", !.host = Hosts[Min(there)]]
               ELSE IF job[t].todo = {n} THEN Returned(t, @.found)
               ELSE [@ EXCEPT !.todo = job[t].todo \ {n}]]
    /\ UNCHANGED <<xen, records, counters, pc, q, expiry, asked>>

\* perform_service('deletevm'): delete_vm destroys the VMs of this name; without a session it
\* returns an error, which release_servers does not notice; a failing call raises.
DeleteVm(t) ==
    LET n == FirstName(job[t].todo)
        v == <<job[t].host, n>>
    IN
    /\ job[t].at = "delete"
    /\ \/ /\ up' = up \ {v}
          /\ job' = [job EXCEPT ![t].at = IF v \in up THEN "mark" ELSE "find", ![t].found = TRUE,
                                ![t].host = IF v \in up THEN @ ELSE NoHost]
          /\ UNCHANGED faults
       \/ /\ Fault /\ UNCHANGED up
          /\ job' = [job EXCEPT ![t].at = "find", ![t].found = TRUE, ![t].host = NoHost]
       \/ Fault /\ job' = [job EXCEPT ![t] = Returned(t, TRUE)] /\ UNCHANGED up
    /\ UNCHANGED <<timer, records, counters, pc, q, expiry, asked>>

\* delete_vm_from_db
MarkDeleted(v) ==
    /\ doc' = [doc EXCEPT ![v] = IF @ \in Open THEN "deleted" ELSE @]
    /\ extended' = extended \ {v}

\* delete_vm, the document
UpdateDoc(t) ==
    /\ job[t].at = "mark"
    /\ \/ MarkDeleted(<<job[t].host, FirstName(job[t].todo)>>) /\ UNCHANGED faults
       \/ Fault /\ UNCHANGED records
    /\ job' = [job EXCEPT ![t].at = "find", ![t].host = NoHost]
    /\ UNCHANGED <<xen, counters, pc, q, expiry, asked>>

\* releaseservers_service: with a count, or for a target state, when nine numbered names are
\* tried.  Names nobody uses are found nowhere.
UserRelease(r) ==
    /\ r \in Releasing /\ pc[r] # "new" /\ job[<<"user", r>>].at = "idle"
    /\ \E count \in {CountOf[r], PrefixCount} :
          LET names == GenerateVmNames(r, count) \cap Names IN
          /\ names # {}
          /\ job' = [job EXCEPT ![<<"user", r>>] = Searching(names)]
          /\ asked' = asked \cup names
    /\ UNCHANGED <<xen, records, counters, pc, q, expiry, faults>>

\* The threading.Timer of a VM.
TimerFires(v) ==
    /\ v \in timer /\ v[2][1] \in Timed
    /\ timer' = timer \ {v}
    /\ job' = [job EXCEPT ![<<"timer", v>>] = Searching({v[2]})]
    /\ asked' = asked \cup {v[2]}
    /\ UNCHANGED <<up, records, counters, pc, q, expiry, faults>>

\* expired_time passes.
Lapse(v) ==
    /\ doc[v] = "available" /\ v[2][1] \in Timed
    /\ doc' = [doc EXCEPT ![v] = "overdue"]
    /\ UNCHANGED <<xen, extended, counters, pc, q, job, expiry, asked, faults>>

\* setexpiry_service, once for each document (bound).  Moving an expired_time that has not passed
\* only moves Lapse.
SetExpiry(v) ==
    /\ doc[v] = "overdue" /\ v \notin extended
    /\ doc' = [doc EXCEPT ![v] = "available"] /\ extended' = extended \cup {v}
    /\ UNCHANGED <<xen, counters, pc, q, job, expiry, asked, faults>>

\* expire_vms: get_expired.  A query that fails gives no rows, and without the connection, which is
\* made once as the thread starts, every query does.
ExpireSelect ==
    /\ linked /\ rows = {} /\ row = NoRow
    /\ rows' = {v \in Vms : doc[v] = "overdue"} /\ rows' # {}
    /\ UNCHANGED <<xen, records, counters, pc, q, job, row, linked, asked, faults>>

\* expire_vms: the call of release_servers for one row
ExpireRow(v) ==
    /\ v \in rows /\ row = NoRow
    /\ rows' = rows \ {v} /\ row' = v
    /\ job' = [job EXCEPT ![Expirer] = Searching({v[2]})]
    /\ asked' = asked \cup {v[2]}
    /\ UNCHANGED <<xen, records, counters, pc, q, linked, faults>>

\* Defect: a document whose VM is gone already is left as it is.
ExpireRowKeeps ==
    /\ row # NoRow /\ job[Expirer].at = "idle"
    /\ row' = NoRow /\ job' = [job EXCEPT ![Expirer] = NoJob]
    /\ UNCHANGED <<xen, records, counters, pc, q, rows, linked, asked, faults>>

\* expire_vms: nothing was found, so that only the document is left.
ExpireRowEnd ==
    /\ row # NoRow /\ job[Expirer].at = "idle"
    /\ \/ job[Expirer].found /\ UNCHANGED <<records, faults>>
       \/ ~job[Expirer].found /\ MarkDeleted(row) /\ UNCHANGED faults
       \/ ~job[Expirer].found /\ Fault /\ UNCHANGED records
    /\ row' = NoRow /\ job' = [job EXCEPT ![Expirer] = NoJob]
    /\ UNCHANGED <<xen, counters, pc, q, rows, linked, asked>>

-----------------------------------------------------------------------------

\* The service is restarted: its memory is lost.
Restart ==
    /\ Fault
    /\ pc' = [r \in Requests |-> IF pc[r] \in Busy \cup {"exited"} THEN "lost" ELSE pc[r]]
    /\ timer' = {} /\ rows' = {} /\ row' = NoRow /\ linked' \in BOOLEAN
    /\ reserved' = [l \in DOMAIN reserved |-> 0] /\ stray' = reserved'
    /\ job' = [t \in Threads |-> NoJob]
    /\ UNCHANGED <<up, records, q, asked>>

Getservers(r) ==
    \/ Reserve(r) \/ Look(r) \/ Admit(r) \/ NextHost(r) \/ Clone(r) \/ GetIp(r) \/ Record(r)
    \/ Save(r) \/ (\E n \in Names : VetOne(r, n)) \/ VetEnd(r) \/ GiveBack(r) \/ Settle(r)
    \/ RollbackEnd(r)
ReleaseServers(t) == FindVm(t) \/ DeleteVm(t) \/ UpdateDoc(t)
ExpireVms == ExpireSelect \/ (\E v \in Vms : ExpireRow(v)) \/ ExpireRowEnd

Next ==
    \/ \E r \in Requests : Getservers(r) \/ UserRelease(r)
    \/ \E t \in Threads : ReleaseServers(t)
    \/ \E v \in Vms : TimerFires(v) \/ Lapse(v) \/ SetExpiry(v)
    \/ ExpireVms
    \/ Restart

Spec == Init /\ [][Next]_vars

\* Threads run, time passes; nobody has to ask for a VM, to release it or to extend it.
Fairness ==
    /\ \A r \in Requests : WF_vars(pc[r] # "new" /\ Getservers(r))
    /\ \A t \in Threads : WF_vars(ReleaseServers(t))
    /\ \A v \in Vms : WF_vars(TimerFires(v)) /\ WF_vars(Lapse(v))
    /\ WF_vars(ExpireVms)
FairSpec == Spec /\ Fairness

-----------------------------------------------------------------------------
Idle == \A r \in Requests : pc[r] \notin Busy

\* What a request that is not being served has left in the counters of its labels: one for each VM
\* whose creation reported an address and an error and, if sys.exit ended it, one for each name it
\* had not made.
LeftBehind(r) ==
    Cardinality(q[r].late) + IF pc[r] = "exited" THEN Cardinality(q[r].need) - Cardinality(q[r].made) ELSE 0

\* Once no request is being served every reservation has been given back, whatever failed and however
\* the requests shared the counters, but for what a lost update or a decrease for other labels than
\* the request's has missed, and what requests have left behind (getservers_service, create_vms,
\* create_vms_single_host).
ReservedReturns ==
    Idle =>
       \A l \in DOMAIN reserved :
          reserved[l] <= stray[l] + FoldFunction(+, 0, [r \in {s \in Requests : l \in Keys(LabelsFor[s])} |->
                                                         LeftBehind(r)])

\* allornone: an answer lists every VM asked for, and each of them runs on some host until
\* somebody asks for it to be deleted, even when names had to be made again on another host; the
\* exception is a VM whose creation reported an address and an error.
PromisedVms ==
    \A r \in AllOrNone : pc[r] = "ok" =>
       \A n \in GenerateVmNames(r, CountOf[r]) \ (asked \cup {v[2] : v \in q[r].late}) :
          n \in q[r].got /\ \E h \in HostSet : <<h, n>> \in up

\* Every document of a VM is closed in the end, whichever of the user, the timer and the expirer
\* comes first and whatever failed or was restarted on the way, as long as the service that runs in
\* the end got its connection for expire_vms; if nothing failed the VM is gone by then.
RecordSettles ==
    <>[]linked =>
       \A v \in Vms :
          doc[v] \in Open ~> doc[v] = "deleted" /\ (v \in up => faults > 0)

\* A request that was begun is answered, lost in a restart or ended by sys.exit: hosts that fail or
\* are full are tried once each, and deleting what was made ends.
RequestsEnd == \A r \in Requests : pc[r] \in Busy ~> pc[r] \in Answers
=============================================================================
