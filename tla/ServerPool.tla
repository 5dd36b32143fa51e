----------------------------- MODULE ServerPool -----------------------------
(***************************************************************************)
(* The documents of the `QE-server-pool` bucket and the statements that    *)
(* the scripts run against them: scripts/server_manager.py,                *)
(* regression_automation/update_server_pool_vm_state.py,                   *)
(* scripts/find_and_release_overdue_nodes.py and                           *)
(* regression_automation/cleanup_failed_install_nodes.py.                  *)
(*                                                                         *)
(* One document per server, keyed by its address.  Of its fields the       *)
(* control of the scripts reads state, username, poolId and memory; os is  *)
(* folded into poolId (every statement selects on both) and prevUser is    *)
(* written for people and never read, so it is left out.                   *)
(*                                                                         *)
(* Every operator takes the documents and returns the documents after one  *)
(* statement, which the query service runs atomically per document.        *)
(***************************************************************************)
EXTENDS Naturals, FiniteSets, Sequences

CONSTANTS Servers,   \* server addresses, the keys of the documents
          Pools,     \* values of poolId
          PoolIdOf,  \* the poolIds of each server: a string or a list in the document
          Memory,    \* the memory field, by which get_servers orders its rows
          Tests,     \* component-subcomponent pairs
          Stamps,    \* values of the time part of a descriptor
          NoUser     \* an empty or missing username

ASSUME PoolAssumption ==
    /\ IsFiniteSet(Servers)
    /\ PoolIdOf \in [Servers -> SUBSET Pools]
    /\ Memory \in [Servers -> Nat]

\* component-subcomponent-%b-%d-%X-version: the name a booking is made under.
Descriptors == [test : Tests, stamp : Stamps]

ASSUME NoUserAssumption == NoUser \notin Descriptors

\* Both spellings of the unreachable state occur in the code: the dispatcher
\* writes ssh_failed, the cleanup script writes and reads sshFailed.
States == {"available", "booked", "failedInstall", "sshFailed", "ssh_failed"}

Doc == [state : States, username : Descriptors \cup {NoUser}]

-----------------------------------------------------------------------------
(* Reading statements. *)

\* Defect: every server that is not booked counts as available.
AvailableUnlessBooked(pool, p) == {s \in Servers : pool[s].state # "booked" /\ p \in PoolIdOf[s]}

\* WHERE state='available' AND os=... AND (poolId=p OR p IN poolId)
Available(pool, p) == {s \in Servers : pool[s].state = "available" /\ p \in PoolIdOf[s]}

\* WHERE username=u AND state='booked'
BookedBy(pool, u) == {s \in Servers : pool[s].state = "booked" /\ pool[s].username = u}

\* The rows of ServerManager.get_servers' SELECT ... ORDER BY to_number(memory)
\* ASC LIMIT n: the order among equal memory sizes is the query service's choice.
SelectRows(pool, p, n) ==
    LET avail == Available(pool, p)
        size  == IF n < Cardinality(avail) THEN n ELSE Cardinality(avail)
    IN  {rows \in [1..size -> avail] :
            /\ \A i, j \in 1..size : i < j => rows[i] # rows[j] /\ Memory[rows[i]] <= Memory[rows[j]]
            /\ \A s \in avail, i \in 1..size :
                  Memory[s] < Memory[rows[i]] => \E j \in 1..size : rows[j] = s}

\* should_dispatch_job's test for a run in progress: a booked document whose
\* username is like 'component-subcomponent%version'.
AlreadyBooked(pool, t) ==
    \E s \in Servers : /\ pool[s].state = "booked"
                       /\ pool[s].username # NoUser
                       /\ pool[s].username.test = t

-----------------------------------------------------------------------------
(* Writing statements. *)

\* What the transaction of get_servers commits for the documents it replaced.
Book(pool, docs, u) ==
    [s \in Servers |-> IF s \in docs THEN [state |-> "booked", username |-> u] ELSE pool[s]]

\* ServerManager.release_servers: every booking of u, in one transaction.
ReleaseServers(pool, u, st) ==
    [s \in Servers |-> IF s \in BookedBy(pool, u) THEN [state |-> st, username |-> NoUser]
                                                  ELSE pool[s]]

\* ServerManager.release_ip: by address alone, the username is left in place.
ReleaseIp(pool, ip, st) ==
    IF pool[ip].state = "booked" THEN [pool EXCEPT ![ip].state = st] ELSE pool

\* Defect: the update does not look at the owner of the booking.
UpdateByIpOfAnybody(pool, ip, u, st) ==
    IF pool[ip].state = "booked" THEN [pool EXCEPT ![ip].state = st] ELSE pool

\* update_server_state with --server-ip and --vm-username.
UpdateByIp(pool, ip, u, st) ==
    IF ip \in BookedBy(pool, u) THEN [pool EXCEPT ![ip].state = st] ELSE pool

\* update_server_state with --vm-username alone.
UpdateByUser(pool, u, st) ==
    [s \in Servers |-> IF s \in BookedBy(pool, u) THEN [pool[s] EXCEPT !.state = st] ELSE pool[s]]

\* find_and_release_overdue_nodes: SET state='available' WHERE poolId is p AND
\* username is like the day AND state=st, in one statement for all names of the day.
ReleaseOverdue(pool, p, names, st) ==
    [s \in Servers |-> IF pool[s].state = st /\ pool[s].username \in names /\ p \in PoolIdOf[s]
                       THEN [pool[s] EXCEPT !.state = "available"] ELSE pool[s]]

\* cleanup_failed_install_nodes: the update after cleaning one node.
UpdateCleaned(pool, ip, st) ==
    IF pool[ip].state = "failedInstall" THEN [pool EXCEPT ![ip].state = st] ELSE pool
=============================================================================
