------------------------------ MODULE Loading -------------------------------
(***************************************************************************)
(* The threads that load and verify documents (lib/tasks/task.py) and the  *)
(* KVStore in which they keep what the server should hold                  *)
(* (lib/memcached/helper/kvstore.py).                                      *)
(*                                                                         *)
(* A KVStore has a lock and a Partition for every hash value.  A loader    *)
(* locks the partitions of its keys, changes the server, notes the change  *)
(* in the partitions and unlocks them; a verifier takes the keys of the    *)
(* store once, when it is created, and compares them one by one later.     *)
(* Two threads that work on one key must leave server and store agreeing.  *)
(*                                                                         *)
(* A document is known by the thread that wrote it.  Expiry of documents   *)
(* is not modelled here.                                                   *)
(***************************************************************************)
EXTENDS Naturals, Sequences, FiniteSets, Functions

CONSTANTS
    Keys,
    NumLocks,   \* KVStore.num_locks
    PartOf,     \* KVStore._hash
    Threads,
    Class,      \* the class of the task each thread runs
    Script,     \* what a loader does: the op_types and the keys of its generators
    Faulty,     \* threads whose calls to the server may raise
    Lossy,      \* keys whose documents the server under test may lose or bring back
    None

Parts == 1..NumLocks
Verifiers == {"ValidateDataTask", "BatchedValidateDataTask"}
Singles == {"create", "update", "delete", "read", "check", "checkdel"}
Batches == {"bcreate", "bupdate", "bdelete", "bcheck"}
Checks == {"check", "checkdel", "bcheck"}
Ops == [kind : Singles \cup Batches, keys : Seq(Keys)]

\* A key on its own, or a batch that is not empty.
Sized(o) == o.keys # <<>> /\ (o.kind \in Singles => Len(o.keys) = 1)

\* A batch lists its keys partition by partition, the order in which the code goes
\* through partition_keys_dic.
Grouped(q) == \A i, j, k \in DOMAIN q : i < j /\ j < k /\ PartOf[q[i]] = PartOf[q[k]]
                                          => PartOf[q[j]] = PartOf[q[k]]

ASSUME LoadingAssumption ==
    /\ IsFiniteSet(Keys) /\ NumLocks \in Nat
    /\ PartOf \in [Keys -> Parts]
    /\ Class \in [Threads -> Verifiers \cup {"LoadDocumentsGeneratorsTask"}]
    /\ Script \in [Threads -> Seq(Ops)]
    /\ \A t \in Threads : \A i \in DOMAIN Script[t] :
          LET o == Script[t][i] IN o.kind \notin Checks /\ Sized(o) /\ Grouped(o.keys)
    /\ Faulty \subseteq Threads
    /\ Lossy \subseteq Keys
    /\ None \notin Threads

VARIABLES
    lock,     \* the lock of each partition: who acquired it
    big,      \* KVStore.acquire_lock
    valid,    \* Partition.__valid
    deleted,  \* Partition.__deleted
    data,     \* the documents of the server
    tainted,  \* history: keys the server answered an error for, or lost or brought back
    pc,
    script,   \* operations a loader has left
    snap,     \* next partition key_set looks at
    vkeys,    \* valid_keys of a verifier, those it has not compared
    dkeys,    \* deleted_keys
    op,       \* the operation under way
    todo,     \* its keys that have not been worked on
    held,     \* partition_keys_dic
    twice,    \* release_partition is called a second time
    failed,   \* the future has an exception
    blamed    \* history: keys for which it says that server and store differ

store == <<lock, big, valid, deleted>>
server == <<data, tainted>>
plan == <<script, snap, vkeys, dkeys>>
call == <<op, todo, held, twice>>
verdict == <<failed, blamed>>
vars == <<store, server, pc, plan, call, verdict>>

NoOp == [kind |-> "read", keys |-> <<>>]

TypeOK ==
    /\ lock \in [Parts -> Threads \cup {None}] /\ big \in Threads \cup {None}
    /\ valid \in [Keys -> Threads \cup {None}] /\ deleted \subseteq Keys
    /\ data \in [Keys -> Threads \cup {None}] /\ tainted \subseteq Keys
    /\ pc \in [Threads -> {"snap", "idle", "lock", "big", "grab", "work", "note",
                           "release", "ended", "dead"}]
    /\ script \in [Threads -> Seq(Ops)]
    /\ snap \in [Threads -> 1..(NumLocks + 1)]
    /\ vkeys \in [Threads -> SUBSET Keys] /\ dkeys \in [Threads -> SUBSET Keys]
    /\ op \in [Threads -> Ops] /\ todo \in [Threads -> Seq(Keys)]
    /\ held \in [Threads -> SUBSET Parts] /\ twice \in [Threads -> BOOLEAN]
    /\ failed \in [Threads -> BOOLEAN]
    /\ blamed \subseteq Keys
    /\ \A k \in Keys : k \in deleted => valid[k] = None

Init ==
    /\ lock = [p \in Parts |-> None] /\ big = None
    /\ valid = [k \in Keys |-> None] /\ deleted = {}
    /\ data = [k \in Keys |-> None] /\ tainted = {}
    /\ pc = [t \in Threads |-> IF Class[t] \in Verifiers THEN "snap" ELSE "idle"]
    /\ script = Script
    /\ snap = [t \in Threads |-> 1]
    /\ vkeys = [t \in Threads |-> {}] /\ dkeys = [t \in Threads |-> {}]
    /\ op = [t \in Threads |-> NoOp] /\ todo = [t \in Threads |-> <<>>]
    /\ held = [t \in Threads |-> {}] /\ twice = [t \in Threads |-> FALSE]
    /\ failed = [t \in Threads |-> FALSE]
    /\ blamed = {}

-----------------------------------------------------------------------------
(* Choosing the next operation. *)

\* Defect: the last partition is counted twice.
KeySetPastEnd(t) ==
    /\ pc[t] = "snap"
    /\ pc' = [pc EXCEPT ![t] = IF snap[t] > NumLocks THEN "idle" ELSE "snap"]
    /\ snap' = [snap EXCEPT ![t] = @ + 1]
    /\ UNCHANGED <<store, server, script, vkeys, dkeys, call, verdict>>

\* key_set, called by the constructor of a verifier: one partition at a time,
\* each under its lock.
KeySet(t) ==
    /\ pc[t] = "snap"
    /\ IF snap[t] > NumLocks
       THEN pc' = [pc EXCEPT ![t] = "idle"] /\ UNCHANGED <<snap, vkeys, dkeys>>
       ELSE /\ lock[snap[t]] = None
            /\ LET here == {k \in Keys : PartOf[k] = snap[t]}
               IN  /\ vkeys' = [vkeys EXCEPT ![t] = @ \cup {k \in here : valid[k] # None}]
                   /\ dkeys' = [dkeys EXCEPT ![t] = @ \cup (here \cap deleted)]
            /\ snap' = [snap EXCEPT ![t] = @ + 1]
            /\ UNCHANGED pc
    /\ UNCHANGED <<store, server, script, call, verdict>>

Orders(S) == {q \in [1..Cardinality(S) -> S] : Range(q) = S}

Begin(t, o) ==
    /\ op' = [op EXCEPT ![t] = o]
    /\ todo' = [todo EXCEPT ![t] = o.keys]
    /\ held' = [held EXCEPT ![t] = {}]
    /\ twice' = [twice EXCEPT ![t] = FALSE]
    /\ pc' = [pc EXCEPT ![t] = IF o.kind \in Batches THEN "big" ELSE "lock"]

\* next() of a loader: a key or a batch from its current generator.
NextLoad(t) ==
    /\ pc[t] = "idle" /\ ~failed[t] /\ script[t] # <<>>
    /\ Begin(t, Head(script[t]))
    /\ script' = [script EXCEPT ![t] = Tail(@)]
    /\ UNCHANGED <<store, server, snap, vkeys, dkeys, verdict>>

\* __next__ of a verifier: the valid keys first, then the deleted ones.
NextVerify(t) ==
    /\ pc[t] = "idle" /\ ~failed[t] /\ Class[t] \in Verifiers
    /\ \/ /\ vkeys[t] # {}
          /\ \E q \in IF Class[t] = "BatchedValidateDataTask" THEN Orders(vkeys[t])
                                                             ELSE {<<k>> : k \in vkeys[t]} :
                /\ Begin(t, [kind |-> IF Class[t] = "BatchedValidateDataTask" THEN "bcheck" ELSE "check",
                             keys |-> q])
                /\ vkeys' = [vkeys EXCEPT ![t] = @ \ Range(q)]
          /\ UNCHANGED dkeys
       \/ /\ vkeys[t] = {}
          /\ \E k \in dkeys[t] : /\ Begin(t, [kind |-> "checkdel", keys |-> <<k>>])
                                 /\ dkeys' = [dkeys EXCEPT ![t] = @ \ {k}]
          /\ UNCHANGED vkeys
    /\ UNCHANGED <<store, server, script, snap, verdict>>

\* The loop of run() ends.
End(t) ==
    /\ pc[t] = "idle"
    /\ failed[t] \/ (script[t] = <<>> /\ vkeys[t] \cup dkeys[t] = {})
    /\ pc' = [pc EXCEPT ![t] = "ended"]
    /\ UNCHANGED <<store, server, plan, call, verdict>>

-----------------------------------------------------------------------------
(* The locks of KVStore. *)

\* Defect: the lock is not waited for.
AcquireUnlocked(t) ==
    /\ pc[t] = "lock"
    /\ pc' = [pc EXCEPT ![t] = "work"]
    /\ UNCHANGED <<store, server, plan, call, verdict>>

\* acquire_partition
AcquirePartition(t) ==
    /\ pc[t] = "lock"
    /\ LET p == PartOf[Head(todo[t])]
       IN  /\ lock[p] = None
           /\ lock' = [lock EXCEPT ![p] = t]
           /\ held' = [held EXCEPT ![t] = {p}]
    /\ pc' = [pc EXCEPT ![t] = "work"]
    /\ UNCHANGED <<big, valid, deleted, server, plan, op, todo, twice, verdict>>

\* Defect: acquire_partitions does without acquire_lock.
AcquireLockFree(t) ==
    /\ pc[t] = "big"
    /\ pc' = [pc EXCEPT ![t] = "grab"]
    /\ UNCHANGED <<store, server, plan, call, verdict>>

\* acquire_partitions: acquire_lock first,
AcquireLock(t) ==
    /\ pc[t] = "big" /\ big = None
    /\ big' = t
    /\ pc' = [pc EXCEPT ![t] = "grab"]
    /\ UNCHANGED <<lock, valid, deleted, server, plan, call, verdict>>

\* then the locks of the keys in their order, each partition once,
AcquireNext(t) ==
    /\ pc[t] = "grab" /\ todo[t] # <<>>
    /\ LET p == PartOf[Head(todo[t])]
       IN  \/ p \in held[t] /\ UNCHANGED <<lock, held>>
           \/ /\ p \notin held[t] /\ lock[p] = None
              /\ lock' = [lock EXCEPT ![p] = t]
              /\ held' = [held EXCEPT ![t] = @ \cup {p}]
    /\ todo' = [todo EXCEPT ![t] = Tail(@)]
    /\ UNCHANGED <<big, valid, deleted, server, pc, plan, op, twice, verdict>>

\* The keys of the list q that are in S, in their order (one list).
Sublist(q, S) ==
    LET left == {i \in DOMAIN q : q[i] \in S}
        size == Cardinality(left)
    IN  {[i \in 1..size |-> q[f[i]]] :
            f \in {g \in [1..size -> left] : /\ Range(g) = left
                                              /\ \A i, j \in 1..size : i < j => g[i] < g[j]}}

\* then acquire_lock is released.  _process_values_for_update drops the keys that
\* are not valid from the batch.
AcquireDone(t) ==
    /\ pc[t] = "grab" /\ todo[t] = <<>>
    /\ big' = None
    /\ \E rest \in IF op[t].kind = "bupdate" THEN Sublist(op[t].keys, {k \in Keys : valid[k] # None})
                                             ELSE {op[t].keys} :
          /\ todo' = [todo EXCEPT ![t] = rest]
          /\ pc' = [pc EXCEPT ![t] = IF rest = <<>> THEN "note" ELSE "work"]
    /\ UNCHANGED <<lock, valid, deleted, server, plan, op, held, twice, verdict>>

\* release_partition and release_partitions: a lock nobody holds raises RuntimeError,
\* a lock of somebody else is released.
Release(t) ==
    /\ pc[t] = "release"
    /\ \/ \E p \in held[t] :
            IF lock[p] = None
            THEN pc' = [pc EXCEPT ![t] = "dead"] /\ UNCHANGED <<lock, held>>
            ELSE /\ lock' = [lock EXCEPT ![p] = None]
                 /\ held' = IF twice[t] THEN held ELSE [held EXCEPT ![t] = @ \ {p}]
                 /\ UNCHANGED pc
       \/ /\ held[t] = {}
          /\ pc' = [pc EXCEPT ![t] = "idle"]
          /\ UNCHANGED <<lock, held>>
    /\ twice' = [twice EXCEPT ![t] = FALSE]
    /\ UNCHANGED <<big, valid, deleted, server, plan, op, todo, verdict>>

-----------------------------------------------------------------------------
(* Working on the keys, under their locks. *)

Key(t) == Head(todo[t])

\* After the first key of todo: the next one, or the locks are released.
Proceed(t) ==
    /\ todo' = [todo EXCEPT ![t] = Tail(@)]
    /\ pc' = [pc EXCEPT ![t] = IF Len(todo[t]) = 1 THEN "release" ELSE "work"]

GiveUp(t) == pc' = [pc EXCEPT ![t] = "release"] /\ UNCHANGED todo

\* set_exception: the loop of run() will end.
SetException(t) == failed' = [failed EXCEPT ![t] = TRUE]

\* The server answers an error, having done what it was asked or not.
Error(t, k, new) ==
    /\ t \in Faulty
    /\ data' \in {data, [data EXCEPT ![k] = new]}
    /\ SetException(t)
    /\ UNCHANGED blamed

\* client.set, for _unlocked_update only if client.get found the document, and
\* client.setMulti, key by key.  LoadDocumentsTask._create_batch goes on to fill the
\* store after an error, and _unlocked_update goes on to set the document after an exception at
\* reading it that is not a MemcachedError.
SetDoc(t) ==
    /\ pc[t] = "work" /\ op[t].kind \in {"create", "update", "bcreate", "bupdate"}
    /\ op[t].kind = "update" => data[Key(t)] # None
    /\ \/ /\ data' = [data EXCEPT ![Key(t)] = t]
          /\ todo' = [todo EXCEPT ![t] = Tail(@)]
          /\ pc' = [pc EXCEPT ![t] = IF Len(todo[t]) = 1 THEN "note" ELSE "work"]
          /\ UNCHANGED failed \/ (op[t].kind = "update" /\ t \in Faulty /\ SetException(t))
          /\ UNCHANGED <<tainted, blamed>>
       \/ /\ Error(t, Key(t), t)
          /\ tainted' = tainted \cup Range(op[t].keys)
          /\ pc' = [pc EXCEPT ![t] = IF op[t].kind = "bcreate" THEN "note" ELSE "release"]
          /\ UNCHANGED todo
    /\ UNCHANGED <<store, plan, op, held, twice>>

\* partition.set for every key of the operation.  A key that was dropped from the
\* batch is a KeyError nobody catches: it ends the thread, with its locks.
NoteSet(t) ==
    /\ pc[t] = "note" /\ op[t].kind \in {"create", "update", "bcreate", "bupdate"}
    /\ LET keys == op[t].keys
           gone == {i \in DOMAIN keys : op[t].kind = "bupdate" /\ valid[keys[i]] = None}
           done == {keys[i] : i \in {j \in DOMAIN keys : \A h \in gone : j < h}}
       IN  /\ valid' = [k \in Keys |-> IF k \in done THEN t ELSE valid[k]]
           /\ deleted' = deleted \ done
           /\ pc' = [pc EXCEPT ![t] = IF gone = {} THEN "release" ELSE "dead"]
    /\ UNCHANGED <<lock, big, server, plan, call, verdict>>

\* client.delete.  Not found is right if the store does not have the key either.  _delete_batch
\* goes on with the next key after an exception that is not a MemcachedError.
DeleteDoc(t) ==
    /\ pc[t] = "work" /\ op[t].kind \in {"delete", "bdelete"}
    /\ \/ /\ data[Key(t)] # None
          /\ data' = [data EXCEPT ![Key(t)] = None]
          /\ pc' = [pc EXCEPT ![t] = "note"]
          /\ UNCHANGED <<tainted, todo, verdict>>
       \/ /\ data[Key(t)] = None /\ valid[Key(t)] = None
          /\ Proceed(t)
          /\ UNCHANGED <<server, verdict>>
       \/ /\ data[Key(t)] = None /\ valid[Key(t)] # None
          /\ SetException(t) /\ blamed' = blamed \cup {Key(t)}
          /\ GiveUp(t)
          /\ UNCHANGED server
       \/ /\ Error(t, Key(t), None)
          /\ tainted' = tainted \cup {Key(t)}
          /\ GiveUp(t) \/ Proceed(t)
    /\ UNCHANGED <<store, plan, op, held, twice>>

\* partition.delete
NoteDelete(t) ==
    /\ pc[t] = "note" /\ op[t].kind \in {"delete", "bdelete"}
    /\ deleted' = IF valid[Key(t)] # None THEN deleted \cup {Key(t)} ELSE deleted
    /\ valid' = [valid EXCEPT ![Key(t)] = None]
    /\ Proceed(t)
    /\ UNCHANGED <<lock, big, server, plan, op, held, twice, verdict>>

\* What client.get is compared with: _unlocked_read and _unlocked_update want the
\* document if the store has the key, _check_valid_key wants the same one.
Differs(t) ==
    /\ valid[Key(t)] # None
    /\ IF op[t].kind = "check" THEN data[Key(t)] # valid[Key(t)] ELSE data[Key(t)] = None

\* client.get
GetDoc(t) ==
    /\ pc[t] = "work" /\ op[t].kind \in {"read", "update", "check"}
    /\ op[t].kind = "update" => data[Key(t)] = None
    /\ \/ ~Differs(t) /\ UNCHANGED <<failed, blamed>>
       \/ Differs(t) /\ SetException(t) /\ blamed' = blamed \cup {Key(t)}
       \/ t \in Faulty /\ SetException(t) /\ UNCHANGED blamed
    /\ Proceed(t)
    /\ UNCHANGED <<store, server, plan, op, held, twice>>

\* Defect: a key of the verifier's list must be in the server, deleted since or not.
GetMultiStale(t) ==
    /\ pc[t] = "work" /\ op[t].kind = "bcheck"
    /\ LET differ == {k \in Range(op[t].keys) : data[k] = None \/ data[k] # valid[k]}
       IN  /\ failed' = [failed EXCEPT ![t] = @ \/ differ # {}]
           /\ blamed' = blamed \cup differ
    /\ GiveUp(t)
    /\ UNCHANGED <<store, server, plan, op, held, twice>>

\* _check_valid_keys: client.getMulti, and every key the store has is compared.
GetMulti(t) ==
    /\ pc[t] = "work" /\ op[t].kind = "bcheck"
    /\ LET differ == {k \in Range(op[t].keys) : valid[k] # None /\ data[k] # valid[k]}
       IN  \/ /\ failed' = [failed EXCEPT ![t] = @ \/ differ # {}]
              /\ blamed' = blamed \cup differ
           \/ t \in Faulty /\ SetException(t) /\ UNCHANGED blamed
    /\ GiveUp(t)
    /\ UNCHANGED <<store, server, plan, op, held, twice>>

\* _check_deleted_key: it tries to delete the document, and says nothing when it
\* could unless the store has the key.  BatchedValidateDataTask releases the
\* lock in the handler of an error and once more after it.
CheckDeleted(t) ==
    /\ pc[t] = "work" /\ op[t].kind = "checkdel"
    /\ LET k == Key(t)
       IN  \/ /\ data[k] = None
              /\ UNCHANGED <<server, twice, verdict>>
           \/ /\ data[k] # None
              /\ data' = [data EXCEPT ![k] = None]
              /\ IF valid[k] # None
                 THEN SetException(t) /\ blamed' = blamed \cup {k}
                 ELSE UNCHANGED <<failed, blamed>>
              /\ UNCHANGED <<tainted, twice>>
           \/ /\ Error(t, k, None)
              /\ tainted' = tainted \cup {k}
              /\ twice' = [twice EXCEPT ![t] = Class[t] = "BatchedValidateDataTask"]
    /\ Proceed(t)
    /\ UNCHANGED <<store, plan, op, held>>

-----------------------------------------------------------------------------
\* The server loses a document, or an old one comes back, once for each key.
Lose(k) ==
    /\ k \in Lossy \ tainted
    /\ \E v \in Threads \cup {None} : (data[k] = None) # (v = None) /\ data' = [data EXCEPT ![k] = v]
    /\ tainted' = tainted \cup {k}
    /\ UNCHANGED <<store, pc, plan, call, verdict>>

Thread(t) ==
    \/ KeySet(t) \/ NextLoad(t) \/ NextVerify(t) \/ End(t)
    \/ AcquirePartition(t) \/ AcquireLock(t) \/ AcquireNext(t) \/ AcquireDone(t) \/ Release(t)
    \/ SetDoc(t) \/ NoteSet(t) \/ DeleteDoc(t) \/ NoteDelete(t)
    \/ GetDoc(t) \/ GetMulti(t) \/ CheckDeleted(t)

Next == (\E t \in Threads : Thread(t)) \/ (\E k \in Keys : Lose(k))

Spec == Init /\ [][Next]_vars

\* A thread runs unless it waits for a lock.
FairSpec == Spec /\ \A t \in Threads : WF_vars(Thread(t))

-----------------------------------------------------------------------------
(* Properties. *)

\* A store nobody is working on says what the server holds: threads that load the
\* same keys one by one and in batches never leave a document in the server and
\* another one in the partition, unless the server failed for that key.
StoreAgrees ==
    \A k \in Keys \ tainted : lock[PartOf[k]] = None => valid[k] = data[k]

\* A loader or a verifier says that server and store differ only about keys for
\* which the server failed, although the verifier's list of keys was taken long
\* before and other threads have changed the keys since.
NoFalseAlarm == blamed \subseteq tainted

\* "needed for deadlocks where different threads grab some of the partitions":
\* no thread waits for a lock forever.
ThreadsEnd == \A t \in Threads : <>(pc[t] \in {"ended", "dead"})
=============================================================================
