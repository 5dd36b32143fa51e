# TLA+ models of the test infrastructure

The repository has two halves. One half runs *around* tests: dispatcher scripts
take servers from a shared pool of documents, start Jenkins builds on them, and
a number of scripts give the servers back. The other half runs *inside* a build:
the `lib/` framework with which tests drive a Couchbase cluster. Both have a
small core of concurrent code whose errors show up as lost machines, hanging
builds or tests that fail (or pass) for the wrong reason. This project models
that core.

Abbreviations: `TD` scripts/testDispatcher_sdk4.py, `SM` scripts/server_manager.py,
`FR` scripts/find_rerun_job.py, `OV` scripts/find_and_release_overdue_nodes.py,
`TE` regression_automation/test_executor_cleanup.sh, `UP`
regression_automation/update_server_pool_vm_state.py, `CF`
regression_automation/cleanup_failed_install_nodes.py, `TM`, `FU`, `TK`
lib/tasks/{taskmanager,future,task}.py, `KV` lib/memcached/helper/kvstore.py, `DV`
regression_automation/dynvm_server_manager.py, `NI` scripts/new_install.py, `IU`
scripts/install_utils.py.

## 1. Inventory

| component | state it keeps | operations | talks to | hard behaviour | what makes it correct |
|---|---|---|---|---|---|
| Server pool (SM) | one document per server: state, username, poolId, memory | get_available_count, get_servers, release_servers, release_ip | Couchbase: queries and transactions | count, SELECT, ctx.get and commit are separate; the lambda may be run again; every call may fail | a booking takes free servers, and returns exactly those it took |
| Dispatcher (TD) | testsToLaunch and the locals of one round | scan, decide, book, check over ssh, book additional, launch, release | pool, Jenkins, rerun store | several dispatchers at once; an exception at any statement; lost replies of Jenkins | a build owns what it runs on; nothing stays booked for nobody; nobody waits for ever |
| Build cleanup (TE, UP) | the releases read from the console log | release by address, release by descriptor | pool | runs after the dispatcher is long gone; its updates may fail | frees only what the build owned |
| Repair (CF) | rows of a SELECT | clean a node over ssh, update its document | pool, nodes | documents change between reading and cleaning | never touches a booked node |
| Overdue nodes (OV) | - | release the bookings of a day | pool | judges a booking by its name | never frees a node in use |
| Rerun decision (FR) | rerun documents | should_dispatch_job, find_rerun_job | pool, rerun store | reads the pool before the dispatcher writes it | does not start a test that is running |
| Futures (FU) | state, result, exception, condition | set_result, set_exception, cancel, result | threads | a timeout races an answer | all waiters are told the same |
| Task manager (TM) | running, readyq, sleepq | schedule, run, shutdown | task threads, test threads | two queues without a common lock; a forced shutdown empties them while the manager works | no task is lost or doubled; everybody gets an answer; it ends |
| Tasks (TK) | Task.state | execute, check, step, a loader's run | cluster under test | poll, reschedule, raise | a finished task stays finished |
| Document store of a test (KV) | locks, valid and deleted keys | acquire/release, key_set, set, delete | loaders | locks of several partitions | no deadlock |
| Loaders and verifiers (TK) | a future and lists of keys | create, update, delete, read, verify, single and in batches | KV, server under test | server and store are changed one after the other; calls fail | store and server agree; verifiers report server failures and nothing else |
| Cluster operations (TK) | state, counter and future of a task | execute and check of 55 classes | task manager, cluster under test | a method answers, schedules and raises in different orders; a waiter or a shutdown comes in between | a task is never dropped; an answer stays the answer; every task that can end does |
| Dynamic VM service (DV) | reservations by label, timers; VMs on Xen hosts; documents | getservers, releaseservers, setexpiry, expire_vms | XenServer, Couchbase | requests share counters without a lock; creation fails half way; three parties delete the same VM; restarts | reservations come back; an answered request has its VMs; documents are closed |
| Installer (NI, IU) | a thread and a queue for each server, install_success, a timeout | uninstall, download, install, init, cleanup, validation | ssh, REST of the servers | commands hang, threads die, the timeout passes while they work | exit code 0 means installed; it ends |
| Docker hosts (SM) | port ranges | get and release dockers | pool | - | capacity is never exceeded |
| Cloud provisioning, test runner, clients, triggers, reports | none that is shared | I/O | ssh, REST, Jenkins | - | - |

PROJECT.json lists them all with their status, and under "hazards" the lines
where the hard behaviour bites.

## 2. Modules

| module | models |
|---|---|
| `Booking` | abstract: every server is free or has one owner. A client looks at free servers (`Look`), fetches them (`Fetch`) and takes what it has fetched (`Take`), all at once, unless one of them has changed hands meanwhile (`Void`); `Give` frees servers |
| `ServerPool` | the documents of the pool, and one operator for each statement the scripts send |
| `Dispatch` | dispatchers, builds with their cleanup, repair script and overdue script, all on one pool. Extends `ServerPool`; `BookingSpec` says that it implements `Booking` |
| `Promise` | abstract: a future is settled once and everyone who asks is told what it was settled with; `GiveUp` is the timeout of a client |
| `TaskManager` | Future, Task, TaskManager and the thread of GenericLoadingTask. `PromiseSpec` says that its futures implement `Promise` |
| `Loading` | KVStore, LoadDocumentsGeneratorsTask, ValidateDataTask, BatchedValidateDataTask, and the server they work on |
| `ClusterTasks` | execute and check of the task classes that work on a cluster, one definition for each, stepped by the manager statement by statement |
| `DynVm` | the dynamic VM service: requests, releases, timers, expiry thread, restarts |
| `Install` | the installer: main thread, a thread for each server, validation, exit |
| `DispatchProofs`, `OwnershipProofs`, `TaskManagerProofs`, `LoadingProofs`, `ClusterTasksProofs`, `DynVmProofs`, `ReservationProofs`, `InstallProofs` | theorems about the module of that name; `OwnershipProofs` extends `DispatchProofs` with who owns what in `Dispatch`, `ReservationProofs` extends `DynVmProofs` with what the requests owe |
| `MCDispatch`, `MCTaskManager`, `MCLoading`, `MCClusterTasks`, `MCDynVm`, `MCInstall` | instances for TLC |

Operators whose comment begins with "Defect:" are variants of a definition with a
plausible mistake in it; the specifications do not use them. They show that the properties would
notice: replacing the definition by the variant makes TLC report the property
PROJECT.json names beside it.

### Dispatch

`pool` holds the documents: `state` and `username`. `os` and `poolId` are one
thing to every statement and are folded into `PoolIdOf`; `prevUser` is written
and never read. A descriptor (`component-subcomponent-time-version`) is a record
of a test and a stamp; one that nobody carries any more may be issued again and
then stands for a later second, which keeps the state space finite. The time in a
descriptor is in seconds and nothing checks that it is new (TD 908), so that two
dispatchers of the same test may get the same one. `UniqueNames` is the assumption
that they do not; `dispatch_faults` does without it, the ownership properties need it.

A dispatcher goes through

    scan -> prepare -> count -> select -> stage -> commit -> got
                         ^                                    |
                         +---- check_vm / additional pool ----+-> mark -> launch -> scan/done
                                                              |      \-> drop
                                                              +-> release -> scan

`Scan` finds the first pool with a test that fits (TD 808-849; the two counts are
taken as one look at the pool, which is harmless because the booking checks
again). `Prepare` asks should_dispatch_job and makes the descriptor. `Count`,
`Select`, `Stage`, `Commit` are the statements of `allocate_servers`; `Retry` is
the transaction library running the lambda again, with `server_list` as the failed
attempt left it; `GiveUp` is the handler that returns `list()`. `GotServers` is
the check_vm loop and the comparison after it, `GotAddl` the same for the
additional pool, `Mark` the `release_ip(..., 'ssh_failed')` loop, `Launch` and
`LaunchRaises` the request to Jenkins, `Drop` the branch for a test that is not
to be dispatched, `Release` the two mismatches and the exception handler. With
`Faults` a `release_ip` may fail silently, as its handler only logs, and the
cleaner's script may abort on the node it is working on. `release_servers` is a
transaction too (SELECT by username, then replace each row), but a single step of
the model in every run: the rows it selects are taken to be protected until
its commit, whatever `TrackSelect` says.

`Finish` is the end of a build. Its cleanup reads the console log; what the log
may say is every combination of completed and failed installs, or, without any,
of ssh successes, failures and attempts. The result is a plan, carried out one
update at a time by `CleanupByUser` and `CleanupByIp`, each of which may fail.
The cleaner reads its rows once (`CleanerStart`), wipes a node (`CleanerTake`)
and updates it (`CleanerEnd`). `Overdue` is the one UPDATE of the overdue script for a
day, which frees the servers of every name of that day. The script asks nobody whether
a build still runs; that dispatchers and builds are through with a name two days
later, as its comment hopes, is the assumption `Punctual`.

The Couchbase transaction library is external. Assumed of it: documents read
with `ctx.get` are protected by their CAS until the commit, a commit is atomic,
a conflict reruns the lambda at most `MaxAttempts - 1` times. Whether rows that
were only `SELECT`ed are protected as well is the constant `TrackSelect`. The
code needs it: it never looks at the state of the document `ctx.get` returns.
The documentation of the library promises read committed only, so that the
results under `TrackSelect = TRUE` hold *if* the query service validates rows.
`BookingSpec` does without: `TrackSelect` is `Isolated` in `Booking`, and without it a
claim by a client that has only looked survives a change of hands. Each of
`TrackSelect`, `UniqueNames` and `Punctual` is necessary for ownership: with any of them
`FALSE` in DispatchOwnership.cfg, `RunningJobsOwnServers` fails.

### TaskManager

One action for each lock acquisition: a method of `Future` runs under its
condition, and `empty()`, `qsize()`, `get()` and `put()` of a queue under the
queue's lock. So `readyq.empty()` followed by `readyq.get()` is two actions, and
`schedule` reads `running` in one and puts the task in another. Waiting for a
result is a state (`waiting`) left by a notification or by the timeout. What the bodies of the
task classes do to the engine are `Succeed`, `Fail` (an error of the cluster, or the
TimeoutError of future.py itself, which `wait_until` raises in NodeInitializeTask),
`FailAndReschedule`, `StartChecking`, `Poll`, `StartLoader` for those that run in a
thread of their own, and three sequences of *hasty* tasks: an answer and then a
schedule (`AnswerFirst`, `Again`: CollectionCreateTask.check and others, TK 469; after a shutdown
the schedule raises and run() overwrites the answer), an answer and then another one
(`AnswerFirst`, `AnswerLast`: TK 4845), a schedule and then an answer (`ScheduleFirst`,
`PutFirst`, `AnswerLast`: TK 3961-3985, 4185-4194; a forced shutdown may cancel the task
in the queue before the answer). For tasks in `Hasty` two waiters can be told different things and a
cancelled future can get a result, so that `AllAgree`, `PromiseSpec` and `CancelledIsFinal`
speak of the others, which share queues and threads with them. A batch of a loader may
raise what no handler catches (`dead`): nobody answers its future then, and
`ClientsReturn` names that case. `ClusterTasks` has what each class does in full, on a
simpler manager.

`verdict` and `told` map a state to one of `Promise`: a future that is done stands at what
`__get_result` takes from it, an `_exception` before a `_result`, and an error and a
timeout are both a failure: an error set after a timeout replaces the exception,
so that two waiters may see different ones.

### ClusterTasks

A definition for each class gives the paths through its `execute()` and `check()`:
sequences of the statements that matter to anybody else. `"CHECKING"` etc. assign
`self.state`, `"true"`, `"false"` and `"exception"` answer the future,
`"schedule"` puts the task back, `"raise"` leaves the method; counters and flags
of the class are `"retry"`, `"reset"`, `"note"`. Which path is taken is what the
cluster answers. `Step` is `Task.step`, `Statement` runs one statement of the task
in hand, so that `Collect` (a client waking up in `result()`), `TimeOut` and
`Shutdown` may fall between any two; a `schedule` after the shutdown raises and
run() answers with that exception (`"stopped"`). The queues are counted
(`queued`), their order is in `TaskManager`. `Limits` replaces the retry limits of
the code (5, 300 or 40, 100, 100, 20, 5, 20) by small ones that keep their order
where one class has two. `TypeOK` includes that `self.retries` of the two compaction
tasks, which counts down with a schedule in between, is never negative.

Not every class keeps to the protocol. The cfg names the ones that do not, and the
properties speak of the others: `Forgetful` may leave a future open (finding 2,
`MonitorViewQueryResultsTask` without an expected row, `NodeMonitorsAnalyserTask`
after stop), `Hasty` answer and then change the answer, `Holding` wait inside
`execute()`. The sets are exact: without any one of their members the run fails.
`Patient` are the classes that poll until the cluster says what they want, which no
property can promise.

### DynVm

Flask serves each request in a thread: `Reserve` (increase_reserved), `Look`
(get_all_available_count), `Admit`, then for each host `NextHost`
(host_is_overprovisioned), for each name `Clone`, `GetIp`, `Record`, `Save`
(create_vm and the decrease in create_vms), for each VM `VetOne`, `VetEnd`, and
`Settle`, which rolls back if all-or-none was asked for. `FindVm`, `DeleteVm` and
`UpdateDoc` are the loop of `release_servers` in whichever thread runs it: the
request itself, `UserRelease`, `TimerFires` or the expirer (`ExpireSelect`,
`ExpireRow`, `ExpireRowEnd`). A VM is its host and its name; all have the size of the template, so
that cpus, memory and disks of a host are one number, `RoomOf`. `Fault` is a
failing call of Xen or Couchbase, `Restart` the loss of timers, requests and
reservations; together there are at most `MaxFaults`.

`increase_reserved` and `decrease_reserved` read and write a counter without a lock:
`Store` lets an update of some of the labels be lost whenever another request may be
between its own read and write. `stray` is a history variable with what decreases have
missed: lost ones, and those made for the labels of the host where the reservation
was made for the labels of the request. A template that is missing ends the thread by
sys.exit, past all handlers (`"exited"`). An error in create_vm returns the address read last: in
the first attempt the empty string, which counts as not made, later None or a local
one, which counts as made (`Unmade`, `NextLate`). A VM
whose creation reported an address *and* an error (`late`) is counted as made by the code; the
properties name it as the exception. `expire_vms` connects once as it starts; `linked`
says whether that worked, and a restart is another try. Names of VMs are taken to be new
for each request, which the code leaves to its callers.

### Install

One action for each stage of `main`, `do_uninstall` and `do_install`, one for
each end of a task in a server's thread. A command may work or not, and may
never end: there is no fairness for the threads. `late` is the timeout.
`InstallFatal` is a fatal error seen while the command is repeated; it sets
`install_success` for good. `InitDies` is SystemExit in the thread of a server.
`InitClusters` and `Collect` end with an exception as the code does (hazards), and so may
`Probe`, on an answer without the keys validate_columnar_install reads.
`SetClusterName` is the loop that names the clusters: an exception costs a retry, an
answer of False goes to `refused` and from there to the next try, for ever if need be.
`Products` are the builds the validation can or cannot tell apart: it compares versions as
one string in the other (`like`), and for columnar servers lets 7.6.100 pass
(`Accepted`). The tasks of a server go by its own profile (`Columnar`), the validation
also by `params["columnar"]` (`Analytic`). A columnar server is judged by `validate_columnar_install`, whose REST object is
made there, the others by `validate_install` and the one `init_cb` has left.

### Loading

Each partition has a lock; `acquire_lock` serialises batches that lock several.
An operation is *lock - change server - note in store - unlock*, and each arrow is a
place where others run. The actions are shared by the single and batch variants
and distinguished by the kind of operation. A document's value is the thread that wrote it. `tainted`
remembers the keys for which the server itself misbehaved (an error reply, a lost
document, one that came back), so that the properties can say "unless the server
failed". An error ends an operation or, where the handler only sets the exception, the loop goes
on (`_delete_batch`, TK 1329; `_unlocked_update`, TK 1221). Expiry is left out: no document has a TTL. Keys are never created twice,
as the tests do it.

## 3. Runs

Sizes: at most three servers in two pools, two dispatchers with one or two tests, two
builds. That is the smallest pool in which a dispatcher can get some but not all
of what it needs, lose a race, and collide with a cleanup, the repair and the
overdue script; two attempts of a transaction are enough for a stale list.
Two or three clients on a polled and a loading task give the manager both queues and a
second reader. Two keys in two partitions with three threads give overlapping
batches, a single-key thread between them, and a list of keys that grows stale.

| run | checks | states, result |
|---|---|---|
| `dispatch_faults` | `TypeOK`, `BookingsAccounted`, `BookingSpec`; shared descriptors, calls fail, replies are lost, transactions rerun and validate only what was fetched, overdue script at any time | about 1.53 million up to symmetry, holds |
| `dispatch_ownership` | `RunningJobsOwnServers`, `CleanerSparesBooked`, `NoDeadServerUsed`; check_vm, additional pool, calls fail; under `TrackSelect`, `UniqueNames`, `Punctual`, one attempt, no lost reply | 353,519, holds |
| `dispatch_hold` | `HoldResolves`; check_vm, one dispatcher, two servers | violated (finding 3) |
| `dispatch_txn_retry` | `RunningJobsOwnServers` with a rerun of the lambda | violated (finding 1) |
| `tasks_orderly` | `TypeOK`, `TaskTracked`, `GetNeverBlocks`, `AllAgree`, `PromiseSpec`, `ClientsReturn`, `ManagerStops`; a polled and a loading task, shutdown(False) | 112,659, holds |
| `tasks_forced` | `TaskTracked`, `CancelledIsFinal`, `PromiseSpec`; a polled and a hasty task, shutdown(True) at any time | 2,381,178, holds |
| `loading_agrees` | `TypeOK`, `StoreAgrees`, `NoFalseAlarm`, `ThreadsEnd`; server errors, lost documents | 326,070, holds |
| `cluster_tasks` | `TypeOK`, `NotAbandoned`, `NobodyMisled`, `TasksAnswered`; any class beside a polling one or a timer, two clients, a shutdown | 384,348, holds |
| `cluster_retry` | `NotAbandoned` for the classes that try a failed statement again | violated (finding 2) |
| `dynvm_requests` | `TypeOK`, `ReservedReturns`, `PromisedVms`; two requests, three names, two hosts, lost updates, one fault | 2,262,983, holds |
| `dynvm_expiry` | `RecordSettles`, `RequestsEnd`; one VM, user, timer and expirer, three faults | 98,406, holds |
| `install` | `TypeOK`, `ZeroMeansInstalled`, `PhasesApart`, `InstallerEnds`; two servers, one columnar, all tasks | 281,726, holds |

The instances of the newer modules. `cluster_tasks`: classes interact only through
the manager's one thread, the clients of a task, and `AutoFailoverNodesFailureTask`
with its timers, so that every class beside one that polls for ever or one that is waited
for shows all there is; the second client has a timeout. `dynvm_requests`: a maximum of
one VM and room for two on each host means that a request for two must use both hosts, a
request bound to the first host competes with it, and both the configured maximum
and the refusal of Xen are met; one fault is a failure together with the failed clean-up after
it, a thread that exits, or a restart, and updates of the counters are lost besides.
`dynvm_expiry`: a single VM suffices, as `release_servers` treats names one by
one; three faults are a failed delete, a failed update of the document and a
restart. `install`: servers are independent but for the loops of the main thread, which two make visible.

Deadlock is not checked in any run: dispatchers end when their list is empty,
threads and managers end, and a pool whose releases have all failed stops the
dispatchers for good. What must not stop is stated as a liveness property.

**Fairness.** `Dispatch`: weak fairness of every dispatcher (a loop that polls),
of every build (Jenkins ends it at its time limit; the cleanup is a shell script
that does not wait) and of the repair script. None for the overdue script, which
is started by hand. `TaskManager`: weak fairness of the manager, of clients and
loaders (threads that can run do), of a forced shutdown once begun, and of the
clock. None for calling shutdown or for a timeout. `Loading`: weak
fairness of each thread; a blocked `acquire` is not enabled. Weak fairness does not
promise that a thread gets a contended lock, and `ThreadsEnd` holds without that
promise because the threads' work is finite. `ClusterTasks`: weak fairness of the
manager's statements and of waking clients, and strong fairness of `Step` for each
task: the queues are first in first out and sleeping tasks are woken, so that a
task that is again and again in the queue is taken; the model takes any. None for submitting,
timeouts and shutdown. `DynVm`: weak fairness of a request once begun (a thread), of each
call of release_servers, of timers, of the clock and of the expirer (a loop
with a sleep); none for users, failures and restarts. `Install`: weak fairness of the main thread and of
the timeout, none for the threads of the servers.

### What the passing runs do not say

- `dispatch_ownership` sets `MaxAttempts = 1`, `LostReply = FALSE`: with a rerun
  it fails (finding 1), and with a lost reply a build runs on servers that are freed
  at once, which the code cannot know. It assumes `TrackSelect`, `UniqueNames` and
  `Punctual`, none of which the code checks.
- `BookingsAccounted` finds a dispatcher or a build by its descriptor; where two share one,
  it is enough that one of them will release it.
- In `tasks_orderly` clients schedule before the shutdown and no task is hasty; in
  `tasks_forced` there is no loading task. The proofs have all kinds of tasks together.
- In `loading_agrees` calls of the batch verifier do not fail: its
  `_check_deleted_key` releases the lock twice after an error (TK 2575), which
  frees a lock somebody else may hold by then. The mechanism is modelled
  (`twice`), and a batch update next to a delete is kept out (see below).
- `ReservedReturns` bounds what stays reserved by `stray`, the VMs with an address and an
  error, and what sys.exit leaves behind. The code has no memory of any of these: each makes
  the service believe it has less room, until it is restarted.
- `RecordSettles` is about a service whose last start got its connection for `expire_vms`.
- `InstallerEnds` leaves out a server that refuses the name of its cluster for ever.
- `ZeroMeansInstalled` and `PhasesApart` speak of installers in time. After the timeout
  the code validates whatever there is while threads still work.

## 4. Findings

Shown by runs:

1. *Stale list of servers* (SM 307). `server_list` lives outside the lambda; a
   rerun appends to what the failed attempt left. `get_servers` then returns servers it has
   not booked, and when the number happens to be right a build starts on them.
2. *The second attempt that is never made* (TK 3361, 3423, 3477, 3573). After a first
   failure of a statement the N1QL and index tasks set `state = FINISHED` and schedule
   themselves "to try again". `Task.step` does nothing for such a task; its future
   stays open.

3. *check_vm never lets go* (TD 930). The code releases its servers when it got fewer than it
   asked for (TD 957-964), but with check_vm the loop before that ends only with the full
   number, so that this is dead code there: a dispatcher keeps what it has as long
   as a server is missing, and two dispatchers can each hold what the other needs.

Reproducible by changing a cfg:

4. *Booking over a booking* (SM 305), `TrackSelect = FALSE` in DispatchOwnership.cfg:
   `RunningJobsOwnServers` fails. The state is checked by the `SELECT` and the document fetched
   later; without validation of selected rows the fresh CAS hides that the server was booked
   meanwhile. `UniqueNames = FALSE` (TD 908) and `Punctual = FALSE` (OV 68) fail as well.
5. *Forced shutdown* (TM 49), `Forced = TRUE` in TasksOrderly.cfg: `GetNeverBlocks` fails, and so does
   `ClientsReturn` when it is checked alone. Manager and shutdown both call `empty()` and then a blocking `get()` on the same queues; a task
   left in the other queue is never cancelled and its client waits for ever.
6. *Changed answers*: removing a class from `Hasty` in ClusterTasks.cfg shows, for each,
   how a client is told `True` or `False` by a task that fails a moment later
   (TK 4845, 5162, 5216, 5655, 6241: set_result(False) before set_exception; 3078: the answer
   before the replicas are checked; 6758: the answer after the first of several
   collections; 3983: "completed" whatever happened before; 4962: completed, then "was not started").

Read off the code while modelling:

7. *Clusters of several servers* (IU 1412). `Cluster` is not imported: the installer ends with
   NameError after the servers were installed. With a set of two servers in `Clusters` the
   run stays correct, but never reaches the validation.
8. *KeyError with locks held* (TK 1386). A batch update of a key deleted meanwhile
   drops it from `key_val` and then looks it up; the loader dies with its
   partitions locked.
9. *A missed resurrection* (TK 2364). The check that a key is gone deletes the document
   and complains only if the store has the key as valid, which is never so for a deleted key.
10. *Marked deleted though it runs* (DV 1529). A host that cannot be reached is skipped when a
   VM is looked for; "vm record in db but vm already deleted" is then wrong.
11. *Rejected VMs stay* (DV 222). `'deletevm'` gets a name instead of a list of names, and the
   entry added for the error makes the loop over the dictionary raise.
12. `setexpiry` moves the document's time and not the timer (DV 484, 978).
13. *Reservations that stay* (DV 264, 789, 850): a lost update, labels of the host that are not those
   of the request, a missing template.
14. *An expirer without a connection* (DV 1523): `CBDoc()` is made once, a connection that fails
   is only logged, and `get_expired` then returns `[]` for ever.
15. *A name that is refused* (IU 1436): retries are lowered only in the handler of an exception.
16. *7.6.100 is always the right version* (NI 78, 81) on a columnar server.

## 5. Proofs

Every invariant, every action property and both refinements that the passing runs check
are also theorems. A run shows a property on its small instance, the theorem for all
values of the constants that the named assumptions of the modules allow: any servers,
tasks, clients, keys, hosts and bounds. Assumptions on constants say what kind
of thing they are (`TaskOf` maps clients to tasks, a count is a natural number) and,
where the code depends on it, how it is called: `TaskAssumption` says that a task is
scheduled by one caller and afterwards by itself, `LoadingAssumption` what batches the
loaders make, `InstallAssumption` that `uninstall` is at most once in the list of tasks
(`main` removes the first), and `ThreadAssumption` that the threads of `DynVm` are
different ones. A theorem that needs more has it as a premise, named below. The
inductive invariants were checked with TLC on the instances of the runs before they were
proved.

### The pool: `DispatchProofs`, `OwnershipProofs`

- `TypeCorrect`. One lemma for each action. What needs an argument: the rows of a SELECT
  are a sequence of servers (`RowsType`), what is left of a list without its dead
  members is a sequence (`AliveType`), the scan's index stays inside `testsToLaunch`
  until the pop, and a cleanup plan shrinks to a plan.
- `PoolBooks`: `Spec => BookingSpec`, without any premise. The refinement mapping is `owner` (the username of a
  booked document, else free), `seen` and `held` (the rows of a transaction that has
  selected, or fetched, and has not been marked). `Select` is a `Look`, as its rows are
  available; `Stage` is a `Fetch`; `Commit` is a `Take`, because what is held has not been
  marked; every other write is a `Give`, of whatever servers, because none but `Commit`
  books, and it marks the transactions that hold what it writes (`Conflicted`), which is what
  `Void` asks. No invariant but `TypeOK` is needed: what a claim is worth is in the mark.
- `AllAccounted`: `BookingsAccounted`, inductive with `TypeOK` and without any premise:
  whatever the library, Jenkins and failing calls do, a booked server has somebody who
  will give it back, or its release has failed.
- `CleanerSafe`: with `TrackSelect`, and an overdue script that is not started for
  `failedInstall` (that would make a node available while it is wiped), the repair
  script's node is booked by nobody. `CleanerRows` adds that what it has *read* is still
  in `failedInstall`, `StagedAvailable` that nobody is about to book it.
- `NoDeadUsed` (with `TrackSelect`, `MaxAttempts = 1`, `UniqueNames`, `Punctual`) and `RunningJobsOwn` (and no
  lost reply). The invariant `Own` has three parts: descriptors of those at work are
  different (`Names`), what a dispatcher has in its lists, dead servers included, is
  booked under its descriptor and in one list only (`Held`), and so is what a running
  build uses (`Owned`). `Names` is needed because all releases go by name: one that two
  parties share would free both; it is what `UniqueNames` gives and `Punctual` protects. `StagedFree`
  (with `TrackSelect`, what a transaction is about to book is free) is a lemma here. `dispatch_txn_retry` refutes `RunningJobsOwn` for two
  attempts.

### The task engine: `TaskManagerProofs`, `ClusterTasksProofs`

- `TasksTracked`: also in a forced shutdown no task is lost or in two places. The
  invariant counts each task in queues that have nothing twice, in the hands of the
  manager, the shutdown and a loader, and says which of these exclude each other.
- `CancelledStays`: no step sets the outcome of a cancelled future (an action property), for tasks that
  are not hasty.
- `ClientsAgree`: for these tasks an answered future never changes what a waiter takes from it.
- `FuturesPromise`: `Spec => PromiseSpec`, for every kind of shutdown and beside hasty tasks. Apart from a client
  that returns, a step does one of four things to a future (`FutureOp`): nothing, a result
  if it is not cancelled, an exception if it is neither cancelled nor has a result, a
  cancellation if it is open. That the manager and the loading threads are in these
  cases when they call `set_result` and `set_exception`, which look at nothing, is the
  part `AtWork` of the invariant: they have asked `done()` and since then only a timeout
  can have settled the future, which the order in `__get_result` makes prevail.
  `TimeoutsOK` says that who comes out of the wait while the future is open had passed a
  timeout, so that its return is a `GiveUp`. `ClusterTasks` does not implement `Promise`:
  after a shutdown an answer may be spoilt by the exception of `schedule`.
- `ManagerNeverBlocks`, without a forced shutdown: only the manager takes out of the
  queues, so that what it saw in them is there when it calls `get()` (`OneReader`).
  Finding 5 is the other case.
- `TasksStayTracked` and `AnswersStand` speak of the 55 classes of `ClusterTasks` one by
  one. For each method of each class a lemma says of its paths what is needed: a path
  *asks* for a schedule once, *tells* an answer, or is *quiet* (`Tracked`); nothing
  after an answer contradicts it (`Steady`). Which classes fall short is written out,
  `Forgets` (six) and `Retracts` (eleven), and these being among the exceptions the cfg
  names, `Forgets \subseteq Forgetful` and `Retracts \subseteq Hasty`, is the premise.
  `NodeMonitorsAnalyserTask` is not one of `Retracts` only because it is never scheduled
  again, so that its `check()`, which would spoil an answer, is not reached; that is a
  part of the invariant (`Analyser`).

### Documents: `LoadingProofs`

`StoreStaysTrue` and `NoneMisblamed`, if no verifier releases a lock twice
(`NoSecondRelease`, TK 2575) and no key is created twice (`CreatedOnce`, as the tests do
it). `StoreAgrees` says nothing about a locked partition, so that the invariant must: a
thread holds the locks of the keys it works on (`Locks`), server and store differ only
under the lock of the thread in between (`Agree`), that thread will note what it wrote
(`Written`), a key has one operation that creates it and none once it is known
(`Onces`), and what a verifier has on its list as deleted, however old the list, is
still deleted (`Deleteds`).

### Dynamic VMs: `DynVmProofs`, `ReservationProofs`

`TypeCorrect` and `PromisesKept`. What a request has and what it still needs are always
all its names, and what it makes on a host is needed (`Fits`); what it has made runs,
was to be deleted or was reported with an error (`Kept`), also in the gap between the
start of the timer and the document (`Saved`); an all-or-none answer needs nothing
(`Complete`). `release_servers` works by name in any thread, so that the invariant needs
who may delete: `Entitled` says that a thread that is not a request has only names
somebody asked to be deleted, and that a request deletes its own names, while it is
rolled back. A restart is an ordinary step: it ends the calls and loses the requests,
and what was promised before stays.

`ReservationsReturn`, for a finite set of requests: `Spec => []ReservedReturns`. The
counters of `reserved_count_by_label` are shared, so that nothing can be said of one
request's share alone. The invariant is an account (`Accounts`). A request *owes* a
reservation for each name it needs and has not made on the present host, and for each of
its late VMs (`Debt`, `Owes`), and a label is reserved at most as often as its requests
owe together and `stray` has (`Balanced`). Each step is shown to lower a counter by no less than it
lowers the debt of the one request it belongs to, or to raise `stray` by the difference
(`Pays`): for a VM that is made, a host
that is given up, the rest at the end and the rollback, also where `decrease_reserved`
stops at zero, where an update is lost and where it is for other labels. A request that
sys.exit ends goes on owing what it owed. That needs that a request visits a host once
and reports no VM twice (`Tidy`). The sum is a fold over a set, about which the provers
know nothing: that it exists, is a natural number, and changes by what one member
changes by (`PartialExists`, `TotalNat`, `Shift`) is proved from the definition of the
fold by the least size of a counterexample, as induction is out of their reach.

### The installer: `InstallProofs`

`TypeCorrect`, `PhasesStayApart` and `ExitZeroMeansInstalled`, for any list of servers
and tasks. The invariant follows a server through the phases of the main thread: as long
as there is time the main thread waits for all threads of a phase, so that nobody is at
work on a server that is judged, and a server that has succeeded has a build the validation
accepts.

### Only model-checked

Liveness (`ClientsReturn`, `ManagerStops`, `ThreadsEnd`,
`TasksAnswered`, `RecordSettles`, `RequestsEnd`, `InstallerEnds`), which needs fairness
and ENABLED.

## 6. Not modelled

- Docker and cloud servers, `noLaunch`, options and URLs of the dispatcher,
  administration of the pool; the rerun documents of `find_rerun_job`. The cleanup of a build on
  dynamic VMs (TE 53-92): one call of releaseservers, and releaseip for its additional servers.
- What the tasks ask of a cluster: the REST, ssh and memcached clients
  (`lib/membase`, `lib/remote`, `lib/mc_bin_client.py`) are some twenty thousand
  lines of formatted commands and parsed answers without state of their own. They
  appear as the choice of a path in `ClusterTasks` and as calls that fail elsewhere.
- Query generators and helpers (`lib/couchbase_helper`), which compute text.
- Expiry, merging and random choice in the store, the high-throughput mode of the
  loaders, WorkloadTask, the replica verifiers.
- In `DynVm` the static pool (`pools=`), the listings, and the sizes of VMs; in `Install`
  options, names and addresses of builds and the retries inside a download.
- Test runner, reports, triggers; the older dispatchers, installer and
  `lib/old_tasks`, which the modelled ones replace; generated and vendored clients, data.

## 7. Plan

1. An abstract future for `ClusterTasks`, weaker than `Promise` by the classes of `Hasty`
   and by the shutdown, which may spoil an answer.
2. `Partition`: TTL, expiry on access, `merge_partitions`; valid and deleted
   keys stay disjoint, expired keys are deleted.
3. `Loading` extended by the high-throughput mode (workers on copies of the store, merged at
   the end), WorkloadTask (its `release_partitions` argument) and the
   replica verifiers (which do not release).
4. `DockerPool`, and the rerun documents of `find_rerun_job` with two writers.
