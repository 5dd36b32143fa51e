------------------------------ MODULE Install -------------------------------
(***************************************************************************)
(* The installer of a job, scripts/new_install.py and                      *)
(* scripts/install_utils.py.                                               *)
(*                                                                         *)
(* The main thread checks the servers, starts a thread for each of them    *)
(* that uninstalls, waits for these threads or for the timeout, fetches    *)
(* the build, starts a second thread for each server that works through    *)
(* the other tasks, waits again, looks at every server, prints a line for  *)
(* it and exits; the exit kills the threads that still run.  The commands  *)
(* of a task are repeated until they succeed or their own time is up, and  *)
(* a task that fails leaves the later ones in the queue: what a server     *)
(* ends up with is only known from the validation.                         *)
(***************************************************************************)
EXTENDS Naturals, Sequences, FiniteSets, SequencesExt

CONSTANTS
    Nodes,         \* params["servers"], in order
    Tasks,         \* params["install_tasks"]
    Columnar,      \* the servers whose profile is columnar or analytics
    AllColumnar,   \* params["columnar"]
    Clusters,      \* the clusters to form, sets of servers; {} without init_clusters
    QueryLimit     \* fts_query_limit is given

NodeSet == Range(Nodes)

ASSUME InstallAssumption ==
    /\ Nodes # <<>> /\ IsInjective(Nodes)
    /\ Nodes \in Seq(NodeSet) /\ Tasks \in Seq({"uninstall", "tools", "install", "init", "cleanup"})
    /\ \A i, j \in DOMAIN Tasks : Tasks[i] = "uninstall" /\ Tasks[j] = "uninstall" => i = j
    /\ Columnar \subseteq NodeSet /\ Clusters \subseteq SUBSET NodeSet
    /\ {AllColumnar, QueryLimit} \subseteq BOOLEAN

VARIABLES
    pc, turn,   \* the main thread, and the index of the server it is at
    late,       \* start_time + params["timeout"] has passed
    product,    \* what is installed on a server, a member of Products
    uninstaller,\* the threads of do_uninstall
    installer,  \* the threads of do_install
    queue,      \* the tasks they have not finished
    rest,       \* the servers with a node.rest
    success,    \* node.install_success: None, False or True
    listed,     \* the servers validate_install has found in a cluster's status
    unnamed,    \* the clusters init_clusters has not named
    retries,    \* its retries for the next one
    lines,      \* the lines printed about a server
    code        \* the exit code

vars == <<pc, turn, late, product, uninstaller, installer, queue, rest, success, listed, unnamed,
          retries, lines, code>>
naming == <<unnamed, retries>>
main == <<pc, turn, naming>>
threads == <<uninstaller, installer, queue>>
outcome == <<lines, code>>

\* main takes uninstall out of the list once it is done with it.
InstallTasks == RemoveFirst(Tasks, "uninstall")

\* The builds: the one asked for, one whose version only contains that version, one that reports
\* 7.6.100, any other one.
Products == {"none", "other", "7.6.100", "like", "asked"}
NameRetries == 3

\* The servers that validate_columnar_install looks at.
Analytic == IF AllColumnar THEN NodeSet ELSE Columnar

Phases == {"check", "helpers", "builds", "uninstall", "await_uninstall", "download", "tools",
           "install", "await_install", "clusters", "naming", "refused", "validate", "probe", "collect", "report", "exit"}

Lines == {"NOT STARTED", "FAILED", "COMPLETED"}

TypeOK ==
    /\ pc \in Phases /\ turn \in 1..(Len(Nodes) + 1) /\ late \in BOOLEAN
    /\ product \in [NodeSet -> Products]
    /\ uninstaller \in [NodeSet -> {"idle", "working", "done"}]
    /\ installer \in [NodeSet -> {"idle", "working", "dead"}]
    /\ queue \in [NodeSet -> Seq({"tools", "install", "init", "cleanup"})]
    /\ rest \subseteq NodeSet /\ listed \subseteq NodeSet
    /\ success \in [NodeSet -> {"None", "False", "True"}]
    /\ unnamed \subseteq Clusters /\ retries \in 1..NameRetries
    /\ lines \in [NodeSet -> SUBSET Lines]
    /\ code \in {"running", "0", "1"} /\ (code = "running" <=> pc # "exit")

Init ==
    /\ pc = "check" /\ turn = 1 /\ late = FALSE
    /\ product \in [NodeSet -> Products]
    /\ uninstaller = [n \in NodeSet |-> "idle"] /\ installer = uninstaller
    /\ queue = [n \in NodeSet |-> <<>>]
    /\ rest = {} /\ listed = {}
    /\ success = [n \in NodeSet |-> "None"]
    /\ unnamed = Clusters /\ retries = NameRetries
    /\ lines = [n \in NodeSet |-> {}] /\ code = "running"

Running == code = "running"
Goto(where) == pc' = where /\ turn' = 1

-----------------------------------------------------------------------------
(* The end. *)

\* print_result_and_exit: the line about a server
Line(n, s) == CASE s[n] = "None" -> "NOT STARTED" [] s[n] = "False" -> "FAILED" [] OTHER -> "COMPLETED"
PrintResult(s) == lines' = [n \in NodeSet |-> lines[n] \cup {Line(n, s)}]

Exit(c) == code' = c /\ Goto("exit")

\* Called by the main thread, which goes on, and ends with 0, when every server succeeded.
PrintResultAndExit(s) ==
    /\ PrintResult(s)
    /\ Exit(IF \A n \in NodeSet : s[n] = "True" THEN "0" ELSE "1")

\* An exception nobody catches.
Abort == Exit("1") /\ UNCHANGED lines

-----------------------------------------------------------------------------
(* main: everything before do_install *)

\* __check_servers_reachable: the servers that can be reached count as completed.
CheckServers ==
    /\ pc = "check"
    /\ \/ Goto("helpers") /\ UNCHANGED outcome
       \/ \E lost \in SUBSET NodeSet \ {{}} :
             /\ lines' = [n \in NodeSet |-> {IF n \in lost THEN "FAILED" ELSE "COMPLETED"}]
             /\ Exit("1")
    /\ UNCHANGED <<naming, late, product, threads, rest, success, listed>>

\* _params_validation: a server that cannot be reached any more has no shell; an unknown system.
MakeHelpers ==
    /\ pc = "helpers"
    /\ \/ Goto("builds") /\ UNCHANGED outcome
       \/ Abort
       \/ PrintResultAndExit(success)
    /\ UNCHANGED <<naming, late, product, threads, rest, success, listed>>

\* pre_install_steps: every server gets its build, unless it is nowhere to be found.
PreInstallSteps ==
    /\ pc = "builds"
    /\ \/ /\ Goto(IF Contains(Tasks, "uninstall") THEN "uninstall" ELSE "download")
          /\ UNCHANGED outcome
       \/ Contains(Tasks, "install") /\ PrintResultAndExit(success)
    /\ UNCHANGED <<naming, late, product, threads, rest, success, listed>>

\* do_uninstall: the threads
StartUninstall ==
    /\ pc = "uninstall"
    /\ uninstaller' = [n \in NodeSet |-> "working"]
    /\ Goto("await_uninstall")
    /\ UNCHANGED <<naming, late, product, installer, queue, rest, success, listed, outcome>>

\* Defect: nobody waits.
AwaitNone(ended, next) ==
    IF turn = Len(Nodes) THEN Goto(next) ELSE turn' = turn + 1 /\ UNCHANGED pc

\* Defect: without the timeout.
AwaitForever(ended, next) ==
    /\ ended
    /\ IF turn = Len(Nodes) THEN Goto(next) ELSE turn' = turn + 1 /\ UNCHANGED pc

\* The loops over the servers: on to the next one when its queue is empty, out when it is late.
Await(ended, next) ==
    \/ late /\ Goto(next)
    \/ /\ ~late /\ ended
       /\ IF turn = Len(Nodes) THEN Goto(next) ELSE turn' = turn + 1 /\ UNCHANGED pc

\* do_uninstall: the wait
AwaitUninstall ==
    /\ pc = "await_uninstall"
    /\ Await(uninstaller[Nodes[turn]] = "done", "download")
    /\ UNCHANGED <<naming, late, product, threads, rest, success, listed, outcome>>

\* download_build: for all servers at once and copied to each, or on each server.
DownloadBuild ==
    /\ pc = "download"
    /\ \/ Goto("tools") /\ UNCHANGED <<success, outcome>>
       \/ /\ Contains(Tasks, "install")
          /\ \E bad \in SUBSET NodeSet :
                LET marked == [n \in NodeSet |-> IF n \in bad THEN "False" ELSE success[n]]
                IN  success' = marked /\ PrintResultAndExit(marked)
    /\ UNCHANGED <<naming, late, product, threads, rest, listed>>

\* install_tools
InstallTools ==
    /\ pc = "tools"
    /\ \/ Goto("install") /\ UNCHANGED outcome
       \/ Contains(Tasks, "tools") /\ Abort
    /\ UNCHANGED <<naming, late, product, threads, rest, success, listed>>

-----------------------------------------------------------------------------
(* The threads of the servers. *)

\* node.uninstall_cb: the command is repeated for a while; it may never work.
UninstallCb(n) ==
    /\ Running /\ uninstaller[n] = "working"
    /\ uninstaller' = [uninstaller EXCEPT ![n] = "done"]
    /\ product' \in {product, [product EXCEPT ![n] = "none"]}
    /\ UNCHANGED <<main, late, installer, queue, rest, success, listed, outcome>>

At(n, task) == Running /\ installer[n] = "working" /\ queue[n] # <<>> /\ Head(queue[n]) = task
TaskDone(n) == queue' = [queue EXCEPT ![n] = Tail(@)]

\* node.install_cb: a fatal error is remembered, and the command repeated all the same.
InstallFatal(n) ==
    /\ At(n, "install") /\ success[n] # "False"
    /\ success' = [success EXCEPT ![n] = "False"]
    /\ UNCHANGED <<main, late, product, threads, rest, listed, outcome>>

\* node.install_cb, the end: installed, or the time is up, or an exception.
InstallCb(n) ==
    /\ At(n, "install") /\ TaskDone(n)
    /\ product' \in {product, [product EXCEPT ![n] = "asked"]}
    /\ UNCHANGED <<main, late, uninstaller, installer, rest, success, listed, outcome>>

\* node.init_cb: with a server that answers, whatever its version, node.rest is set.
InitCb(n) ==
    /\ At(n, "init") /\ TaskDone(n)
    /\ \/ n \notin Columnar /\ product[n] # "none" /\ rest' = rest \cup {n}
       \/ UNCHANGED rest
    /\ UNCHANGED <<main, late, product, uninstaller, installer, success, listed, outcome>>

\* set_cbft_env_options gives up: it prints the results and raises SystemExit, which ends the
\* thread with its task unfinished.
InitDies(n) ==
    /\ At(n, "init") /\ QueryLimit /\ n \notin Columnar
    /\ installer' = [installer EXCEPT ![n] = "dead"]
    /\ rest' \in {rest, rest \cup {n}}
    /\ PrintResult(success)
    /\ UNCHANGED <<main, late, product, uninstaller, queue, success, listed, code>>

\* node.cleanup_cb, and the task tools, which is none of the thread's.
OtherTask(n) ==
    /\ At(n, "cleanup") \/ At(n, "tools")
    /\ TaskDone(n)
    /\ UNCHANGED <<main, late, product, uninstaller, installer, rest, success, listed, outcome>>

Timeout ==
    /\ Running /\ ~late /\ late' = TRUE
    /\ UNCHANGED <<main, product, threads, rest, success, listed, outcome>>

-----------------------------------------------------------------------------
(* do_install *)

\* Defect: the list still has uninstall in it.
StartInstallAll ==
    /\ pc = "install"
    /\ installer' = [n \in NodeSet |-> "working"]
    /\ queue' = [n \in NodeSet |-> Tasks]
    /\ Goto("await_install")
    /\ UNCHANGED <<naming, late, product, uninstaller, rest, success, listed, outcome>>

\* do_install: the threads and their queues
StartInstall ==
    /\ pc = "install"
    /\ installer' = [n \in NodeSet |-> "working"]
    /\ queue' = [n \in NodeSet |-> InstallTasks]
    /\ Goto("await_install")
    /\ UNCHANGED <<naming, late, product, uninstaller, rest, success, listed, outcome>>

\* do_install: the wait
AwaitInstall ==
    /\ pc = "await_install"
    /\ Await(queue[Nodes[turn]] = <<>>, "clusters")
    /\ UNCHANGED <<naming, late, product, threads, rest, success, listed, outcome>>

\* init_clusters: Cluster is not imported, so that a cluster of several servers raises NameError.
InitClusters ==
    /\ pc = "clusters"
    /\ IF Contains(Tasks, "init") /\ \E c \in Clusters : Cardinality(c) > 1
       THEN Abort
       ELSE Goto(IF Contains(Tasks, "init") THEN "naming" ELSE "validate") /\ UNCHANGED outcome
    /\ UNCHANGED <<naming, late, product, threads, rest, success, listed>>

\* init_clusters: the names of the clusters.  An exception costs one of the retries, an answer of
\* False none.
SetClusterName ==
    /\ pc = "naming"
    /\ \/ unnamed = {} /\ Goto("validate") /\ UNCHANGED naming
       \/ \E c \in unnamed :  \* it has its name, or this was the last exception
             unnamed' = unnamed \ {c} /\ retries' = NameRetries /\ UNCHANGED <<pc, turn>>
       \/ unnamed # {} /\ retries > 1 /\ retries' = retries - 1 /\ UNCHANGED <<pc, turn, unnamed>>
       \/ unnamed # {} /\ Goto("refused") /\ UNCHANGED naming
    /\ UNCHANGED <<late, product, threads, rest, success, listed, outcome>>

\* It asks again.
AfterRefusal ==
    /\ pc = "refused" /\ Goto("naming")
    /\ UNCHANGED <<naming, late, product, threads, rest, success, listed, outcome>>

\* validate_install looks at the other servers, validate_columnar_install at the columnar ones.
ValidationOrder ==
    LET plain(n) == n \notin Analytic
        columnar(n) == n \in Analytic
    IN  SelectSeq(Nodes, plain) \o SelectSeq(Nodes, columnar)
Candidate == ValidationOrder[turn]
Advance == pc' = "validate" /\ turn' = turn + 1

\* Only a server without a verdict is looked at; it counts as failed until it has answered.
Validate ==
    /\ pc = "validate"
    /\ \/ turn > Len(Nodes) /\ Goto("collect") /\ UNCHANGED success
       \/ /\ turn <= Len(Nodes) /\ success[Candidate] # "None"
          /\ Advance /\ UNCHANGED success
       \/ /\ turn <= Len(Nodes) /\ success[Candidate] = "None"
          /\ success' = [success EXCEPT ![Candidate] = "False"]
          /\ pc' = "probe" /\ UNCHANGED turn
    /\ UNCHANGED <<naming, late, product, threads, rest, listed, outcome>>

\* The versions are compared as strings, one in the other; validate_columnar_install lets 7.6.100 pass.
Accepted(n) == {"asked", "like"} \cup (IF n \in Analytic THEN {"7.6.100"} ELSE {})

\* Defect: 7.6.100 passes on every server.
GoodEverywhere(n) == product[n] \in {"asked", "like", "7.6.100"} /\ n \in rest \cup Analytic

\* The status of the server: an accepted version, and healthy.
Good(n) == product[n] \in Accepted(n) /\ n \in rest \cup Analytic

Probe ==
    /\ pc = "probe"
    /\ \/ /\ Good(Candidate)
          /\ success' = [success EXCEPT ![Candidate] = "True"]
          /\ listed' = listed \cup ({Candidate} \ Analytic)
          /\ Advance /\ UNCHANGED outcome
       \/ \* unhealthy, no answer, or another version
          /\ UNCHANGED success
          /\ listed' \in {listed} \cup {listed \cup {n} : n \in {Candidate} \cap (rest \ Analytic)}
          /\ Advance /\ UNCHANGED outcome
       \/ \* validate_columnar_install: an answer that is an error has none of the keys
          /\ Candidate \in Analytic /\ Abort
          /\ success' = [success EXCEPT ![Candidate] = "True"] /\ UNCHANGED listed
    /\ UNCHANGED <<naming, late, product, threads, rest>>

\* validate_install: the clusters for the log; KeyError for a server that was not listed.
Collect ==
    /\ pc = "collect"
    /\ IF UNION Clusters \subseteq listed THEN Goto("report") /\ UNCHANGED outcome ELSE Abort
    /\ UNCHANGED <<naming, late, product, threads, rest, success, listed>>

Report ==
    /\ pc = "report" /\ PrintResultAndExit(success)
    /\ UNCHANGED <<naming, late, product, threads, rest, success, listed>>

-----------------------------------------------------------------------------
MainThread ==
    \/ CheckServers \/ MakeHelpers \/ PreInstallSteps \/ StartUninstall \/ AwaitUninstall
    \/ DownloadBuild \/ InstallTools \/ StartInstall \/ AwaitInstall \/ InitClusters
    \/ SetClusterName \/ AfterRefusal \/ Validate \/ Probe \/ Collect \/ Report

NodeThread(n) ==
    UninstallCb(n) \/ InstallFatal(n) \/ InstallCb(n) \/ InitCb(n) \/ InitDies(n) \/ OtherTask(n)

Next == MainThread \/ (\E n \in NodeSet : NodeThread(n)) \/ Timeout

Spec == Init /\ [][Next]_vars

\* Time passes and the main thread runs; a command on a server may hang for ever.
FairSpec == Spec /\ WF_vars(MainThread) /\ WF_vars(Timeout)

-----------------------------------------------------------------------------
\* An installer that exits with 0 in time leaves every server with the build that was asked for,
\* and with nobody at work on it, however the commands, the fatal errors and the threads that
\* died went.  What is left may also be a build that was there before and could not be replaced, if
\* its version contains the one asked for or, on a columnar server, is 7.6.100.
ZeroMeansInstalled ==
    code = "0" /\ ~late =>
       \A n \in NodeSet :
          /\ product[n] \in {"asked", "like"} \/ (product[n] = "7.6.100" /\ n \in Analytic)
          /\ queue[n] = <<>> /\ uninstaller[n] # "working"

\* In time, a server is not installed while its uninstall runs, and not judged while a task of it
\* is unfinished: the thread of do_uninstall and that of do_install share the shell of the node.
PhasesApart ==
    ~late => \A n \in NodeSet :
       /\ uninstaller[n] = "working" => queue[n] = <<>> /\ pc \in {"await_uninstall", "exit"}
       /\ pc \in {"clusters", "naming", "refused", "validate", "probe", "collect", "report"} =>
             queue[n] = <<>> /\ installer[n] # "dead"

\* The installer ends, though commands hang and threads die, unless set_cluster_name answers False
\* again and again: init_clusters lowers its retries only for an exception.
InstallerEnds == <>(code # "running") \/ []<>(pc = "refused")
=============================================================================
