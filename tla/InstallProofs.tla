---------------------------- MODULE InstallProofs ---------------------------
(***************************************************************************)
(* Proofs about Install, for any list of servers and tasks: type           *)
(* correctness, that the phases of the installer do not overlap, and that  *)
(* an installer that ends with 0 in time has installed every server.       *)
(***************************************************************************)
EXTENDS Install, TLAPS

(* The lists. *)

NodeTasks == {"tools", "install", "init", "cleanup"}

\* What is left of install_tasks after main has removed uninstall does not have it.
LEMMA InstallTasksType == InstallTasks \in Seq(NodeTasks)
  <1> DEFINE All == {"uninstall", "tools", "install", "init", "cleanup"}
             I == {i \in 1..Len(Tasks) : Tasks[i] = "uninstall"}
  <1>1. Tasks \in Seq(All)
    BY InstallAssumption
  <1>2. \A i, j \in I : i = j
    BY <1>1, InstallAssumption
  <1>3. CASE I = {}
    <2>1. InstallTasks = Tasks
      BY <1>3 DEF InstallTasks, RemoveFirst
    <2>2. \A i \in 1..Len(Tasks) : Tasks[i] \in NodeTasks
      BY <1>1, <1>3 DEF NodeTasks
    <2> QED
      BY <1>1, <2>1, <2>2
  <1>4. CASE I # {}
    <2>1. PICK k \in I : I = {k}
      BY <1>2, <1>4
    <2>2. Min(I) = k
      BY <2>1 DEF Min
    <2>3. InstallTasks = SubSeq(Tasks, 1, k - 1) \o SubSeq(Tasks, k + 1, Len(Tasks))
      BY <2>1, <2>2 DEF InstallTasks, RemoveFirst, RemoveAt, SelectInSeq
    <2>4. \A i \in 1..Len(Tasks) : i # k => Tasks[i] \in NodeTasks
      BY <1>1, <2>1 DEF NodeTasks
    <2>5. k \in 1..Len(Tasks) /\ Len(Tasks) \in Nat
      BY <1>1, <2>1
    <2>6. SubSeq(Tasks, 1, k - 1) \in Seq(NodeTasks)
      BY <1>1, <2>4, <2>5
    <2>7. SubSeq(Tasks, k + 1, Len(Tasks)) \in Seq(NodeTasks)
      BY <1>1, <2>4, <2>5
    <2> QED
      BY <2>3, <2>6, <2>7
  <1> QED
    BY <1>3, <1>4

\* There is at least one server.
LEMMA NodeCount == Len(Nodes) \in Nat \ {0}
  BY InstallAssumption

\* They are the servers.
LEMMA NodeFacts ==
    /\ Len(Nodes) \in Nat \ {0}
    /\ \A i \in 1..Len(Nodes) : Nodes[i] \in NodeSet
    /\ \A n \in NodeSet : \E i \in 1..Len(Nodes) : Nodes[i] = n
  BY NodeCount, InstallAssumption DEF NodeSet, Range

-----------------------------------------------------------------------------
(* The invariant. *)

Early   == {"check", "helpers", "builds", "uninstall", "await_uninstall", "download", "tools", "install"}
Judging == {"clusters", "naming", "refused", "validate", "probe", "collect", "report"}

\* Where the main thread is while the loops over the servers run.
TurnOK ==
    /\ pc \in {"await_uninstall", "await_install", "probe"} => turn \in 1..Len(Nodes)

\* Before do_install nothing is in a queue and no server has a verdict; a thread that died
\* has left its task in the queue.
QueuesOK ==
    \A n \in NodeSet :
       /\ pc \in Early => queue[n] = <<>> /\ success[n] = "None"
       /\ pc \in Early \cup {"await_install", "clusters", "naming", "refused"} => success[n] # "True"
       /\ installer[n] = "dead" => queue[n] # <<>>

\* In time: the servers the main thread has waited for are through, an uninstall runs only while
\* it is waited for, and a server that was found good stays as it was found.
InTime ==
    ~late =>
       /\ pc = "await_uninstall" => \A i \in 1..(turn - 1) : uninstaller[Nodes[i]] # "working"
       /\ pc # "await_uninstall" => \A n \in NodeSet : uninstaller[n] # "working"
       /\ pc = "await_install" => \A i \in 1..(turn - 1) : queue[Nodes[i]] = <<>>
       /\ pc \in Judging => \A n \in NodeSet : queue[n] = <<>>
       /\ code # "1" => \A n \in NodeSet : success[n] = "True" => product[n] \in Accepted(n)
       /\ code = "0" => \A n \in NodeSet : success[n] = "True" /\ queue[n] = <<>>

Inv == TypeOK /\ TurnOK /\ QueuesOK /\ InTime

LEMMA InitInv == Init => Inv
  <1> SUFFICES ASSUME Init PROVE Inv
    OBVIOUS
  <1> USE DEF Init
  <1>1. TypeOK
    <2>1. pc \in Phases /\ turn \in 1..(Len(Nodes) + 1)
      BY NodeFacts DEF Phases
    <2>2. late \in BOOLEAN
      OBVIOUS
    <2>5. unnamed \subseteq Clusters /\ retries \in 1..NameRetries
      BY DEF NameRetries
    <2>3. queue \in [NodeSet -> Seq(NodeTasks)]
      OBVIOUS
    <2>4. lines \in [NodeSet -> SUBSET Lines]
      OBVIOUS
    <2> QED
      BY <2>1, <2>2, <2>3, <2>4, <2>5 DEF TypeOK, NodeTasks
  <1>2. TurnOK
    BY DEF TurnOK
  <1>3. QueuesOK
    BY DEF QueuesOK
  <1>4. InTime
    BY DEF InTime, Judging
  <1> QED
    BY <1>1, <1>2, <1>3, <1>4 DEF Inv

-----------------------------------------------------------------------------
(* The lines about a server. *)

\* print_result_and_exit has one of three lines for a server.
LEMMA LineType == ASSUME NEW n, NEW s PROVE Line(n, s) \in Lines
  BY DEF Line, Lines

\* It adds one for each.
LEMMA PrintType ==
    ASSUME lines \in [NodeSet -> SUBSET Lines], NEW s, PrintResult(s)
    PROVE  lines' \in [NodeSet -> SUBSET Lines]
  <1>1. \A n \in NodeSet : Line(n, s) \in Lines
    BY LineType
  <1> QED
    BY <1>1 DEF PrintResult

\* So does the check of the servers.
LEMMA LostType ==
    ASSUME NEW lost, lines' = [n \in NodeSet |-> {IF n \in lost THEN "FAILED" ELSE "COMPLETED"}]
    PROVE  lines' \in [NodeSet -> SUBSET Lines]
  <1>1. \A n \in NodeSet : (IF n \in lost THEN "FAILED" ELSE "COMPLETED") \in Lines
    BY DEF Lines
  <1> QED
    BY <1>1

-----------------------------------------------------------------------------
(* One lemma for each action. *)

\* Servers that cannot be reached end the installer before anything is done.
LEMMA CheckServersStep == ASSUME Inv, CheckServers PROVE Inv'
  <1> USE DEF Inv, Goto, Exit, threads, outcome, naming, CheckServers
  <1>1. TypeOK'
    <2>1. (pc \in Phases /\ turn \in 1..(Len(Nodes) + 1) /\ late \in BOOLEAN)'
      BY NodeCount DEF TypeOK, TurnOK, Phases
    <2>2. (lines \in [NodeSet -> SUBSET Lines])'
      BY LostType DEF TypeOK
    <2>3. (code \in {"running", "0", "1"} /\ (code = "running" <=> pc # "exit"))'
      BY DEF TypeOK
    <2>4. (rest \subseteq NodeSet /\ listed \subseteq NodeSet)'
      BY DEF TypeOK
    <2>5. (unnamed \subseteq Clusters /\ retries \in 1..NameRetries)'
      BY DEF TypeOK
    <2> QED
      BY <2>1, <2>2, <2>3, <2>4, <2>5 DEF TypeOK
  <1>2. TurnOK'
    BY NodeCount DEF TypeOK, TurnOK
  <1>3. QueuesOK'
    BY DEF TypeOK, QueuesOK, Early
  <1>4. InTime'
    BY NodeFacts DEF TypeOK, TurnOK, QueuesOK, InTime, Early, Judging
  <1> QED
    BY <1>1, <1>2, <1>3, <1>4

\* No server has a verdict yet, so that the exit code is not 0.
LEMMA MakeHelpersStep == ASSUME Inv, MakeHelpers PROVE Inv'
  <1> USE DEF Inv, Goto, Exit, threads, outcome, naming, PrintResultAndExit, Abort, MakeHelpers
  <1>1. TypeOK'
    <2>1. (pc \in Phases /\ turn \in 1..(Len(Nodes) + 1) /\ late \in BOOLEAN)'
      BY NodeCount DEF TypeOK, TurnOK, Phases
    <2>2. (lines \in [NodeSet -> SUBSET Lines])'
      BY PrintType DEF TypeOK
    <2>3. (code \in {"running", "0", "1"} /\ (code = "running" <=> pc # "exit"))'
      BY DEF TypeOK
    <2>4. (rest \subseteq NodeSet /\ listed \subseteq NodeSet)'
      BY DEF TypeOK
    <2>5. (unnamed \subseteq Clusters /\ retries \in 1..NameRetries)'
      BY DEF TypeOK
    <2> QED
      BY <2>1, <2>2, <2>3, <2>4, <2>5 DEF TypeOK
  <1>2. TurnOK'
    BY NodeCount DEF TypeOK, TurnOK
  <1>3. QueuesOK'
    BY DEF TypeOK, QueuesOK, Early
  <1>4. InTime'
    BY NodeFacts DEF TypeOK, TurnOK, QueuesOK, InTime, Early, Judging
  <1> QED
    BY <1>1, <1>2, <1>3, <1>4

\* The same, for a build that is not found.
LEMMA PreInstallStep == ASSUME Inv, PreInstallSteps PROVE Inv'
  <1> USE DEF Inv, Goto, Exit, threads, outcome, naming, PrintResultAndExit, PreInstallSteps
  <1>1. TypeOK'
    <2>1. (pc \in Phases /\ turn \in 1..(Len(Nodes) + 1) /\ late \in BOOLEAN)'
      BY NodeCount DEF TypeOK, TurnOK, Phases
    <2>2. (lines \in [NodeSet -> SUBSET Lines])'
      BY PrintType DEF TypeOK
    <2>3. (code \in {"running", "0", "1"} /\ (code = "running" <=> pc # "exit"))'
      BY DEF TypeOK
    <2>4. (rest \subseteq NodeSet /\ listed \subseteq NodeSet)'
      BY DEF TypeOK
    <2>5. (unnamed \subseteq Clusters /\ retries \in 1..NameRetries)'
      BY DEF TypeOK
    <2> QED
      BY <2>1, <2>2, <2>3, <2>4, <2>5 DEF TypeOK
  <1>2. TurnOK'
    BY NodeCount DEF TypeOK, TurnOK
  <1>3. QueuesOK'
    BY DEF TypeOK, QueuesOK, Early
  <1>4. InTime'
    BY NodeFacts DEF TypeOK, TurnOK, QueuesOK, InTime, Early, Judging
  <1> QED
    BY <1>1, <1>2, <1>3, <1>4

\* The uninstall of every server begins.
LEMMA StartUninstallStep == ASSUME Inv, StartUninstall PROVE Inv'
  <1> USE DEF Inv, Goto, Exit, threads, outcome, naming, StartUninstall
  <1>1. TypeOK'
    <2>1. (pc \in Phases /\ turn \in 1..(Len(Nodes) + 1) /\ late \in BOOLEAN)'
      BY NodeCount DEF TypeOK, TurnOK, Phases
    <2>2. (lines \in [NodeSet -> SUBSET Lines])'
      BY DEF TypeOK
    <2>3. (code \in {"running", "0", "1"} /\ (code = "running" <=> pc # "exit"))'
      BY DEF TypeOK
    <2>4. (rest \subseteq NodeSet /\ listed \subseteq NodeSet)'
      BY DEF TypeOK
    <2>5. (unnamed \subseteq Clusters /\ retries \in 1..NameRetries)'
      BY DEF TypeOK
    <2> QED
      BY <2>1, <2>2, <2>3, <2>4, <2>5 DEF TypeOK
  <1>2. TurnOK'
    BY NodeCount DEF TypeOK, TurnOK
  <1>3. QueuesOK'
    BY DEF TypeOK, QueuesOK, Early
  <1>4. InTime'
    BY NodeFacts DEF TypeOK, TurnOK, QueuesOK, InTime, Early, Judging
  <1> QED
    BY <1>1, <1>2, <1>3, <1>4

\* In time, the main thread leaves the loop only after the last server.
LEMMA AwaitUninstallStep == ASSUME Inv, AwaitUninstall PROVE Inv'
  <1> USE DEF Inv, Goto, Exit, threads, outcome, naming, Await, AwaitUninstall
  <1>1. TypeOK'
    <2>1. (pc \in Phases /\ turn \in 1..(Len(Nodes) + 1) /\ late \in BOOLEAN)'
      BY NodeCount DEF TypeOK, TurnOK, Phases
    <2>2. (lines \in [NodeSet -> SUBSET Lines])'
      BY DEF TypeOK
    <2>3. (code \in {"running", "0", "1"} /\ (code = "running" <=> pc # "exit"))'
      BY DEF TypeOK
    <2>4. (rest \subseteq NodeSet /\ listed \subseteq NodeSet)'
      BY DEF TypeOK
    <2>5. (unnamed \subseteq Clusters /\ retries \in 1..NameRetries)'
      BY DEF TypeOK
    <2> QED
      BY <2>1, <2>2, <2>3, <2>4, <2>5 DEF TypeOK
  <1>2. TurnOK'
    BY NodeCount DEF TypeOK, TurnOK
  <1>3. QueuesOK'
    BY DEF TypeOK, QueuesOK, Early
  <1>4. InTime'
    BY NodeFacts DEF TypeOK, TurnOK, QueuesOK, InTime, Early, Judging
  <1> QED
    BY <1>1, <1>2, <1>3, <1>4

\* A failed download marks servers as failed, none as good.
LEMMA DownloadStep == ASSUME Inv, DownloadBuild PROVE Inv'
  <1> USE DEF Inv, Goto, Exit, threads, outcome, naming, PrintResultAndExit, DownloadBuild
  <1>0. (pc' = "tools" /\ UNCHANGED <<code, success>>) \/ (pc' = "exit" /\ code' # "running")
    OBVIOUS
  <1>a. turn' = 1 /\ UNCHANGED <<late, product, uninstaller, installer, queue>>
    OBVIOUS
  <1>b. \A n \in NodeSet : success'[n] # "True"
    BY DEF QueuesOK, Early
  <1>c. code' # "0"
    <2>1. code' = code \/ code' = (IF \A n \in NodeSet : success'[n] = "True" THEN "0" ELSE "1")
      OBVIOUS
    <2>2. code # "0"
      BY DEF TypeOK
    <2>3. NodeSet # {}
      BY NodeFacts
    <2> QED
      BY <1>b, <2>1, <2>2, <2>3 DEF TypeOK
  <1>1. TypeOK'
    <2>1. (pc \in Phases /\ turn \in 1..(Len(Nodes) + 1) /\ late \in BOOLEAN)'
      BY <1>0, <1>a, NodeCount DEF TypeOK, Phases
    <2>2. (lines \in [NodeSet -> SUBSET Lines])'
      BY PrintType DEF TypeOK
    <2>3. (code \in {"running", "0", "1"} /\ (code = "running" <=> pc # "exit"))'
      BY DEF TypeOK
    <2>4. (rest \subseteq NodeSet /\ listed \subseteq NodeSet)'
      BY DEF TypeOK
    <2>5. (unnamed \subseteq Clusters /\ retries \in 1..NameRetries)'
      BY DEF TypeOK
    <2> QED
      BY <2>1, <2>2, <2>3, <2>4, <2>5, ZenonT(40) DEF TypeOK
  <1>2. TurnOK'
    BY NodeCount DEF TypeOK, TurnOK
  <1>3. QueuesOK'
    BY DEF TypeOK, QueuesOK, Early
  <1>4. InTime'
    BY <1>0, <1>a, <1>b, <1>c DEF InTime, Judging
  <1> QED
    BY <1>1, <1>2, <1>3, <1>4

\* install_tools touches no server's state.
LEMMA ToolsStep == ASSUME Inv, InstallTools PROVE Inv'
  <1> USE DEF Inv, Goto, Exit, threads, outcome, naming, Abort, InstallTools
  <1>1. TypeOK'
    <2>1. (pc \in Phases /\ turn \in 1..(Len(Nodes) + 1) /\ late \in BOOLEAN)'
      BY NodeCount DEF TypeOK, TurnOK, Phases
    <2>2. (lines \in [NodeSet -> SUBSET Lines])'
      BY DEF TypeOK
    <2>3. (code \in {"running", "0", "1"} /\ (code = "running" <=> pc # "exit"))'
      BY DEF TypeOK
    <2>4. (rest \subseteq NodeSet /\ listed \subseteq NodeSet)'
      BY DEF TypeOK
    <2>5. (unnamed \subseteq Clusters /\ retries \in 1..NameRetries)'
      BY DEF TypeOK
    <2> QED
      BY <2>1, <2>2, <2>3, <2>4, <2>5 DEF TypeOK
  <1>2. TurnOK'
    BY NodeCount DEF TypeOK, TurnOK
  <1>3. QueuesOK'
    BY DEF TypeOK, QueuesOK, Early
  <1>4. InTime'
    BY NodeFacts DEF TypeOK, TurnOK, QueuesOK, InTime, Early, Judging
  <1> QED
    BY <1>1, <1>2, <1>3, <1>4

\* The queues are filled once, with no uninstall in progress.
LEMMA StartInstallStep == ASSUME Inv, StartInstall PROVE Inv'
  <1> USE DEF Inv, Goto, Exit, threads, outcome, naming, StartInstall
  <1>1. TypeOK'
    <2>1. (pc \in Phases /\ turn \in 1..(Len(Nodes) + 1) /\ late \in BOOLEAN)'
      BY NodeCount DEF TypeOK, TurnOK, Phases
    <2>2. (lines \in [NodeSet -> SUBSET Lines])'
      BY DEF TypeOK
    <2>3. (code \in {"running", "0", "1"} /\ (code = "running" <=> pc # "exit"))'
      BY DEF TypeOK
    <2>4. (rest \subseteq NodeSet /\ listed \subseteq NodeSet)'
      BY DEF TypeOK
    <2>5. (unnamed \subseteq Clusters /\ retries \in 1..NameRetries)'
      BY DEF TypeOK
    <2> QED
      BY <2>1, <2>2, <2>3, <2>4, <2>5, InstallTasksType DEF TypeOK, NodeTasks
  <1>2. TurnOK'
    BY NodeCount DEF TypeOK, TurnOK
  <1>3. QueuesOK'
    BY DEF TypeOK, QueuesOK, Early
  <1>4. InTime'
    BY NodeFacts DEF TypeOK, TurnOK, QueuesOK, InTime, Early, Judging
  <1> QED
    BY <1>1, <1>2, <1>3, <1>4

\* In time, the main thread leaves the loop only after the last queue.
LEMMA AwaitInstallStep == ASSUME Inv, AwaitInstall PROVE Inv'
  <1> USE DEF Inv, Goto, Exit, threads, outcome, naming, Await, AwaitInstall
  <1>1. TypeOK'
    <2>1. (pc \in Phases /\ turn \in 1..(Len(Nodes) + 1) /\ late \in BOOLEAN)'
      BY NodeCount DEF TypeOK, TurnOK, Phases
    <2>2. (lines \in [NodeSet -> SUBSET Lines])'
      BY DEF TypeOK
    <2>3. (code \in {"running", "0", "1"} /\ (code = "running" <=> pc # "exit"))'
      BY DEF TypeOK
    <2>4. (rest \subseteq NodeSet /\ listed \subseteq NodeSet)'
      BY DEF TypeOK
    <2>5. (unnamed \subseteq Clusters /\ retries \in 1..NameRetries)'
      BY DEF TypeOK
    <2> QED
      BY <2>1, <2>2, <2>3, <2>4, <2>5 DEF TypeOK
  <1>2. TurnOK'
    BY NodeCount DEF TypeOK, TurnOK
  <1>3. QueuesOK'
    BY DEF TypeOK, QueuesOK, Early
  <1>4. InTime'
    BY NodeFacts DEF TypeOK, TurnOK, QueuesOK, InTime, Early, Judging
  <1> QED
    BY <1>1, <1>2, <1>3, <1>4

\* Forming clusters leaves the servers alone.
LEMMA ClustersStep == ASSUME Inv, InitClusters PROVE Inv'
  <1> USE DEF Inv, Goto, Exit, threads, outcome, naming, Abort, InitClusters
  <1>1. TypeOK'
    <2>1. (pc \in Phases /\ turn \in 1..(Len(Nodes) + 1) /\ late \in BOOLEAN)'
      BY NodeCount DEF TypeOK, TurnOK, Phases
    <2>2. (lines \in [NodeSet -> SUBSET Lines])'
      BY DEF TypeOK
    <2>3. (code \in {"running", "0", "1"} /\ (code = "running" <=> pc # "exit"))'
      BY DEF TypeOK
    <2>4. (rest \subseteq NodeSet /\ listed \subseteq NodeSet)'
      BY DEF TypeOK
    <2>5. (unnamed \subseteq Clusters /\ retries \in 1..NameRetries)'
      BY DEF TypeOK
    <2> QED
      BY <2>1, <2>2, <2>3, <2>4, <2>5 DEF TypeOK
  <1>2. TurnOK'
    BY NodeCount DEF TypeOK, TurnOK
  <1>3. QueuesOK'
    BY DEF TypeOK, QueuesOK, Early
  <1>4. InTime'
    BY NodeFacts DEF TypeOK, TurnOK, QueuesOK, InTime, Early, Judging
  <1> QED
    BY <1>1, <1>2, <1>3, <1>4

\* Neither does naming them.
LEMMA NameStep == ASSUME Inv, SetClusterName PROVE Inv'
  <1> USE DEF Inv, Goto, Exit, threads, outcome, naming, SetClusterName
  <1>1. TypeOK'
    <2>1. (pc \in Phases /\ turn \in 1..(Len(Nodes) + 1) /\ late \in BOOLEAN)'
      BY NodeCount DEF TypeOK, TurnOK, Phases
    <2>2. (lines \in [NodeSet -> SUBSET Lines])'
      BY DEF TypeOK
    <2>3. (code \in {"running", "0", "1"} /\ (code = "running" <=> pc # "exit"))'
      BY DEF TypeOK
    <2>4. (rest \subseteq NodeSet /\ listed \subseteq NodeSet)'
      BY DEF TypeOK
    <2>5. (unnamed \subseteq Clusters /\ retries \in 1..NameRetries)'
      BY DEF TypeOK, NameRetries
    <2> QED
      BY <2>1, <2>2, <2>3, <2>4, <2>5 DEF TypeOK
  <1>2. TurnOK'
    BY NodeCount DEF TypeOK, TurnOK
  <1>3. QueuesOK'
    BY DEF TypeOK, QueuesOK, Early
  <1>4. InTime'
    BY NodeFacts DEF TypeOK, TurnOK, QueuesOK, InTime, Early, Judging
  <1> QED
    BY <1>1, <1>2, <1>3, <1>4

\* Nor asking again.
LEMMA RefusalStep == ASSUME Inv, AfterRefusal PROVE Inv'
  <1> USE DEF Inv, Goto, Exit, threads, outcome, naming, AfterRefusal
  <1>1. TypeOK'
    <2>1. (pc \in Phases /\ turn \in 1..(Len(Nodes) + 1) /\ late \in BOOLEAN)'
      BY NodeCount DEF TypeOK, TurnOK, Phases
    <2>2. (lines \in [NodeSet -> SUBSET Lines])'
      BY DEF TypeOK
    <2>3. (code \in {"running", "0", "1"} /\ (code = "running" <=> pc # "exit"))'
      BY DEF TypeOK
    <2>4. (rest \subseteq NodeSet /\ listed \subseteq NodeSet)'
      BY DEF TypeOK
    <2>5. (unnamed \subseteq Clusters /\ retries \in 1..NameRetries)'
      BY DEF TypeOK
    <2> QED
      BY <2>1, <2>2, <2>3, <2>4, <2>5 DEF TypeOK
  <1>2. TurnOK'
    BY NodeCount DEF TypeOK, TurnOK
  <1>3. QueuesOK'
    BY DEF TypeOK, QueuesOK, Early
  <1>4. InTime'
    BY NodeFacts DEF TypeOK, TurnOK, QueuesOK, InTime, Early, Judging
  <1> QED
    BY <1>1, <1>2, <1>3, <1>4

\* A server that is looked at counts as failed.
LEMMA ValidateStep == ASSUME Inv, Validate PROVE Inv'
  <1> USE DEF Inv, Goto, Exit, threads, outcome, naming, Advance, Validate
  <1>1. TypeOK'
    <2>1. (pc \in Phases /\ turn \in 1..(Len(Nodes) + 1) /\ late \in BOOLEAN)'
      BY NodeCount DEF TypeOK, TurnOK, Phases
    <2>2. (lines \in [NodeSet -> SUBSET Lines])'
      BY DEF TypeOK
    <2>3. (code \in {"running", "0", "1"} /\ (code = "running" <=> pc # "exit"))'
      BY DEF TypeOK
    <2>4. (rest \subseteq NodeSet /\ listed \subseteq NodeSet)'
      BY DEF TypeOK
    <2>5. (unnamed \subseteq Clusters /\ retries \in 1..NameRetries)'
      BY DEF TypeOK
    <2> QED
      BY <2>1, <2>2, <2>3, <2>4, <2>5 DEF TypeOK
  <1>2. TurnOK'
    BY NodeCount DEF TypeOK, TurnOK
  <1>3. QueuesOK'
    BY DEF TypeOK, QueuesOK, Early
  <1>4. InTime'
    BY NodeFacts DEF TypeOK, TurnOK, QueuesOK, InTime, Early, Judging
  <1> QED
    BY <1>1, <1>2, <1>3, <1>4

\* A server is found good if it runs what was asked for.
LEMMA ProbeStep == ASSUME Inv, Probe PROVE Inv'
  <1> USE DEF Inv, Goto, Exit, threads, outcome, naming, Advance, Abort, Good, Probe
  <1>1. TypeOK'
    <2>1. (pc \in Phases /\ turn \in 1..(Len(Nodes) + 1) /\ late \in BOOLEAN)'
      BY NodeCount DEF TypeOK, TurnOK, Phases
    <2>2. (lines \in [NodeSet -> SUBSET Lines])'
      BY DEF TypeOK
    <2>3. (code \in {"running", "0", "1"} /\ (code = "running" <=> pc # "exit"))'
      BY DEF TypeOK
    <2>4. (rest \subseteq NodeSet /\ listed \subseteq NodeSet)'
      BY InstallAssumption DEF TypeOK, Analytic
    <2>5. (unnamed \subseteq Clusters /\ retries \in 1..NameRetries)'
      BY DEF TypeOK
    <2> QED
      BY <2>1, <2>2, <2>3, <2>4, <2>5 DEF TypeOK
  <1>2. TurnOK'
    BY NodeCount DEF TypeOK, TurnOK
  <1>3. QueuesOK'
    BY DEF TypeOK, QueuesOK, Early
  <1>4. InTime'
    BY NodeFacts DEF TypeOK, TurnOK, QueuesOK, InTime, Early, Judging
  <1> QED
    BY <1>1, <1>2, <1>3, <1>4

\* The clusters for the log.
LEMMA CollectStep == ASSUME Inv, Collect PROVE Inv'
  <1> USE DEF Inv, Goto, Exit, threads, outcome, naming, Abort, Collect
  <1>1. TypeOK'
    <2>1. (pc \in Phases /\ turn \in 1..(Len(Nodes) + 1) /\ late \in BOOLEAN)'
      BY NodeCount DEF TypeOK, TurnOK, Phases
    <2>2. (lines \in [NodeSet -> SUBSET Lines])'
      BY DEF TypeOK
    <2>3. (code \in {"running", "0", "1"} /\ (code = "running" <=> pc # "exit"))'
      BY DEF TypeOK
    <2>4. (rest \subseteq NodeSet /\ listed \subseteq NodeSet)'
      BY DEF TypeOK
    <2>5. (unnamed \subseteq Clusters /\ retries \in 1..NameRetries)'
      BY DEF TypeOK
    <2> QED
      BY <2>1, <2>2, <2>3, <2>4, <2>5 DEF TypeOK
  <1>2. TurnOK'
    BY NodeCount DEF TypeOK, TurnOK
  <1>3. QueuesOK'
    BY DEF TypeOK, QueuesOK, Early
  <1>4. InTime'
    BY NodeFacts DEF TypeOK, TurnOK, QueuesOK, InTime, Early, Judging
  <1> QED
    BY <1>1, <1>2, <1>3, <1>4

\* 0 is given only if every server was found good.
LEMMA ReportStep == ASSUME Inv, Report PROVE Inv'
  <1> USE DEF Inv, Goto, Exit, threads, outcome, naming, PrintResultAndExit, Report
  <1>1. TypeOK'
    <2>1. (pc \in Phases /\ turn \in 1..(Len(Nodes) + 1) /\ late \in BOOLEAN)'
      BY NodeCount DEF TypeOK, TurnOK, Phases
    <2>2. (lines \in [NodeSet -> SUBSET Lines])'
      BY PrintType DEF TypeOK
    <2>3. (code \in {"running", "0", "1"} /\ (code = "running" <=> pc # "exit"))'
      BY DEF TypeOK
    <2>4. (rest \subseteq NodeSet /\ listed \subseteq NodeSet)'
      BY DEF TypeOK
    <2>5. (unnamed \subseteq Clusters /\ retries \in 1..NameRetries)'
      BY DEF TypeOK
    <2> QED
      BY <2>1, <2>2, <2>3, <2>4, <2>5 DEF TypeOK
  <1>2. TurnOK'
    BY NodeCount DEF TypeOK, TurnOK
  <1>3. QueuesOK'
    BY DEF TypeOK, QueuesOK, Early
  <1>4. InTime'
    BY NodeFacts DEF TypeOK, TurnOK, QueuesOK, InTime, Early, Judging
  <1> QED
    BY <1>1, <1>2, <1>3, <1>4

\* An uninstall ends; in time, only while it is waited for.
LEMMA UninstallCbStep == ASSUME Inv, NEW n \in NodeSet, UninstallCb(n) PROVE Inv'
  <1> USE DEF Inv, Running, At, TaskDone, main, naming, threads, outcome, UninstallCb
  <1>1. TypeOK'
    <2>1. (pc \in Phases /\ turn \in 1..(Len(Nodes) + 1) /\ late \in BOOLEAN)'
      BY NodeCount DEF TypeOK, TurnOK, Phases
    <2>2. (lines \in [NodeSet -> SUBSET Lines])'
      BY DEF TypeOK
    <2>3. (code \in {"running", "0", "1"} /\ (code = "running" <=> pc # "exit"))'
      BY DEF TypeOK
    <2>4. (rest \subseteq NodeSet /\ listed \subseteq NodeSet)'
      BY DEF TypeOK
    <2>5. (unnamed \subseteq Clusters /\ retries \in 1..NameRetries)'
      BY DEF TypeOK
    <2> QED
      BY <2>1, <2>2, <2>3, <2>4, <2>5 DEF TypeOK, Products
  <1>2. TurnOK'
    BY NodeCount DEF TypeOK, TurnOK
  <1>3. QueuesOK'
    BY DEF TypeOK, QueuesOK, Early
  <1>4. InTime'
    BY NodeFacts DEF TypeOK, TurnOK, QueuesOK, InTime, Early, Judging
  <1> QED
    BY <1>1, <1>2, <1>3, <1>4

\* A fatal error is remembered while the task is in the queue.
LEMMA InstallFatalStep == ASSUME Inv, NEW n \in NodeSet, InstallFatal(n) PROVE Inv'
  <1> USE DEF Inv, Running, At, TaskDone, main, naming, threads, outcome, InstallFatal
  <1>1. TypeOK'
    <2>1. (pc \in Phases /\ turn \in 1..(Len(Nodes) + 1) /\ late \in BOOLEAN)'
      BY NodeCount DEF TypeOK, TurnOK, Phases
    <2>2. (lines \in [NodeSet -> SUBSET Lines])'
      BY DEF TypeOK
    <2>3. (code \in {"running", "0", "1"} /\ (code = "running" <=> pc # "exit"))'
      BY DEF TypeOK
    <2>4. (rest \subseteq NodeSet /\ listed \subseteq NodeSet)'
      BY DEF TypeOK
    <2>5. (unnamed \subseteq Clusters /\ retries \in 1..NameRetries)'
      BY DEF TypeOK
    <2> QED
      BY <2>1, <2>2, <2>3, <2>4, <2>5 DEF TypeOK
  <1>2. TurnOK'
    BY NodeCount DEF TypeOK, TurnOK
  <1>3. QueuesOK'
    BY DEF TypeOK, QueuesOK, Early
  <1>4. InTime'
    BY NodeFacts DEF TypeOK, TurnOK, QueuesOK, InTime, Early, Judging
  <1> QED
    BY <1>1, <1>2, <1>3, <1>4

\* The build is installed, never removed.
LEMMA InstallCbStep == ASSUME Inv, NEW n \in NodeSet, InstallCb(n) PROVE Inv'
  <1> USE DEF Inv, Running, At, TaskDone, main, naming, threads, outcome, InstallCb
  <1>1. TypeOK'
    <2>1. (pc \in Phases /\ turn \in 1..(Len(Nodes) + 1) /\ late \in BOOLEAN)'
      BY NodeCount DEF TypeOK, TurnOK, Phases
    <2>2. (lines \in [NodeSet -> SUBSET Lines])'
      BY DEF TypeOK
    <2>3. (code \in {"running", "0", "1"} /\ (code = "running" <=> pc # "exit"))'
      BY DEF TypeOK
    <2>4. (rest \subseteq NodeSet /\ listed \subseteq NodeSet)'
      BY DEF TypeOK
    <2>5. (unnamed \subseteq Clusters /\ retries \in 1..NameRetries)'
      BY DEF TypeOK
    <2> QED
      BY <2>1, <2>2, <2>3, <2>4, <2>5 DEF TypeOK, Products
  <1>2. TurnOK'
    BY NodeCount DEF TypeOK, TurnOK
  <1>3. QueuesOK'
    BY DEF TypeOK, QueuesOK, Early
  <1>4. InTime'
    BY NodeFacts DEF TypeOK, TurnOK, QueuesOK, InTime, Early, Judging, Accepted
  <1> QED
    BY <1>1, <1>2, <1>3, <1>4

\* The server is initialised.
LEMMA InitCbStep == ASSUME Inv, NEW n \in NodeSet, InitCb(n) PROVE Inv'
  <1> USE DEF Inv, Running, At, TaskDone, main, naming, threads, outcome, InitCb
  <1>1. TypeOK'
    <2>1. (pc \in Phases /\ turn \in 1..(Len(Nodes) + 1) /\ late \in BOOLEAN)'
      BY NodeCount DEF TypeOK, TurnOK, Phases
    <2>2. (lines \in [NodeSet -> SUBSET Lines])'
      BY DEF TypeOK
    <2>3. (code \in {"running", "0", "1"} /\ (code = "running" <=> pc # "exit"))'
      BY DEF TypeOK
    <2>4. (rest \subseteq NodeSet /\ listed \subseteq NodeSet)'
      BY DEF TypeOK
    <2>5. (unnamed \subseteq Clusters /\ retries \in 1..NameRetries)'
      BY DEF TypeOK
    <2> QED
      BY <2>1, <2>2, <2>3, <2>4, <2>5 DEF TypeOK
  <1>2. TurnOK'
    BY NodeCount DEF TypeOK, TurnOK
  <1>3. QueuesOK'
    BY DEF TypeOK, QueuesOK, Early
  <1>4. InTime'
    BY NodeFacts DEF TypeOK, TurnOK, QueuesOK, InTime, Early, Judging
  <1> QED
    BY <1>1, <1>2, <1>3, <1>4

\* A thread that dies leaves its task in the queue.
LEMMA InitDiesStep == ASSUME Inv, NEW n \in NodeSet, InitDies(n) PROVE Inv'
  <1> USE DEF Inv, Running, At, TaskDone, main, naming, threads, outcome, InitDies
  <1>1. TypeOK'
    <2>1. (pc \in Phases /\ turn \in 1..(Len(Nodes) + 1) /\ late \in BOOLEAN)'
      BY NodeCount DEF TypeOK, TurnOK, Phases
    <2>2. (lines \in [NodeSet -> SUBSET Lines])'
      BY PrintType DEF TypeOK
    <2>3. (code \in {"running", "0", "1"} /\ (code = "running" <=> pc # "exit"))'
      BY DEF TypeOK
    <2>4. (rest \subseteq NodeSet /\ listed \subseteq NodeSet)'
      BY DEF TypeOK
    <2>5. (unnamed \subseteq Clusters /\ retries \in 1..NameRetries)'
      BY DEF TypeOK
    <2> QED
      BY <2>1, <2>2, <2>3, <2>4, <2>5 DEF TypeOK
  <1>2. TurnOK'
    BY NodeCount DEF TypeOK, TurnOK
  <1>3. QueuesOK'
    BY DEF TypeOK, QueuesOK, Early
  <1>4. InTime'
    BY NodeFacts DEF TypeOK, TurnOK, QueuesOK, InTime, Early, Judging
  <1> QED
    BY <1>1, <1>2, <1>3, <1>4

\* The other tasks leave the product alone.
LEMMA OtherTaskStep == ASSUME Inv, NEW n \in NodeSet, OtherTask(n) PROVE Inv'
  <1> USE DEF Inv, Running, At, TaskDone, main, naming, threads, outcome, OtherTask
  <1>1. TypeOK'
    <2>1. (pc \in Phases /\ turn \in 1..(Len(Nodes) + 1) /\ late \in BOOLEAN)'
      BY NodeCount DEF TypeOK, TurnOK, Phases
    <2>2. (lines \in [NodeSet -> SUBSET Lines])'
      BY DEF TypeOK
    <2>3. (code \in {"running", "0", "1"} /\ (code = "running" <=> pc # "exit"))'
      BY DEF TypeOK
    <2>4. (rest \subseteq NodeSet /\ listed \subseteq NodeSet)'
      BY DEF TypeOK
    <2>5. (unnamed \subseteq Clusters /\ retries \in 1..NameRetries)'
      BY DEF TypeOK
    <2> QED
      BY <2>1, <2>2, <2>3, <2>4, <2>5 DEF TypeOK
  <1>2. TurnOK'
    BY NodeCount DEF TypeOK, TurnOK
  <1>3. QueuesOK'
    BY DEF TypeOK, QueuesOK, Early
  <1>4. InTime'
    BY NodeFacts DEF TypeOK, TurnOK, QueuesOK, InTime, Early, Judging
  <1> QED
    BY <1>1, <1>2, <1>3, <1>4

\* After the timeout nothing is promised.
LEMMA TimeoutStep == ASSUME Inv, Timeout PROVE Inv'
  <1> USE DEF Inv, main, naming, threads, outcome, Timeout
  <1>1. TypeOK'
    <2>1. (pc \in Phases /\ turn \in 1..(Len(Nodes) + 1) /\ late \in BOOLEAN)'
      BY NodeCount DEF TypeOK, TurnOK, Phases
    <2>2. (lines \in [NodeSet -> SUBSET Lines])'
      BY DEF TypeOK
    <2>3. (code \in {"running", "0", "1"} /\ (code = "running" <=> pc # "exit"))'
      BY DEF TypeOK
    <2>4. (rest \subseteq NodeSet /\ listed \subseteq NodeSet)'
      BY DEF TypeOK
    <2>5. (unnamed \subseteq Clusters /\ retries \in 1..NameRetries)'
      BY DEF TypeOK
    <2> QED
      BY <2>1, <2>2, <2>3, <2>4, <2>5 DEF TypeOK
  <1>2. TurnOK'
    BY NodeCount DEF TypeOK, TurnOK
  <1>3. QueuesOK'
    BY DEF TypeOK, QueuesOK, Early
  <1>4. InTime'
    BY NodeFacts DEF TypeOK, TurnOK, QueuesOK, InTime, Early, Judging
  <1> QED
    BY <1>1, <1>2, <1>3, <1>4

-----------------------------------------------------------------------------
(* The theorems. *)

\* Every step of the installer, whichever thread takes it, keeps the invariant.
LEMMA StepInv == Inv /\ [Next]_vars => Inv'
  <1> SUFFICES ASSUME Inv, [Next]_vars PROVE Inv'
    OBVIOUS
  <1>1. CASE MainThread
    BY <1>1, CheckServersStep, MakeHelpersStep, PreInstallStep, StartUninstallStep,
       AwaitUninstallStep, DownloadStep, ToolsStep, StartInstallStep, AwaitInstallStep,
       ClustersStep, NameStep, RefusalStep, ValidateStep, ProbeStep, CollectStep, ReportStep DEF MainThread
  <1>2. ASSUME NEW n \in NodeSet, NodeThread(n) PROVE Inv'
    BY <1>2, UninstallCbStep, InstallFatalStep, InstallCbStep, InitCbStep, InitDiesStep,
       OtherTaskStep DEF NodeThread
  <1>3. CASE Timeout
    BY <1>3, TimeoutStep
  <1>4. CASE UNCHANGED vars
    <2> USE <1>4 DEF vars, Inv
    <2>1. TypeOK'
      BY DEF TypeOK
    <2>2. TurnOK' /\ QueuesOK'
      BY DEF TurnOK, QueuesOK
    <2>3. InTime'
      BY DEF InTime
    <2> QED
      BY <2>1, <2>2, <2>3
  <1> QED
    BY <1>1, <1>2, <1>3, <1>4 DEF Next

\* The invariant holds throughout.
LEMMA Invariant == Spec => []Inv
  BY InitInv, StepInv, PTL DEF Spec

\* Main thread, threads of the servers, queues, verdicts and printed lines keep their types; the
\* exit code is set exactly when the main thread has exited.  In particular no thread of
\* do_install ever finds an uninstall in its queue.
THEOREM TypeCorrect == Spec => []TypeOK
  <1>1. Inv => TypeOK
    BY DEF Inv
  <1> QED
    BY Invariant, <1>1, PTL

\* For any number of servers and any list of tasks, while params["timeout"] has not passed, no
\* server is installed while its uninstall runs, and none is judged while a task of it is left.
THEOREM PhasesStayApart == Spec => []PhasesApart
  <1>1. Inv => PhasesApart
    <2> SUFFICES ASSUME Inv, ~late, NEW n \in NodeSet
                 PROVE  /\ uninstaller[n] = "working" => queue[n] = <<>> /\ pc = "await_uninstall"
                        /\ pc \in Judging => queue[n] = <<>> /\ installer[n] # "dead"
      BY DEF PhasesApart, Judging
    <2>1. uninstaller[n] = "working" => pc = "await_uninstall"
      BY DEF Inv, InTime
    <2>2. pc = "await_uninstall" => queue[n] = <<>>
      BY DEF Inv, QueuesOK, Early
    <2>3. pc \in Judging => queue[n] = <<>>
      BY DEF Inv, InTime
    <2>4. queue[n] = <<>> => installer[n] # "dead"
      BY DEF Inv, QueuesOK
    <2> QED
      BY <2>1, <2>2, <2>3, <2>4
  <1> QED
    BY Invariant, <1>1, PTL

\* For any number of servers and any list of tasks, an installer that exits with 0 before the
\* timeout has left the build that was asked for on every server, or one that was there before whose
\* version contains it or, on a columnar server, is 7.6.100, with nobody at work on it.
THEOREM ExitZeroMeansInstalled == Spec => []ZeroMeansInstalled
  <1>1. Inv => ZeroMeansInstalled
    <2> SUFFICES ASSUME Inv, ~late, code = "0", NEW n \in NodeSet
                 PROVE  product[n] \in Accepted(n) /\ queue[n] = <<>> /\ uninstaller[n] # "working"
      BY DEF ZeroMeansInstalled, Accepted
    <2>1. success[n] = "True" /\ queue[n] = <<>>
      BY DEF Inv, InTime
    <2>2. product[n] \in Accepted(n)
      BY <2>1 DEF Inv, InTime
    <2>3. pc = "exit"
      BY DEF Inv, TypeOK
    <2> QED
      BY <2>1, <2>2, <2>3 DEF Inv, InTime
  <1> QED
    BY Invariant, <1>1, PTL
=============================================================================
