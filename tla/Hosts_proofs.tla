----------------------------- MODULE Hosts_proofs ------------------------------
(* Proofs about the menu of hosts with its background job, for any hosts   *)
(* and ports, and about the requests to one host, for any apps.            *)
EXTENDS HostMenu, HostSession, TLAPS

-----------------------------------------------------------------------------
(* The menu and the job.                                                   *)

(* The types of TypeOK, with the records they leave open.                  *)
Records ==
  /\ file \in [port : Ports, autodiscover : BOOLEAN]
  /\ job \in [kind : {"none", "update", "scan"},
              phase : {"idle", "running", "done"},
              port : Ports, found : SUBSET Hosts]
Types == TypeOK /\ Records

(* Who has the field config.port: the list until the connection is made,   *)
(* then the host, while savedPort keeps the value of the list.             *)
PortInv ==
  /\ InList \/ screen = "leaving" => port = runPort
  /\ Connected => target \in Hosts /\ port = target[2] /\ savedPort = runPort

(* Where a job may run: on the list, while main leaves it, and when the    *)
(* program was closed before the list was shown.                           *)
JobInv ==
  /\ Connected \/ (screen = "over" /\ listed) => ~Running
  /\ screen = "start" => ~Running /\ ~listed

IInv == Types /\ PortInv /\ JobInv

(* The first run reads a file with the default port.                       *)
LEMMA InitIInv == Init => IInv
<1> SUFFICES ASSUME Init PROVE IInv
  OBVIOUS
<1> USE DefaultAssumption DEF Init
<1>1. Types
  BY DEF Types, TypeOK, Records, Screens, Idle
<1>2. PortInv /\ JobInv
  BY DEF PortInv, JobInv, InList, Connected, Running, Idle
<1>3. QED
  BY <1>1, <1>2 DEF IInv

(* What a job may find has the port it tried.                              *)
LEMMA ResultsAreHosts ==
  ASSUME NEW kind, NEW p \in Ports, NEW found \in Results(kind, p)
  PROVE  found \subseteq Hosts
BY DEF Results, Hosts

(* A job that was started is a job, and one that ran on the spot added     *)
(* hosts.                                                                  *)
LEMMA StartedIsJob ==
  ASSUME Types, NEW kind \in {"update", "scan"}, BackgroundStart(kind)
  PROVE  /\ book' \subseteq Hosts
         /\ job' = job \/ job' = Started(kind)
<1>1. port \in Ports /\ book \subseteq Hosts
  BY DEF Types, TypeOK
<1>2. CASE job' = Started(kind) /\ UNCHANGED book
  BY <1>1, <1>2
<1>3. ASSUME NEW found \in Results(kind, port), book' = book \cup found, UNCHANGED job
      PROVE  book' \subseteq Hosts /\ job' = job
  BY <1>1, <1>3, ResultsAreHosts
<1>4. QED
  BY <1>2, <1>3 DEF BackgroundStart

(* Every step keeps the types.                                             *)
LEMMA StepTypes == IInv /\ [Next]_vars => Types'
<1> SUFFICES ASSUME IInv, [Next]_vars PROVE Types'
  OBVIOUS
<1> USE DEF IInv, Types, TypeOK, Records, Screens, settings, books
<1>1. CASE PollDone
  BY <1>1, DefaultAssumption DEF PollDone, Idle
<1>2. CASE PollNothing \/ NoKey \/ CloseOptions \/ Opens \/ Exit \/ PickHost
  BY <1>2 DEF PollNothing, NoKey, CloseOptions, Opens, Exit, PickHost, Leave
<1>3. CASE Waited
  <2>1. target # NoHost => target[2] \in Ports
    BY DEF Hosts
  <2>2. QED
    BY <1>3, <2>1, DefaultAssumption DEF Waited, Idle
<1>4. CASE Start
  <2>1. BackgroundStart("update")
    BY <1>4 DEF Start
  <2>2. book' \subseteq Hosts /\ (job' = job \/ job' = Started("update"))
    BY <2>1, StartedIsJob
  <2>3. Started("update") \in [kind : {"none", "update", "scan"},
              phase : {"idle", "running", "done"}, port : Ports, found : SUBSET Hosts]
    BY DEF Started
  <2>4. QED
    BY <1>4, <2>2, <2>3 DEF Start, Started
<1>5. CASE Top
  <2>1. CASE scanPending /\ ~Running
    <3>1. BackgroundStart("scan")
      BY <1>5, <2>1 DEF Top
    <3>2. book' \subseteq Hosts /\ (job' = job \/ job' = Started("scan"))
      BY <3>1, StartedIsJob
    <3>3. Started("scan") \in [kind : {"none", "update", "scan"},
              phase : {"idle", "running", "done"}, port : Ports, found : SUBSET Hosts]
      BY DEF Started
    <3>4. QED
      BY <1>5, <2>1, <3>2, <3>3 DEF Top, Started
  <2>2. CASE ~(scanPending /\ ~Running)
    BY <1>5, <2>2 DEF Top
  <2>3. QED
    BY <2>1, <2>2
<1>6. CASE AddHost
  <2>1. PICK a \in Addresses : Leave(<<a, port>>) /\ book' = book \cup {<<a, port>>}
    BY <1>6 DEF AddHost
  <2>2. <<a, port>> \in Hosts
    BY DEF Hosts
  <2>3. QED
    BY <1>6, <2>1, <2>2 DEF AddHost, Leave
<1>7. CASE RemoveHost
  BY <1>7 DEF RemoveHost
<1>8. CASE SetPort \/ SetAutodiscover \/ CloseSettings \/ CloseStreamSettings
  BY <1>8 DEF SetPort, SetAutodiscover, CloseSettings, CloseStreamSettings, Save
<1>9. CASE OpenStreamSettings \/ ConnectFails
  BY <1>9 DEF OpenStreamSettings, ConnectFails
<1>10. CASE ConnectSucceeds
  <2>1. target \in Hosts
    BY <1>10 DEF ConnectSucceeds, PortInv, Connected
  <2>2. QED
    BY <1>10, <2>1 DEF ConnectSucceeds
<1>11. CASE LeaveUnreachable \/ LeaveHost
  BY <1>11 DEF LeaveUnreachable, LeaveHost, GiveBack
<1>12. CASE WorkerDone
  <2>1. PICK found \in Results(job.kind, job.port) :
          job' = [job EXCEPT !.phase = "done", !.found = found]
    BY <1>12 DEF WorkerDone
  <2>2. found \subseteq Hosts
    BY <2>1, ResultsAreHosts
  <2>3. QED
    BY <1>12, <2>1, <2>2 DEF WorkerDone
<1>13. CASE Restart
  BY <1>13, DefaultAssumption DEF Restart, Idle
<1>14. CASE UNCHANGED vars
  BY <1>14 DEF vars
<1>15. QED
  BY <1>1, <1>2, <1>3, <1>4, <1>5, <1>6, <1>7, <1>8, <1>9, <1>10, <1>11, <1>12,
     <1>13, <1>14 DEF Next, MainSteps, Player, Network

(* Every step keeps the owner of the port.                                 *)
LEMMA StepPortInv == IInv /\ [Next]_vars => PortInv'
<1> SUFFICES ASSUME IInv, [Next]_vars PROVE PortInv'
  OBVIOUS
<1> USE DEF IInv, PortInv, InList, Connected, settings
<1>1. CASE MainSteps
  <2>1. CASE PollDone \/ PollNothing \/ Top
    BY <1>1, <2>1 DEF PollDone, PollNothing, Top
  <2>2. CASE Waited
    <3>1. target \in Hosts \cup {NoHost}
      BY DEF Types, TypeOK
    <3>2. QED
      BY <2>2, <3>1 DEF Waited
  <2>3. QED
    BY <1>1, <2>1, <2>2 DEF MainSteps
<1>2. CASE Player
  <2>1. CASE Start
    BY <2>1 DEF Start
  <2>2. CASE PickHost \/ AddHost \/ Exit
    BY <2>2 DEF PickHost, AddHost, Exit, Leave
  <2>3. CASE Opens \/ NoKey \/ CloseOptions \/ RemoveHost
    BY <2>3 DEF Opens, NoKey, CloseOptions, RemoveHost
  <2>4. CASE SetPort \/ SetAutodiscover \/ CloseSettings
    BY <2>4 DEF SetPort, SetAutodiscover, CloseSettings
  <2>5. CASE OpenStreamSettings \/ CloseStreamSettings
    BY <2>5 DEF OpenStreamSettings, CloseStreamSettings
  <2>6. CASE LeaveUnreachable \/ LeaveHost
    BY <2>6 DEF LeaveUnreachable, LeaveHost, GiveBack
  <2>7. QED
    BY <1>2, <2>1, <2>2, <2>3, <2>4, <2>5, <2>6 DEF Player
<1>3. CASE Network
  BY <1>3 DEF Network, ConnectSucceeds, ConnectFails, WorkerDone
<1>4. CASE Restart
  BY <1>4 DEF Restart
<1>5. CASE UNCHANGED vars
  BY <1>5 DEF vars
<1>6. QED
  BY <1>1, <1>2, <1>3, <1>4, <1>5 DEF Next

(* Every step keeps jobs where they may run.                               *)
LEMMA StepJobInv == IInv /\ [Next]_vars => JobInv'
<1> SUFFICES ASSUME IInv, [Next]_vars PROVE JobInv'
  OBVIOUS
<1> USE DEF IInv, JobInv, Running, Connected
<1>1. CASE MainSteps
  BY <1>1 DEF MainSteps, PollDone, PollNothing, Waited, Top, Idle
<1>2. CASE Player
  <2>1. CASE Start
    BY <2>1 DEF Start
  <2>2. CASE PickHost \/ AddHost \/ Exit
    BY <2>2 DEF PickHost, AddHost, Exit, Leave
  <2>3. CASE Opens \/ NoKey \/ CloseOptions \/ RemoveHost
    BY <2>3 DEF Opens, NoKey, CloseOptions, RemoveHost
  <2>4. CASE SetPort \/ SetAutodiscover \/ CloseSettings
    BY <2>4 DEF SetPort, SetAutodiscover, CloseSettings
  <2>5. CASE OpenStreamSettings \/ CloseStreamSettings
    BY <2>5 DEF OpenStreamSettings, CloseStreamSettings
  <2>6. CASE LeaveUnreachable \/ LeaveHost
    BY <2>6 DEF LeaveUnreachable, LeaveHost, GiveBack
  <2>7. QED
    BY <1>2, <2>1, <2>2, <2>3, <2>4, <2>5, <2>6 DEF Player
<1>3. CASE Network
  <2>1. CASE ConnectSucceeds \/ ConnectFails
    BY <2>1 DEF ConnectSucceeds, ConnectFails
  <2>2. CASE WorkerDone
    <3>1. job.phase = "running" /\ screen' = screen /\ listed' = listed
      BY <2>2 DEF WorkerDone
    <3>2. QED
      BY <3>1
  <2>3. QED
    BY <1>3, <2>1, <2>2 DEF Network
<1>4. CASE Restart
  BY <1>4 DEF Restart, Idle
<1>5. CASE UNCHANGED vars
  BY <1>5 DEF vars
<1>6. QED
  BY <1>1, <1>2, <1>3, <1>4, <1>5 DEF Next

(* The types, the owner of config.port and the place of the job of         *)
(* src/n3ds_main.cpp are invariant.                                        *)
THEOREM Inductive == Spec => []IInv
<1>1. Init => IInv
  BY InitIInv
<1>2. IInv /\ [Next]_vars => IInv'
  BY StepTypes, StepPortInv, StepJobInv DEF IInv
<1>3. QED
  BY <1>1, <1>2, PTL DEF Spec

(* Types.                                                                  *)
THEOREM MenuTypeCorrect == Spec => []TypeOK
<1>1. IInv => TypeOK
  BY DEF IInv, Types
<1>2. QED
  BY <1>1, Inductive, PTL

(* main_loop lends config.port to one connection at a time and gives it    *)
(* back, for any hosts and ports and over any number of runs.              *)
THEOREM PortComesBack == Spec => []PortLentAndGivenBack
<1>1. IInv => PortLentAndGivenBack
  BY DEF IInv, PortInv, PortLentAndGivenBack
<1>2. QED
  BY <1>1, Inductive, PTL

(* background_wait is called on every way from the list: no background job *)
(* runs under a connection, nor after the end of a program that showed the *)
(* list.                                                                   *)
THEOREM MainIsAlone == Spec => []AloneOffTheList
<1>1. IInv => AloneOffTheList
  BY DEF IInv, JobInv, AloneOffTheList
<1>2. QED
  BY <1>1, Inductive, PTL

-----------------------------------------------------------------------------
(* The requests to a host.                                                 *)

Flags ==
  /\ paired \in BOOLEAN /\ confirmed \in BOOLEAN
  /\ trust \in BOOLEAN /\ removed \in BOOLEAN

(* The client pairs when it is not paired, and while it is with a host     *)
(* that is not of NVIDIA its record says the same as its memory: an undone *)
(* pairing takes away nothing the client believes.                         *)
Believed ==
  /\ paired => page \in {"actions", "streaming"}
  /\ ~nvidia /\ page # "hosts" => paired = confirmed

SessionIInv == Flags /\ Believed /\ PairedIsTrusted

(* A host that was asked to forget the client, while nothing said that it  *)
(* is paired.                                                              *)
LEMMA Forgotten ==
  ASSUME SessionIInv, HostForgets, ~paired', ~(confirmed' /\ ~nvidia')
  PROVE  trust' \in BOOLEAN /\ removed' \in BOOLEAN /\ PairedIsTrusted'
<1>1. trust' \in BOOLEAN /\ removed' \in BOOLEAN
  BY DEF SessionIInv, Flags, HostForgets, host
<1>2. QED
  BY <1>1 DEF PairedIsTrusted

(* The steps of pairing.                                                   *)
LEMMA PairingStep ==
  ASSUME SessionIInv,
         \/ BeginPairing \/ PairStage \/ PairFails \/ PairReplyLost
         \/ UnpairAfterLoss \/ Unpair
  PROVE  SessionIInv'
<1> USE DEF SessionIInv, Flags
<1>1. CASE BeginPairing
  BY <1>1 DEF BeginPairing, Believed, PairedIsTrusted, host
<1>2. CASE PairStage
  <2>1. ~paired
    BY <1>2 DEF PairStage, Believed
  <2>2. HostPairs(stage + 1) /\ Confirm(stage + 1) /\ page = "pairing" /\ nvidia' = nvidia
    BY <1>2 DEF PairStage
  <2>3. /\ trust' = (trust \/ stage + 1 = 4)
        /\ removed' = (removed /\ stage + 1 # 4)
        /\ stage + 1 = 5 => trust
    BY <2>2 DEF HostPairs
  <2>4. trust' \in BOOLEAN /\ removed' \in BOOLEAN
    BY <2>3
  <2>5. trust \/ removed => trust' \/ removed'
    BY <2>3
  <2>6. CASE stage + 1 = Last
    <3>1. page' = "actions" /\ paired' = TRUE /\ confirmed' = TRUE
      BY <2>2, <2>6 DEF Confirm
    <3>2. trust'
      BY <2>3, <2>6 DEF Last
    <3>3. QED
      BY <2>4, <3>1, <3>2 DEF Believed, PairedIsTrusted
  <2>7. CASE stage + 1 # Last
    <3>1. UNCHANGED <<page, paired, confirmed>>
      BY <2>2, <2>7 DEF Confirm
    <3>2. QED
      BY <2>1, <2>2, <2>4, <2>5, <3>1 DEF Believed, PairedIsTrusted
  <2>8. QED
    BY <2>6, <2>7
<1>3. CASE PairReplyLost
  <2>1. ~paired
    BY <1>3 DEF PairReplyLost, Believed
  <2>2. HostPairs(stage + 1) /\ page = "pairing" /\ page' = "unpairing"
        /\ UNCHANGED <<nvidia, paired, confirmed>>
    BY <1>3 DEF PairReplyLost
  <2>3. /\ trust' = (trust \/ stage + 1 = 4)
        /\ removed' = (removed /\ stage + 1 # 4)
    BY <2>2 DEF HostPairs
  <2>4. trust' \in BOOLEAN /\ removed' \in BOOLEAN
    BY <2>3
  <2>5. QED
    BY <2>1, <2>2, <2>4 DEF Believed, PairedIsTrusted
<1>4. CASE PairFails \/ UnpairAfterLoss
  <2>1. /\ HostForgets /\ UNCHANGED <<nvidia, paired, confirmed>>
        /\ page \in {"pairing", "unpairing"} /\ page' = "actions"
    BY <1>4 DEF PairFails, UnpairAfterLoss
  <2>2. ~paired' /\ ~(confirmed' /\ ~nvidia')
    BY <2>1 DEF Believed
  <2>3. QED
    BY <2>1, <2>2, Forgotten DEF Believed
<1>5. CASE Unpair
  <2>1. HostForgets /\ paired' = FALSE /\ confirmed' = FALSE
    BY <1>5 DEF Unpair
  <2>2. QED
    BY <2>1, Forgotten DEF Believed
<1>6. QED
  BY <1>1, <1>2, <1>3, <1>4, <1>5

(* Whatever is lost, whoever acts, each step keeps the invariant.          *)
LEMMA StepIInv == SessionIInv /\ [SessionNext]_sessionVars => SessionIInv'
<1> SUFFICES ASSUME SessionIInv, [SessionNext]_sessionVars PROVE SessionIInv'
  OBVIOUS
<1> USE DEF SessionIInv, Flags, Believed, PairedIsTrusted, host, client
<1>1. CASE Connect
  BY <1>1 DEF Connect
<1>2. CASE Disconnect
  BY <1>2 DEF Disconnect
<1>3. CASE \/ BeginPairing \/ PairStage \/ PairFails \/ PairReplyLost
           \/ UnpairAfterLoss \/ Unpair
  BY <1>3, PairingStep
<1>4. ASSUME NEW app \in Apps, StartApp(app) \/ StartRefused(app) \/ StartLost(app)
      PROVE  SessionIInv'
  BY <1>4 DEF StartApp, StartRefused, StartLost
<1>5. CASE QuitApp \/ QuitLost
  BY <1>5 DEF QuitApp, QuitLost
<1>6. CASE StreamEnds
  BY <1>6 DEF StreamEnds
<1>7. CASE OwnerRunsApp \/ HostRestarts \/ OwnerRemovesClient \/ GetsCalm
  <2>1. UNCHANGED <<page, paired, confirmed, nvidia>>
    BY <1>7 DEF OwnerRunsApp, HostRestarts, OwnerRemovesClient, GetsCalm
  <2>2. UNCHANGED <<trust, removed>> \/ (trust' = FALSE /\ removed' = TRUE)
    BY <1>7 DEF OwnerRunsApp, HostRestarts, OwnerRemovesClient, GetsCalm
  <2>3. QED
    BY <2>1, <2>2
<1>8. CASE UNCHANGED sessionVars
  BY <1>8 DEF sessionVars
<1>9. QED
  BY <1>1, <1>2, <1>3, <1>4, <1>5, <1>6, <1>7, <1>8 DEF SessionNext, StartAny

(* gs_pair, gs_unpair and init_server: a host the client takes for paired  *)
(* trusts it, whatever was lost and in whatever order the owner, the host  *)
(* and the player act.                                                     *)
THEOREM TakenForPaired == SessionSpec => []PairedIsTrusted
<1>1. SessionInit => SessionIInv
  BY DEF SessionInit, SessionIInv, Flags, Believed, PairedIsTrusted
<1>2. SessionIInv => PairedIsTrusted
  BY DEF SessionIInv
<1>3. QED
  BY <1>1, <1>2, StepIInv, PTL DEF SessionSpec

(* Types: gs_pair never asks for a stage beyond the last one, and what the *)
(* client believes to run is an app of the host.                           *)
Stages ==
  /\ stage \in 0 .. 5 /\ hostStage \in 0 .. 5
  /\ page = "pairing" => stage < Last
  /\ nvidia \in BOOLEAN
Others ==
  /\ page \in {"hosts", "actions", "pairing", "unpairing", "streaming"}
  /\ pinRight \in BOOLEAN /\ calm \in BOOLEAN
  /\ current \in Apps \cup {NoApp} /\ running \in Apps \cup {NoApp}

LEMMA StepStages == Stages /\ [SessionNext]_sessionVars => Stages'
<1> SUFFICES ASSUME Stages, [SessionNext]_sessionVars PROVE Stages'
  OBVIOUS
<1>1. ASSUME UNCHANGED <<stage, hostStage, nvidia>>, page' = "pairing" => page = "pairing"
      PROVE  Stages'
  BY <1>1 DEF Stages, Last
<1>2. CASE BeginPairing
  BY <1>2 DEF BeginPairing, host, Stages, Last
<1>3. CASE PairStage
  <2>1. stage + 1 \in 1 .. 5 /\ stage + 1 <= Last /\ nvidia' = nvidia
    BY <1>3 DEF PairStage, Stages, Last
  <2>2. hostStage' = stage + 1 /\ stage' = stage + 1
    BY <1>3 DEF PairStage, HostPairs, Confirm
  <2>3. stage + 1 = Last => page' = "actions"
    BY <1>3 DEF PairStage, Confirm
  <2>4. QED
    BY <2>1, <2>2, <2>3 DEF Stages, Last
<1>4. CASE PairReplyLost
  <2>1. stage + 1 \in 1 .. 5 /\ nvidia' = nvidia
    BY <1>4 DEF PairReplyLost, Stages, Last
  <2>2. hostStage' = stage + 1 /\ stage' = 0 /\ page' = "unpairing"
    BY <1>4 DEF PairReplyLost, HostPairs
  <2>3. QED
    BY <2>1, <2>2 DEF Stages
<1>5. CASE PairFails \/ UnpairAfterLoss \/ Unpair
  <2>1. hostStage' \in {0, hostStage} /\ UNCHANGED <<stage, nvidia>> /\ page' = "actions"
    BY <1>5 DEF PairFails, UnpairAfterLoss, Unpair, HostForgets, host
  <2>2. QED
    BY <2>1 DEF Stages
<1>6. CASE HostRestarts
  BY <1>6 DEF HostRestarts, client, Stages, Last
<1>7. CASE Connect \/ Disconnect
  BY <1>1, <1>7 DEF Connect, Disconnect, host
<1>8. ASSUME NEW app \in Apps, StartApp(app) \/ StartRefused(app) \/ StartLost(app)
      PROVE  Stages'
  BY <1>1, <1>8 DEF StartApp, StartRefused, StartLost, client
<1>9. CASE QuitApp \/ QuitLost \/ StreamEnds
  BY <1>1, <1>9 DEF QuitApp, QuitLost, StreamEnds, client
<1>10. CASE OwnerRunsApp \/ OwnerRemovesClient \/ GetsCalm
  BY <1>1, <1>10 DEF OwnerRunsApp, OwnerRemovesClient, GetsCalm, client, host
<1>11. CASE UNCHANGED sessionVars
  BY <1>1, <1>11 DEF sessionVars, client, host
<1>12. QED
  BY <1>2, <1>3, <1>4, <1>5, <1>6, <1>7, <1>8, <1>9, <1>10, <1>11
     DEF SessionNext, StartAny

LEMMA StepOthers == Others /\ [SessionNext]_sessionVars => Others'
<1> SUFFICES ASSUME Others, [SessionNext]_sessionVars PROVE Others'
  OBVIOUS
<1> USE DEF Others, client, host
<1>1. CASE Connect \/ Disconnect \/ BeginPairing
  BY <1>1 DEF Connect, Disconnect, BeginPairing
<1>2. CASE PairStage \/ PairReplyLost
  <2>1. pinRight' \in BOOLEAN /\ UNCHANGED <<current, running, calm>>
    BY <1>2 DEF PairStage, PairReplyLost, HostPairs
  <2>2. page' \in {"actions", "pairing", "unpairing"}
    BY <1>2 DEF PairStage, PairReplyLost, Confirm
  <2>3. QED
    BY <2>1, <2>2
<1>3. CASE PairFails \/ UnpairAfterLoss \/ Unpair
  <2>1. UNCHANGED <<current, calm>> /\ page' = "actions"
    BY <1>3 DEF PairFails, UnpairAfterLoss, Unpair
  <2>2. UNCHANGED <<pinRight, running>>
    BY <1>3 DEF PairFails, UnpairAfterLoss, Unpair, HostForgets
  <2>3. QED
    BY <2>1, <2>2
<1>4. ASSUME NEW app \in Apps, StartApp(app) \/ StartRefused(app) \/ StartLost(app)
      PROVE  Others'
  BY <1>4 DEF StartApp, StartRefused, StartLost, Grants, Refuses
<1>5. CASE QuitApp \/ QuitLost \/ StreamEnds
  BY <1>5 DEF QuitApp, QuitLost, StreamEnds, Cancels
<1>6. CASE OwnerRunsApp \/ HostRestarts \/ OwnerRemovesClient \/ GetsCalm
  BY <1>6 DEF OwnerRunsApp, HostRestarts, OwnerRemovesClient, GetsCalm
<1>7. CASE UNCHANGED sessionVars
  BY <1>7 DEF sessionVars
<1>8. QED
  BY <1>1, <1>2, <1>3, <1>4, <1>5, <1>6, <1>7 DEF SessionNext, StartAny

THEOREM SessionTypeCorrect == SessionSpec => []SessionTypeOK
<1> DEFINE All == SessionIInv /\ Stages /\ Others
<1>1. SessionInit => All
  <2>1. SessionInit => SessionIInv
    BY DEF SessionInit, SessionIInv, Flags, Believed, PairedIsTrusted
  <2>2. SessionInit => Stages
    <3>1. 0 \in 0 .. 5
      OBVIOUS
    <3>2. QED
      BY <3>1 DEF SessionInit, Stages
  <2>3. SessionInit => Others
    BY DEF SessionInit, Others
  <2>4. QED
    BY <2>1, <2>2, <2>3
<1>2. All /\ [SessionNext]_sessionVars => All'
  BY StepIInv, StepStages, StepOthers
<1>3. All => SessionTypeOK
  BY DEF SessionIInv, Flags, Believed, Stages, Others, SessionTypeOK
<1> HIDE DEF All
<1>4. QED
  BY <1>1, <1>2, <1>3, PTL DEF SessionSpec
=============================================================================
