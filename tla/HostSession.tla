------------------------------ MODULE HostSession ------------------------------
(***************************************************************************)
(* The requests of the client to one host: gs_init, gs_pair, gs_unpair,    *)
(* gs_start_app and gs_quit_app of libgamestream/client.c, as the menu of  *)
(* the host calls them (action_pair, action_unpair, action_stream, stream  *)
(* and action_quit_stream of src/n3ds_main.cpp).                           *)
(*                                                                         *)
(* A request is lost, or the host handles it and the reply is lost, or the *)
(* reply arrives; in the first two cases it fails alike.  The host is not  *)
(* in the sources and modelled from what the client reads in its replies:  *)
(* it pairs a client that goes through the stages in order with the PIN    *)
(* that was typed at the host, launches an app if none runs and resumes    *)
(* the one that runs, whichever it is.  Between two requests its owner may *)
(* start or stop apps, restart it or remove the client, and so for as long *)
(* as it is not calm.                                                      *)
(***************************************************************************)
EXTENDS Naturals

CONSTANTS
  Apps,     (* ids of the apps of the host                                  *)
  NoApp

ASSUME AppsAssumption == NoApp \notin Apps

VARIABLES
  page,      (* "hosts", "actions", "pairing", "unpairing", "streaming"     *)
  stage,     (* the last stage of gs_pair the host has confirmed            *)
  paired,    (* server->paired                                              *)
  current,   (* server->currentGame                                         *)
  confirmed, (* is_confirmed_pair of this host                              *)
  nvidia,    (* server->isNvidiaSoftware                                    *)
  hostStage, (* the stage of pairing the host is at                         *)
  pinRight,  (* the PIN typed at the host is the one on the screen          *)
  trust,     (* the host trusts the client                                  *)
  running,   (* the app that runs on the host                               *)
  removed,   (* history: the owner removed the client since it was paired   *)
  calm       (* nothing is lost and nobody touches the host any more        *)

client == <<page, stage, paired, current, confirmed>>
host == <<hostStage, pinRight, trust, running, removed>>
sessionVars == <<client, nvidia, host, calm>>

Last == IF nvidia THEN 5 ELSE 4  (* the stages of gs_pair *)

SessionInit ==
  /\ page = "hosts" /\ stage = 0 /\ paired = FALSE /\ current = NoApp
  /\ confirmed = FALSE /\ nvidia \in BOOLEAN
  /\ hostStage = 0 /\ pinRight = FALSE /\ trust = FALSE
  /\ running \in Apps \cup {NoApp} /\ removed = FALSE /\ calm = FALSE

-----------------------------------------------------------------------------
(* gs_init: load_serverinfo over HTTP, where a host does not know who asks *)
(* and denies the pairing, then for GeForce over HTTPS, and again over     *)
(* HTTP if that fails.  init_server trusts its own record of other hosts,  *)
(* and strikes a host that is not paired off both lists.                   *)
Connect ==
  /\ page = "hosts" /\ page' = "actions"
  /\ current' = running
  /\ paired' \in IF nvidia THEN {trust} \cup {b \in {FALSE} : ~calm}
                 ELSE {confirmed}
  /\ confirmed' = (confirmed /\ paired')
  /\ UNCHANGED <<stage, nvidia, host, calm>>

Disconnect ==
  /\ page = "actions" /\ page' = "hosts"
  /\ paired' = FALSE /\ current' = NoApp
  /\ UNCHANGED <<stage, confirmed, nvidia, host, calm>>

-----------------------------------------------------------------------------
(* gs_pair, one request a step.                                            *)

BeginPairing ==
  /\ page = "actions" /\ ~paired
  /\ page' = "pairing" /\ stage' = 0
  /\ UNCHANGED <<paired, current, confirmed, nvidia, host, calm>>

(* What a request of stage n does to the host.  It answers the first one   *)
(* when a PIN was typed, checks the PIN in the fourth, and the fifth comes *)
(* over HTTPS.                                                             *)
HostPairs(n) ==
  /\ n > 1 => hostStage = n - 1
  /\ n = 4 => pinRight
  /\ n = 5 => trust
  /\ hostStage' = n
  /\ pinRight' \in IF n = 1 THEN BOOLEAN ELSE {pinRight}
  /\ trust' = (trust \/ n = 4)
  /\ removed' = (removed /\ n # 4)
  /\ UNCHANGED running

Confirm(n) ==
  /\ stage' = n
  /\ IF n = Last
     THEN page' = "actions" /\ paired' = TRUE /\ confirmed' = TRUE
     ELSE UNCHANGED <<page, paired, confirmed>>

PairStage ==
  /\ page = "pairing"
  /\ HostPairs(stage + 1) /\ Confirm(stage + 1)
  /\ UNCHANGED <<current, nvidia, calm>>

(* gs_unpair, which may not get to the host *)
HostForgets ==
  \/ trust' = FALSE /\ hostStage' = 0 /\ UNCHANGED <<pinRight, running, removed>>
  \/ ~calm /\ UNCHANGED host

(* A request fails on the way there, or on the way back, or it is refused, *)
(* or the client cannot go on: what was reached is undone.                 *)
PairFails_Recorded ==
  /\ page = "pairing"
  /\ page' = "actions" /\ confirmed' = TRUE
  /\ HostForgets
  /\ UNCHANGED <<stage, paired, current, nvidia, calm>>
PairFails ==
  /\ page = "pairing"
  /\ page' = "actions"
  /\ HostForgets
  /\ UNCHANGED <<stage, paired, current, confirmed, nvidia, calm>>

(* The host has gone a stage further than the client knows. *)
PairReplyLost ==
  /\ page = "pairing" /\ ~calm
  /\ HostPairs(stage + 1)
  /\ stage' = 0 /\ page' = "unpairing"
  /\ UNCHANGED <<paired, current, confirmed, nvidia, calm>>

UnpairAfterLoss ==
  /\ page = "unpairing" /\ page' = "actions"
  /\ HostForgets
  /\ UNCHANGED <<stage, paired, current, confirmed, nvidia, calm>>

(* action_unpair: the records go, whatever the host says *)
Unpair ==
  /\ page = "actions" /\ paired
  /\ paired' = FALSE /\ confirmed' = FALSE
  /\ HostForgets
  /\ UNCHANGED <<page, stage, current, nvidia, calm>>

-----------------------------------------------------------------------------
(* gs_start_app: a host that runs an app is asked to resume it.  A request *)
(* the host refuses has been answered as far as HTTP goes, and current is  *)
(* set before the status is read; a client it does not trust gets no       *)
(* answer.                                                                 *)
Grants(app) ==
  IF current = NoApp
  THEN running = NoApp /\ running' = app
  ELSE running # NoApp /\ UNCHANGED running

Refuses == trust /\ (current = NoApp <=> running # NoApp) /\ UNCHANGED running

StartApp(app) ==
  /\ page = "actions" /\ paired
  /\ trust /\ Grants(app)
  /\ page' = "streaming" /\ current' = app
  /\ UNCHANGED <<stage, paired, confirmed, nvidia, hostStage, pinRight, trust,
                 removed, calm>>

StartRefused(app) ==
  /\ page = "actions" /\ paired
  /\ Refuses
  /\ current' = app
  /\ UNCHANGED <<page, stage, paired, confirmed, nvidia, hostStage, pinRight,
                 trust, removed, calm>>

StartLost(app) ==
  /\ page = "actions" /\ paired /\ ~calm
  /\ trust /\ Grants(app)
  /\ UNCHANGED <<client, nvidia, hostStage, pinRight, trust, removed, calm>>

(* gs_quit_app: answered alike whether an app ran or not *)
Cancels == trust /\ running' = NoApp

QuitApp_KeepsCurrent ==
  /\ page = "actions" /\ paired
  /\ Cancels
  /\ UNCHANGED <<client, nvidia, hostStage, pinRight, trust, removed, calm>>
QuitApp ==
  /\ page = "actions" /\ paired
  /\ Cancels /\ current' = NoApp
  /\ UNCHANGED <<page, stage, paired, confirmed, nvidia, hostStage, pinRight,
                 trust, removed, calm>>

QuitLost ==
  /\ page = "actions" /\ paired /\ ~calm
  /\ Cancels
  /\ UNCHANGED <<client, nvidia, hostStage, pinRight, trust, removed, calm>>

(* The end of a stream, also of one that could not be set up; with         *)
(* quitappafter current is cleared whether or not the host has answered.   *)
StreamEnds ==
  /\ page = "streaming" /\ page' = "actions"
  /\ \/ UNCHANGED <<current, running>>
     \/ current' = NoApp /\ Cancels
     \/ current' = NoApp /\ ~(calm /\ trust) /\ UNCHANGED running
  /\ UNCHANGED <<stage, paired, confirmed, nvidia, hostStage, pinRight, trust,
                 removed, calm>>

-----------------------------------------------------------------------------
(* The owner of the host.                                                  *)
OwnerRunsApp ==
  /\ ~calm
  /\ running' \in (Apps \cup {NoApp}) \ {running}
  /\ UNCHANGED <<client, nvidia, hostStage, pinRight, trust, removed, calm>>

HostRestarts ==
  /\ ~calm
  /\ running' = NoApp /\ hostStage' = 0
  /\ UNCHANGED <<client, nvidia, pinRight, trust, removed, calm>>

OwnerRemovesClient ==
  /\ ~calm /\ trust
  /\ trust' = FALSE /\ removed' = TRUE
  /\ UNCHANGED <<client, nvidia, hostStage, pinRight, running, calm>>

GetsCalm ==
  /\ ~calm /\ calm' = TRUE
  /\ UNCHANGED <<client, nvidia, host>>

StartAny == \E app \in Apps : StartApp(app) \/ StartRefused(app)

SessionNext ==
  \/ Connect \/ Disconnect \/ BeginPairing \/ PairStage \/ PairFails
  \/ PairReplyLost \/ UnpairAfterLoss \/ Unpair
  \/ StartAny \/ (\E app \in Apps : StartLost(app)) \/ QuitApp \/ QuitLost
  \/ StreamEnds
  \/ OwnerRunsApp \/ HostRestarts \/ OwnerRemovesClient \/ GetsCalm

(* The player keeps trying: he starts an app, and quits what runs, again   *)
(* and again.                                                              *)
SessionSpec ==
  /\ SessionInit /\ [][SessionNext]_sessionVars
  /\ SF_sessionVars(StartAny) /\ SF_sessionVars(QuitApp)

-----------------------------------------------------------------------------
(* Types.                                                                  *)
SessionTypeOK ==
  /\ page \in {"hosts", "actions", "pairing", "unpairing", "streaming"}
  /\ stage \in 0 .. 5 /\ hostStage \in 0 .. 5
  /\ {paired, confirmed, nvidia, pinRight, trust, removed, calm} \subseteq BOOLEAN
  /\ {current, running} \subseteq Apps \cup {NoApp}
  /\ paired => page \in {"actions", "streaming"}

(* A host that the client takes for paired, in memory or in its record,    *)
(* trusts the client, unless its owner has removed it: whatever request or *)
(* reply was lost on the way, and whichever PIN was typed.                 *)
PairedIsTrusted ==
  paired \/ (confirmed /\ ~nvidia) => trust \/ removed

(* Once the host is left alone and nothing is lost, a player who is paired *)
(* and keeps trying gets his stream: what the client believes to run on    *)
(* the host cannot stay wrong.                                             *)
NeverStuck ==
  (calm /\ page = "actions" /\ paired /\ trust)
    ~> (page \in {"streaming", "hosts"} \/ ~paired)
=============================================================================
