-------------------------------- MODULE HostMenu --------------------------------
(***************************************************************************)
(* The list of hosts and the connection to one of them: main_loop,         *)
(* prompt_for_address, prompt_for_app_settings, prompt_for_host_options    *)
(* and the one background job of src/n3ds_main.cpp, the Wake on LAN book   *)
(* of src/system/wake_on_lan.cpp.                                          *)
(*                                                                         *)
(* A background job (the update check, a scan of the network) is a thread; *)
(* the main thread polls it from the host list only and joins it before it *)
(* leaves the list.  A scan may find anything, so that the flag that       *)
(* cancels one makes no difference here.                                   *)
(*                                                                         *)
(* The port of the configuration is what a host is added with and what a   *)
(* scan tries.  A connection borrows the field: it holds the port of the   *)
(* host until the player is back at the list.                              *)
(*                                                                         *)
(* A host is an address with a port.  The book of hosts (host_book) is not *)
(* in the sources; it is a set that add and remove change.                 *)
(***************************************************************************)
EXTENDS Naturals

CONSTANTS
  Addresses,
  Ports,
  DefaultPort, (* of config_parse *)
  NoHost

ASSUME DefaultAssumption == DefaultPort \in Ports

Hosts == Addresses \X Ports

ASSUME NoHostAssumption == NoHost \notin Hosts

VARIABLES
  screen,      (* where the main thread is                                  *)
  target,      (* the host main is about to connect to or connected to      *)
  port,        (* config.port                                               *)
  savedPort,   (* saved_port of main_loop                                   *)
  autodiscover,(* config.autodiscover                                       *)
  file,        (* what the configuration file holds of these two            *)
  scanPending, (* scan_pending of prompt_for_address                        *)
  book,        (* the hosts listed                                          *)
  macs,        (* the hosts whose MAC address is remembered                 *)
  job,         (* g_background                                              *)
  runPort,     (* history: the port this run read or the player set in it   *)
  listed       (* history: the list was shown in this run                   *)

vars == <<screen, target, port, savedPort, autodiscover, file, scanPending,
          book, macs, job, runPort, listed>>
settings == <<port, savedPort, autodiscover, file, runPort>>
books == <<book, macs>>

Screens == {"start", "top", "poll", "keys", "options", "settings", "leaving",
            "connecting", "unreachable", "host", "streamSettings", "over"}
InList == screen \in {"top", "poll", "keys", "options", "settings"}
Connected == screen \in {"connecting", "unreachable", "host", "streamSettings"}

Idle == [kind |-> "none", phase |-> "idle", port |-> DefaultPort, found |-> {}]
Started(kind) == [kind |-> kind, phase |-> "running", port |-> port, found |-> {}]
Running == job.phase # "idle"

(* what a job that tried this port may come back with *)
Results(kind, p) == IF kind = "scan" THEN SUBSET (Addresses \X {p}) ELSE {{}}

Init ==
  /\ screen = "start" /\ target = NoHost
  /\ port = DefaultPort /\ savedPort = DefaultPort /\ autodiscover = TRUE
  /\ file = [port |-> DefaultPort, autodiscover |-> TRUE]
  /\ scanPending = FALSE /\ book = {} /\ macs = {} /\ job = Idle
  /\ runPort = DefaultPort /\ listed = FALSE

(***************************************************************************)
(* The background job.                                                     *)
(***************************************************************************)
(* background_start: when no thread can be had the job runs on the spot *)
BackgroundStart(kind) ==
  \/ job' = Started(kind) /\ UNCHANGED book
  \/ \E found \in Results(kind, port) : book' = book \cup found /\ UNCHANGED job

WorkerDone ==
  /\ job.phase = "running"
  /\ \E found \in Results(job.kind, job.port) :
       job' = [job EXCEPT !.phase = "done", !.found = found]
  /\ UNCHANGED <<screen, target, settings, scanPending, books, listed>>

PollDone_KeepsRunning ==
  /\ screen = "poll" /\ job.phase = "done"
  /\ book' = book \cup job.found
  /\ screen' = "top"
  /\ UNCHANGED <<target, settings, scanPending, macs, job, listed>>

(* background_poll, from a frame of the list: join, then report *)
PollDone ==
  /\ screen = "poll" /\ job.phase = "done"
  /\ job' = Idle /\ book' = book \cup job.found
  /\ screen' = "top"
  /\ UNCHANGED <<target, settings, scanPending, macs, listed>>

PollNothing ==
  /\ screen = "poll" /\ job.phase # "done"
  /\ screen' = "keys"
  /\ UNCHANGED <<target, settings, scanPending, books, job, listed>>

Waited_SavesLate ==
  /\ screen = "leaving" /\ job.phase # "running"
  /\ job' = Idle
  /\ IF target = NoHost
     THEN screen' = "over" /\ UNCHANGED settings
     ELSE /\ screen' = "connecting" /\ port' = target[2] /\ savedPort' = port'
          /\ UNCHANGED <<autodiscover, file, runPort>>
  /\ UNCHANGED <<target, scanPending, books, listed>>

(* background_wait: join, report nothing; then connect, or end the program *)
Waited ==
  /\ screen = "leaving" /\ job.phase # "running"
  /\ job' = Idle
  /\ IF target = NoHost
     THEN screen' = "over" /\ UNCHANGED settings
     ELSE /\ screen' = "connecting" /\ savedPort' = port /\ port' = target[2]
          /\ UNCHANGED <<autodiscover, file, runPort>>
  /\ UNCHANGED <<target, scanPending, books, listed>>

(***************************************************************************)
(* The list.                                                               *)
(***************************************************************************)
(* main_loop reads the configuration and starts the update check; the      *)
(* player may close the program before it shows anything                   *)
Start ==
  /\ screen = "start"
  /\ port' = file.port /\ autodiscover' = file.autodiscover
  /\ savedPort' = file.port /\ runPort' = file.port
  /\ BackgroundStart("update")
  /\ \/ screen' = "top" /\ scanPending' = file.autodiscover /\ listed' = TRUE
     \/ screen' = "over" /\ scanPending' = FALSE /\ UNCHANGED listed
  /\ UNCHANGED <<target, file, macs>>

Top ==
  /\ screen = "top"
  /\ screen' = "poll"
  /\ IF scanPending /\ ~Running
     THEN scanPending' = FALSE /\ BackgroundStart("scan")
     ELSE UNCHANGED <<scanPending, book, job>>
  /\ UNCHANGED <<target, settings, macs, listed>>

Leave(t) == screen' = "leaving" /\ target' = t /\ scanPending' = FALSE

PickHost ==
  /\ screen = "keys"
  /\ \E h \in book : Leave(h)
  /\ UNCHANGED <<settings, books, job, listed>>

AddHost ==
  /\ screen = "keys"
  /\ \E a \in Addresses : Leave(<<a, port>>) /\ book' = book \cup {<<a, port>>}
  /\ UNCHANGED <<settings, macs, job, listed>>

Exit_NoWait ==
  /\ screen \in {"top", "keys"}
  /\ screen' = "over" /\ target' = NoHost /\ scanPending' = FALSE
  /\ UNCHANGED <<settings, books, job, listed>>

(* "Exit", or the program closed from the HOME menu *)
Exit ==
  /\ screen \in {"top", "keys"}
  /\ Leave(NoHost)
  /\ UNCHANGED <<settings, books, job, listed>>

Opens ==
  /\ screen = "keys"
  /\ \/ screen' = "settings" /\ UNCHANGED target
     \/ \E h \in book : screen' = "options" /\ target' = h
  /\ UNCHANGED <<settings, scanPending, books, job, listed>>

(* a frame without a key, or B: back to the top of one of the two loops *)
NoKey ==
  /\ screen = "keys"
  /\ screen' \in {"poll", "top"}
  /\ UNCHANGED <<target, settings, scanPending, books, job, listed>>

(* prompt_for_host_options: rename and wake change nothing here *)
CloseOptions ==
  /\ screen = "options"
  /\ screen' = "top" /\ target' = NoHost
  /\ UNCHANGED <<settings, scanPending, books, job, listed>>

RemoveHost ==
  /\ screen = "options"
  /\ screen' = "top" /\ target' = NoHost
  /\ book' = book \ {target} /\ macs' = macs \ {target}
  /\ UNCHANGED <<settings, scanPending, job, listed>>

SetPort ==
  /\ screen = "settings"
  /\ port' \in Ports /\ runPort' = port'
  /\ UNCHANGED <<screen, target, savedPort, autodiscover, file, scanPending,
                 books, job, listed>>

SetAutodiscover ==
  /\ screen = "settings"
  /\ autodiscover' \in BOOLEAN
  /\ UNCHANGED <<screen, target, port, savedPort, file, scanPending, books, job,
                 runPort, listed>>

(* config_save *)
Save == file' = [port |-> port, autodiscover |-> autodiscover]

CloseSettings ==
  /\ screen = "settings"
  /\ screen' = "top" /\ Save
  /\ UNCHANGED <<target, port, savedPort, autodiscover, scanPending, books, job,
                 runPort, listed>>

(***************************************************************************)
(* The connection.                                                         *)
(***************************************************************************)
(* init_server; a host that is not paired may not tell its MAC address *)
ConnectSucceeds ==
  /\ screen = "connecting"
  /\ screen' = "host"
  /\ macs' \in {macs, macs \cup {target}}
  /\ UNCHANGED <<target, settings, scanPending, book, job, listed>>

ConnectFails ==
  /\ screen = "connecting"
  /\ screen' = "unreachable"
  /\ UNCHANGED <<target, settings, scanPending, books, job, listed>>

OpenStreamSettings ==
  /\ screen = "host"
  /\ screen' = "streamSettings"
  /\ UNCHANGED <<target, settings, scanPending, books, job, listed>>

CloseStreamSettings ==
  /\ screen = "streamSettings"
  /\ screen' = "host" /\ Save
  /\ UNCHANGED <<target, port, savedPort, autodiscover, scanPending, books, job,
                 runPort, listed>>

(* back to main_loop, which gives the port back and shows the list again, *)
(* or ends because the program was closed                                 *)
GiveBack(from) ==
  /\ screen = from
  /\ port' = savedPort /\ target' = NoHost
  /\ \/ screen' = "top" /\ scanPending' = autodiscover
     \/ screen' = "over" /\ UNCHANGED scanPending
  /\ UNCHANGED <<savedPort, autodiscover, file, books, job, runPort, listed>>

LeaveUnreachable == GiveBack("unreachable")
LeaveHost == GiveBack("host")

(* the console is switched off, or the program ended and is started again *)
Restart ==
  /\ screen # "start"
  /\ screen' = "start" /\ target' = NoHost /\ job' = Idle
  /\ scanPending' = FALSE /\ listed' = FALSE
  /\ UNCHANGED <<settings, books>>

MainSteps == PollDone \/ PollNothing \/ Waited \/ Top
Player ==
  \/ Start \/ PickHost \/ AddHost \/ Exit \/ Opens \/ NoKey \/ CloseOptions
  \/ RemoveHost \/ SetPort \/ SetAutodiscover \/ CloseSettings
  \/ OpenStreamSettings \/ CloseStreamSettings \/ LeaveUnreachable \/ LeaveHost
Network == ConnectSucceeds \/ ConnectFails \/ WorkerDone

Next == MainSteps \/ Player \/ Network \/ Restart

Spec == Init /\ [][Next]_vars
(* the loops run a frame at a time; a request ends by its timeout *)
FairSpec == Spec /\ WF_vars(MainSteps) /\ WF_vars(WorkerDone) /\ WF_vars(NoKey)

-----------------------------------------------------------------------------
(* Every variable has its type; a job has a kind exactly while it is there.  *)
TypeOK ==
  /\ screen \in Screens /\ target \in Hosts \cup {NoHost}
  /\ {port, savedPort, runPort, file.port} \subseteq Ports
  /\ {autodiscover, scanPending, listed, file.autodiscover} \subseteq BOOLEAN
  /\ book \subseteq Hosts /\ macs \subseteq Hosts
  /\ job.kind \in {"none", "update", "scan"}
  /\ job.phase \in {"idle", "running", "done"}
  /\ job.phase = "idle" => job = Idle

(* A connection, its pairing and its records go by the port of the chosen    *)
(* host; whatever became of it, the list shows and uses the player's port    *)
(* again (main_loop:2231-2297).                                              *)
PortLentAndGivenBack ==
  /\ Connected => port = target[2]
  /\ InList => port = runPort

(* No background job runs while main connects, pairs or streams: both would  *)
(* use the network and the books at once (background_wait in                 *)
(* prompt_for_address).  Nor does the program, once it has shown the list,   *)
(* shut the network down under a job.                                        *)
AloneOffTheList == Connected \/ (screen = "over" /\ listed) => ~Running

(* A scan that had to wait for the update check starts, unless the player    *)
(* leaves the list, or stays in a menu that does not poll.                   *)
ScanStarts ==
  []<>(screen = "poll") =>
    [](InList /\ scanPending => <>(~scanPending \/ ~InList))
=============================================================================
