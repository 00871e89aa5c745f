------------------------------- MODULE PairBook -------------------------------
(***************************************************************************)
(* Which hosts are paired: the record files of src/system/pair_record.cpp, *)
(* the client certificate of libgamestream/client.c and the code that      *)
(* keeps the two in step with the hosts (init_server, action_pair and      *)
(* action_unpair of src/n3ds_main.cpp), over several runs of the program.  *)
(*                                                                         *)
(* A record file is rewritten by removing it, opening it anew and writing  *)
(* its lines when it is closed; the console may lose power before each of  *)
(* these, and the file may fail to open.  A certificate is known by the    *)
(* number of its generation, an entry "address:port" by the host.          *)
(*                                                                         *)
(* Hosts are modelled from what the client sends and reads: a host trusts  *)
(* the certificate it was paired with last.  A GeForce host says over      *)
(* HTTPS whether it trusts the client, any other host is asked over plain  *)
(* HTTP, where it does not know who asks and answers no.                   *)
(***************************************************************************)
EXTENDS Naturals, Sequences

CONSTANTS
  Hosts,
  Nvidia,    (* the hosts that run NVIDIA software                          *)
  NoHost,
  MaxCerts   (* number of certificates made (bounds the model)              *)

ASSUME HostsAssumption == Nvidia \subseteq Hosts /\ NoHost \notin Hosts
ASSUME CertsAssumption == MaxCerts \in Nat

Absent == {NoHost}  (* the content of a file that does not exist *)

Paths == {"paired", "legacy", "confirmed"}

VARIABLES
  screen,      (* where the program is                                      *)
  at,          (* the host being connected to or shown                      *)
  serverPaired,(* server->paired                                            *)
  regenerated, (* cert_regenerated                                          *)
  certFile,    (* is there a usable certificate file                        *)
  cert,        (* number of the certificate                                 *)
  files,       (* the entries of each record file                           *)
  calls,       (* the calls into pair_record.cpp still to make              *)
  ops,         (* the file operations of the current call                   *)
  trust,       (* trust[h]: the certificate host h trusts, 0 for none       *)
  told,        (* history: hosts the player was told are paired             *)
  recleared,   (* history: records made with this certificate were cleared  *)
  unopened,    (* history: a file was not opened since the last Connect     *)
  broken       (* history: power was lost or a file not opened on the way   *)

bookVars == <<screen, at, serverPaired, regenerated, certFile, cert, files,
              calls, ops, trust, told, recleared, unopened, broken>>

Screens == {"off", "hosts", "query", "host"}
Busy == calls # <<>> \/ ops # <<>>

BookInit ==
  /\ screen = "off" /\ at = NoHost /\ serverPaired = FALSE
  /\ regenerated = FALSE /\ certFile = FALSE /\ cert = 0
  /\ \E S \in SUBSET Hosts :  (* what an older version of the program left *)
       files = [f \in Paths |-> IF f = "legacy" /\ S # {} THEN S ELSE Absent]
  /\ calls = <<>> /\ ops = <<>>
  /\ trust = [h \in Hosts |-> 0]
  /\ told = {} /\ recleared = FALSE /\ unopened = FALSE /\ broken = FALSE

-----------------------------------------------------------------------------
(* The record files.                                                       *)

Read(f) == IF files[f] = Absent THEN {} ELSE files[f]

(* list_paired_addresses                                                   *)
Listed == IF files["paired"] # Absent THEN files["paired"] ELSE Read("legacy")

Op(kind, f, S) == [kind |-> kind, file |-> f, hosts |-> S]

RewritePaired(S) ==
  << Op("remove", "paired", {}), Op("remove", "legacy", {}),
     Op("open", "paired", {}), Op("write", "paired", S) >>

RewriteConfirmed(S) ==
  << Op("remove", "confirmed", {}), Op("open", "confirmed", {}),
     Op("write", "confirmed", S) >>

(* Mutant: the address is written into the list without the others.        *)
Operations_AddAlone(call) ==
  LET h == call.host IN
  CASE call.name = "addPair" -> RewritePaired({h})
    [] call.name = "removePair" ->
         RewritePaired(Listed \ {h}) \o << Op("forget", "confirmed", {h}) >>
    [] call.name = "addConfirmed" ->
         RewriteConfirmed(Read("confirmed") \cup {h})
    [] call.name = "removeConfirmed" -> RewriteConfirmed(Read("confirmed") \ {h})
    [] call.name = "clearConfirmed" -> << Op("remove", "confirmed", {}) >>

(* What the functions of pair_record.cpp do after reading the file.        *)
(* "forget" is the call of remove_confirmed_pair_entry that ends           *)
(* remove_pair_address_entry, if it gets that far.                         *)
Operations(call) ==
  LET h == call.host IN
  CASE call.name = "addPair" ->
         IF h \in Listed THEN <<>> ELSE RewritePaired(Listed \cup {h})
    [] call.name = "removePair" ->
         RewritePaired(Listed \ {h}) \o << Op("forget", "confirmed", {h}) >>
    [] call.name = "addConfirmed" ->
         IF h \in Read("confirmed") THEN <<>>
         ELSE RewriteConfirmed(Read("confirmed") \cup {h})
    [] call.name = "removeConfirmed" -> RewriteConfirmed(Read("confirmed") \ {h})
    [] call.name = "clearConfirmed" -> << Op("remove", "confirmed", {}) >>

Call(name, h) == [name |-> name, host |-> h]

StartCall ==
  /\ calls # <<>> /\ ops = <<>>
  /\ calls' = Tail(calls) /\ ops' = Operations(Head(calls))
  /\ UNCHANGED <<screen, at, serverPaired, regenerated, certFile, cert, files,
                 trust, told, recleared, unopened,
                 broken>>

FileStep ==
  /\ ops # <<>>
  /\ LET op == Head(ops) IN
     CASE op.kind = "remove" ->
            files' = [files EXCEPT ![op.file] = Absent] /\ ops' = Tail(ops)
       [] op.kind = "open" ->
            files' = [files EXCEPT ![op.file] = {}] /\ ops' = Tail(ops)
       [] op.kind = "write" ->
            files' = [files EXCEPT ![op.file] = op.hosts] /\ ops' = Tail(ops)
       [] op.kind = "forget" ->
            files' = files /\ ops' = RewriteConfirmed(Read("confirmed") \ op.hosts)
  /\ UNCHANGED <<screen, at, serverPaired, regenerated, certFile, cert, calls,
                 trust, told, recleared, unopened,
                 broken>>

(* open_pair_record_for_write falls back to the old directory.             *)
OpenElsewhere ==
  /\ ops # <<>> /\ Head(ops).kind = "open" /\ Head(ops).file = "paired"
  /\ files' = [files EXCEPT !["legacy"] = {}]
  /\ ops' = << Op("write", "legacy", ops[2].hosts) >> \o SubSeq(ops, 3, Len(ops))
  /\ UNCHANGED <<screen, at, serverPaired, regenerated, certFile, cert, calls,
                 trust, told, recleared, unopened,
                 broken>>

(* The file cannot be opened: the call returns without a word.             *)
OpenFails ==
  /\ ops # <<>> /\ Head(ops).kind = "open"
  /\ ops' = <<>> /\ unopened' = TRUE /\ broken' = TRUE
  /\ UNCHANGED <<screen, at, serverPaired, regenerated, certFile, cert, files,
                 calls, trust, told, recleared>>

-----------------------------------------------------------------------------
(* The program.                                                            *)

StartProgram ==
  /\ screen = "off"
  /\ screen' = "hosts" /\ regenerated' = FALSE
  /\ UNCHANGED <<at, serverPaired, certFile, cert, files, calls, ops, trust, told,
                 recleared, unopened, broken>>

(* init_server, gs_init and load_cert: without a certificate it can use,   *)
(* the program makes one and remembers that until it ends.                 *)
Connect(h) ==
  /\ screen = "hosts"
  /\ certFile \/ cert < MaxCerts
  /\ screen' = "query" /\ at' = h /\ serverPaired' = FALSE
  /\ certFile' = TRUE
  /\ cert' = IF certFile THEN cert ELSE cert + 1
  /\ regenerated' = (regenerated \/ ~certFile)
  /\ told' = IF certFile THEN told ELSE {}
  /\ unopened' = FALSE
  /\ UNCHANGED <<files, calls, ops, trust, recleared, broken>>

(* Every connection of a run that made a certificate clears the list anew. *)
ClearFirst == IF regenerated THEN << Call("clearConfirmed", NoHost) >> ELSE <<>>

Recleared == recleared \/ (regenerated /\ told # {})

(* The host does not answer: init_server returns an error.                 *)
QueryFails ==
  /\ screen = "query"
  /\ screen' = "hosts" /\ at' = NoHost
  /\ calls' = ClearFirst /\ recleared' = Recleared
  /\ UNCHANGED <<serverPaired, regenerated, certFile, cert, files, ops, trust,
                 told, unopened, broken>>

(* Mutant: the confirmed records outlive the certificate.                  *)
QueryAnswered_KeepsConfirmed ==
  /\ screen = "query"
  /\ screen' = "host"
  /\ serverPaired' = IF at \in Nvidia THEN trust[at] = cert
                     ELSE at \in Read("confirmed")
  /\ calls' = << Call(IF serverPaired' THEN "addPair" ELSE "removePair", at) >>
  /\ UNCHANGED <<at, regenerated, certFile, cert, files, ops, trust, told, recleared, unopened,
                 broken>>

(* It answers: init_server settles what server->paired is.                 *)
QueryAnswered ==
  /\ screen = "query"
  /\ screen' = "host"
  /\ serverPaired' = (/\ ~regenerated
                      /\ IF at \in Nvidia THEN trust[at] = cert
                         ELSE at \in Read("confirmed"))
  /\ calls' = ClearFirst \o
       << Call(IF serverPaired' THEN "addPair" ELSE "removePair", at) >>
  /\ recleared' = Recleared
  /\ UNCHANGED <<at, regenerated, certFile, cert, files, ops, trust, told, unopened,
                 broken>>

(* Mutant: a host that answered is put into the list only.                 *)
PairSucceeds_ListOnly ==
  /\ screen = "host" /\ ~Busy /\ ~serverPaired
  /\ trust' = [trust EXCEPT ![at] = cert]
  /\ serverPaired' = TRUE /\ told' = told \cup {at}
  /\ calls' = << Call("addPair", at) >>
  /\ UNCHANGED <<screen, at, regenerated, certFile, cert, files, ops, recleared, unopened,
                 broken>>

(* action_pair: gs_pair succeeds.                                          *)
PairSucceeds ==
  /\ screen = "host" /\ ~Busy /\ ~serverPaired
  /\ trust' = [trust EXCEPT ![at] = cert]
  /\ serverPaired' = TRUE /\ told' = told \cup {at}
  /\ calls' = << Call("addPair", at), Call("addConfirmed", at) >>
  /\ UNCHANGED <<screen, at, regenerated, certFile, cert, files, ops, recleared, unopened,
                 broken>>

(* gs_pair fails, before or after the host has taken the certificate, and  *)
(* asks the host to forget the client, which it may hear.                  *)
PairFails ==
  /\ screen = "host" /\ ~Busy /\ ~serverPaired
  /\ \E t \in {0, trust[at], cert} : trust' = [trust EXCEPT ![at] = t]
  /\ UNCHANGED <<screen, at, serverPaired, regenerated, certFile, cert, files,
                 calls, ops, told, recleared, unopened,
                 broken>>

(* Mutant: unpairing leaves the host in the list.                          *)
Unpair_ConfirmedOnly ==
  /\ screen = "host" /\ ~Busy /\ serverPaired
  /\ \E t \in {0, trust[at]} : trust' = [trust EXCEPT ![at] = t]
  /\ serverPaired' = FALSE /\ told' = told \ {at}
  /\ calls' = << Call("removeConfirmed", at) >>
  /\ UNCHANGED <<screen, at, regenerated, certFile, cert, files, ops, recleared, unopened,
                 broken>>

(* action_unpair: the local records go whatever the host answers.          *)
Unpair ==
  /\ screen = "host" /\ ~Busy /\ serverPaired
  /\ \E t \in {0, trust[at]} : trust' = [trust EXCEPT ![at] = t]
  /\ serverPaired' = FALSE /\ told' = told \ {at}
  /\ calls' = << Call("removePair", at), Call("removeConfirmed", at) >>
  /\ UNCHANGED <<screen, at, regenerated, certFile, cert, files, ops, recleared, unopened,
                 broken>>

Back ==
  /\ screen = "host" /\ ~Busy
  /\ screen' = "hosts" /\ at' = NoHost /\ serverPaired' = FALSE
  /\ UNCHANGED <<regenerated, certFile, cert, files, calls, ops, trust, told,
                 recleared, unopened, broken>>

(* The program ends, or the console is switched off at any moment.         *)
Ends ==
  /\ screen # "off"
  /\ screen' = "off" /\ at' = NoHost /\ serverPaired' = FALSE
  /\ regenerated' = FALSE
  /\ calls' = <<>> /\ ops' = <<>>
  /\ broken' = (broken \/ Busy \/ screen = "query")
  /\ UNCHANGED <<certFile, cert, files, trust, told, recleared, unopened>>

(* Between two runs the certificate is deleted, or the clock set back      *)
(* before the day it was made.                                             *)
CertLost ==
  /\ screen = "off" /\ certFile
  /\ certFile' = FALSE
  /\ UNCHANGED <<screen, at, serverPaired, regenerated, cert, files, calls, ops,
                 trust, told, recleared, unopened,
                 broken>>

(* A step of the program waits for the calls it made before.               *)
Program ==
  \/ StartProgram \/ (\E h \in Hosts : ~Busy /\ Connect(h))
  \/ ~Busy /\ (QueryFails \/ QueryAnswered)
  \/ PairSucceeds \/ PairFails \/ Unpair \/ Back

Records == StartCall \/ FileStep \/ OpenElsewhere \/ OpenFails

BookNext == Program \/ Records \/ Ends \/ CertLost

BookSpec == BookInit /\ [][BookNext]_bookVars

-----------------------------------------------------------------------------
Content == (SUBSET Hosts) \cup {Absent}
CallNames == {"addPair", "removePair", "addConfirmed", "removeConfirmed",
              "clearConfirmed"}

(* Types; the address of a host is kept only while it is being dealt with. *)
BookTypeOK ==
  /\ screen \in Screens /\ at \in Hosts \cup {NoHost}
  /\ at = NoHost <=> screen \in {"off", "hosts"}
  /\ serverPaired \in BOOLEAN /\ regenerated \in BOOLEAN /\ certFile \in BOOLEAN
  /\ cert \in 0 .. MaxCerts
  /\ files \in [Paths -> Content]
  /\ calls \in Seq([name : CallNames, host : Hosts \cup {NoHost}])
  /\ ops \in Seq([kind : {"remove", "open", "write", "forget"}, file : Paths,
                  hosts : SUBSET Hosts])
  /\ trust \in [Hosts -> 0 .. MaxCerts]
  /\ told \subseteq Hosts
  /\ recleared \in BOOLEAN /\ unopened \in BOOLEAN /\ broken \in BOOLEAN

Undisturbed == ~broken /\ ~recleared

Settled == screen = "host" /\ ~Busy

(* The list of paired hosts agrees with what the menu of a host shows,     *)
(* also after a run that lost power while it rewrote the files.            *)
ListMatchesMenu ==
  Settled /\ ~unopened => (serverPaired <=> at \in Listed)

(* A host in the list of confirmed pairs trusts the certificate the client *)
(* has: what init_server concludes from that list is true.                 *)
ConfirmedIsTrusted ==
  (~Busy /\ screen \in {"hosts", "host"} /\ certFile /\ ~broken) =>
    \A h \in Read("confirmed") : trust[h] = cert

(* Pairing another host, or failing to, never costs a host its place in    *)
(* the list: the player was told it is paired, and has not unpaired it.    *)
ToldIsListed ==
  ~Busy /\ Undisturbed => told \subseteq Listed

(* A host the player was told is paired is still paired when he comes back *)
(* to it, in a later run of the program.                                   *)
PairingLastsNextRun ==
  Settled /\ Undisturbed /\ at \in told => serverPaired
=============================================================================
