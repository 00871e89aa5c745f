------------------------------ MODULE Card_proofs ------------------------------
(* Proofs about what is kept on the SD card: the records of paired hosts,  *)
(* for any hosts and any number of certificates, and the settings, for any *)
(* values of the player's choices and files cut off after any line.        *)
EXTENDS PairBook, Settings, SequenceTheorems, TLAPS

-----------------------------------------------------------------------------
(* Tuples.                                                                 *)

LEMMA Joined ==
  ASSUME NEW S, NEW s \in Seq(S), NEW t \in Seq(S), NEW u \in Seq(S),
         Len(u) = Len(s) + Len(t),
         \A i \in 1 .. Len(s) : u[i] = s[i],
         \A i \in 1 .. Len(t) : u[Len(s) + i] = t[i]
  PROVE  s \o t = u
<1> DEFINE c == s \o t
<1>1. c \in Seq(S) /\ Len(c) = Len(u)
  BY ConcatProperties
<1>2. \A i \in 1 .. Len(c) : c[i] = u[i]
  <2> TAKE i \in 1 .. Len(c)
  <2>1. CASE i <= Len(s)
    BY <2>1, <1>1, ConcatProperties
  <2>2. CASE i > Len(s)
    <3>1. i - Len(s) \in 1 .. Len(t) /\ i = Len(s) + (i - Len(s))
      BY <2>2, <1>1
    <3>2. c[i] = t[i - Len(s)]
      BY <2>2, <3>1, <1>1, ConcatProperties
    <3>3. u[Len(s) + (i - Len(s))] = t[i - Len(s)]
      BY <3>1
    <3>4. QED
      BY <3>1, <3>2, <3>3
  <2>3. QED
    BY <2>1, <2>2, <1>1
<1> HIDE DEF c
<1>3. c = u
  BY <1>1, <1>2, SeqEqual
<1>4. QED
  BY <1>3 DEF c

LEMMA JoinOne ==
  ASSUME NEW a, NEW b
  PROVE  <<a>> \o <<b>> = <<a, b>>
<1> DEFINE S == {a, b}
           s == <<a>>
           t == <<b>>
           u == <<a, b>>
<1>1. /\ s \in Seq(S) /\ t \in Seq(S) /\ u \in Seq(S)
      /\ Len(s) = 1 /\ Len(t) = 1 /\ Len(u) = 2
  OBVIOUS
<1>2. u[1] = s[1] /\ u[2] = t[1]
  OBVIOUS
<1> HIDE DEF S, s, t, u
<1>3. \A i \in 1 .. Len(s) : u[i] = s[i]
  BY <1>1, <1>2
<1>4. \A i \in 1 .. Len(t) : u[Len(s) + i] = t[i]
  BY <1>1, <1>2
<1>5. Len(u) = Len(s) + Len(t)
  BY <1>1
<1>6. s \o t = u
  BY <1>1, <1>3, <1>4, <1>5, Joined
<1>7. QED
  BY <1>6 DEF s, t, u

LEMMA JoinFour ==
  ASSUME NEW a, NEW b, NEW c, NEW d, NEW e
  PROVE  <<a, b, c, d>> \o <<e>> = <<a, b, c, d, e>>
<1> DEFINE S == {a, b, c, d, e}
           s == <<a, b, c, d>>
           t == <<e>>
           u == <<a, b, c, d, e>>
<1>1. /\ s \in Seq(S) /\ t \in Seq(S) /\ u \in Seq(S)
      /\ Len(s) = 4 /\ Len(t) = 1 /\ Len(u) = 5
  OBVIOUS
<1>2. \A i \in 1 .. 4 : u[i] = s[i]
  OBVIOUS
<1>3. u[5] = t[1]
  OBVIOUS
<1> HIDE DEF S, s, t, u
<1>4. \A i \in 1 .. Len(s) : u[i] = s[i]
  BY <1>1, <1>2
<1>5. \A i \in 1 .. Len(t) : u[Len(s) + i] = t[i]
  BY <1>1, <1>3
<1>6. Len(u) = Len(s) + Len(t)
  BY <1>1
<1>7. s \o t = u
  BY <1>1, <1>4, <1>5, <1>6, Joined
<1>8. QED
  BY <1>7 DEF s, t, u

LEMMA JoinNone ==
  ASSUME NEW a
  PROVE  <<>> \o <<a>> = <<a>> /\ <<a>> \o <<>> = <<a>>
<1>1. <<a>> \in Seq({a})
  OBVIOUS
<1>2. QED
  BY <1>1, ConcatEmptySeq

(* What follows the opening of a file.                                     *)
LEMMA RestOfTwo ==
  ASSUME NEW a, NEW b
  PROVE  SubSeq(<<a, b>>, 3, Len(<<a, b>>)) = <<>>
<1>1. Len(<<a, b>>) = 2
  OBVIOUS
<1>2. QED
  BY <1>1, SubSeqEmpty

LEMMA RestOfThree ==
  ASSUME NEW a, NEW b, NEW c
  PROVE  SubSeq(<<a, b, c>>, 3, Len(<<a, b, c>>)) = <<c>>
<1> DEFINE S == {a, b, c}
           s == <<a, b, c>>
           t == <<c>>
           u == SubSeq(s, 3, 3)
<1>1. /\ s \in Seq(S) /\ Len(s) = 3 /\ s[3] = c
      /\ t \in Seq(S) /\ Len(t) = 1 /\ t[1] = c
  OBVIOUS
<1> HIDE DEF S, s, t
<1>2. u \in Seq(S) /\ Len(u) = 1 /\ u[1] = s[3]
  <2>1. \A i \in 3 .. 3 : s[i] \in S
    BY <1>1 DEF S
  <2> HIDE DEF u
  <2>2. /\ u \in Seq(S)
        /\ Len(u) = IF 3 <= 3 THEN 3 - 3 + 1 ELSE 0
        /\ \A i \in 1 .. 3 - 3 + 1 : u[i] = s[3 + i - 1]
    BY <2>1, SubSeqProperties DEF u
  <2>3. QED
    BY <2>2
<1> HIDE DEF u
<1>3. u = t
  BY <1>1, <1>2, SeqEqual
<1>4. QED
  BY <1>1, <1>3 DEF s, t, u

-----------------------------------------------------------------------------
(* The records of paired hosts.                                            *)

(* The file operations that are left of a call, which rewrites a list as S *)
(* whatever was in the files: a list of a later or an older name is gone   *)
(* before the new one is written.                                          *)
Remove(f) == Op("remove", f, {})
Open(f) == Op("open", f, {})
Write(f, S) == Op("write", f, S)
StrikeOut == Op("forget", "confirmed", {at})

Adding(S) ==
  \/ ops = <<Remove("paired"), Remove("legacy"), Open("paired"), Write("paired", S)>>
  \/ /\ files["paired"] = Absent
     /\ \/ ops = <<Remove("legacy"), Open("paired"), Write("paired", S)>>
        \/ ops = <<Open("paired"), Write("paired", S)>> /\ files["legacy"] = Absent
        \/ ops = <<Write("legacy", S)>>
  \/ ops = <<Write("paired", S)>>

Removing(S) ==
  \/ ops = <<Remove("paired"), Remove("legacy"), Open("paired"), Write("paired", S), StrikeOut>>
  \/ /\ files["paired"] = Absent
     /\ \/ ops = <<Remove("legacy"), Open("paired"), Write("paired", S), StrikeOut>>
        \/ ops = <<Open("paired"), Write("paired", S), StrikeOut>> /\ files["legacy"] = Absent
        \/ ops = <<Write("legacy", S), StrikeOut>>
  \/ ops = <<Write("paired", S), StrikeOut>>

Confirming(S) ==
  \/ ops = <<Remove("confirmed"), Open("confirmed"), Write("confirmed", S)>>
  \/ ops = <<Open("confirmed"), Write("confirmed", S)>>
  \/ ops = <<Write("confirmed", S)>>

(* When the operations that are left are done, the list of paired hosts is *)
(* X and that of confirmed ones Y.                                         *)
Becomes(X, Y) ==
  \/ ops = <<>> /\ X = Listed /\ Y = Read("confirmed")
  \/ Adding(X) /\ Y = Read("confirmed")
  \/ Removing(X) /\ at \in Hosts /\ Y = Read("confirmed") \ {at}
  \/ ops = <<StrikeOut>> /\ X = Listed /\ at \in Hosts /\ Y = Read("confirmed") \ {at}
  \/ X = Listed /\ Confirming(Y)
  \/ ops = <<Remove("confirmed")>> /\ X = Listed /\ Y = {}

(* The calls that init_server, action_pair and action_unpair leave to do.  *)
Clear == Call("clearConfirmed", NoHost)
Settle == Call(IF serverPaired THEN "addPair" ELSE "removePair", at)
Confirm == Call("addConfirmed", at)
Unconfirm == Call("removeConfirmed", at)

CallsInv ==
  \/ calls = <<>>
  \/ screen = "hosts" /\ calls = <<Clear>>
  \/ /\ screen = "host"
     /\ \/ calls = <<Settle>>
        \/ calls = <<Clear, Settle>> /\ ~serverPaired
        \/ calls \in {<<Settle, Confirm>>, <<Confirm>>} /\ serverPaired /\ trust[at] = cert
        \/ calls \in {<<Settle, Unconfirm>>, <<Unconfirm>>} /\ ~serverPaired

(* Who will not be in the list of confirmed hosts when the calls are done. *)
Clearing == calls \in {<<Clear>>, <<Clear, Settle>>}
Doomed(h) ==
  \/ Clearing \/ (screen = "query" /\ regenerated)
  \/ h = at /\ ~serverPaired /\ calls \in {<<Settle>>, <<Settle, Unconfirm>>, <<Unconfirm>>}
Pairing == calls = <<Settle, Confirm>>

(* What the menu shows is X, once the call that settles it is done; who is *)
(* in Y trusts the certificate, or will be taken out; and what the player  *)
(* was told is in X and Y, or will be put there.                           *)
MenuInv(X) ==
  screen = "host" /\ ~unopened /\ calls \in {<<>>, <<Confirm>>, <<Unconfirm>>} =>
    (serverPaired <=> at \in X)
TrustInv(Y) ==
  ~broken =>
    /\ certFile => \A h \in Y : trust[h] = cert \/ Doomed(h)
    /\ screen = "host" /\ ~serverPaired /\ calls \in {<<>>, <<Unconfirm>>} => at \notin Y
ToldInv(X, Y) ==
  Undisturbed =>
    /\ \A h \in told : /\ trust[h] = cert
                       /\ h \in X \/ (h = at /\ Pairing)
                       /\ h \in Y \/ (h = at /\ (Pairing \/ calls = <<Confirm>>))
    /\ screen = "host" /\ at \in told => serverPaired
    /\ Clearing => told = {}

Promises(X, Y) == MenuInv(X) /\ TrustInv(Y) /\ ToldInv(X, Y)

BookTypes ==
  /\ screen \in Screens /\ at \in Hosts \cup {NoHost}
  /\ at = NoHost <=> screen \in {"off", "hosts"}
  /\ serverPaired \in BOOLEAN /\ regenerated \in BOOLEAN /\ certFile \in BOOLEAN
  /\ cert \in 0 .. MaxCerts
  /\ files \in [Paths -> Content]
  /\ trust \in [Hosts -> 0 .. MaxCerts]
  /\ told \subseteq Hosts
  /\ recleared \in BOOLEAN /\ unopened \in BOOLEAN /\ broken \in BOOLEAN

BookIInv ==
  /\ BookTypes /\ CallsInv
  /\ \E X \in SUBSET Hosts, Y \in SUBSET Hosts : Becomes(X, Y) /\ Promises(X, Y)

Files == files \in [Paths -> Content] /\ at \in Hosts \cup {NoHost}

(* A list of hosts is not the mark of a file that does not exist.          *)
LEMMA ListIsThere ==
  ASSUME NEW S \in SUBSET Hosts
  PROVE  S # Absent
BY HostsAssumption DEF Absent

(* What is read from the files are hosts.                                  *)
LEMMA ReadHosts ==
  ASSUME Files
  PROVE  Listed \in SUBSET Hosts /\ Read("confirmed") \in SUBSET Hosts
<1>1. \A f \in Paths : files[f] \in SUBSET Hosts \/ files[f] = Absent
  BY DEF Files, Content
<1>2. \A f \in Paths : Read(f) \in SUBSET Hosts
  BY <1>1 DEF Read
<1>3. {"paired", "legacy", "confirmed"} \subseteq Paths
  BY DEF Paths
<1>4. QED
  BY <1>1, <1>2, <1>3 DEF Listed

(* One operation.                                                          *)
LEMMA Removes ==
  ASSUME NEW f, FileStep, Head(ops) = Remove(f)
  PROVE  files' = [files EXCEPT ![f] = Absent] /\ ops' = Tail(ops)
<1>1. Head(ops).kind = "remove" /\ Head(ops).file = f
  BY DEF Remove, Op
<1>2. QED
  BY <1>1 DEF FileStep

LEMMA Opens ==
  ASSUME NEW f, FileStep, Head(ops) = Open(f)
  PROVE  files' = [files EXCEPT ![f] = {}] /\ ops' = Tail(ops)
<1>1. Head(ops).kind = "open" /\ Head(ops).file = f
  BY DEF Open, Op
<1>2. QED
  BY <1>1 DEF FileStep

LEMMA Writes ==
  ASSUME NEW f, NEW S, FileStep, Head(ops) = Write(f, S)
  PROVE  files' = [files EXCEPT ![f] = S] /\ ops' = Tail(ops)
<1>1. Head(ops).kind = "write" /\ Head(ops).file = f /\ Head(ops).hosts = S
  BY DEF Write, Op
<1>2. QED
  BY <1>1 DEF FileStep

LEMMA Forgets ==
  ASSUME FileStep, Head(ops) = StrikeOut
  PROVE  /\ files' = files
         /\ ops' = <<Remove("confirmed"), Open("confirmed"),
                     Write("confirmed", Read("confirmed") \ {at})>>
<1>1. Head(ops).kind = "forget" /\ Head(ops).hosts = {at}
  BY DEF StrikeOut, Op
<1>2. files' = files /\ ops' = RewriteConfirmed(Read("confirmed") \ {at})
  BY <1>1 DEF FileStep
<1>3. QED
  BY <1>2 DEF RewriteConfirmed, Remove, Open, Write

(* The rewriting of the list goes on: what it becomes stays the same.      *)
LEMMA AddingGoesOn ==
  ASSUME Files, NEW X \in SUBSET Hosts, Adding(X), FileStep
  PROVE  /\ Adding(X)' \/ (ops' = <<>> /\ X = Listed')
         /\ Read("confirmed")' = Read("confirmed")
<1> USE DEF Files, Paths
<1>0. X # Absent /\ {} # Absent
  BY ListIsThere
<1>1. CASE ops = <<Remove("paired"), Remove("legacy"), Open("paired"), Write("paired", X)>>
  <2>1. /\ files' = [files EXCEPT !["paired"] = Absent]
        /\ ops' = <<Remove("legacy"), Open("paired"), Write("paired", X)>>
    BY <1>1, Removes
  <2>2. QED
    BY <2>1 DEF Adding, Read
<1>2. CASE /\ files["paired"] = Absent
           /\ ops = <<Remove("legacy"), Open("paired"), Write("paired", X)>>
  <2>1. /\ files' = [files EXCEPT !["legacy"] = Absent]
        /\ ops' = <<Open("paired"), Write("paired", X)>>
    BY <1>2, Removes
  <2>2. QED
    BY <1>2, <2>1 DEF Adding, Read
<1>3. CASE ops = <<Open("paired"), Write("paired", X)>>
  <2>1. /\ files' = [files EXCEPT !["paired"] = {}]
        /\ ops' = <<Write("paired", X)>>
    BY <1>3, Opens
  <2>2. QED
    BY <2>1 DEF Adding, Read
<1>4. CASE ops = <<Write("paired", X)>>
  <2>1. /\ files' = [files EXCEPT !["paired"] = X]
        /\ ops' = <<>>
    BY <1>4, Writes
  <2>2. QED
    BY <1>0, <2>1 DEF Listed, Read
<1>5. CASE files["paired"] = Absent /\ ops = <<Write("legacy", X)>>
  <2>1. /\ files' = [files EXCEPT !["legacy"] = X]
        /\ ops' = <<>>
    BY <1>5, Writes
  <2>2. QED
    BY <1>0, <1>5, <2>1 DEF Listed, Read
<1>6. QED
  BY <1>1, <1>2, <1>3, <1>4, <1>5 DEF Adding

LEMMA RemovingGoesOn ==
  ASSUME Files, NEW X \in SUBSET Hosts, Removing(X), FileStep
  PROVE  /\ Removing(X)' \/ (ops' = <<StrikeOut>> /\ X = Listed')
         /\ Read("confirmed")' = Read("confirmed")
<1> USE DEF Files, Paths
<1>0. X # Absent /\ {} # Absent
  BY ListIsThere
<1>a. StrikeOut' = StrikeOut
  BY DEF StrikeOut, Op, FileStep
<1>1. CASE ops = <<Remove("paired"), Remove("legacy"), Open("paired"),
                  Write("paired", X), StrikeOut>>
  <2>1. /\ files' = [files EXCEPT !["paired"] = Absent]
        /\ ops' = <<Remove("legacy"), Open("paired"), Write("paired", X), StrikeOut>>
    BY <1>1, Removes
  <2>2. QED
    BY <1>a, <2>1 DEF Removing, Read
<1>2. CASE /\ files["paired"] = Absent
           /\ ops = <<Remove("legacy"), Open("paired"), Write("paired", X), StrikeOut>>
  <2>1. /\ files' = [files EXCEPT !["legacy"] = Absent]
        /\ ops' = <<Open("paired"), Write("paired", X), StrikeOut>>
    BY <1>2, Removes
  <2>2. QED
    BY <1>a, <1>2, <2>1 DEF Removing, Read
<1>3. CASE ops = <<Open("paired"), Write("paired", X), StrikeOut>>
  <2>1. /\ files' = [files EXCEPT !["paired"] = {}]
        /\ ops' = <<Write("paired", X), StrikeOut>>
    BY <1>3, Opens
  <2>2. QED
    BY <1>a, <2>1 DEF Removing, Read
<1>4. CASE ops = <<Write("paired", X), StrikeOut>>
  <2>1. /\ files' = [files EXCEPT !["paired"] = X]
        /\ ops' = <<StrikeOut>>
    BY <1>4, Writes
  <2>2. QED
    BY <1>0, <2>1 DEF Listed, Read
<1>5. CASE files["paired"] = Absent /\ ops = <<Write("legacy", X), StrikeOut>>
  <2>1. /\ files' = [files EXCEPT !["legacy"] = X]
        /\ ops' = <<StrikeOut>>
    BY <1>5, Writes
  <2>2. QED
    BY <1>0, <1>5, <2>1 DEF Listed, Read
<1>6. QED
  BY <1>1, <1>2, <1>3, <1>4, <1>5 DEF Removing

LEMMA ConfirmingGoesOn ==
  ASSUME Files, NEW Y \in SUBSET Hosts, Confirming(Y), FileStep
  PROVE  /\ Confirming(Y)' \/ (ops' = <<>> /\ Y = Read("confirmed")')
         /\ Listed' = Listed
<1> USE DEF Files, Paths
<1>1. CASE ops = <<Remove("confirmed"), Open("confirmed"), Write("confirmed", Y)>>
  <2>1. /\ files' = [files EXCEPT !["confirmed"] = Absent]
        /\ ops' = <<Open("confirmed"), Write("confirmed", Y)>>
    BY <1>1, Removes
  <2>2. QED
    BY <2>1 DEF Confirming, Listed, Read
<1>2. CASE ops = <<Open("confirmed"), Write("confirmed", Y)>>
  <2>1. /\ files' = [files EXCEPT !["confirmed"] = {}]
        /\ ops' = <<Write("confirmed", Y)>>
    BY <1>2, Opens
  <2>2. QED
    BY <2>1 DEF Confirming, Listed, Read
<1>3. CASE ops = <<Write("confirmed", Y)>>
  <2>1. /\ files' = [files EXCEPT !["confirmed"] = Y]
        /\ ops' = <<>>
    BY <1>3, Writes
  <2>2. QED
    BY <2>1, ListIsThere DEF Listed, Read
<1>4. QED
  BY <1>1, <1>2, <1>3 DEF Confirming

(* A file operation keeps what the lists become.                           *)
LEMMA FileStepKeeps ==
  ASSUME Files, NEW X \in SUBSET Hosts, NEW Y \in SUBSET Hosts,
         Becomes(X, Y), FileStep
  PROVE  Becomes(X, Y)'
<1>a. at' = at /\ ops # <<>> /\ StrikeOut' = StrikeOut
  BY DEF FileStep, StrikeOut, Op
<1>1. CASE Adding(X) /\ Y = Read("confirmed")
  BY <1>1, AddingGoesOn DEF Becomes
<1>2. CASE Removing(X) /\ at \in Hosts /\ Y = Read("confirmed") \ {at}
  BY <1>a, <1>2, RemovingGoesOn DEF Becomes
<1>3. CASE /\ ops = <<StrikeOut>> /\ X = Listed
           /\ at \in Hosts /\ Y = Read("confirmed") \ {at}
  <2>1. /\ files' = files
        /\ ops' = <<Remove("confirmed"), Open("confirmed"), Write("confirmed", Y)>>
    BY <1>3, Forgets
  <2>2. QED
    BY <1>a, <1>3, <2>1 DEF Becomes, Confirming, Listed, Read
<1>4. CASE X = Listed /\ Confirming(Y)
  BY <1>4, ConfirmingGoesOn DEF Becomes
<1>5. CASE ops = <<Remove("confirmed")>> /\ X = Listed /\ Y = {}
  <2>1. /\ files' = [files EXCEPT !["confirmed"] = Absent]
        /\ ops' = <<>>
    BY <1>5, Removes
  <2>2. QED
    BY <1>5, <2>1 DEF Files, Paths, Becomes, Listed, Read
<1>6. QED
  BY <1>a, <1>1, <1>2, <1>3, <1>4, <1>5 DEF Becomes

(* So does opening the file in the old directory.                          *)
LEMMA ElsewhereKeeps ==
  ASSUME Files, NEW X \in SUBSET Hosts, NEW Y \in SUBSET Hosts,
         Becomes(X, Y), OpenElsewhere
  PROVE  Becomes(X, Y)'
<1>a. /\ at' = at /\ StrikeOut' = StrikeOut
      /\ files' = [files EXCEPT !["legacy"] = {}]
      /\ Head(ops).kind = "open" /\ Head(ops).file = "paired" /\ ops # <<>>
      /\ ops' = << Op("write", "legacy", ops[2].hosts) >> \o SubSeq(ops, 3, Len(ops))
  BY DEF OpenElsewhere, StrikeOut, Op
<1>b. Read("confirmed")' = Read("confirmed")
  BY <1>a DEF Files, Paths, Read
<1>1. CASE Adding(X) /\ Y = Read("confirmed")
  <2>1. ops = <<Open("paired"), Write("paired", X)>> /\ files["paired"] = Absent
    BY <1>a, <1>1 DEF Adding, Remove, Open, Write, Op
  <2>2. SubSeq(ops, 3, Len(ops)) = <<>> /\ ops[2].hosts = X
    BY <2>1, RestOfTwo DEF Write, Op
  <2>3. ops' = <<Write("legacy", X)>>
    BY <1>a, <2>2, JoinNone DEF Write
  <2>4. QED
    BY <1>1, <1>a, <1>b, <2>1, <2>3 DEF Files, Paths, Becomes, Adding
<1>2. CASE Removing(X) /\ at \in Hosts /\ Y = Read("confirmed") \ {at}
  <2>1. /\ ops = <<Open("paired"), Write("paired", X), StrikeOut>>
        /\ files["paired"] = Absent
    BY <1>a, <1>2 DEF Removing, Remove, Open, Write, Op
  <2>2. SubSeq(ops, 3, Len(ops)) = <<StrikeOut>> /\ ops[2].hosts = X
    BY <2>1, RestOfThree DEF Write, Op
  <2>3. ops' = <<Write("legacy", X), StrikeOut>>
    BY <1>a, <2>2, JoinOne DEF Write
  <2>4. QED
    BY <1>2, <1>a, <1>b, <2>1, <2>3 DEF Files, Paths, Becomes, Removing
<1>3. CASE ops = <<StrikeOut>> \/ ops = <<Remove("confirmed")>>
  BY <1>a, <1>3 DEF StrikeOut, Remove, Op
<1>4. CASE Confirming(Y)
  BY <1>a, <1>4 DEF Confirming, Remove, Open, Write, Op
<1>5. QED
  BY <1>a, <1>1, <1>2, <1>3, <1>4 DEF Becomes

(* A call begins: it decides from the files what they become.              *)
LEMMA CallBegins ==
  ASSUME NEW X, NEW Y, X = Listed, Y = Read("confirmed"),
         NEW call, ops' = Operations(call), UNCHANGED <<files, at>>
  PROVE  /\ call = Call("addPair", at) => Becomes(X \cup {at}, Y)'
         /\ call = Call("removePair", at) /\ at \in Hosts => Becomes(X \ {at}, Y \ {at})'
         /\ call = Confirm => Becomes(X, Y \cup {at})'
         /\ call = Unconfirm => Becomes(X, Y \ {at})'
         /\ call = Clear => Becomes(X, {})'
<1>0. Listed' = X /\ Read("confirmed")' = Y /\ at' = at
  BY DEF Listed, Read
<1>1. ASSUME call = Call("addPair", at) PROVE Becomes(X \cup {at}, Y)'
  <2>1. call.name = "addPair" /\ call.host = at
    BY <1>1 DEF Call
  <2>2. ops' = IF at \in X THEN <<>> ELSE RewritePaired(X \cup {at})
    BY <2>1 DEF Operations
  <2>3. CASE at \in X
    <3>1. X \cup {at} = X
      BY <2>3
    <3>2. QED
      BY <1>0, <2>2, <2>3, <3>1 DEF Becomes
  <2>4. CASE at \notin X
    <3>1. Adding(X \cup {at})'
      BY <1>0, <2>2, <2>4 DEF Adding, RewritePaired, Remove, Open, Write
    <3>2. QED
      BY <1>0, <3>1 DEF Becomes
  <2>5. QED
    BY <2>3, <2>4
<1>2. ASSUME call = Call("removePair", at), at \in Hosts PROVE Becomes(X \ {at}, Y \ {at})'
  <2>1. call.name = "removePair" /\ call.host = at
    BY <1>2 DEF Call
  <2>2. ops' = RewritePaired(X \ {at}) \o <<Op("forget", "confirmed", {at})>>
    BY <2>1 DEF Operations
  <2>3. ops' = <<Remove("paired"), Remove("legacy"), Open("paired"),
                 Write("paired", X \ {at}), StrikeOut>>
    BY <2>2, JoinFour DEF RewritePaired, Remove, Open, Write, StrikeOut
  <2>4. StrikeOut' = StrikeOut
    BY DEF StrikeOut, Op
  <2>5. Removing(X \ {at})'
    BY <1>0, <2>3, <2>4 DEF Removing
  <2>6. QED
    BY <1>0, <1>2, <2>5 DEF Becomes
<1>3. ASSUME call = Confirm PROVE Becomes(X, Y \cup {at})'
  <2>1. call.name = "addConfirmed" /\ call.host = at
    BY <1>3 DEF Call, Confirm
  <2>2. ops' = IF at \in Y THEN <<>> ELSE RewriteConfirmed(Y \cup {at})
    BY <2>1 DEF Operations
  <2>3. CASE at \in Y
    <3>1. Y \cup {at} = Y
      BY <2>3
    <3>2. QED
      BY <1>0, <2>2, <2>3, <3>1 DEF Becomes
  <2>4. CASE at \notin Y
    <3>1. Confirming(Y \cup {at})'
      BY <1>0, <2>2, <2>4 DEF Confirming, RewriteConfirmed, Remove, Open, Write
    <3>2. QED
      BY <1>0, <3>1 DEF Becomes
  <2>5. QED
    BY <2>3, <2>4
<1>4. ASSUME call = Unconfirm PROVE Becomes(X, Y \ {at})'
  <2>1. call.name = "removeConfirmed" /\ call.host = at
    BY <1>4 DEF Call, Unconfirm
  <2>2. ops' = RewriteConfirmed(Y \ {at})
    BY <2>1 DEF Operations
  <2>3. Confirming(Y \ {at})'
    BY <1>0, <2>2 DEF Confirming, RewriteConfirmed, Remove, Open, Write
  <2>4. QED
    BY <1>0, <2>3 DEF Becomes
<1>5. ASSUME call = Clear PROVE Becomes(X, {})'
  <2>1. call.name = "clearConfirmed"
    BY <1>5 DEF Call, Clear
  <2>2. ops' = <<Remove("confirmed")>>
    BY <2>1 DEF Operations, Remove
  <2>3. QED
    BY <1>0, <2>2 DEF Becomes
<1>6. QED
  BY <1>1, <1>2, <1>3, <1>4, <1>5


OpKinds == [kind : {"remove", "open", "write", "forget"}, file : Paths,
            hosts : SUBSET Hosts]

LEMMA OpsTypes ==
  ASSUME NEW X \in SUBSET Hosts, NEW Y \in SUBSET Hosts, Becomes(X, Y)
  PROVE  ops \in Seq(OpKinds)
<1>1. /\ Remove("paired") \in OpKinds /\ Remove("legacy") \in OpKinds
      /\ Remove("confirmed") \in OpKinds
      /\ Open("paired") \in OpKinds /\ Open("confirmed") \in OpKinds
  BY DEF Remove, Open, Op, OpKinds, Paths
<1>2. /\ Write("paired", X) \in OpKinds /\ Write("legacy", X) \in OpKinds
      /\ Write("confirmed", Y) \in OpKinds
  BY DEF Write, Op, OpKinds, Paths
<1>3. at \in Hosts => StrikeOut \in OpKinds
  BY DEF StrikeOut, Op, OpKinds, Paths
<1>4. /\ <<>> \in Seq(OpKinds)
      /\ \A a, b, c, d, e \in OpKinds :
           /\ <<a>> \in Seq(OpKinds) /\ <<a, b>> \in Seq(OpKinds)
           /\ <<a, b, c>> \in Seq(OpKinds) /\ <<a, b, c, d>> \in Seq(OpKinds)
           /\ <<a, b, c, d, e>> \in Seq(OpKinds)
  OBVIOUS
<1>5. CASE Adding(X)
  <2>1. /\ <<Remove("paired"), Remove("legacy"), Open("paired"), Write("paired", X)>>
             \in Seq(OpKinds)
        /\ <<Remove("legacy"), Open("paired"), Write("paired", X)>> \in Seq(OpKinds)
        /\ <<Open("paired"), Write("paired", X)>> \in Seq(OpKinds)
        /\ <<Write("paired", X)>> \in Seq(OpKinds)
        /\ <<Write("legacy", X)>> \in Seq(OpKinds)
    BY <1>1, <1>2, <1>4
  <2>2. QED
    BY <1>5, <2>1, Zenon DEF Adding
<1>6. CASE Removing(X) /\ at \in Hosts
  <2>1. /\ <<Remove("paired"), Remove("legacy"), Open("paired"), Write("paired", X),
             StrikeOut>> \in Seq(OpKinds)
        /\ <<Remove("legacy"), Open("paired"), Write("paired", X), StrikeOut>>
             \in Seq(OpKinds)
        /\ <<Open("paired"), Write("paired", X), StrikeOut>> \in Seq(OpKinds)
        /\ <<Write("paired", X), StrikeOut>> \in Seq(OpKinds)
        /\ <<Write("legacy", X), StrikeOut>> \in Seq(OpKinds)
    BY <1>1, <1>2, <1>3, <1>4, <1>6
  <2>2. QED
    BY <1>6, <2>1, Zenon DEF Removing
<1>7. CASE Confirming(Y)
  <2>1. /\ <<Remove("confirmed"), Open("confirmed"), Write("confirmed", Y)>>
             \in Seq(OpKinds)
        /\ <<Open("confirmed"), Write("confirmed", Y)>> \in Seq(OpKinds)
        /\ <<Write("confirmed", Y)>> \in Seq(OpKinds)
    BY <1>1, <1>2, <1>4
  <2>2. QED
    BY <1>7, <2>1, Zenon DEF Confirming
<1>8. QED
  BY <1>1, <1>3, <1>4, <1>5, <1>6, <1>7, Zenon DEF Becomes

(* The calls are told apart, before a step and after it.                   *)
Different ==
  /\ Clear # Settle /\ Clear # Confirm /\ Clear # Unconfirm
  /\ Settle # Confirm /\ Settle # Unconfirm /\ Confirm # Unconfirm

LEMMA CallsDiffer == Different /\ Different'
BY DEF Different, Clear, Settle, Confirm, Unconfirm, Call

(* While the program waits for its calls it is what it was.                *)
LEMMA StartCallKeeps ==
  ASSUME BookIInv, StartCall
  PROVE  /\ CallsInv'
         /\ \E X \in SUBSET Hosts, Y \in SUBSET Hosts : Becomes(X, Y)' /\ Promises(X, Y)'
<1>1. PICK X \in SUBSET Hosts, Y \in SUBSET Hosts : Becomes(X, Y) /\ Promises(X, Y)
  BY DEF BookIInv
<1>2. /\ calls # <<>> /\ ops = <<>>
      /\ calls' = Tail(calls) /\ ops' = Operations(Head(calls))
      /\ UNCHANGED <<screen, at, serverPaired, regenerated, certFile, cert, files,
                     trust, told, recleared, unopened, broken>>
  BY DEF StartCall
<1>3. /\ Clear' = Clear /\ Settle' = Settle
      /\ Confirm' = Confirm /\ Unconfirm' = Unconfirm
  BY <1>2 DEF Clear, Settle, Confirm, Unconfirm
<1>4. X = Listed /\ Y = Read("confirmed")
  BY <1>1, <1>2 DEF Becomes, Adding, Removing, Confirming
<1>5. screen = "host" => at \in Hosts
  BY DEF BookIInv, BookTypes
<1>6. /\ Settle = IF serverPaired THEN Call("addPair", at) ELSE Call("removePair", at)
      /\ serverPaired \in BOOLEAN
  BY DEF Settle, BookIInv, BookTypes
<1> DEFINE call == Head(calls)
<1>a. ops' = Operations(call) /\ UNCHANGED <<files, at>>
  BY <1>2
<1> HIDE DEF call
<1>b. /\ call = Call("addPair", at) => Becomes(X \cup {at}, Y)'
      /\ call = Call("removePair", at) /\ at \in Hosts => Becomes(X \ {at}, Y \ {at})'
      /\ call = Confirm => Becomes(X, Y \cup {at})'
      /\ call = Unconfirm => Becomes(X, Y \ {at})'
      /\ call = Clear => Becomes(X, {})'
  BY <1>4, <1>a, CallBegins
<1> USE DEF call
<1> USE CallsDiffer DEF Different
<1>7. CASE screen = "hosts" /\ calls = <<Clear>>
  <2>1. Becomes(X, {})' /\ calls' = <<>>
    BY <1>2, <1>4, <1>7, <1>b
  <2>2. Promises(X, {})'
    BY <1>1, <1>2, <1>3, <1>7, <2>1
       DEF Promises, MenuInv, TrustInv, ToldInv, Undisturbed, Clearing, Pairing, Doomed
  <2>3. QED
    BY <2>1, <2>2 DEF CallsInv
<1>8. CASE screen = "host" /\ calls = <<Clear, Settle>> /\ ~serverPaired
  <2>1. Becomes(X, {})' /\ calls' = <<Settle>>
    BY <1>2, <1>4, <1>8, <1>b
  <2>2. Promises(X, {})'
    BY <1>1, <1>2, <1>3, <1>8, <2>1
       DEF Promises, MenuInv, TrustInv, ToldInv, Undisturbed, Clearing, Pairing, Doomed
  <2>3. QED
    BY <1>2, <1>3, <1>8, <2>1, <2>2 DEF CallsInv
<1>9. CASE screen = "host" /\ calls \in {<<Settle>>, <<Settle, Confirm>>} /\ serverPaired
  <2>a. Head(calls) = Settle /\ Tail(calls) \in {<<>>, <<Confirm>>}
    <3>1. CASE calls = <<Settle>>
      <4>1. Head(calls) = Settle /\ Tail(calls) = <<>>
        BY <3>1
      <4>2. QED
        BY <4>1
    <3>2. CASE calls = <<Settle, Confirm>>
      <4>1. Head(calls) = Settle /\ Tail(calls) = <<Confirm>>
        BY <3>2
      <4>2. QED
        BY <4>1
    <3>3. QED
      BY <1>9, <3>1, <3>2
  <2>1. Becomes(X \cup {at}, Y)' /\ calls' \in {<<>>, <<Confirm>>}
    <3>1. call = Call("addPair", at)
      BY <1>6, <1>9, <2>a
    <3>2. QED
      BY <1>2, <1>b, <2>a, <3>1
  <2>2. Promises(X \cup {at}, Y)'
    <3>1. MenuInv(X \cup {at})' /\ TrustInv(Y)'
      BY <1>1, <1>2, <1>9, <2>1 DEF Promises, MenuInv, TrustInv, Clearing, Doomed
    <3>2. ToldInv(X \cup {at}, Y)'
      <4>1. CASE calls = <<Settle>>
        BY <1>1, <1>2, <1>9, <4>1 DEF Promises, ToldInv, Undisturbed, Clearing, Pairing
      <4>2. CASE calls = <<Settle, Confirm>>
        <5>1. calls' = <<Confirm>>
          BY <1>2, <4>2
        <5>2. QED
          BY <1>1, <1>2, <1>3, <1>9, <4>2, <5>1
             DEF Promises, ToldInv, Undisturbed, Clearing, Pairing
      <4>3. QED
        BY <1>9, <4>1, <4>2
    <3>3. QED
      BY <3>1, <3>2 DEF Promises
  <2>3. CallsInv'
    <3>1. CASE calls = <<Settle>>
      BY <1>2, <3>1 DEF CallsInv
    <3>2. CASE calls = <<Settle, Confirm>>
      <4>1. trust[at] = cert
        BY <1>9, <3>2 DEF CallsInv, BookIInv
      <4>2. calls' = <<Confirm>>
        BY <1>2, <3>2
      <4>3. QED
        BY <1>2, <1>3, <1>9, <4>1, <4>2 DEF CallsInv
    <3>3. QED
      BY <1>9, <3>1, <3>2
  <2>4. X \cup {at} \in SUBSET Hosts
    BY <1>5, <1>9
  <2>5. QED
    BY <1>2, <2>1, <2>2, <2>3, <2>4
<1>10. CASE screen = "host" /\ calls \in {<<Settle>>, <<Settle, Unconfirm>>} /\ ~serverPaired
  <2>a. Head(calls) = Settle /\ Tail(calls) \in {<<>>, <<Unconfirm>>}
    <3>1. CASE calls = <<Settle>>
      <4>1. Head(calls) = Settle /\ Tail(calls) = <<>>
        BY <3>1
      <4>2. QED
        BY <4>1
    <3>2. CASE calls = <<Settle, Unconfirm>>
      <4>1. Head(calls) = Settle /\ Tail(calls) = <<Unconfirm>>
        BY <3>2
      <4>2. QED
        BY <4>1
    <3>3. QED
      BY <1>10, <3>1, <3>2
  <2>1. Becomes(X \ {at}, Y \ {at})' /\ calls' \in {<<>>, <<Unconfirm>>}
    BY <1>2, <1>5, <1>6, <1>10, <1>b, <2>a
  <2>2. Promises(X \ {at}, Y \ {at})'
    BY <1>1, <1>2, <1>3, <1>10, <2>1
       DEF Promises, MenuInv, TrustInv, ToldInv, Undisturbed, Clearing, Pairing, Doomed
  <2>3. CallsInv'
    BY <1>2, <1>3, <1>10, <2>1 DEF CallsInv
  <2>4. QED
    BY <2>1, <2>2, <2>3
<1>11. CASE screen = "host" /\ calls = <<Confirm>> /\ serverPaired /\ trust[at] = cert
  <2>1. Becomes(X, Y \cup {at})' /\ calls' = <<>>
    BY <1>2, <1>4, <1>11, <1>b
  <2>2. MenuInv(X)' /\ TrustInv(Y \cup {at})'
    BY <1>1, <1>2, <1>3, <1>11, <2>1 DEF Promises, MenuInv, TrustInv, Clearing, Doomed
  <2>3. ToldInv(X, Y \cup {at})'
    BY <1>1, <1>2, <1>3, <1>11, <2>1
       DEF Promises, ToldInv, Undisturbed, Clearing, Pairing
  <2>4. Y \cup {at} \in SUBSET Hosts
    BY <1>5, <1>11
  <2>5. CallsInv'
    BY <2>1 DEF CallsInv
  <2>6. Promises(X, Y \cup {at})'
    BY <2>2, <2>3 DEF Promises
  <2>7. QED
    BY <1>2, <2>1, <2>4, <2>5, <2>6
<1>12. CASE screen = "host" /\ calls = <<Unconfirm>> /\ ~serverPaired
  <2>1. Becomes(X, Y \ {at})' /\ calls' = <<>>
    BY <1>2, <1>4, <1>12, <1>b
  <2>2. Promises(X, Y \ {at})'
    BY <1>1, <1>2, <1>3, <1>12, <2>1
       DEF Promises, MenuInv, TrustInv, ToldInv, Undisturbed, Clearing, Pairing, Doomed
  <2>3. QED
    BY <2>1, <2>2 DEF CallsInv
<1>13. QED
  BY <1>2, <1>6, <1>7, <1>8, <1>9, <1>10, <1>11, <1>12 DEF BookIInv, CallsInv

(* A step that leaves the program where it is leaves the promises.         *)
LEMMA PromisesStay ==
  ASSUME NEW X, NEW Y, Promises(X, Y), CallsInv,
         UNCHANGED <<screen, at, serverPaired, regenerated, certFile, cert, calls,
                     trust, told, recleared, unopened, broken>>
  PROVE  Promises(X, Y)' /\ CallsInv'
<1>1. /\ Clear' = Clear /\ Settle' = Settle
      /\ Confirm' = Confirm /\ Unconfirm' = Unconfirm
  BY DEF Clear, Settle, Confirm, Unconfirm
<1>2. CallsInv'
  BY <1>1 DEF CallsInv
<1>3. MenuInv(X)'
  BY <1>1 DEF Promises, MenuInv
<1>4. TrustInv(Y)'
  BY <1>1 DEF Promises, TrustInv, Doomed, Clearing
<1>5. ToldInv(X, Y)'
  BY <1>1 DEF Promises, ToldInv, Undisturbed, Clearing, Pairing
<1>6. QED
  BY <1>2, <1>3, <1>4, <1>5 DEF Promises

Ahead == \E X \in SUBSET Hosts, Y \in SUBSET Hosts : Becomes(X, Y) /\ Promises(X, Y)

LEMMA RecordsStep ==
  ASSUME BookIInv, Records
  PROVE  CallsInv' /\ Ahead'
<1>0. Files /\ CallsInv
  BY DEF BookIInv, BookTypes, Files
<1>1. CASE StartCall
  BY <1>1, StartCallKeeps DEF Ahead
<1>2. CASE FileStep \/ OpenElsewhere
  <2>1. PICK X \in SUBSET Hosts, Y \in SUBSET Hosts : Becomes(X, Y) /\ Promises(X, Y)
    BY DEF BookIInv
  <2>2. Becomes(X, Y)'
    BY <1>0, <1>2, <2>1, FileStepKeeps, ElsewhereKeeps
  <2>3. UNCHANGED <<screen, at, serverPaired, regenerated, certFile, cert, calls,
                    trust, told, recleared, unopened, broken>>
    BY <1>2 DEF FileStep, OpenElsewhere
  <2>4. Promises(X, Y)' /\ CallsInv'
    BY <1>0, <2>1, <2>3, PromisesStay
  <2>5. QED
    BY <2>2, <2>4 DEF Ahead
<1>3. CASE OpenFails
  <2>1. /\ ops' = <<>> /\ unopened' = TRUE /\ broken' = TRUE
        /\ UNCHANGED <<screen, at, serverPaired, files, calls, trust, cert>>
    BY <1>3 DEF OpenFails
  <2>2. CallsInv'
    BY <1>0, <2>1 DEF CallsInv, Clear, Settle, Confirm, Unconfirm
  <2>3. PICK X, Y : X = Listed /\ Y = Read("confirmed")
    OBVIOUS
  <2>4. X \in SUBSET Hosts /\ Y \in SUBSET Hosts
    BY <1>0, <2>3, ReadHosts
  <2>5. Becomes(X, Y)'
    BY <2>1, <2>3 DEF Becomes, Listed, Read
  <2>6. Promises(X, Y)'
    BY <2>1 DEF Promises, MenuInv, TrustInv, ToldInv, Undisturbed
  <2>7. QED
    BY <2>2, <2>4, <2>5, <2>6 DEF Ahead
<1>4. QED
  BY <1>1, <1>2, <1>3 DEF Records

(* What the lists become when nothing is under way is what is in the files.*)
LEMMA Quiet ==
  ASSUME BookIInv, ~Busy
  PROVE  /\ Listed \in SUBSET Hosts /\ Read("confirmed") \in SUBSET Hosts
         /\ Promises(Listed, Read("confirmed"))
         /\ calls = <<>> /\ ops = <<>>
<1>1. PICK X \in SUBSET Hosts, Y \in SUBSET Hosts : Becomes(X, Y) /\ Promises(X, Y)
  BY DEF BookIInv
<1>2. calls = <<>> /\ ops = <<>>
  BY DEF Busy
<1>3. X = Listed /\ Y = Read("confirmed")
  BY <1>1, <1>2 DEF Becomes, Adding, Removing, Confirming
<1>4. QED
  BY <1>1, <1>2, <1>3

(* A step of the program that begins with nothing under way.               *)
LEMMA ProgramStep ==
  ASSUME BookIInv, Program
  PROVE  CallsInv' /\ Ahead'
<1> USE CallsDiffer DEF Different
<1>1. CASE StartProgram
  <2>1. PICK X \in SUBSET Hosts, Y \in SUBSET Hosts : Becomes(X, Y) /\ Promises(X, Y)
    BY DEF BookIInv
  <2>2. /\ screen = "off" /\ screen' = "hosts" /\ regenerated' = FALSE
        /\ UNCHANGED <<at, serverPaired, certFile, cert, files, calls, ops, trust, told,
                       recleared, unopened, broken>>
    BY <1>1 DEF StartProgram
  <2>3. Becomes(X, Y)'
    BY <2>1, <2>2 DEF Becomes, Adding, Removing, Confirming, StrikeOut, Listed, Read
  <2>4. calls = <<>>
    BY <2>2 DEF BookIInv, CallsInv
  <2>5. Promises(X, Y)'
    BY <2>1, <2>2, <2>4
       DEF Promises, MenuInv, TrustInv, ToldInv, Undisturbed, Clearing, Pairing, Doomed
  <2>6. QED
    BY <2>2, <2>3, <2>4, <2>5 DEF CallsInv, Ahead
<1>2. CASE ~Busy /\ ~StartProgram
  <2>1. PICK X, Y : X = Listed /\ Y = Read("confirmed")
    OBVIOUS
  <2>2. /\ X \in SUBSET Hosts /\ Y \in SUBSET Hosts /\ Promises(X, Y)
        /\ calls = <<>> /\ ops = <<>>
    BY <1>2, <2>1, Quiet
  <2>3. ops' = <<>> /\ files' = files
    BY <1>2, <2>2 DEF Program, Connect, QueryFails, QueryAnswered, PairSucceeds,
                      PairFails, Unpair, Back
  <2>4. Becomes(X, Y)'
    BY <2>1, <2>3 DEF Becomes, Listed, Read
  <2>5. BookTypes
    BY DEF BookIInv
  <2>6. ASSUME NEW h \in Hosts, Connect(h) PROVE Promises(X, Y)' /\ CallsInv'
    BY <2>2, <2>5, <2>6
       DEF Connect, Promises, MenuInv, TrustInv, ToldInv, Undisturbed, Clearing,
           Pairing, Doomed, CallsInv, BookTypes
  <2>7. ASSUME QueryFails PROVE Promises(X, Y)' /\ CallsInv'
    <3>1. calls' = IF regenerated THEN <<Clear>> ELSE <<>>
      BY <2>7 DEF QueryFails, ClearFirst, Clear
    <3>2. Clear' = Clear
      BY DEF Clear
    <3>3. Promises(X, Y)'
      BY <2>2, <2>5, <2>7, <3>1, <3>2
         DEF QueryFails, Recleared, Promises, MenuInv, TrustInv, ToldInv, Undisturbed,
             Clearing, Pairing, Doomed, BookTypes
    <3>4. QED
      BY <2>7, <3>1, <3>2, <3>3 DEF QueryFails, CallsInv
  <2>8. ASSUME QueryAnswered PROVE Promises(X, Y)' /\ CallsInv'
    <3>1. /\ screen = "query" /\ screen' = "host"
          /\ serverPaired' = (/\ ~regenerated
                              /\ IF at \in Nvidia THEN trust[at] = cert
                                 ELSE at \in Read("confirmed"))
          /\ recleared' = Recleared
          /\ UNCHANGED <<at, regenerated, certFile, cert, files, ops, trust, told,
                         unopened, broken>>
      BY <2>8 DEF QueryAnswered
    <3>2. Settle' = Call(IF serverPaired' THEN "addPair" ELSE "removePair", at)
      BY <3>1 DEF Settle
    <3>3. Clear' = Clear
      BY DEF Clear
    <3>4. CASE regenerated
      <4>1. ClearFirst = <<Clear>>
        BY <3>4 DEF ClearFirst, Clear
      <4>2. calls' = <<Clear', Settle'>> /\ ~serverPaired'
        BY <2>8, <3>1, <3>2, <3>3, <3>4, <4>1, JoinOne DEF QueryAnswered
      <4>3. Promises(X, Y)'
        BY <2>2, <2>5, <3>1, <3>4, <4>2
           DEF Recleared, Promises, MenuInv, TrustInv, ToldInv, Undisturbed,
               Clearing, Pairing, Doomed, BookTypes
      <4>4. QED
        BY <3>1, <4>2, <4>3 DEF CallsInv
    <3>5. CASE ~regenerated
      <4>1. ClearFirst = <<>>
        BY <3>5 DEF ClearFirst
      <4>2. calls' = <<Settle'>>
        BY <2>8, <3>2, <4>1, JoinNone DEF QueryAnswered
      <4>3. serverPaired' <=> IF at \in Nvidia THEN trust[at] = cert ELSE at \in Y
        BY <2>1, <3>1, <3>5
      <4>4. MenuInv(X)' /\ TrustInv(Y)'
        BY <2>2, <2>5, <3>1, <3>5, <4>2, <4>3
           DEF Promises, MenuInv, TrustInv, Clearing, Doomed, BookTypes
      <4>5. ToldInv(X, Y)'
        BY <2>2, <2>5, <3>1, <3>5, <4>2, <4>3
           DEF Recleared, Promises, ToldInv, Undisturbed, Clearing, Pairing, BookTypes
      <4>6. QED
        BY <3>1, <4>2, <4>4, <4>5 DEF CallsInv, Promises
    <3>6. QED
      BY <2>5, <3>4, <3>5 DEF BookTypes
  <2>9. ASSUME PairSucceeds PROVE Promises(X, Y)' /\ CallsInv'
    <3>1. /\ screen = "host" /\ ~serverPaired
          /\ trust' = [trust EXCEPT ![at] = cert]
          /\ serverPaired' = TRUE /\ told' = told \cup {at}
          /\ UNCHANGED <<screen, at, regenerated, certFile, cert, recleared,
                         unopened, broken>>
      BY <2>9 DEF PairSucceeds
    <3>2. calls' = <<Settle', Confirm'>>
      BY <2>9, <3>1 DEF PairSucceeds, Settle, Confirm
    <3>3. /\ trust'[at] = cert /\ at \in Hosts
          /\ \A h \in Hosts \ {at} : trust'[h] = trust[h]
      BY <2>5, <3>1 DEF BookTypes
    <3>4. MenuInv(X)' /\ TrustInv(Y)'
      BY <2>2, <3>1, <3>2, <3>3 DEF Promises, MenuInv, TrustInv, Clearing, Doomed
    <3>5. ToldInv(X, Y)'
      BY <2>2, <2>5, <3>1, <3>2, <3>3
         DEF Promises, ToldInv, Undisturbed, Clearing, Pairing, BookTypes
    <3>6. QED
      BY <3>1, <3>2, <3>3, <3>4, <3>5 DEF CallsInv, Promises
  <2>10. ASSUME PairFails PROVE Promises(X, Y)' /\ CallsInv'
    <3>1. /\ screen = "host" /\ ~serverPaired
          /\ UNCHANGED <<screen, at, serverPaired, regenerated, certFile, cert, calls,
                         told, recleared, unopened, broken>>
      BY <2>10 DEF PairFails
    <3>2. \A h \in Hosts \ {at} : trust'[h] = trust[h]
      BY <2>5, <2>10 DEF PairFails, BookTypes
    <3>3. MenuInv(X)' /\ TrustInv(Y)'
      BY <2>2, <3>1, <3>2 DEF Promises, MenuInv, TrustInv, Clearing, Doomed
    <3>4. ToldInv(X, Y)'
      BY <2>2, <2>5, <3>1, <3>2
         DEF Promises, ToldInv, Undisturbed, Clearing, Pairing, BookTypes
    <3>5. QED
      BY <2>2, <3>1, <3>3, <3>4 DEF CallsInv, Promises
  <2>11. ASSUME Unpair PROVE Promises(X, Y)' /\ CallsInv'
    <3>1. /\ screen = "host" /\ serverPaired
          /\ serverPaired' = FALSE /\ told' = told \ {at}
          /\ UNCHANGED <<screen, at, regenerated, certFile, cert, recleared,
                         unopened, broken>>
      BY <2>11 DEF Unpair
    <3>2. calls' = <<Settle', Unconfirm'>>
      BY <2>11, <3>1 DEF Unpair, Settle, Unconfirm
    <3>3. \A h \in Hosts \ {at} : trust'[h] = trust[h]
      BY <2>5, <2>11 DEF Unpair, BookTypes
    <3>4. MenuInv(X)' /\ TrustInv(Y)'
      BY <2>2, <3>1, <3>2, <3>3 DEF Promises, MenuInv, TrustInv, Clearing, Doomed
    <3>5. ToldInv(X, Y)'
      BY <2>2, <2>5, <3>1, <3>2, <3>3
         DEF Promises, ToldInv, Undisturbed, Clearing, Pairing, BookTypes
    <3>6. QED
      BY <3>1, <3>2, <3>4, <3>5 DEF CallsInv, Promises
  <2>12. ASSUME Back PROVE Promises(X, Y)' /\ CallsInv'
    BY <2>2, <2>12
       DEF Back, Promises, MenuInv, TrustInv, ToldInv, Undisturbed, Clearing, Pairing,
           Doomed, CallsInv
  <2>13. Promises(X, Y)' /\ CallsInv'
    BY <1>2, <2>6, <2>7, <2>8, <2>9, <2>10, <2>11, <2>12 DEF Program
  <2>14. QED
    BY <2>2, <2>4, <2>13 DEF Ahead
<1>3. QED
  BY <1>1, <1>2 DEF Program, PairSucceeds, PairFails, Unpair, Back

(* The program ends, or loses its power: what was under way is lost, and   *)
(* the history knows it.                                                   *)
LEMMA EndsStep ==
  ASSUME BookIInv, Ends
  PROVE  CallsInv' /\ Ahead'
<1>1. /\ screen' = "off" /\ regenerated' = FALSE /\ calls' = <<>> /\ ops' = <<>>
      /\ broken' = (broken \/ Busy \/ screen = "query")
      /\ UNCHANGED <<certFile, cert, files, trust, told, recleared>>
  BY DEF Ends
<1>2. PICK X, Y : X = Listed /\ Y = Read("confirmed")
  OBVIOUS
<1>3. X \in SUBSET Hosts /\ Y \in SUBSET Hosts
  BY <1>2, ReadHosts DEF BookIInv, BookTypes, Files
<1>4. Becomes(X, Y)'
  BY <1>1, <1>2 DEF Becomes, Listed, Read
<1>5. Promises(X, Y)'
  <2>1. CASE Busy \/ screen = "query"
    BY <1>1, <2>1 DEF Promises, MenuInv, TrustInv, ToldInv, Undisturbed
  <2>2. CASE ~Busy /\ screen # "query"
    <3>1. Promises(X, Y) /\ calls = <<>>
      BY <1>2, <2>2, Quiet
    <3>2. broken' <=> broken
      BY <1>1, <2>2
    <3>3. QED
      BY <1>1, <2>2, <3>1, <3>2
         DEF Promises, MenuInv, TrustInv, ToldInv, Undisturbed, Clearing, Pairing, Doomed
  <2>3. QED
    BY <2>1, <2>2
<1>6. QED
  BY <1>1, <1>3, <1>4, <1>5 DEF CallsInv, Ahead

LEMMA CertLostStep ==
  ASSUME BookIInv, CertLost
  PROVE  CallsInv' /\ Ahead'
<1>1. /\ screen = "off" /\ certFile' = FALSE
      /\ UNCHANGED <<screen, at, serverPaired, regenerated, cert, files, calls, ops,
                     trust, told, recleared, unopened, broken>>
  BY DEF CertLost
<1>2. PICK X \in SUBSET Hosts, Y \in SUBSET Hosts : Becomes(X, Y) /\ Promises(X, Y)
  BY DEF BookIInv
<1>3. calls = <<>>
  BY <1>1 DEF BookIInv, CallsInv
<1>4. Becomes(X, Y)'
  BY <1>1, <1>2 DEF Becomes, Adding, Removing, Confirming, StrikeOut, Listed, Read
<1>5. Promises(X, Y)'
  BY <1>1, <1>2, <1>3
     DEF Promises, MenuInv, TrustInv, ToldInv, Undisturbed, Clearing, Pairing
<1>6. QED
  BY <1>1, <1>3, <1>4, <1>5 DEF CallsInv, Ahead

(* Types of everything but the calls and operations under way.             *)
LEMMA FilesTypes ==
  ASSUME BookIInv, FileStep
  PROVE  files' \in [Paths -> Content]
<1>1. Files
  BY DEF BookIInv, BookTypes, Files
<1>2. ops # <<>>
  BY DEF FileStep
<1>3. PICK X \in SUBSET Hosts, Y \in SUBSET Hosts : Becomes(X, Y)
  BY DEF BookIInv
<1>4. ops \in Seq(OpKinds)
  BY <1>3, OpsTypes
<1>5. Head(ops) \in OpKinds
  BY <1>2, <1>4
<1>6. PICK f \in Paths, S \in SUBSET Hosts :
        Head(ops) \in {Op("remove", f, S), Op("open", f, S), Op("write", f, S),
                       Op("forget", f, S)}
  BY <1>5 DEF OpKinds, Op
<1>7. /\ Head(ops).file = f /\ Head(ops).hosts = S
      /\ Head(ops).kind \in {"remove", "open", "write", "forget"}
  BY <1>6 DEF Op
<1>8. /\ Head(ops).kind = "remove" => files' = [files EXCEPT ![f] = Absent]
      /\ Head(ops).kind = "open" => files' = [files EXCEPT ![f] = {}]
      /\ Head(ops).kind = "write" => files' = [files EXCEPT ![f] = S]
      /\ Head(ops).kind = "forget" => files' = files
  BY <1>7 DEF FileStep
<1>9. Absent \in Content /\ {} \in Content /\ S \in Content
  BY DEF Content
<1>10. QED
  BY <1>1, <1>7, <1>8, <1>9 DEF Files

LEMMA BookTypesStep ==
  ASSUME BookIInv, [BookNext]_bookVars
  PROVE  BookTypes'
<1>0. BookTypes
  BY DEF BookIInv
<1> USE CertsAssumption, HostsAssumption DEF BookTypes, Screens
<1>1. CASE FileStep
  <2>1. files' \in [Paths -> Content]
    BY <1>1, FilesTypes
  <2>2. UNCHANGED <<screen, at, serverPaired, regenerated, certFile, cert,
                    trust, told, recleared, unopened, broken>>
    BY <1>1 DEF FileStep
  <2>3. QED
    BY <1>0, <2>1, <2>2
<1>2. CASE StartCall \/ OpenFails \/ CertLost \/ StartProgram
  BY <1>0, <1>2 DEF StartCall, OpenFails, CertLost, StartProgram
<1>3. CASE OpenElsewhere
  <2>1. {} \in Content
    BY DEF Content
  <2>2. QED
    BY <1>0, <1>3, <2>1 DEF OpenElsewhere, Paths
<1>4. ASSUME NEW h \in Hosts, Connect(h) PROVE BookTypes'
  <2>1. cert' \in 0 .. MaxCerts /\ told' \subseteq Hosts /\ regenerated' \in BOOLEAN
    BY <1>0, <1>4 DEF Connect
  <2>2. /\ screen' = "query" /\ at' = h /\ serverPaired' = FALSE /\ certFile' = TRUE
        /\ unopened' = FALSE /\ UNCHANGED <<files, trust, recleared, broken>>
    BY <1>4 DEF Connect
  <2>3. QED
    BY <1>0, <2>1, <2>2
<1>5. CASE QueryFails
  BY <1>0, <1>5 DEF QueryFails, Recleared
<1>6. CASE QueryAnswered
  <2>1. serverPaired' \in BOOLEAN /\ recleared' \in BOOLEAN
    BY <1>0, <1>6 DEF QueryAnswered, Recleared
  <2>2. /\ screen' = "host" /\ screen = "query"
        /\ UNCHANGED <<at, regenerated, certFile, cert, files, trust, told, unopened,
                       broken>>
    BY <1>6 DEF QueryAnswered
  <2>3. QED
    BY <1>0, <2>1, <2>2
<1>7. CASE PairSucceeds \/ PairFails \/ Unpair
  <2>1. /\ trust' \in [Hosts -> 0 .. MaxCerts] /\ told' \subseteq Hosts
        /\ serverPaired' \in BOOLEAN
    <3>1. at \in Hosts
      BY <1>0, <1>7 DEF PairSucceeds, PairFails, Unpair
    <3>2. CASE PairSucceeds
      BY <1>0, <3>1, <3>2 DEF PairSucceeds
    <3>3. CASE PairFails
      <4>1. PICK t \in {0, trust[at], cert} : trust' = [trust EXCEPT ![at] = t]
        BY <3>3 DEF PairFails
      <4>2. t \in 0 .. MaxCerts
        BY <1>0, <3>1, <4>1
      <4>3. QED
        BY <1>0, <3>1, <3>3, <4>1, <4>2 DEF PairFails
    <3>4. CASE Unpair
      <4>1. PICK t \in {0, trust[at]} : trust' = [trust EXCEPT ![at] = t]
        BY <3>4 DEF Unpair
      <4>2. t \in 0 .. MaxCerts
        BY <1>0, <3>1, <4>1
      <4>3. QED
        BY <1>0, <3>1, <3>4, <4>1, <4>2 DEF Unpair
    <3>5. QED
      BY <1>7, <3>2, <3>3, <3>4
  <2>2. UNCHANGED <<screen, at, regenerated, certFile, cert, files, recleared,
                    unopened, broken>>
    BY <1>7 DEF PairSucceeds, PairFails, Unpair
  <2>3. QED
    BY <1>0, <2>1, <2>2
<1>8. CASE Back
  BY <1>0, <1>8 DEF Back
<1>9. CASE Ends
  <2>1. broken' \in BOOLEAN
    BY <1>9 DEF Ends, Busy
  <2>2. QED
    BY <1>0, <1>9, <2>1 DEF Ends
<1>10. CASE UNCHANGED bookVars
  BY <1>0, <1>10 DEF bookVars
<1>11. QED
  BY <1>1, <1>2, <1>3, <1>4, <1>5, <1>6, <1>7, <1>8, <1>9, <1>10
     DEF BookNext, Program, Records

LEMMA BookStep == BookIInv /\ [BookNext]_bookVars => BookIInv'
<1> SUFFICES ASSUME BookIInv, [BookNext]_bookVars PROVE BookIInv'
  OBVIOUS
<1>1. BookTypes'
  BY BookTypesStep
<1>2. CASE UNCHANGED bookVars
  <2>1. PICK X \in SUBSET Hosts, Y \in SUBSET Hosts : Becomes(X, Y) /\ Promises(X, Y)
    BY DEF BookIInv
  <2>2. Becomes(X, Y)'
    BY <1>2, <2>1
       DEF bookVars, Becomes, Adding, Removing, Confirming, StrikeOut, Listed, Read
  <2>3. Promises(X, Y)' /\ CallsInv'
    BY <1>2, <2>1, PromisesStay DEF bookVars, BookIInv
  <2>4. QED
    BY <1>1, <2>2, <2>3 DEF BookIInv
<1>3. CASE BookNext
  <2>1. CallsInv' /\ Ahead'
    BY <1>3, ProgramStep, RecordsStep, EndsStep, CertLostStep DEF BookNext
  <2>2. QED
    BY <1>1, <2>1 DEF BookIInv, Ahead
<1>4. QED
  BY <1>2, <1>3

LEMMA InitBook == BookInit => BookIInv
<1> SUFFICES ASSUME BookInit PROVE BookIInv
  OBVIOUS
<1> USE HostsAssumption, CertsAssumption DEF BookInit
<1>1. files \in [Paths -> Content]
  BY DEF Content, Absent, Paths
<1>2. trust \in [Hosts -> 0 .. MaxCerts]
  OBVIOUS
<1>3. BookTypes
  <2>1. /\ screen \in Screens /\ at \in Hosts \cup {NoHost}
        /\ at = NoHost <=> screen \in {"off", "hosts"}
    BY DEF Screens
  <2>2. cert \in 0 .. MaxCerts /\ told \subseteq Hosts
    OBVIOUS
  <2>3. /\ serverPaired \in BOOLEAN /\ regenerated \in BOOLEAN /\ certFile \in BOOLEAN
        /\ recleared \in BOOLEAN /\ unopened \in BOOLEAN /\ broken \in BOOLEAN
    OBVIOUS
  <2>4. QED
    BY <1>1, <1>2, <2>1, <2>2, <2>3 DEF BookTypes
<1>4. PICK X, Y : X = Listed /\ Y = Read("confirmed")
  OBVIOUS
<1>5. X \in SUBSET Hosts /\ Y \in SUBSET Hosts
  BY <1>3, <1>4, ReadHosts DEF BookTypes, Files
<1>6. Becomes(X, Y) /\ Promises(X, Y)
  BY <1>4 DEF Becomes, Promises, MenuInv, TrustInv, ToldInv
<1>7. QED
  BY <1>3, <1>5, <1>6 DEF BookIInv, CallsInv

THEOREM BookInductive == BookSpec => []BookIInv
BY InitBook, BookStep, PTL DEF BookSpec

(* The calls that are under way and their file operations have the forms   *)
(* the functions of pair_record.cpp give them.                             *)
THEOREM BookTypeCorrect == BookSpec => []BookTypeOK
<1>1. BookIInv => BookTypeOK
  <2> SUFFICES ASSUME BookIInv PROVE BookTypeOK
    OBVIOUS
  <2>1. PICK X \in SUBSET Hosts, Y \in SUBSET Hosts : Becomes(X, Y)
    BY DEF BookIInv
  <2>2. ops \in Seq(OpKinds)
    BY <2>1, OpsTypes
  <2> DEFINE Calls == [name : CallNames, host : Hosts \cup {NoHost}]
  <2>3. /\ Clear \in Calls /\ Settle \in Calls
        /\ Confirm \in Calls /\ Unconfirm \in Calls
    BY DEF BookIInv, BookTypes, Clear, Settle, Confirm, Unconfirm, Call, CallNames
  <2> HIDE DEF Calls
  <2>4. calls \in Seq(Calls)
    <3>1. /\ <<>> \in Seq(Calls)
          /\ \A a, b \in Calls : <<a>> \in Seq(Calls) /\ <<a, b>> \in Seq(Calls)
      OBVIOUS
    <3>2. /\ <<Clear>> \in Seq(Calls) /\ <<Settle>> \in Seq(Calls)
          /\ <<Confirm>> \in Seq(Calls) /\ <<Unconfirm>> \in Seq(Calls)
          /\ <<Clear, Settle>> \in Seq(Calls) /\ <<Settle, Confirm>> \in Seq(Calls)
          /\ <<Settle, Unconfirm>> \in Seq(Calls)
      BY <2>3, <3>1
    <3>3. QED
      BY <3>1, <3>2, Zenon DEF BookIInv, CallsInv
  <2>5. QED
    BY <2>2, <2>4 DEF BookIInv, BookTypes, BookTypeOK, OpKinds, Calls
<1>2. QED
  BY <1>1, BookInductive, PTL

(* add_pair_address, remove_pair_address and init_server: whenever the menu *)
(* of a host is shown, the list of paired hosts agrees with it, also after  *)
(* runs that lost their power at any point.                                 *)
THEOREM ListAgrees == BookSpec => []ListMatchesMenu
<1>1. BookIInv => ListMatchesMenu
  BY Quiet DEF ListMatchesMenu, Settled, Promises, MenuInv
<1>2. QED
  BY <1>1, BookInductive, PTL

(* add_confirmed_pair, remove_confirmed_pair and clear_confirmed_pairs with *)
(* load_cert: what the confirmed list says of a host is true of that host.  *)
THEOREM ConfirmedHolds == BookSpec => []ConfirmedIsTrusted
<1>1. BookIInv => ConfirmedIsTrusted
  BY Quiet DEF ConfirmedIsTrusted, Promises, TrustInv, Doomed, Clearing
<1>2. QED
  BY <1>1, BookInductive, PTL

(* action_pair: a host the player was told is paired is in the list until  *)
(* he unpairs it, whatever is paired, tried or lost in between.            *)
THEOREM ToldStaysListed == BookSpec => []ToldIsListed
<1>1. BookIInv => ToldIsListed
  BY Quiet DEF ToldIsListed, Promises, ToldInv, Pairing
<1>2. QED
  BY <1>1, BookInductive, PTL

(* init_server: such a host is found paired again in every later run.      *)
THEOREM PairingLasts == BookSpec => []PairingLastsNextRun
<1>1. BookIInv => PairingLastsNextRun
  BY Quiet DEF PairingLastsNextRun, Settled, Promises, ToldInv
<1>2. QED
  BY <1>1, BookInductive, PTL

-----------------------------------------------------------------------------
(* The settings.                                                           *)

(* The keys out of AUTO in a configuration, and the record of what was set *)
(* by hand that agrees with it.                                            *)
Manual(c) == {k \in DOMAIN AutoOf : ~c[AutoOf[k]]}
Holds(ch, c) ==
  /\ DOMAIN ch \subseteq DOMAIN AutoOf /\ ByHand(ch) = Manual(c)
  /\ \A k \in DOMAIN ch :
       /\ ch[k].stays \in {"always", "onNew", "replaced"}
       /\ ch[k].stays # "always" => k \in StreamKeys
       /\ ch[k].stays # "replaced" => ch[k].value = c[k]

(* On an Old 3DS nothing is left that its profile would replace.           *)
NoneOnNew(ch) == \A k \in DOMAIN ch : ch[k].stays # "onNew"

(* The flags of older versions follow the profile.                         *)
Profiled(c) ==
  /\ c["potato_profile"] \in Profiles
  /\ \A k \in OldFlags : c[k] \in BOOLEAN
  /\ c["better_screen"] <=> c["potato_profile"] = "better"
  /\ c["stable_stream"] <=> c["potato_profile"] = "stable"
  /\ c["ultra_potato"] <=> c["potato_profile"] = "ultra"

Switches == {"stereoscopic_3d", "localaudio"} \cup {AutoOf[k] : k \in DOMAIN AutoOf}

ConfigOK(c) ==
  /\ DOMAIN c = Fields
  /\ \A k \in StreamKeys : c[k] \in Nat
  /\ \A k \in Switches : c[k] \in BOOLEAN
  /\ Profiled(c)

FileOK(file) ==
  \/ file = NoFile
  \/ /\ DOMAIN file \subseteq Fields
     /\ \A k \in StreamKeys \cap DOMAIN file : file[k] \in Nat
     /\ \A k \in (Switches \cup OldFlags) \cap DOMAIN file : file[k] \in BOOLEAN
     /\ "potato_profile" \in DOMAIN file => file["potato_profile"] \in Profiles

Kinds ==
  /\ place \in {"off", "menus", "settings", "streaming"}
  /\ potato \in BOOLEAN /\ writable \in BOOLEAN
  /\ g.values \in [StreamKeys -> Nat] /\ g.hostAudio \in BOOLEAN
  /\ FileOK(main) /\ FileOK(legacy) /\ (writable \/ main = NoFile)
  /\ ConfigOK(config)

(* What the player has set is what the configuration says, and what he had *)
(* set at the last save is what the file will say.                         *)
MemoryInv ==
  IF place = "off" THEN chosen = kept.chosen /\ picked = kept.picked
  ELSE /\ Holds(chosen, config) /\ picked = config["potato_profile"]
       /\ potato => NoneOnNew(chosen)
CardInv ==
  /\ Holds(kept.chosen, Parse(FileRead))
  /\ kept.picked = Parse(FileRead)["potato_profile"]

(* A stream has had the configuration applied to it.                       *)
AppliedInv ==
  place = "streaming" /\ potato =>
    /\ config["video_decoder"] = "software"
    /\ g = [values |-> Values(config), hostAudio |-> config["localaudio"]]
    /\ \A k \in StreamKeys : config[AutoOf[k]] => config[k] = Resolved(config)[k]

SettingsIInv == Kinds /\ MemoryInv /\ CardInv /\ AppliedInv

(* The names of the settings.                                              *)
Others == {"potato_profile", "localaudio", "video_decoder", "stereoscopic_3d"}

LEMMA FieldNames ==
  Fields = {"width", "height", "fps", "bitrate", "packetsize", "localaudio",
    "video_decoder", "potato_profile", "better_screen", "stable_stream",
    "ultra_potato", "stereoscopic_3d", "network_2nd_core",
    "auto_network_2nd_core", "audio_2nd_core", "auto_audio_2nd_core",
    "auto_width", "auto_height", "auto_fps", "auto_bitrate", "auto_packetsize"}
<1>1. Len(WriteOrder) = 21 /\ DOMAIN WriteOrder = 1 .. 21
  BY DEF WriteOrder
<1>2. QED
  BY <1>1 DEF Fields, WriteOrder

LEMMA Names ==
  /\ DOMAIN AutoOf = StreamKeys \cup CoreKeys
  /\ StreamKeys \cup CoreKeys \cup OldFlags \cup Others \subseteq Fields
  /\ \A k \in DOMAIN AutoOf :
       /\ AutoOf[k] \in Fields
       /\ AutoOf[k] \notin StreamKeys \cup CoreKeys \cup OldFlags \cup Others
  /\ \A k, j \in DOMAIN AutoOf : AutoOf[k] = AutoOf[j] => k = j
  /\ StreamKeys \cap CoreKeys = {}
  /\ (StreamKeys \cup CoreKeys) \cap (OldFlags \cup Others) = {}
  /\ OldFlags \cap Others = {}
  /\ "missing" \notin Fields
  /\ "bitrate" \in StreamKeys
<1>1. DOMAIN AutoOf = StreamKeys \cup CoreKeys
  BY DEF AutoOf, StreamKeys, CoreKeys
<1>2. \A k \in DOMAIN AutoOf : AutoOf[k] \in Fields
  BY FieldNames DEF AutoOf
<1>3. \A k \in DOMAIN AutoOf :
        AutoOf[k] \notin StreamKeys \cup CoreKeys \cup OldFlags \cup Others
  BY <1>1 DEF AutoOf, StreamKeys, CoreKeys, OldFlags, Others
<1>4. \A k, j \in DOMAIN AutoOf : AutoOf[k] = AutoOf[j] => k = j
  BY <1>1 DEF AutoOf, StreamKeys, CoreKeys
<1>5. /\ StreamKeys \cup CoreKeys \cup OldFlags \cup Others \subseteq Fields
      /\ "missing" \notin Fields
  BY FieldNames DEF StreamKeys, CoreKeys, OldFlags, Others
<1>6. /\ StreamKeys \cap CoreKeys = {}
      /\ (StreamKeys \cup CoreKeys) \cap (OldFlags \cup Others) = {}
      /\ OldFlags \cap Others = {}
      /\ "bitrate" \in StreamKeys
  BY DEF StreamKeys, CoreKeys, OldFlags, Others
<1>7. QED
  BY <1>1, <1>2, <1>3, <1>4, <1>5, <1>6

LEMMA DefaultValues ==
  /\ DOMAIN Defaults = Fields
  /\ \A k \in StreamKeys \ {"bitrate"} : Defaults[k] \in Nat
  /\ Defaults["bitrate"] = -1
  /\ \A k \in DOMAIN AutoOf : Defaults[AutoOf[k]] = TRUE
  /\ \A k \in OldFlags \cup {"localaudio", "stereoscopic_3d"} : Defaults[k] = FALSE
<1>1. DOMAIN Defaults = Fields
  BY DEF Defaults
<1>2. \A k \in StreamKeys : Defaults[k] = StreamDefaults[k]
  BY Names DEF Defaults
<1>3. /\ \A k \in StreamKeys \ {"bitrate"} : StreamDefaults[k] \in Nat
      /\ StreamDefaults["bitrate"] = -1
  BY DEF StreamDefaults, StreamKeys
<1>4. \A k \in DOMAIN AutoOf : Defaults[AutoOf[k]] = TRUE
  BY Names DEF Defaults, Others
<1>5. \A k \in OldFlags \cup {"localaudio", "stereoscopic_3d"} : Defaults[k] = FALSE
  <2> TAKE f \in OldFlags \cup {"localaudio", "stereoscopic_3d"}
  <2>1. /\ f \in Fields /\ f \notin StreamKeys
        /\ f # "video_decoder" /\ f # "potato_profile"
        /\ ~ \E k \in DOMAIN AutoOf : f = AutoOf[k]
    BY Names DEF Others, OldFlags
  <2>2. QED
    BY <2>1 DEF Defaults
<1>6. QED
  BY <1>1, <1>2, <1>3, <1>4, <1>5, Names

(* A profile is set, and its three flags with it; nothing else changes.    *)
LEMMA ProfileSet ==
  ASSUME NEW c, DOMAIN c = Fields, NEW p \in Profiles
  PROVE  /\ DOMAIN SetProfile(c, p) = Fields
         /\ Profiled(SetProfile(c, p))
         /\ SetProfile(c, p)["potato_profile"] = p
         /\ \A f \in Fields : f \notin OldFlags \cup {"potato_profile"} =>
              SetProfile(c, p)[f] = c[f]
<1> DEFINE d == SetProfile(c, p)
<1>1. DOMAIN d = Fields
  BY DEF SetProfile
<1>2. /\ d["potato_profile"] = p
      /\ d["better_screen"] = (p = "better")
      /\ d["stable_stream"] = (p = "stable")
      /\ d["ultra_potato"] = (p = "ultra")
  BY Names DEF SetProfile, OldFlags, Others
<1>3. \A f \in Fields : f \notin OldFlags \cup {"potato_profile"} => d[f] = c[f]
  BY DEF SetProfile, OldFlags
<1> HIDE DEF d
<1>4. Profiled(d)
  BY <1>2 DEF Profiled, OldFlags
<1>5. QED
  BY <1>1, <1>2, <1>3, <1>4 DEF d

LEMMA OldProfile ==
  ASSUME NEW c
  PROVE  ProfileFromOldFlags(c) \in Profiles
BY DEF ProfileFromOldFlags, Profiles

LEMMA RateIsNat ==
  ASSUME NEW c, c["width"] \in Nat, c["height"] \in Nat, c["fps"] \in Nat
  PROVE  DefaultBitrate(c) \in Nat
<1> DEFINE pixels == c["width"] * c["height"]
           at30 == CASE pixels <= 640 * 360 -> 1000
                     [] pixels > 640 * 360 /\ pixels <= 854 * 480 -> 1500
                     [] pixels > 854 * 480 /\ pixels <= 1366 * 768 -> 5000
                     [] pixels > 1366 * 768 /\ pixels <= 1920 * 1200 -> 10000
                     [] pixels > 1920 * 1200 /\ pixels <= 2560 * 1600 -> 20000
                     [] OTHER -> 40000
<1>1. pixels \in Nat
  OBVIOUS
<1> HIDE DEF pixels
<1>2. at30 \in Nat
  BY <1>1
<1> HIDE DEF at30
<1>3. at30 * c["fps"] \in Nat
  BY <1>2
<1>4. (at30 * c["fps"]) \div 30 \in Nat
  BY <1>3
<1>5. QED
  BY <1>4 DEF DefaultBitrate, pixels, at30

(* What config_parse makes of a file: a configuration it could have        *)
(* written, with the values of the file where the file has them.           *)
LEMMA Parsed ==
  ASSUME NEW file, FileOK(file)
  PROVE  /\ ConfigOK(Parse(file))
         /\ \A f \in Fields : f \notin OldFlags \cup {"potato_profile", "bitrate"} =>
              Parse(file)[f] = IF f \in DOMAIN file THEN file[f] ELSE Defaults[f]
         /\ "potato_profile" \in DOMAIN file =>
              Parse(file)["potato_profile"] = file["potato_profile"]
         /\ "bitrate" \in DOMAIN file => Parse(file)["bitrate"] = file["bitrate"]
         /\ "potato_profile" \notin DOMAIN file =>
              Parse(file)["potato_profile"] =
                ProfileFromOldFlags([f \in Fields |-> IF f \in DOMAIN file THEN file[f]
                                                      ELSE Defaults[f]])
<1> DEFINE c == [f \in Fields |-> IF f \in DOMAIN file THEN file[f] ELSE Defaults[f]]
           known == "potato_profile" \in DOMAIN file
           p == IF known THEN c["potato_profile"] ELSE ProfileFromOldFlags(c)
           d == SetProfile(c, p)
           e == Parse(file)
<1>1. e = IF d["bitrate"] = -1 THEN [d EXCEPT !["bitrate"] = DefaultBitrate(d)] ELSE d
  BY DEF Parse
<1>2. /\ DOMAIN c = Fields
      /\ \A f \in Fields : c[f] = IF f \in DOMAIN file THEN file[f] ELSE Defaults[f]
  OBVIOUS
<1>3. /\ \A k \in StreamKeys \cap DOMAIN file : file[k] \in Nat
      /\ \A k \in (Switches \cup OldFlags) \cap DOMAIN file : file[k] \in BOOLEAN
      /\ known => file["potato_profile"] \in Profiles
  <2>1. CASE file = NoFile
    <3>1. DOMAIN file = {"missing"}
      BY <2>1 DEF NoFile
    <3>2. Switches \subseteq Fields
      BY Names DEF Switches, Others
    <3>3. QED
      BY <3>1, <3>2, Names DEF Others
  <2>2. CASE file # NoFile
    BY <2>2 DEF FileOK
  <2>3. QED
    BY <2>1, <2>2
<1>16. ~known => p = ProfileFromOldFlags(c)
  OBVIOUS
<1> HIDE DEF c
<1>4. p \in Profiles /\ (known => p = file["potato_profile"])
  BY <1>2, <1>3, OldProfile, Names DEF Others
<1> HIDE DEF p, e
<1>5. /\ DOMAIN d = Fields /\ Profiled(d) /\ d["potato_profile"] = p
      /\ \A f \in Fields : f \notin OldFlags \cup {"potato_profile"} => d[f] = c[f]
  BY <1>2, <1>4, ProfileSet
<1> HIDE DEF d
<1>6. \A k \in StreamKeys : k # "bitrate" => d[k] \in Nat
  BY <1>2, <1>3, <1>5, Names, DefaultValues DEF Others
<1>7. d["bitrate"] = c["bitrate"]
  BY <1>5, Names DEF Others
<1>8. IF "bitrate" \in DOMAIN file
      THEN d["bitrate"] = file["bitrate"] /\ d["bitrate"] \in Nat
      ELSE d["bitrate"] = -1
  BY <1>7, <1>2, <1>3, DefaultValues, Names
<1>9. DefaultBitrate(d) \in Nat
  BY <1>6, RateIsNat DEF StreamKeys
<1>10. /\ DOMAIN e = Fields /\ e["bitrate"] \in Nat
       /\ "bitrate" \in DOMAIN file => e["bitrate"] = file["bitrate"]
       /\ \A f \in Fields : f # "bitrate" => e[f] = d[f]
  <2>1. CASE "bitrate" \in DOMAIN file
    <3>1. d["bitrate"] # -1
      BY <2>1, <1>8
    <3>2. e = d
      BY <3>1, <1>1
    <3>3. QED
      BY <3>2, <2>1, <1>5, <1>8
  <2>2. CASE "bitrate" \notin DOMAIN file
    <3>1. e = [d EXCEPT !["bitrate"] = DefaultBitrate(d)]
      BY <2>2, <1>8, <1>1
    <3>2. QED
      BY <3>1, <2>2, <1>5, <1>9, Names
  <2>3. QED
    BY <2>1, <2>2
<1>11. \A k \in StreamKeys : e[k] \in Nat
  BY <1>10, <1>6, Names
<1>12. \A f \in Fields : f \notin OldFlags \cup {"potato_profile", "bitrate"} =>
         e[f] = IF f \in DOMAIN file THEN file[f] ELSE Defaults[f]
  BY <1>10, <1>5, <1>2
<1>13. \A k \in Switches : e[k] \in BOOLEAN
  <2> TAKE k \in Switches
  <2>1. k \in Fields /\ k \notin OldFlags \cup {"potato_profile", "bitrate"}
    BY Names DEF Switches, Others
  <2>2. k \notin DOMAIN file => Defaults[k] \in BOOLEAN
    BY DefaultValues DEF Switches
  <2>3. QED
    BY <2>1, <2>2, <1>12, <1>3
<1>14. Profiled(e) /\ e["potato_profile"] = p
  BY <1>10, <1>5, Names DEF Profiled, Others, OldFlags
<1>15. QED
  BY <1>4, <1>10, <1>11, <1>12, <1>13, <1>14, <1>16 DEF ConfigOK, c, e

(* A configuration that is written and read again comes back, except for   *)
(* the flags of older versions, which follow the profile anyway.           *)
LEMMA ParsedAgain ==
  ASSUME NEW c, ConfigOK(c)
  PROVE  /\ FileOK(c) /\ c # NoFile
         /\ ConfigOK(Parse(c))
         /\ \A f \in Fields : f \notin OldFlags => Parse(c)[f] = c[f]
<1>1. FileOK(c)
  <2>1. \A k \in Switches \cup OldFlags : c[k] \in BOOLEAN
    BY DEF ConfigOK, Profiled
  <2>2. QED
    BY <2>1 DEF ConfigOK, FileOK, Profiled
<1>2. c # NoFile
  <2>1. DOMAIN NoFile = {"missing"}
    BY DEF NoFile
  <2>2. QED
    BY <2>1, Names DEF ConfigOK
<1>3. QED
  BY <1>1, <1>2, Parsed, Names DEF ConfigOK, Others

(* What a profile resolves to is what the menu says of it.                 *)
LEMMA ResolvedValues ==
  ASSUME NEW c, ConfigOK(c)
  PROVE  /\ \A k \in StreamKeys : Resolved(c)[k] \in Nat
         /\ c["stereoscopic_3d"] \/
              \A k \in DOMAIN Promised[c["potato_profile"]] :
                /\ k \in StreamKeys
                /\ Resolved(c)[k] = Promised[c["potato_profile"]][k]
<1> DEFINE p == c["potato_profile"]
           r == Resolved(c)
           stereo == c["stereoscopic_3d"]
           ultra == c["ultra_potato"] /\ ~stereo
           better == c["better_screen"] /\ ~ultra /\ ~stereo
           smooth == p = "smooth" /\ ~better /\ ~ultra /\ ~stereo
           stable == c["stable_stream"] /\ ~ultra /\ ~stereo
<1>1. r = [width |-> IF stereo THEN 640 ELSE IF better THEN 400 ELSE 320,
           height |-> IF better THEN 240 ELSE 192,
           fps |-> CASE stereo \/ ultra -> 12 [] stable -> 15
                     [] better /\ ~stable -> 15 [] smooth /\ ~stable -> 30
                     [] OTHER -> 20,
           bitrate |-> CASE stereo -> 1200 [] ultra -> 750
                         [] stable -> (IF better THEN 1600 ELSE 1100)
                         [] better /\ ~stable -> 2200 [] smooth /\ ~stable -> 1600
                         [] OTHER -> 1500,
           packetsize |-> 1392]
  BY DEF Resolved
<1>2. p \in Profiles
  BY DEF ConfigOK, Profiled
<1>3. stereo \/ /\ ultra <=> p = "ultra"
                /\ better <=> p = "better"
                /\ smooth <=> p = "smooth"
                /\ stable <=> p = "stable"
  BY DEF ConfigOK, Profiled
<1>a. stereo => ~ultra /\ ~better /\ ~smooth /\ ~stable
  OBVIOUS
<1> HIDE DEF r, stereo, ultra, better, smooth, stable, p
<1>4. r["width"] \in Nat /\ r["height"] \in Nat /\ r["packetsize"] \in Nat
  BY <1>1
<1>5. r["fps"] \in Nat
  <2>1. CASE stereo
    BY <2>1, <1>1
  <2>2. CASE ~stereo
    BY <2>2, <1>1, <1>2, <1>3 DEF Profiles
  <2>3. QED
    BY <2>1, <2>2
<1>6. r["bitrate"] \in Nat
  <2>1. CASE stereo
    BY <2>1, <1>1, <1>a
  <2>2. CASE ~stereo
    BY <2>2, <1>1, <1>2, <1>3 DEF Profiles
  <2>3. QED
    BY <2>1, <2>2
<1>7. ASSUME ~stereo, NEW k \in DOMAIN Promised[p]
      PROVE  k \in StreamKeys /\ r[k] = Promised[p][k]
  <2>1. CASE p = "default"
    BY <2>1, <1>1, <1>3, <1>7 DEF Promised, StreamKeys
  <2>2. CASE p = "better"
    BY <2>2, <1>1, <1>3, <1>7 DEF Promised, StreamKeys
  <2>3. CASE p = "smooth"
    BY <2>3, <1>1, <1>3, <1>7 DEF Promised, StreamKeys
  <2>4. CASE p = "stable"
    BY <2>4, <1>1, <1>3, <1>7 DEF Promised, StreamKeys
  <2>5. CASE p = "ultra"
    BY <2>5, <1>1, <1>3, <1>7 DEF Promised, StreamKeys
  <2>6. QED
    BY <2>1, <2>2, <2>3, <2>4, <2>5, <1>2 DEF Profiles
<1>8. \A k \in StreamKeys : r[k] \in Nat
  BY <1>4, <1>5, <1>6 DEF StreamKeys
<1>9. QED
  BY <1>7, <1>8 DEF r, p, stereo

(* Resolved looks at the profile, its flags and stereoscopic_3d only.      *)
LEMMA ResolvedSame ==
  ASSUME NEW c, NEW d,
         \A f \in OldFlags \cup {"potato_profile", "stereoscopic_3d"} : d[f] = c[f]
  PROVE  Resolved(d) = Resolved(c)
<1>1. /\ d["potato_profile"] = c["potato_profile"]
      /\ d["stereoscopic_3d"] = c["stereoscopic_3d"]
      /\ d["better_screen"] = c["better_screen"]
      /\ d["stable_stream"] = c["stable_stream"]
      /\ d["ultra_potato"] = c["ultra_potato"]
  BY DEF OldFlags
<1>2. QED
  BY ONLY <1>1 DEF Resolved

(* The first file sets nothing by hand, and keeps the profile an older     *)
(* version had.                                                            *)
LEMMA FirstFile ==
  ASSUME NEW file \in {NoFile} \cup OldFiles
  PROVE  /\ FileOK(file)
         /\ Manual(Parse(file)) = {}
         /\ Parse(file)["potato_profile"] = OldChoice(file)
<1>1. CASE file = NoFile
  <2> DEFINE c == [f \in Fields |-> IF f \in DOMAIN file THEN file[f] ELSE Defaults[f]]
  <2>1. FileOK(file) /\ DOMAIN file = {"missing"}
    BY <1>1 DEF FileOK, NoFile
  <2>2. \A k \in DOMAIN AutoOf : Parse(file)[AutoOf[k]]
    <3>1. \A k \in DOMAIN AutoOf :
            /\ AutoOf[k] \in Fields
            /\ AutoOf[k] \notin OldFlags \cup {"potato_profile", "bitrate", "missing"}
      BY Names DEF Others
    <3>2. \A k \in DOMAIN AutoOf : Parse(file)[AutoOf[k]] = Defaults[AutoOf[k]]
      BY <2>1, <3>1, Parsed
    <3>3. QED
      BY <3>2, DefaultValues
  <2>3. \A f \in OldFlags : c[f] = FALSE
    BY <2>1, Names, DefaultValues
  <2>4. ~c["ultra_potato"] /\ ~c["stable_stream"] /\ ~c["better_screen"]
    BY <2>3 DEF OldFlags
  <2>5. ProfileFromOldFlags(c) = "default"
    BY <2>4 DEF ProfileFromOldFlags
  <2>6. Parse(file)["potato_profile"] = "default"
    BY <2>1, <2>5, Parsed, Names DEF Others
  <2>7. QED
    BY <1>1, <2>1, <2>2, <2>6 DEF Manual, OldChoice
<1>2. CASE file \in OldFiles
  <2> DEFINE c == [f \in Fields |-> IF f \in DOMAIN file THEN file[f] ELSE Defaults[f]]
  <2>1. PICK flags \in OldSets, stereo \in OldStereo : file = OldFile(flags, stereo)
    BY <1>2 DEF OldFiles
  <2>2. /\ DOMAIN file = OldKeys
        /\ \A f \in OldFlags : file[f] = (f \in flags)
        /\ file["stereoscopic_3d"] = stereo
        /\ file["bitrate"] = 3000
        /\ \A f \in StreamKeys : f # "bitrate" => file[f] = Defaults[f]
    <3>1. DOMAIN file = OldKeys
      BY <2>1 DEF OldFile
    <3>2. \A f \in OldFlags : file[f] = (f \in flags)
      BY <2>1 DEF OldFile, OldKeys
    <3>3. file["stereoscopic_3d"] = stereo
      BY <2>1, Names DEF OldFile, OldKeys, Others
    <3>4. file["bitrate"] = 3000
      BY <2>1, Names DEF OldFile, OldKeys, Others
    <3>5. \A f \in StreamKeys : f # "bitrate" => file[f] = Defaults[f]
      BY <2>1, Names DEF OldFile, OldKeys, Others
    <3>6. QED
      BY <3>1, <3>2, <3>3, <3>4, <3>5
  <2>3. /\ OldKeys \subseteq Fields /\ "potato_profile" \notin OldKeys
        /\ "localaudio" \notin OldKeys
        /\ \A k \in DOMAIN AutoOf : AutoOf[k] \notin OldKeys
    BY Names DEF OldKeys, Others
  <2>4. \A k \in StreamKeys : file[k] \in Nat
    BY <2>2, DefaultValues, Names
  <2>5. \A k \in (Switches \cup OldFlags) \cap OldKeys : file[k] \in BOOLEAN
    <3>1. stereo \in BOOLEAN
      BY SettingsAssumption
    <3>2. \A k \in Switches \cap OldKeys : k = "stereoscopic_3d"
      BY <2>3 DEF Switches
    <3>3. \A k \in OldFlags : file[k] \in BOOLEAN
      BY <2>1 DEF OldFile, OldKeys
    <3>4. file["stereoscopic_3d"] \in BOOLEAN
      BY <2>2, <3>1
    <3>5. QED
      BY <3>2, <3>3, <3>4
  <2>6. FileOK(file)
    BY <2>2, <2>3, <2>4, <2>5 DEF FileOK
  <2>7. \A k \in DOMAIN AutoOf : Parse(file)[AutoOf[k]]
    <3>1. \A k \in DOMAIN AutoOf :
            /\ AutoOf[k] \in Fields
            /\ AutoOf[k] \notin OldFlags \cup {"potato_profile", "bitrate"}
            /\ AutoOf[k] \notin DOMAIN file
      BY <2>2, <2>3, Names DEF Others
    <3>2. \A k \in DOMAIN AutoOf : Parse(file)[AutoOf[k]] = Defaults[AutoOf[k]]
      BY <2>6, <3>1, Parsed
    <3>3. QED
      BY <3>2, DefaultValues
  <2>8. \A f \in OldFlags : c[f] = file[f]
    BY <2>2, Names DEF OldKeys
  <2>9. /\ c["ultra_potato"] = file["ultra_potato"]
        /\ c["stable_stream"] = file["stable_stream"]
        /\ c["better_screen"] = file["better_screen"]
    BY <2>8 DEF OldFlags
  <2>10. Parse(file)["potato_profile"] = ProfileFromOldFlags(c)
    BY <2>2, <2>3, <2>6, Parsed
  <2> HIDE DEF c
  <2>11. ProfileFromOldFlags(c) = ProfileFromOldFlags(file)
    BY <2>9 DEF ProfileFromOldFlags
  <2>12. file # NoFile
    <3>1. DOMAIN NoFile = {"missing"}
      BY DEF NoFile
    <3>2. QED
      BY <3>1, <2>2, <2>3, Names DEF OldKeys
  <2>13. QED
    BY <2>6, <2>7, <2>10, <2>11, <2>12 DEF Manual, OldChoice
<1>3. QED
  BY <1>1, <1>2

-----------------------------------------------------------------------------
(* potato_apply_config.                                                    *)

LEMMA HoldsStill ==
  ASSUME NEW c, NEW d, NEW ch, Holds(ch, c),
         \A k \in DOMAIN AutoOf : d[AutoOf[k]] = c[AutoOf[k]],
         \A k \in DOMAIN ch : ch[k].stays # "replaced" => d[k] = c[k]
  PROVE  Holds(ch, d)
<1>1. Manual(d) = Manual(c)
  BY DEF Manual
<1>2. QED
  BY <1>1 DEF Holds

(* What stays always and is held by a configuration is out of AUTO in it.  *)
LEMMA HeldOutOfAuto ==
  ASSUME NEW c, NEW ch, Holds(ch, c), NEW k \in DOMAIN ch,
         ch[k].stays = "always"
  PROVE  k \in DOMAIN AutoOf /\ ~c[AutoOf[k]]
BY DEF Holds, ByHand, Manual

(* It changes the stream values in AUTO and the decoder, nothing that was  *)
(* set by hand and nothing of the profile.                                 *)
LEMMA AppliedValues ==
  ASSUME NEW c, ConfigOK(c)
  PROVE  /\ ConfigOK(Applied(c))
         /\ \A f \in Fields : f \notin StreamKeys \cup {"video_decoder"} =>
              Applied(c)[f] = c[f]
         /\ \A k \in DOMAIN AutoOf :
              /\ Applied(c)[AutoOf[k]] = c[AutoOf[k]]
              /\ ~c[AutoOf[k]] => Applied(c)[k] = c[k]
         /\ potato' =>
              /\ Applied(c)["video_decoder"] = "software"
              /\ \A k \in StreamKeys : Applied(c)[AutoOf[k]] =>
                   Applied(c)[k] = Resolved(Applied(c))[k]
<1>1. CASE ~potato'
  <2>1. Applied(c) = c
    BY <1>1 DEF Applied
  <2>2. QED
    BY <2>1, <1>1
<1>2. CASE potato'
  <2> DEFINE a == Applied(c)
             r == Resolved(c)
  <2>1. a = [f \in Fields |-> CASE f \in StreamKeys /\ c[AutoOf[f]] -> r[f]
                                [] f = "video_decoder" -> "software"
                                [] OTHER -> c[f]]
    BY <1>2 DEF Applied
  <2> HIDE DEF a, r
  <2>2. DOMAIN a = Fields
    BY <2>1
  <2>3. a["video_decoder"] = "software"
    BY <2>1, Names DEF Others
  <2>4. \A f \in Fields : f \notin StreamKeys \cup {"video_decoder"} => a[f] = c[f]
    BY <2>1
  <2>5. \A k \in StreamKeys : a[k] = IF c[AutoOf[k]] THEN r[k] ELSE c[k]
    BY <2>1, Names DEF Others
  <2>6. \A k \in DOMAIN AutoOf : /\ a[AutoOf[k]] = c[AutoOf[k]]
                                 /\ ~c[AutoOf[k]] => a[k] = c[k]
    BY <2>4, <2>5, Names DEF Others
  <2>7. \A k \in StreamKeys : a[k] \in Nat
    BY <2>5, ResolvedValues DEF ConfigOK, r
  <2>8. \A k \in Switches : a[k] \in BOOLEAN
    <3>1. \A k \in Switches : k \in Fields /\ k \notin StreamKeys \cup {"video_decoder"}
      BY Names DEF Switches, Others
    <3>2. QED
      BY <3>1, <2>4 DEF ConfigOK
  <2>9. \A f \in OldFlags \cup {"potato_profile", "stereoscopic_3d"} : a[f] = c[f]
    BY <2>4, Names DEF Others
  <2>10. Profiled(a)
    BY <2>9 DEF ConfigOK, Profiled, OldFlags
  <2>11. Resolved(a) = r
    BY <2>9, ResolvedSame DEF r
  <2>12. \A k \in StreamKeys : a[AutoOf[k]] => a[k] = Resolved(a)[k]
    BY <2>5, <2>6, <2>11, Names
  <2>13. ConfigOK(a)
    BY <2>2, <2>7, <2>8, <2>10 DEF ConfigOK
  <2>14. QED
    BY <1>2, <2>3, <2>4, <2>6, <2>12, <2>13 DEF a
<1>3. QED
  BY <1>1, <1>2

LEMMA AfterApply ==
  ASSUME NEW c, ConfigOK(c), Kinds, Apply(c), potato' \in BOOLEAN
  PROVE  /\ ConfigOK(config')
         /\ g'.values \in [StreamKeys -> Nat] /\ g'.hostAudio \in BOOLEAN
         /\ config'["potato_profile"] = c["potato_profile"]
         /\ \A ch : Holds(ch, c) /\ (potato' => NoneOnNew(ch))
                    => Holds(ch, config')
         /\ AppliedInv'
<1>1. config' = Applied(c)
  BY DEF Apply
<1>2. /\ ConfigOK(config')
      /\ config'["potato_profile"] = c["potato_profile"]
      /\ config'["localaudio"] = c["localaudio"]
  BY <1>1, AppliedValues, Names DEF Others
<1>3. ASSUME NEW ch, Holds(ch, c), potato' => NoneOnNew(ch)
      PROVE  Holds(ch, config')
  <2>1. \A k \in DOMAIN AutoOf : config'[AutoOf[k]] = c[AutoOf[k]]
    BY <1>1, AppliedValues
  <2>2. ASSUME NEW k \in DOMAIN ch, ch[k].stays # "replaced"
        PROVE  config'[k] = c[k]
    <3>1. CASE ~potato'
      BY <3>1, <1>1 DEF Applied
    <3>2. CASE potato'
      <4>1. ch[k].stays = "always"
        BY <3>2, <2>2, <1>3 DEF Holds, NoneOnNew
      <4>2. k \in DOMAIN AutoOf /\ ~c[AutoOf[k]]
        BY <4>1, <1>3, HeldOutOfAuto
      <4>3. QED
        BY <4>2, <1>1, AppliedValues
    <3>3. QED
      BY <3>1, <3>2
  <2>3. QED
    BY <2>1, <2>2, <1>3, HoldsStill
<1>4. Values(config') \in [StreamKeys -> Nat] /\ c["localaudio"] \in BOOLEAN
  BY <1>2 DEF ConfigOK, Values, Switches
<1>5. potato' => g' = [values |-> Values(config'), hostAudio |-> config'["localaudio"]]
  BY <1>2 DEF Apply
<1>6. ~potato' => g' = g
  BY DEF Apply
<1>7. g'.values \in [StreamKeys -> Nat] /\ g'.hostAudio \in BOOLEAN
  <2>1. CASE potato'
    BY <2>1, <1>2, <1>4, <1>5
  <2>2. CASE ~potato'
    BY <2>2, <1>6 DEF Kinds
  <2>3. QED
    BY <2>1, <2>2
<1>8. Values(config)' = Values(config') /\ Resolved(config)' = Resolved(config')
  BY DEF Values, Resolved
<1>9. potato' => /\ config'["video_decoder"] = "software"
                 /\ \A k \in StreamKeys : config'[AutoOf[k]] =>
                      config'[k] = Resolved(config')[k]
  BY <1>1, AppliedValues
<1>10. AppliedInv'
  BY <1>5, <1>8, <1>9 DEF AppliedInv
<1>11. QED
  BY <1>2, <1>3, <1>7, <1>10

(* Setting a value, or its AUTO flag, and the record of it.                *)
LEMMA OneChanged ==
  ASSUME NEW c, NEW d, NEW ch, Holds(ch, c), NEW k \in DOMAIN AutoOf,
         \A f \in Fields : f \notin {k, AutoOf[k]} => d[f] = c[f]
  PROVE  /\ d[AutoOf[k]] => Holds(Without(ch, k), d)
         /\ d[AutoOf[k]] /\ k \in StreamKeys => Holds(With(ch, k, d[k], "onNew"), d)
         /\ ~d[AutoOf[k]] => Holds(With(ch, k, d[k], "always"), d)
<1>1. \A j \in DOMAIN AutoOf : j # k => d[AutoOf[j]] = c[AutoOf[j]] /\ d[j] = c[j]
  BY Names
<1>2. \A j \in DOMAIN AutoOf : j # k => (j \in Manual(d) <=> j \in Manual(c))
  BY <1>1 DEF Manual
<1>3. /\ k \in Manual(d) <=> ~d[AutoOf[k]]
      /\ Manual(d) \subseteq DOMAIN AutoOf /\ Manual(c) \subseteq DOMAIN AutoOf
  BY DEF Manual
<1>4. /\ DOMAIN ch \subseteq DOMAIN AutoOf /\ ByHand(ch) = Manual(c)
      /\ \A j \in DOMAIN ch :
           /\ ch[j].stays \in {"always", "onNew", "replaced"}
           /\ ch[j].stays # "always" => j \in StreamKeys
           /\ ch[j].stays # "replaced" => ch[j].value = c[j]
  BY DEF Holds
<1>5. ASSUME d[AutoOf[k]]
      PROVE  Holds(Without(ch, k), d)
  <2> DEFINE w == Without(ch, k)
  <2>1. DOMAIN w = DOMAIN ch \ {k} /\ \A j \in DOMAIN w : w[j] = ch[j]
    BY DEF Without
  <2> HIDE DEF w
  <2>2. ByHand(w) = ByHand(ch) \ {k}
    BY <2>1 DEF ByHand
  <2>3. Manual(d) = Manual(c) \ {k}
    BY <1>2, <1>3, <1>5
  <2>4. \A j \in DOMAIN w : d[j] = c[j]
    BY <1>1, <1>4, <2>1
  <2>5. QED
    BY <1>4, <2>1, <2>2, <2>3, <2>4 DEF Holds, w
<1>6. ASSUME NEW how \in {"always", "onNew"},
             how = "always" <=> ~d[AutoOf[k]],
             how = "onNew" => k \in StreamKeys
      PROVE  Holds(With(ch, k, d[k], how), d)
  <2> DEFINE w == With(ch, k, d[k], how)
  <2>1. /\ DOMAIN w = DOMAIN ch \cup {k}
        /\ w[k].value = d[k] /\ w[k].stays = how
        /\ \A j \in DOMAIN ch : j # k => w[j] = ch[j]
    BY DEF With, Entry
  <2> HIDE DEF w
  <2>2. \A j \in DOMAIN AutoOf : j \in ByHand(w) <=> j \in Manual(d)
    <3> TAKE j \in DOMAIN AutoOf
    <3>1. CASE j = k
      BY <3>1, <2>1, <1>3, <1>6 DEF ByHand
    <3>2. CASE j # k
      <4>1. j \in ByHand(w) <=> j \in ByHand(ch)
        BY <3>2, <2>1 DEF ByHand
      <4>2. QED
        BY <3>2, <4>1, <1>2, <1>4
    <3>3. QED
      BY <3>1, <3>2
  <2>3. ByHand(w) = Manual(d)
    BY <2>1, <2>2, <1>3, <1>4 DEF ByHand
  <2>4. ASSUME NEW j \in DOMAIN w
        PROVE  /\ w[j].stays \in {"always", "onNew", "replaced"}
               /\ w[j].stays # "always" => j \in StreamKeys
               /\ w[j].stays # "replaced" => w[j].value = d[j]
    <3>1. CASE j = k
      BY <3>1, <2>1, <1>6
    <3>2. CASE j # k
      BY <3>2, <2>1, <1>1, <1>4
    <3>3. QED
      BY <3>1, <3>2
  <2>5. QED
    BY <2>1, <2>3, <2>4, <1>4 DEF Holds, w
<1>7. QED
  BY <1>5, <1>6

(* An Old 3DS that starts replaces only what is in AUTO.                   *)
LEMMA HoldsReplaced ==
  ASSUME NEW c, NEW ch, Holds(ch, c)
  PROVE  Holds(Replaced(ch), c) /\ NoneOnNew(Replaced(ch))
<1> DEFINE r == Replaced(ch)
<1>1. /\ DOMAIN r = DOMAIN ch
      /\ \A k \in DOMAIN ch :
           IF ch[k].stays = "onNew" THEN r[k].stays = "replaced" ELSE r[k] = ch[k]
  BY DEF Replaced, Entry
<1> HIDE DEF r
<1>2. ByHand(r) = ByHand(ch)
  BY <1>1 DEF ByHand
<1>3. QED
  BY <1>1, <1>2 DEF Holds, NoneOnNew, r

(* A line of an AUTO flag comes after that of its value.                   *)
LEMMA FlagsComeLater ==
  ASSUME NEW n \in 0 .. 20, NEW k \in DOMAIN AutoOf,
         AutoOf[k] \in {WriteOrder[i] : i \in 1 .. n}
  PROVE  k \in {WriteOrder[i] : i \in 1 .. n}
<1>1. PICK i \in 1 .. n : WriteOrder[i] = AutoOf[k]
  OBVIOUS
<1>2. k \in {"width", "height", "fps", "bitrate", "packetsize",
             "network_2nd_core", "audio_2nd_core"}
  BY DEF AutoOf
<1>3. CASE k \in StreamKeys
  <2>1. i > 16
    BY <1>1, <1>3 DEF AutoOf, StreamKeys, WriteOrder
  <2>2. k \in {WriteOrder[1], WriteOrder[2], WriteOrder[3], WriteOrder[4], WriteOrder[5]}
    BY <1>3 DEF StreamKeys, WriteOrder
  <2>3. QED
    BY <2>1, <2>2
<1>4. CASE k = "network_2nd_core"
  <2>1. i = 14 /\ k = WriteOrder[13]
    BY <1>1, <1>4 DEF AutoOf, WriteOrder
  <2>2. QED
    BY <2>1
<1>5. CASE k = "audio_2nd_core"
  <2>1. i = 16 /\ k = WriteOrder[15]
    BY <1>1, <1>5 DEF AutoOf, WriteOrder
  <2>2. QED
    BY <2>1
<1>6. QED
  BY <1>2, <1>3, <1>4, <1>5 DEF StreamKeys

(* What a file that was cut off still holds of what was set by hand.       *)
LEMMA HoldsCut ==
  ASSUME NEW c, ConfigOK(c), NEW ch, Holds(ch, c), NEW file,
         FileOK(file), DOMAIN file \subseteq Fields,
         \A f \in DOMAIN file : file[f] = c[f],
         \A k \in DOMAIN AutoOf : AutoOf[k] \in DOMAIN file => k \in DOMAIN file
  PROVE  Holds(Cut(ch, file), Parse(file))
<1> DEFINE d == Parse(file)
           w == Cut(ch, file)
<1>1. ASSUME NEW k \in DOMAIN AutoOf
      PROVE  d[AutoOf[k]] = IF AutoOf[k] \in DOMAIN file THEN c[AutoOf[k]] ELSE TRUE
  <2>1. /\ AutoOf[k] \in Fields
        /\ AutoOf[k] \notin OldFlags \cup {"potato_profile", "bitrate"}
    BY Names DEF Others
  <2>2. QED
    BY <2>1, Parsed, DefaultValues
<1>2. ASSUME NEW k \in DOMAIN AutoOf, k \in DOMAIN file
      PROVE  d[k] = c[k]
  <2>1. k \in Fields /\ k \notin OldFlags \cup {"potato_profile"}
    BY Names DEF Others
  <2>2. QED
    BY <2>1, <1>2, Parsed
<1>3. /\ DOMAIN ch \subseteq DOMAIN AutoOf /\ ByHand(ch) = Manual(c)
      /\ \A k \in DOMAIN ch :
           /\ ch[k].stays \in {"always", "onNew", "replaced"}
           /\ ch[k].stays # "always" => k \in StreamKeys
           /\ ch[k].stays # "replaced" => ch[k].value = c[k]
  BY DEF Holds
<1>4. DOMAIN w = {k \in DOMAIN ch : \/ AutoOf[k] \in DOMAIN file
                                    \/ k \in StreamKeys \cap DOMAIN file}
  BY DEF Cut
<1>5. \A k \in DOMAIN w :
        IF AutoOf[k] \notin DOMAIN file /\ ch[k].stays = "always"
        THEN w[k].value = ch[k].value /\ w[k].stays = "onNew"
        ELSE w[k] = ch[k]
  BY DEF Cut, Entry
<1> HIDE DEF d, w
<1>6. ByHand(w) = {k \in ByHand(ch) : AutoOf[k] \in DOMAIN file}
  BY <1>4, <1>5 DEF ByHand
<1>7. Manual(d) = {k \in Manual(c) : AutoOf[k] \in DOMAIN file}
  BY <1>1 DEF Manual
<1>8. ASSUME NEW k \in DOMAIN w
      PROVE  /\ w[k].stays \in {"always", "onNew", "replaced"}
             /\ w[k].stays # "always" => k \in StreamKeys
             /\ w[k].stays # "replaced" => w[k].value = d[k]
  <2>1. k \in DOMAIN ch /\ k \in DOMAIN AutoOf /\ k \in DOMAIN file
    BY <1>3, <1>4
  <2>2. d[k] = c[k]
    BY <2>1, <1>2
  <2>3. AutoOf[k] \notin DOMAIN file => k \in StreamKeys
    BY <1>4
  <2>4. QED
    BY <2>1, <2>2, <2>3, <1>3, <1>5
<1>9. QED
  BY <1>3, <1>4, <1>6, <1>7, <1>8 DEF Holds, d, w

LEMMA CardSame ==
  ASSUME CardInv, UNCHANGED <<main, legacy, kept>>
  PROVE  CardInv'
<1>1. FileRead' = FileRead
  BY DEF FileRead
<1>2. Parse(FileRead)' = Parse(FileRead)
  BY <1>1 DEF Parse
<1>3. QED
  BY <1>2 DEF CardInv, Holds, Manual, ByHand

(* A file is written where the next start reads it.                        *)
LEMMA Saved ==
  ASSUME NEW file, FileOK(file), file # NoFile, Kinds, SaveFile(file),
         UNCHANGED writable
  PROVE  /\ FileRead' = file
         /\ FileOK(main') /\ FileOK(legacy') /\ (writable' \/ main' = NoFile)
<1>1. CASE writable
  BY <1>1 DEF SaveFile, FileRead, Kinds
<1>2. CASE ~writable
  BY <1>2 DEF SaveFile, FileRead, Kinds
<1>3. QED
  BY <1>1, <1>2

LEMMA InitSettings ==
  ASSUME Init
  PROVE  SettingsIInv
<1>1. legacy \in {NoFile} \cup OldFiles /\ main = NoFile
  BY DEF Init
<1>2. /\ FileOK(legacy) /\ Manual(Parse(legacy)) = {}
      /\ Parse(legacy)["potato_profile"] = OldChoice(legacy)
  BY <1>1, FirstFile
<1>3. FileOK(NoFile)
  BY DEF FileOK
<1>4. ConfigOK(config)
  BY <1>3, Parsed DEF Init, Unread
<1>5. FileRead = legacy
  BY DEF Init, FileRead
<1>6. CardInv
  <2>1. kept.chosen = <<>> /\ kept.picked = OldChoice(legacy)
    BY DEF Init, Nothing
  <2>2. Holds(kept.chosen, Parse(legacy))
    BY <2>1, <1>2 DEF Holds, ByHand
  <2>3. QED
    BY <2>1, <2>2, <1>2, <1>5 DEF CardInv
<1>7. MemoryInv /\ AppliedInv
  BY DEF Init, MemoryInv, AppliedInv
<1>8. Kinds
  <2>1. g.values \in [StreamKeys -> Nat] /\ g.hostAudio \in BOOLEAN
    BY DEF Init, Cleared
  <2>2. QED
    BY <2>1, <1>1, <1>2, <1>3, <1>4 DEF Init, Kinds
<1>9. QED
  BY <1>6, <1>7, <1>8 DEF SettingsIInv

-----------------------------------------------------------------------------
(* The invariant is kept by every step.                                    *)

LEMMA StepStart ==
  ASSUME SettingsIInv, Start
  PROVE  SettingsIInv'
<1> DEFINE c == Parse(FileRead)
<1>1. FileOK(FileRead)
  BY DEF SettingsIInv, Kinds, FileRead
<1>2. ConfigOK(c)
  BY <1>1, Parsed
<1>3. chosen = kept.chosen /\ picked = kept.picked
  BY DEF SettingsIInv, MemoryInv, Start
<1>4. Holds(chosen, c) /\ picked = c["potato_profile"]
  BY <1>3 DEF SettingsIInv, CardInv
<1> HIDE DEF c
<1>5. Kinds /\ CardInv /\ potato' \in BOOLEAN /\ place' = "menus"
  BY DEF SettingsIInv, Start
<1>6. Apply(c)
  BY DEF Start, c
<1>13. Holds(chosen', c) /\ (potato' => NoneOnNew(chosen'))
  <2>1. chosen' = IF potato' THEN Replaced(chosen) ELSE chosen
    BY DEF Start
  <2>2. QED
    BY <2>1, <1>4, HoldsReplaced
<1>7. /\ ConfigOK(config')
      /\ g'.values \in [StreamKeys -> Nat] /\ g'.hostAudio \in BOOLEAN
      /\ config'["potato_profile"] = c["potato_profile"]
      /\ Holds(chosen', config') /\ AppliedInv'
  BY <1>2, <1>5, <1>6, <1>13, AfterApply
<1>8. CardInv'
  BY <1>5, CardSame DEF Start
<1>9. Kinds'
  BY <1>5, <1>7 DEF Kinds, Start
<1>10. Holds(chosen, config)'
  BY <1>7 DEF Holds, Manual, ByHand
<1>11. MemoryInv'
  BY <1>4, <1>5, <1>7, <1>10, <1>13 DEF MemoryInv, NoneOnNew, Start
<1>12. QED
  BY <1>7, <1>8, <1>9, <1>11 DEF SettingsIInv

(* What the program forgets leaves only what is on the card.               *)
LEMMA Forgotten ==
  ASSUME Kinds, Forget, CardInv',
         FileOK(main'), FileOK(legacy'), writable' \/ main' = NoFile,
         writable' \in BOOLEAN
  PROVE  SettingsIInv'
<1>1. FileOK(NoFile)
  BY DEF FileOK
<1>2. ConfigOK(config')
  BY <1>1, Parsed DEF Forget, Unread
<1>3. g'.values \in [StreamKeys -> Nat] /\ g'.hostAudio \in BOOLEAN
  BY DEF Forget, Cleared
<1>4. Kinds'
  BY <1>2, <1>3 DEF Kinds, Forget
<1>5. MemoryInv' /\ AppliedInv'
  BY DEF MemoryInv, AppliedInv, Forget
<1>6. QED
  BY <1>4, <1>5 DEF SettingsIInv

LEMMA StepSwitchOff ==
  ASSUME SettingsIInv, SwitchOff
  PROVE  SettingsIInv'
<1>1. Kinds /\ CardInv
  BY DEF SettingsIInv
<1>2. CardInv'
  BY <1>1, CardSame DEF SwitchOff
<1>3. QED
  BY <1>1, <1>2, Forgotten DEF SwitchOff, Kinds

LEMMA StepTornSave ==
  ASSUME SettingsIInv, TornSave
  PROVE  SettingsIInv'
<1>1. PICK n \in TornAt :
        LET file == [f \in {WriteOrder[i] : i \in 1 .. n} |-> config[f]]
            c == Parse(file)
        IN /\ SaveFile(file)
           /\ kept' = [picked |-> c["potato_profile"], chosen |-> Cut(chosen, file)]
  BY DEF TornSave
<1> DEFINE file == [f \in {WriteOrder[i] : i \in 1 .. n} |-> config[f]]
           c == Parse(file)
<1>2. /\ DOMAIN file \subseteq Fields
      /\ \A k \in DOMAIN AutoOf : AutoOf[k] \in DOMAIN file => k \in DOMAIN file
  <2>1. n \in 0 .. 20
    BY SettingsAssumption
  <2>2. DOMAIN WriteOrder = 1 .. 21
    BY DEF WriteOrder
  <2>3. DOMAIN file \subseteq Fields
    BY <2>1, <2>2 DEF Fields
  <2>4. DOMAIN file = {WriteOrder[i] : i \in 1 .. n}
    OBVIOUS
  <2> HIDE DEF file
  <2>5. QED
    BY <2>1, <2>3, <2>4, FlagsComeLater
<1>3. \A f \in DOMAIN file : file[f] = config[f]
  OBVIOUS
<1>4. SaveFile(file)
  BY <1>1
<1>5. kept'.picked = c["potato_profile"] /\ kept'.chosen = Cut(chosen, file)
  BY <1>1
<1> HIDE DEF file
<1>6. Kinds /\ ConfigOK(config) /\ Holds(chosen, config)
  BY DEF SettingsIInv, MemoryInv, TornSave, Kinds
<1>7. FileOK(file)
  BY <1>2, <1>3, <1>6 DEF FileOK, Kinds, ConfigOK, Profiled
<1>13. Holds(kept'.chosen, c)
  BY <1>2, <1>3, <1>5, <1>6, <1>7, HoldsCut
<1>8. file # NoFile
  <2>1. DOMAIN NoFile = {"missing"}
    BY DEF NoFile
  <2>2. QED
    BY <2>1, <1>2, Names
<1>9. /\ FileRead' = file
      /\ FileOK(main') /\ FileOK(legacy') /\ (writable' \/ main' = NoFile)
  BY <1>4, <1>6, <1>7, <1>8, Saved DEF TornSave
<1>10. Parse(FileRead)' = c
  BY <1>9 DEF Parse
<1> HIDE DEF c
<1>11. CardInv'
  BY <1>5, <1>10, <1>13 DEF CardInv, Holds, Manual, ByHand
<1>12. QED
  BY <1>6, <1>9, <1>11, Forgotten DEF TornSave, Kinds

LEMMA StepCloseSettings ==
  ASSUME SettingsIInv, CloseSettings
  PROVE  SettingsIInv'
<1>1. /\ Kinds /\ ConfigOK(config) /\ Holds(chosen, config)
      /\ picked = config["potato_profile"] /\ (potato => NoneOnNew(chosen))
  BY DEF SettingsIInv, Kinds, MemoryInv, CloseSettings
<1>2. /\ FileOK(config) /\ config # NoFile
      /\ \A f \in Fields : f \notin OldFlags => Parse(config)[f] = config[f]
  BY <1>1, ParsedAgain
<1>3. SaveFile(config)
  BY DEF CloseSettings, Save
<1>4. /\ FileRead' = config
      /\ FileOK(main') /\ FileOK(legacy') /\ (writable' \/ main' = NoFile)
  BY <1>1, <1>2, <1>3, Saved DEF CloseSettings
<1>5. Parse(FileRead)' = Parse(config)
  BY <1>4 DEF Parse
<1>6. Holds(chosen, Parse(config)) /\ picked = Parse(config)["potato_profile"]
  <2>1. \A k \in DOMAIN AutoOf : /\ Parse(config)[AutoOf[k]] = config[AutoOf[k]]
                                 /\ Parse(config)[k] = config[k]
    BY <1>2, Names
  <2>2. Parse(config)["potato_profile"] = config["potato_profile"]
    BY <1>2, Names DEF Others
  <2>3. DOMAIN chosen \subseteq DOMAIN AutoOf
    BY <1>1 DEF Holds
  <2>4. QED
    BY <2>1, <2>2, <2>3, <1>1, HoldsStill
<1>7. CardInv'
  BY <1>5, <1>6 DEF CardInv, Holds, Manual, ByHand, CloseSettings
<1>8. MemoryInv'
  BY <1>1 DEF MemoryInv, Holds, Manual, ByHand, NoneOnNew, CloseSettings
<1>9. AppliedInv'
  BY DEF AppliedInv, CloseSettings
<1>10. Kinds'
  BY <1>1, <1>4 DEF Kinds, CloseSettings
<1>11. QED
  BY <1>7, <1>8, <1>9, <1>10 DEF SettingsIInv

(* A screen is opened or left.                                             *)
LEMMA StepScreen ==
  ASSUME SettingsIInv, OpenSettings \/ EndStream
  PROVE  SettingsIInv'
<1>1. /\ place # "off" /\ place' \in {"menus", "settings"}
      /\ UNCHANGED <<potato, config, g, writable, main, legacy, picked, chosen, kept>>
  BY DEF OpenSettings, EndStream
<1>2. CardInv'
  BY <1>1, CardSame DEF SettingsIInv
<1>3. Kinds' /\ AppliedInv'
  BY <1>1 DEF SettingsIInv, Kinds, AppliedInv
<1>4. MemoryInv'
  BY <1>1 DEF SettingsIInv, MemoryInv, Holds, Manual, ByHand, NoneOnNew
<1>5. QED
  BY <1>2, <1>3, <1>4 DEF SettingsIInv

LEMMA StepStream ==
  ASSUME SettingsIInv, Stream
  PROVE  SettingsIInv'
<1>1. /\ Kinds /\ CardInv /\ ConfigOK(config) /\ Holds(chosen, config)
      /\ picked = config["potato_profile"] /\ potato' \in BOOLEAN
      /\ place' = "streaming" /\ potato' = potato
      /\ (potato => NoneOnNew(chosen))
  BY DEF SettingsIInv, Kinds, MemoryInv, Stream
<1>2. /\ ConfigOK(config')
      /\ g'.values \in [StreamKeys -> Nat] /\ g'.hostAudio \in BOOLEAN
      /\ config'["potato_profile"] = config["potato_profile"]
      /\ Holds(chosen, config') /\ AppliedInv'
  BY <1>1, AfterApply DEF Stream
<1>3. CardInv'
  BY <1>1, CardSame DEF Stream
<1>4. Kinds'
  BY <1>1, <1>2 DEF Kinds, Stream
<1>5. MemoryInv'
  BY <1>1, <1>2 DEF MemoryInv, Holds, Manual, ByHand, NoneOnNew, Stream
<1>6. QED
  BY <1>2, <1>3, <1>4, <1>5 DEF SettingsIInv

(* What an edit in the settings has to keep.                               *)
LEMMA Edits ==
  ASSUME SettingsIInv, place = "settings",
         UNCHANGED <<place, potato, writable, main, legacy, kept>>,
         ConfigOK(config'),
         g'.values \in [StreamKeys -> Nat], g'.hostAudio \in BOOLEAN,
         Holds(chosen', config'), picked' = config'["potato_profile"],
         potato => NoneOnNew(chosen')
  PROVE  SettingsIInv'
<1>1. CardInv'
  BY CardSame DEF SettingsIInv
<1>2. Kinds'
  BY DEF SettingsIInv, Kinds
<1>3. MemoryInv' /\ AppliedInv'
  BY DEF MemoryInv, AppliedInv, Holds, Manual, ByHand, NoneOnNew
<1>4. QED
  BY <1>1, <1>2, <1>3 DEF SettingsIInv

(* One value, its AUTO flag or both.                                       *)
LEMMA Retyped ==
  ASSUME NEW c, ConfigOK(c), NEW d, DOMAIN d = Fields, NEW k \in DOMAIN AutoOf,
         \A f \in Fields : f \notin {k, AutoOf[k]} => d[f] = c[f],
         k \in StreamKeys => d[k] \in Nat,
         d[AutoOf[k]] \in BOOLEAN
  PROVE  ConfigOK(d) /\ d["potato_profile"] = c["potato_profile"]
<1>1. \A j \in StreamKeys : d[j] \in Nat
  BY Names DEF ConfigOK
<1>2. \A j \in Switches : j \in Fields /\ j # k
  BY Names DEF Switches, Others
<1>3. \A j \in Switches : d[j] \in BOOLEAN
  BY <1>2 DEF ConfigOK
<1>4. \A f \in OldFlags \cup {"potato_profile"} : d[f] = c[f]
  BY Names DEF Others
<1>5. Profiled(d)
  BY <1>4 DEF ConfigOK, Profiled, OldFlags
<1>6. QED
  BY <1>1, <1>3, <1>4, <1>5 DEF ConfigOK

LEMMA StepToggleAuto ==
  ASSUME SettingsIInv, NEW k \in Edited, ToggleAuto(k)
  PROVE  SettingsIInv'
<1> DEFINE on == ~config[AutoOf[k]]
           c == IF k \in CoreKeys
                THEN [config EXCEPT ![k] = Shown(k), ![AutoOf[k]] = on]
                ELSE [config EXCEPT ![AutoOf[k]] = on]
<1>1. /\ Kinds /\ ConfigOK(config) /\ Holds(chosen, config)
      /\ picked = config["potato_profile"] /\ place = "settings"
      /\ potato' = potato /\ potato' \in BOOLEAN
      /\ (potato => NoneOnNew(chosen))
  BY DEF SettingsIInv, Kinds, MemoryInv, ToggleAuto
<1>2. k \in DOMAIN AutoOf /\ k \in Fields /\ AutoOf[k] \in Fields /\ AutoOf[k] # k
  BY SettingsAssumption, Names
<1>3. /\ DOMAIN c = Fields /\ c[AutoOf[k]] = on /\ c[k] = Shown(k)
      /\ \A f \in Fields : f \notin {k, AutoOf[k]} => c[f] = config[f]
  <2>1. DOMAIN config = Fields
    BY <1>1 DEF ConfigOK
  <2>2. CASE k \in CoreKeys
    BY <2>1, <2>2, <1>2
  <2>3. CASE k \notin CoreKeys
    <3>1. Shown(k) = config[k]
      BY <2>3 DEF Shown, CoreKeys
    <3>2. QED
      BY <2>1, <2>3, <3>1, <1>2
  <2>4. QED
    BY <2>2, <2>3
<1>4. /\ on /\ k \notin CoreKeys => Apply(c)
      /\ ~(on /\ k \notin CoreKeys) => config' = c /\ UNCHANGED g
      /\ chosen' = IF on THEN Without(chosen, k)
                   ELSE With(chosen, k, Shown(k), "always")
  BY DEF ToggleAuto
<1>5. k \in StreamKeys => c[k] \in Nat
  <2>1. k \in StreamKeys => Shown(k) = config[k]
    BY DEF Shown, StreamKeys
  <2>2. QED
    BY <2>1, <1>1, <1>3 DEF ConfigOK
<1>6. on \in BOOLEAN
  OBVIOUS
<1>11. potato => NoneOnNew(chosen')
  BY <1>1, <1>4 DEF NoneOnNew, With, Without, Entry
<1> HIDE DEF on, c
<1>7. ConfigOK(c) /\ c["potato_profile"] = picked
  BY <1>1, <1>2, <1>3, <1>5, <1>6, Retyped
<1>8. Holds(chosen', c)
  <2>1. /\ c[AutoOf[k]] => Holds(Without(chosen, k), c)
        /\ ~c[AutoOf[k]] => Holds(With(chosen, k, c[k], "always"), c)
    BY <1>1, <1>2, <1>3, OneChanged
  <2>2. CASE on
    BY <2>1, <2>2, <1>3, <1>4
  <2>3. CASE ~on
    BY <2>1, <2>3, <1>3, <1>4
  <2>4. QED
    BY <2>2, <2>3
<1>9. /\ ConfigOK(config')
      /\ g'.values \in [StreamKeys -> Nat] /\ g'.hostAudio \in BOOLEAN
      /\ config'["potato_profile"] = picked /\ Holds(chosen', config')
  <2>1. CASE on /\ k \notin CoreKeys
    BY <2>1, <1>1, <1>4, <1>7, <1>8, <1>11, AfterApply
  <2>2. CASE ~(on /\ k \notin CoreKeys)
    BY <2>2, <1>1, <1>4, <1>7, <1>8 DEF Kinds
  <2>3. QED
    BY <2>1, <2>2
<1>10. QED
  BY <1>1, <1>9, <1>11, Edits DEF ToggleAuto

LEMMA StepEditValue ==
  ASSUME SettingsIInv, NEW k \in Edited, NEW v \in Options(k), EditValue(k, v)
  PROVE  SettingsIInv'
<1>1. /\ Kinds /\ ConfigOK(config) /\ Holds(chosen, config)
      /\ picked = config["potato_profile"] /\ place = "settings"
      /\ DOMAIN config = Fields /\ (potato => NoneOnNew(chosen))
  BY DEF SettingsIInv, Kinds, MemoryInv, EditValue, ConfigOK
<1>2. k \in DOMAIN AutoOf /\ k \in Fields /\ AutoOf[k] \in Fields /\ AutoOf[k] # k
  BY SettingsAssumption, Names
<1>3. config[AutoOf[k]] \in BOOLEAN
  BY <1>1, <1>2 DEF ConfigOK, Switches
<1>4. config' = IF HasAuto(k) THEN [config EXCEPT ![k] = v, ![AutoOf[k]] = FALSE]
                ELSE [config EXCEPT ![k] = v]
  BY DEF EditValue
<1>5. /\ DOMAIN config' = Fields /\ config'[k] = v
      /\ config'[AutoOf[k]] \in BOOLEAN
      /\ config'[AutoOf[k]] => config[AutoOf[k]]
      /\ \A f \in Fields : f \notin {k, AutoOf[k]} => config'[f] = config[f]
  <2>1. CASE HasAuto(k)
    BY <2>1, <1>1, <1>2, <1>4
  <2>2. CASE ~HasAuto(k)
    BY <2>2, <1>1, <1>2, <1>3, <1>4
  <2>3. QED
    BY <2>1, <2>2
<1>6. k \in StreamKeys => v \in Nat
  BY SettingsAssumption, Names DEF Options
<1>7. ConfigOK(config') /\ config'["potato_profile"] = picked
  BY <1>1, <1>2, <1>5, <1>6, Retyped
<1>8. /\ HasAuto(k) \/ k \in ByHand(chosen) => chosen' = With(chosen, k, v, "always")
      /\ ~(HasAuto(k) \/ k \in ByHand(chosen)) => chosen' = With(chosen, k, v, "onNew")
  BY DEF EditValue
<1>12. /\ config'[AutoOf[k]] /\ k \in StreamKeys
             => Holds(With(chosen, k, v, "onNew"), config')
       /\ ~config'[AutoOf[k]] => Holds(With(chosen, k, v, "always"), config')
  BY <1>1, <1>2, <1>5, OneChanged
<1>13. k \in ByHand(chosen) <=> ~config[AutoOf[k]]
  BY <1>1, <1>2 DEF Holds, Manual
<1>14. HasAuto(k) => ~config'[AutoOf[k]]
  BY <1>1, <1>2, <1>4
<1>15. ~HasAuto(k) => /\ config'[AutoOf[k]] = config[AutoOf[k]]
                      /\ k \in StreamKeys /\ ~potato
  BY <1>1, <1>2, <1>4, Names DEF HasAuto
<1>9. Holds(chosen', config')
  BY <1>8, <1>12, <1>13, <1>14, <1>15
<1>16. potato => NoneOnNew(chosen')
  BY <1>1, <1>8, <1>15 DEF NoneOnNew, With, Entry
<1>10. g'.values \in [StreamKeys -> Nat] /\ g'.hostAudio \in BOOLEAN
  BY <1>1 DEF Kinds, EditValue
<1>11. QED
  BY <1>1, <1>7, <1>9, <1>10, <1>16, Edits DEF EditValue

LEMMA StepPickProfile ==
  ASSUME SettingsIInv, NEW p \in Picks, PickProfile(p)
  PROVE  SettingsIInv'
<1> DEFINE c == SetProfile(config, p)
<1>1. /\ Kinds /\ ConfigOK(config) /\ Holds(chosen, config)
      /\ place = "settings" /\ potato' \in BOOLEAN /\ DOMAIN config = Fields
      /\ potato' = potato /\ (potato => NoneOnNew(chosen))
  BY DEF SettingsIInv, Kinds, MemoryInv, PickProfile, ConfigOK
<1>2. /\ DOMAIN c = Fields /\ Profiled(c) /\ c["potato_profile"] = p
      /\ \A f \in Fields : f \notin OldFlags \cup {"potato_profile"} => c[f] = config[f]
  BY <1>1, SettingsAssumption, ProfileSet
<1>3. Apply(c)
  BY DEF PickProfile
<1> HIDE DEF c
<1>4. \A k \in StreamKeys \cup Switches :
        k \in Fields /\ k \notin OldFlags \cup {"potato_profile"}
  BY Names DEF Switches, Others
<1>5. ConfigOK(c)
  BY <1>1, <1>2, <1>4 DEF ConfigOK
<1>6. Holds(chosen, c)
  <2>1. \A k \in DOMAIN AutoOf : c[AutoOf[k]] = config[AutoOf[k]] /\ c[k] = config[k]
    BY <1>2, Names DEF Others
  <2>2. DOMAIN chosen \subseteq DOMAIN AutoOf
    BY <1>1 DEF Holds
  <2>3. QED
    BY <2>1, <2>2, <1>1, HoldsStill
<1>7. /\ ConfigOK(config')
      /\ g'.values \in [StreamKeys -> Nat] /\ g'.hostAudio \in BOOLEAN
      /\ config'["potato_profile"] = p /\ Holds(chosen, config')
  BY <1>1, <1>2, <1>3, <1>5, <1>6, AfterApply
<1>8. QED
  BY <1>1, <1>7, Edits DEF PickProfile

(* The two settings without AUTO.                                          *)
LEMMA OtherEdit ==
  ASSUME SettingsIInv, place = "settings",
         UNCHANGED <<place, potato, g, writable, main, legacy, picked, chosen, kept>>,
         NEW f \in {"video_decoder", "localaudio"}, NEW v,
         config' = [config EXCEPT ![f] = v], f = "localaudio" => v \in BOOLEAN
  PROVE  SettingsIInv'
<1>1. /\ Kinds /\ ConfigOK(config) /\ Holds(chosen, config)
      /\ picked = config["potato_profile"] /\ (potato => NoneOnNew(chosen))
  BY DEF SettingsIInv, Kinds, MemoryInv
<1>2. /\ DOMAIN config' = Fields
      /\ \A j \in Fields : j # f => config'[j] = config[j]
      /\ config'[f] = v
  BY <1>1, Names DEF ConfigOK, Others
<1>3. f \in Others /\ f # "potato_profile" /\ f \notin OldFlags \cup StreamKeys
  BY Names DEF Others
<1>4. \A k \in DOMAIN AutoOf : /\ config'[AutoOf[k]] = config[AutoOf[k]]
                               /\ config'[k] = config[k]
  BY <1>2, <1>3, Names
<1>5. Holds(chosen, config')
  <2>1. DOMAIN chosen \subseteq DOMAIN AutoOf
    BY <1>1 DEF Holds
  <2>2. QED
    BY <2>1, <1>1, <1>4, HoldsStill
<1>6. \A k \in Switches : config'[k] \in BOOLEAN
  <2>1. \A k \in Switches : k \in Fields /\ k # "video_decoder"
    BY Names DEF Switches, Others
  <2>2. QED
    BY <2>1, <1>1, <1>2 DEF ConfigOK
<1>7. \A k \in StreamKeys : config'[k] \in Nat
  BY <1>1, <1>2, <1>3, Names DEF ConfigOK
<1>8. \A j \in OldFlags \cup {"potato_profile"} : config'[j] = config[j]
  BY <1>2, <1>3, Names DEF Others
<1>9. Profiled(config')
  BY <1>1, <1>8 DEF ConfigOK, Profiled, OldFlags
<1>10. ConfigOK(config')
  BY <1>2, <1>6, <1>7, <1>9 DEF ConfigOK
<1>11. g'.values \in [StreamKeys -> Nat] /\ g'.hostAudio \in BOOLEAN
  BY <1>1 DEF Kinds
<1>12. picked' = config'["potato_profile"]
  BY <1>1, <1>8
<1>13. QED
  BY <1>1, <1>5, <1>10, <1>11, <1>12, Edits

LEMMA StepOther ==
  ASSUME SettingsIInv, SwitchHostAudio \/ \E d \in Decoders : PickDecoder(d)
  PROVE  SettingsIInv'
<1>1. CASE SwitchHostAudio
  <2> DEFINE v == ~config["localaudio"]
  <2>1. /\ config' = [config EXCEPT !["localaudio"] = v] /\ v \in BOOLEAN
        /\ place = "settings"
        /\ UNCHANGED <<place, potato, g, writable, main, legacy, picked, chosen, kept>>
    BY <1>1 DEF SwitchHostAudio
  <2> HIDE DEF v
  <2>2. QED
    BY <2>1, OtherEdit
<1>2. CASE \E d \in Decoders : PickDecoder(d)
  BY <1>2, OtherEdit DEF PickDecoder
<1>3. QED
  BY <1>1, <1>2

LEMMA StutterSettings ==
  ASSUME SettingsIInv, UNCHANGED vars
  PROVE  SettingsIInv'
<1>1. CardInv'
  BY CardSame DEF SettingsIInv, vars
<1>2. Kinds'
  BY DEF SettingsIInv, Kinds, vars
<1>3. MemoryInv'
  BY DEF SettingsIInv, MemoryInv, Holds, Manual, ByHand, NoneOnNew, vars
<1>4. AppliedInv'
  BY DEF SettingsIInv, AppliedInv, Values, Resolved, vars
<1>5. QED
  BY <1>1, <1>2, <1>3, <1>4 DEF SettingsIInv

(* The inductive invariant of the settings.                                *)
THEOREM SettingsInductive == Spec => []SettingsIInv
<1>1. Init => SettingsIInv
  BY InitSettings
<1>2. SettingsIInv /\ [Next]_vars => SettingsIInv'
  <2> SUFFICES ASSUME SettingsIInv, [Next]_vars
               PROVE  SettingsIInv'
    OBVIOUS
  <2>1. CASE Start
    BY <2>1, StepStart
  <2>2. CASE SwitchOff
    BY <2>2, StepSwitchOff
  <2>3. CASE OpenSettings \/ EndStream
    BY <2>3, StepScreen
  <2>4. CASE CloseSettings
    BY <2>4, StepCloseSettings
  <2>5. CASE TornSave
    BY <2>5, StepTornSave
  <2>6. CASE Edit
    BY <2>6, StepToggleAuto, StepEditValue DEF Edit
  <2>7. CASE SwitchHostAudio \/ \E d \in Decoders : PickDecoder(d)
    BY <2>7, StepOther
  <2>8. CASE Stream
    BY <2>8, StepStream
  <2>9. CASE \E p \in Picks : PickProfile(p)
    BY <2>9, StepPickProfile
  <2>10. CASE UNCHANGED vars
    BY <2>10, StutterSettings
  <2>11. QED
    BY <2>1, <2>2, <2>3, <2>4, <2>5, <2>6, <2>7, <2>8, <2>9, <2>10 DEF Next
<1>3. QED
  BY <1>1, <1>2, PTL DEF Spec

(* config_save and config_parse agree: a configuration that is saved and   *)
(* read again is the same in every field, the flags of older versions      *)
(* included.                                                               *)
THEOREM SavedComesBack ==
  Spec => [](\A f \in Fields : Parse(Save(config))[f] = config[f])
<1>1. SettingsIInv => \A f \in Fields : Parse(Save(config))[f] = config[f]
  <2> SUFFICES ASSUME SettingsIInv, NEW f \in Fields
               PROVE  Parse(config)[f] = config[f]
    BY DEF Save
  <2>1. ConfigOK(config)
    BY DEF SettingsIInv, Kinds
  <2>2. /\ ConfigOK(Parse(config))
        /\ \A k \in Fields : k \notin OldFlags => Parse(config)[k] = config[k]
    BY <2>1, ParsedAgain
  <2>3. CASE f \notin OldFlags
    BY <2>2, <2>3
  <2>4. CASE f \in OldFlags
    <3>1. Parse(config)["potato_profile"] = config["potato_profile"]
      BY <2>2, Names DEF Others
    <3>2. /\ Parse(config)[f] \in BOOLEAN /\ config[f] \in BOOLEAN
          /\ Parse(config)[f] <=> config[f]
      BY <2>1, <2>2, <2>4, <3>1 DEF ConfigOK, Profiled, OldFlags
    <3>3. QED
      BY <3>2
  <2>5. QED
    BY <2>3, <2>4
<1>2. QED
  BY <1>1, SettingsInductive, PTL

(* Types.                                                                  *)
THEOREM SettingsTypeCorrect == Spec => []TypeOK
<1>1. SettingsIInv => TypeOK
  <2> SUFFICES ASSUME SettingsIInv
               PROVE  TypeOK
    OBVIOUS
  <2>1. Kinds /\ ConfigOK(config)
    BY DEF SettingsIInv, Kinds
  <2>2. \A k \in DOMAIN AutoOf : config[AutoOf[k]] \in BOOLEAN
    BY <2>1 DEF ConfigOK, Switches
  <2>3. \A file \in {main, legacy} : file = NoFile \/ DOMAIN file \subseteq Fields
    BY <2>1 DEF Kinds, FileOK
  <2>4. picked \in Profiles
    <3>1. FileOK(FileRead)
      BY <2>1 DEF Kinds, FileRead
    <3>2. Parse(FileRead)["potato_profile"] \in Profiles
      BY <3>1, Parsed DEF ConfigOK, Profiled
    <3>3. kept.picked \in Profiles
      BY <3>2 DEF SettingsIInv, CardInv
    <3>4. config["potato_profile"] \in Profiles
      BY <2>1 DEF ConfigOK, Profiled
    <3>5. QED
      BY <3>3, <3>4 DEF SettingsIInv, MemoryInv
  <2>5. QED
    BY <2>1, <2>2, <2>3, <2>4 DEF TypeOK, Kinds, ConfigOK, Profiled
<1>2. QED
  BY <1>1, SettingsInductive, PTL

(* auto_flag_for, config_save and potato_apply_config: what the player sets *)
(* by hand stays until he changes it or gives it back, through profiles,   *)
(* streams, restarts and other consoles; without an AUTO flag of its own,  *)
(* until the card is in an Old 3DS.                                        *)
THEOREM ManualStays == Spec => []ManualValuesLast
<1>1. SettingsIInv => ManualValuesLast
  <2> SUFFICES ASSUME SettingsIInv, place # "off", NEW k \in DOMAIN chosen
               PROVE  /\ chosen[k].stays = "always" => ~config[AutoOf[k]]
                      /\ chosen[k].stays # "replaced" => config[k] = chosen[k].value
    BY DEF ManualValuesLast
  <2>1. Holds(chosen, config)
    BY DEF SettingsIInv, MemoryInv
  <2>2. chosen[k].stays # "replaced" => config[k] = chosen[k].value
    BY <2>1 DEF Holds
  <2>3. chosen[k].stays = "always" => ~config[AutoOf[k]]
    BY <2>1, HeldOutOfAuto
  <2>4. QED
    BY <2>2, <2>3
<1>2. QED
  BY <1>1, SettingsInductive, PTL

(* An Old 3DS streams what the menu promises of the profile that was       *)
(* picked, except for what is set by hand.                                 *)
THEOREM StreamKeepsPromise == Spec => []StreamIsAsPromised
<1>1. SettingsIInv => StreamIsAsPromised
  <2> SUFFICES ASSUME SettingsIInv, place = "streaming", potato
               PROVE  StreamIsAsPromised
    BY DEF StreamIsAsPromised
  <2>1. /\ config["video_decoder"] = "software"
        /\ g = [values |-> Values(config), hostAudio |-> config["localaudio"]]
        /\ \A k \in StreamKeys : config[AutoOf[k]] => config[k] = Resolved(config)[k]
    BY DEF SettingsIInv, AppliedInv
  <2>2. /\ ConfigOK(config) /\ Holds(chosen, config)
        /\ picked = config["potato_profile"]
    BY DEF SettingsIInv, Kinds, MemoryInv
  <2>3. DecoderUsed = "potato"
    BY <2>1 DEF DecoderUsed
  <2>4. ASSUME NEW k \in DOMAIN Promised[picked], ~config["stereoscopic_3d"]
        PROVE  config[k] = IF k \in ByHand(chosen) THEN chosen[k].value
                           ELSE Promised[picked][k]
    <3>1. k \in StreamKeys /\ Resolved(config)[k] = Promised[picked][k]
      BY <2>2, <2>4, ResolvedValues
    <3>2. k \in DOMAIN AutoOf
      BY <3>1, Names
    <3>3. CASE config[AutoOf[k]]
      <4>1. k \notin ByHand(chosen)
        BY <3>3, <2>2 DEF Holds, Manual
      <4>2. QED
        BY <4>1, <3>1, <3>3, <2>1
    <3>4. CASE ~config[AutoOf[k]]
      BY <3>4, <3>2, <2>2 DEF Holds, Manual, ByHand
    <3>5. QED
      BY <3>3, <3>4
  <2>5. QED
    BY <2>1, <2>3, <2>4 DEF StreamIsAsPromised
<1>2. QED
  BY <1>1, SettingsInductive, PTL
=============================================================================
