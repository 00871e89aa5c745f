------------------------------ MODULE Input_proofs ------------------------------
(* Proofs about Input for any buttons, letters, modifiers, configurations  *)
(* and any number of messages on the way.                                  *)
EXTENDS Input, TLAPS

Posted == Choices \cup {Exit}
Messages == Modes \cup {Exit}

(* The handler of the menu remembers a choice, or none.                    *)
Handlers ==
  [active : BOOLEAN, r3 : BOOLEAN, hasTap : BOOLEAN, far : BOOLEAN,
   picked : Posted \cup {"none"}, mods : [Modifiers -> {"off", "once", "locked"}]]

Types ==
  /\ config \in Configs /\ closed \in BOOLEAN
  /\ queue \in Seq(Messages) /\ next \in Modes /\ mode \in Modes
  /\ homeAllowed \in BOOLEAN /\ home \in BOOLEAN /\ menuActive \in BOOLEAN
  /\ pc \in {"scan", "adopt", "light", "on", "off", "round", "over"}
  /\ mode = Menu => h \in Handlers

AllMenus(q) == \A i \in 1 .. Len(q) : q[i] = Menu
NoMenu(q) == \A i \in 1 .. Len(q) : q[i] # Menu
MenusLast(q) == \A i \in 1 .. Len(q), j \in 1 .. Len(q) : i < j /\ q[i] = Menu => q[j] = Menu
MenusFirst(q) == \A i \in 1 .. Len(q), j \in 1 .. Len(q) : i < j /\ q[j] = Menu => q[i] = Menu

(* In the menu the requests for it come before the choices made in it, and *)
(* outside the choices come before the requests for the menu.              *)
QueueInv ==
  pc # "over" =>
    /\ mode = Menu => MenusFirst(queue) /\ (next # Menu => NoMenu(queue))
    /\ mode # Menu => MenusLast(queue) /\ (next = Menu => AllMenus(queue))

(* HOME pressed just before the menu came: it will be asked for once more, *)
(* and nothing has been chosen in it.                                      *)
WindowInv ==
  pc # "over" /\ mode = Menu /\ home /\ ~menuActive =>
    h.picked = "none" /\ next = Menu /\ AllMenus(queue)

(* The menu is not replaced by itself.                                     *)
AdoptInv == pc = "adopt" /\ mode = Menu => next # Menu

(* Without bottom_auto_off nobody touches the light.                       *)
LightInv ==
  ~config.autoOff => lit /\ away = "here" /\ pc \notin {"light", "on", "off"}

IInv == Types /\ QueueInv /\ WindowInv /\ AdoptInv /\ LightInv /\ HomeIsMenus

-----------------------------------------------------------------------------
(* Queues.                                                                 *)

(* A choice, or nothing, at the end of a queue.                            *)
LEMMA Choose ==
  ASSUME NEW q \in Seq(Messages), NEW s \in Seq(Posted), Len(s) \in {0, 1}
  PROVE  /\ q \o s \in Seq(Messages)
         /\ MenusFirst(q) => MenusFirst(q \o s)
         /\ NoMenu(q) => NoMenu(q \o s)
<1>1. \A i \in 1 .. Len(s) : s[i] # Menu
  BY DEF Posted, Choices, Exit, Menu
<1>2. s \in Seq(Messages)
  <2>1. Posted \subseteq Messages
    BY DEF Posted, Messages, Modes
  <2>2. QED
    BY <2>1
<1>3. q \o s \in Seq(Messages) /\ Len(q \o s) = Len(q) + Len(s)
  BY <1>2
<1>4. \A i \in 1 .. Len(q \o s) :
        (q \o s)[i] = IF i <= Len(q) THEN q[i] ELSE s[i - Len(q)]
  BY <1>2
<1>5. NoMenu(q) => NoMenu(q \o s)
  BY <1>1, <1>3, <1>4 DEF NoMenu
<1>6. MenusFirst(q) => MenusFirst(q \o s)
  BY <1>1, <1>3, <1>4 DEF MenusFirst
<1>7. QED
  BY <1>3, <1>5, <1>6

(* A request for the menu at the end of a queue.                           *)
LEMMA AskForMenu ==
  ASSUME NEW q \in Seq(Messages)
  PROVE  /\ q \o <<Menu>> \in Seq(Messages)
         /\ MenusLast(q) => MenusLast(q \o <<Menu>>)
         /\ AllMenus(q) => AllMenus(q \o <<Menu>>)
<1>1. <<Menu>> \in Seq(Messages)
  BY DEF Messages, Modes
<1>2. q \o <<Menu>> \in Seq(Messages) /\ Len(q \o <<Menu>>) = Len(q) + 1
  BY <1>1
<1>3. \A i \in 1 .. Len(q) + 1 :
        (q \o <<Menu>>)[i] = IF i <= Len(q) THEN q[i] ELSE Menu
  BY <1>1
<1>4. QED
  BY <1>2, <1>3 DEF MenusLast, AllMenus

(* What a queue is, its rest is; and the rest of one that starts with the  *)
(* menu, or does not.                                                      *)
LEMMA Rest ==
  ASSUME NEW q \in Seq(Messages), q # <<>>
  PROVE  /\ Tail(q) \in Seq(Messages) /\ Head(q) \in Messages
         /\ MenusFirst(q) => /\ MenusFirst(Tail(q))
                             /\ Head(q) # Menu => NoMenu(Tail(q))
         /\ MenusLast(q) => /\ MenusLast(Tail(q))
                            /\ Head(q) = Menu => AllMenus(Tail(q))
         /\ AllMenus(q) => Head(q) = Menu /\ AllMenus(Tail(q))
         /\ NoMenu(q) => Head(q) # Menu /\ NoMenu(Tail(q))
<1>1. /\ Tail(q) \in Seq(Messages) /\ Len(Tail(q)) = Len(q) - 1
      /\ Head(q) = q[1] /\ Head(q) \in Messages /\ Len(q) \in Nat \ {0}
      /\ \A i \in 1 .. Len(q) - 1 : Tail(q)[i] = q[i + 1]
  OBVIOUS
<1>2. MenusFirst(q) => /\ MenusFirst(Tail(q))
                       /\ Head(q) # Menu => NoMenu(Tail(q))
  BY <1>1 DEF MenusFirst, NoMenu
<1>3. MenusLast(q) => /\ MenusLast(Tail(q))
                      /\ Head(q) = Menu => AllMenus(Tail(q))
  BY <1>1 DEF MenusLast, AllMenus
<1>4. QED
  BY <1>1, <1>2, <1>3 DEF AllMenus, NoMenu

-----------------------------------------------------------------------------
(* What a touch leads to.                                                  *)

(* Only the handler of the menu posts.                                     *)
LEMMA NothingPosted ==
  ASSUME mode \in Modes, mode # Menu, NEW r \in Touches
  PROVE  r.posts = <<>>
<1>1. ASSUME NEW d \in Unchanged PROVE d.posts = <<>>
  BY <1>1 DEF Unchanged, Result
<1>2. ASSUME NEW d \in Down
      PROVE  \E a, b, c : d = Result(a, b, c, <<>>)
  <2>1. CASE mode = "GAMEPAD"
    BY <1>2, <2>1 DEF Down, GamepadDown
  <2>2. CASE mode = "MOUSEPAD"
    BY <1>2, <2>2 DEF Down, MouseDown
  <2>3. CASE mode = "KEYBOARD"
    BY <1>2, <2>3 DEF Down, KeyboardDown
  <2>4. CASE mode \in {"ABSOLUTE_TOUCH", "DS_TOUCH"}
    BY <1>2, <2>4 DEF Down, ClickDown
  <2>5. CASE mode = "MAGNIFY_TOUCH"
    BY <1>2, <2>5 DEF Down, MagnifyDown, ClickDown
  <2>6. CASE mode \in {"DEBUG_TOUCH", Disabled}
    BY <1>2, <2>6 DEF Down, Unchanged, Menu, Disabled
  <2>7. QED
    BY <2>1, <2>2, <2>3, <2>4, <2>5, <2>6 DEF Modes, Choices
<1>3. ASSUME NEW d \in Up
      PROVE  \E a, b, c : d = Result(a, b, c, <<>>)
  <2>1. CASE mode = "GAMEPAD"
    BY <1>3, <2>1 DEF Up, GamepadUp
  <2>2. CASE mode = "MOUSEPAD"
    BY <1>3, <2>2 DEF Up, MouseUp
  <2>3. CASE mode = "KEYBOARD"
    BY <1>3, <2>3 DEF Up, KeyboardUp
  <2>4. CASE mode \in {"ABSOLUTE_TOUCH", "DS_TOUCH"}
    BY <1>3, <2>4 DEF Up, ClickUp
  <2>5. CASE mode = "MAGNIFY_TOUCH"
    BY <1>3, <2>5 DEF Up, MagnifyUp, ClickUp
  <2>6. CASE mode \in {"DEBUG_TOUCH", Disabled}
    BY <1>3, <2>6 DEF Up, Unchanged, Menu, Disabled
  <2>7. QED
    BY <2>1, <2>2, <2>3, <2>4, <2>5, <2>6 DEF Modes, Choices
<1>4. ASSUME NEW d \in Hold
      PROVE  \E a, b, c : d = Result(a, b, c, <<>>)
  <2>1. CASE mode = "GAMEPAD"
    BY <1>4, <2>1 DEF Hold, GamepadHold
  <2>2. CASE mode # "GAMEPAD"
    BY <1>4, <2>2 DEF Hold, Unchanged
  <2>3. QED
    BY <2>1, <2>2
<1>5. ASSUME NEW d, \E a, b, c : d = Result(a, b, c, <<>>)
      PROVE  /\ d.posts = <<>> /\ [d EXCEPT !.h.active = TRUE].posts = <<>>
             /\ [d EXCEPT !.h.active = FALSE].posts = <<>>
  BY <1>5 DEF Result
<1>6. QED
  BY <1>1, <1>2, <1>3, <1>4, <1>5 DEF Touches

(* The menu posts what was picked when the finger leaves it, and nothing   *)
(* for the host.                                                           *)
LEMMA MenuTouched ==
  ASSUME mode = Menu, h \in Handlers, config \in Configs, NEW r \in Touches
  PROVE  /\ r.h \in Handlers /\ r.posts \in Seq(Posted) /\ Len(r.posts) \in {0, 1}
         /\ h.picked = "none" => r.posts = <<>>
         /\ r.pressed = pressed
<1>1. config.modes \subseteq Choices
  BY InputAssumption
<1>2. mode # Disabled /\ mode \notin Choices
  BY DEF Menu, Disabled, Choices
<1>3. Down = MenuHold /\ Hold = MenuHold /\ Up = MenuUp
  BY <1>2 DEF Down, Hold, Up, Choices
<1>4. ASSUME NEW d \in MenuHold
      PROVE  /\ d = Result(d.h, published, pressed, <<>>) /\ d.h \in Handlers
  BY <1>1, <1>4 DEF MenuHold, Picks, Result, Handlers, Posted
<1>5. ASSUME NEW d \in MenuUp
      PROVE  /\ d = Result(h, published, pressed, d.posts)
             /\ d.posts = IF h.picked = "none" THEN <<>> ELSE <<h.picked>>
  BY <1>5 DEF MenuUp, Result
<1>6. /\ <<>> \in Seq(Posted) /\ Len(<<>>) = 0
      /\ \A x \in Posted : <<x>> \in Seq(Posted) /\ Len(<<x>>) = 1
      /\ h.picked \in Posted \cup {"none"}
  BY DEF Handlers
<1>7. ASSUME NEW g \in Handlers, NEW b \in BOOLEAN, NEW s,
             r = [Result(g, published, pressed, s) EXCEPT !.h.active = b]
      PROVE  r.h \in Handlers /\ r.posts = s /\ r.pressed = pressed
  <2>1. r.h = [g EXCEPT !.active = b] /\ r.posts = s /\ r.pressed = pressed
    BY <1>7 DEF Result
  <2>2. QED
    BY <2>1 DEF Handlers
<1>8. CASE edge = "down"
  <2>1. PICK d \in MenuHold : r = [d EXCEPT !.h.active = TRUE]
    BY <1>2, <1>3, <1>8 DEF Touches
  <2>2. r.h \in Handlers /\ r.posts = <<>> /\ r.pressed = pressed
    BY <1>4, <1>7, <2>1
  <2>3. QED
    BY <1>6, <2>2
<1>9. CASE edge = "up"
  <2>1. PICK d \in MenuUp : r = [d EXCEPT !.h.active = FALSE]
    BY <1>2, <1>3, <1>9 DEF Touches
  <2>2. r.h \in Handlers /\ r.posts = d.posts /\ r.pressed = pressed
    BY <1>5, <1>7, <2>1
  <2>3. QED
    BY <1>5, <1>6, <2>2
<1>10. CASE edge \notin {"down", "up"}
  <2>1. r \in MenuHold \cup Unchanged
    BY <1>2, <1>3, <1>10 DEF Touches
  <2>2. r.h \in Handlers /\ r.posts = <<>> /\ r.pressed = pressed
    BY <1>4, <2>1 DEF Unchanged, Result
  <2>3. QED
    BY <1>6, <2>2
<1>11. QED
  BY <1>8, <1>9, <1>10

-----------------------------------------------------------------------------
(* The steps of the loop.                                                  *)
LEMMA InitIInv == Init => IInv
<1> SUFFICES ASSUME Init PROVE IInv
  OBVIOUS
<1> USE DEF Init
<1>1. config.modes \subseteq Choices /\ Menu \notin Choices /\ mode # Menu /\ next # Menu
  BY InputAssumption DEF Menu, Disabled, Choices
<1>2. queue \in Seq(Messages) /\ MenusLast(queue)
  <2>1. CASE queue = <<Menu>>
    BY <2>1 DEF MenusLast, Messages, Modes
  <2>2. ASSUME NEW m \in config.modes, queue = <<m, Menu>>
        PROVE  queue \in Seq(Messages) /\ MenusLast(queue)
    <3>1. m \in Choices /\ m # Menu
      BY <1>1
    <3>2. queue \in Seq(Messages)
      BY <2>2, <3>1 DEF Messages, Modes
    <3>3. Len(queue) = 2 /\ queue[1] = m /\ queue[2] = Menu
      BY <2>2
    <3>4. QED
      BY <3>1, <3>2, <3>3 DEF MenusLast
  <2>3. QED
    BY <2>1, <2>2
<1>3. Types
  BY <1>1, <1>2 DEF Types, Modes
<1>4. QED
  BY <1>1, <1>2, <1>3 DEF IInv, QueueInv, WindowInv, AdoptInv, LightInv, HomeIsMenus

LEMMA ScanStep ==
  ASSUME IInv, Scan
  PROVE  IInv'
<1> USE DEF IInv, Scan, touchVars, homeVars, hostVars, light
<1>1. Types'
  BY DEF Types
<1>2. QueueInv' /\ WindowInv' /\ AdoptInv'
  BY DEF QueueInv, WindowInv, AdoptInv
<1>3. LightInv' /\ HomeIsMenus'
  BY DEF LightInv, HomeIsMenus
<1>4. QED
  BY <1>1, <1>2, <1>3

LEMMA AdoptStep ==
  ASSUME IInv, Adopt
  PROVE  IInv'
<1> USE DEF IInv, Adopt, homeVars, hostVars, light
<1>1. Fresh \in Handlers
  BY DEF Fresh, Handlers
<1>2. Types'
  BY <1>1 DEF Types
<1>3. mode = Menu => next # Menu
  BY DEF AdoptInv
<1>4. QueueInv'
  <2>1. CASE mode = Menu
    BY <1>3, <2>1 DEF QueueInv, NoMenu, MenusLast
  <2>2. CASE mode # Menu /\ next = Menu
    BY <2>2 DEF QueueInv, AllMenus, MenusFirst
  <2>3. CASE mode # Menu /\ next # Menu
    BY <2>3 DEF QueueInv
  <2>4. QED
    BY <2>1, <2>2, <2>3
<1>5. WindowInv'
  <2>1. Fresh.picked = "none"
    BY DEF Fresh
  <2>2. QED
    BY <1>3, <2>1 DEF WindowInv, QueueInv
<1>6. AdoptInv' /\ LightInv'
  BY DEF AdoptInv, LightInv
<1>7. HomeIsMenus'
  BY <1>3 DEF HomeIsMenus, Types
<1>8. QED
  BY <1>2, <1>4, <1>5, <1>6, <1>7

LEMMA BacklightStep ==
  ASSUME IInv, Light \/ Power
  PROVE  IInv'
<1> USE DEF IInv, Light, Power, touchVars, homeVars, hostVars
<1>1. Types'
  BY DEF Types
<1>2. QueueInv' /\ WindowInv' /\ AdoptInv'
  BY DEF QueueInv, WindowInv, AdoptInv
<1>3. LightInv'
  BY DEF LightInv
<1>4. HomeIsMenus'
  BY DEF HomeIsMenus
<1>5. QED
  BY <1>1, <1>2, <1>3, <1>4

LEMMA RoundStep ==
  ASSUME IInv, Round \/ RoundHome
  PROVE  IInv'
<1> USE DEF IInv
<1>1. PICK r \in Touches :
        /\ h' = r.h
        /\ queue' = queue \o r.posts
             \o (IF home /\ ~menuActive THEN <<Menu>> ELSE <<>>)
  <2>1. CASE Round
    <3>1. PICK r \in Touches : h' = r.h /\ queue' = queue \o r.posts
      BY <2>1 DEF Round
    <3>2. r.posts \in Seq(Messages)
      <4>1. CASE mode = Menu
        <5>1. r.posts \in Seq(Posted)
          BY <4>1, MenuTouched DEF Types
        <5>2. Posted \subseteq Messages
          BY DEF Posted, Messages, Modes
        <5>3. QED
          BY <5>1, <5>2
      <4>2. CASE mode # Menu
        <5>1. r.posts = <<>>
          BY <4>2, NothingPosted DEF Types
        <5>2. QED
          BY <5>1
      <4>3. QED
        BY <4>1, <4>2
    <3>3. queue \o r.posts \o <<>> = queue \o r.posts
      BY <3>2 DEF Types
    <3>4. QED
      BY <2>1, <3>1, <3>3 DEF Round
  <2>2. CASE RoundHome
    BY <2>2 DEF RoundHome
  <2>3. QED
    BY <2>1, <2>2
<1>2. /\ pc = "round" /\ pc' = "scan"
      /\ UNCHANGED <<config, closed, next, mode, homeAllowed, light, away>>
      /\ home' \in BOOLEAN /\ menuActive' \in BOOLEAN
      /\ home' => menuActive'
  <2>1. CASE Round
    <3>1. home' = home /\ ~home /\ menuActive' = FALSE
      BY <2>1 DEF Round
    <3>2. ~home' /\ home' \in BOOLEAN /\ menuActive' \in BOOLEAN
      BY <3>1 DEF Types
    <3>3. QED
      BY <2>1, <3>2 DEF Round
  <2>2. CASE RoundHome
    <3>1. menuActive' = TRUE
      BY <2>2 DEF RoundHome
    <3>2. menuActive' /\ menuActive' \in BOOLEAN
      BY <3>1
    <3>3. QED
      BY <2>2, <3>2 DEF RoundHome
  <2>3. QED
    BY <2>1, <2>2
<1>3. CASE mode = Menu
  <2>1. /\ r.h \in Handlers /\ r.posts \in Seq(Posted) /\ Len(r.posts) \in {0, 1}
        /\ h.picked = "none" => r.posts = <<>>
    BY <1>3, MenuTouched DEF Types
  <2>2. queue \in Seq(Messages) /\ MenusFirst(queue) /\ (next # Menu => NoMenu(queue))
    BY <1>2, <1>3 DEF Types, QueueInv
  <2>3. /\ queue \o r.posts \in Seq(Messages)
        /\ MenusFirst(queue \o r.posts)
        /\ next # Menu => NoMenu(queue \o r.posts)
    BY <2>1, <2>2, Choose
  <2>4. queue' \in Seq(Messages) /\ MenusFirst(queue') /\ (next # Menu => NoMenu(queue'))
    <3>1. CASE home /\ ~menuActive
      <4>1. r.posts = <<>> /\ next = Menu /\ AllMenus(queue)
        BY <1>2, <1>3, <2>1, <3>1 DEF WindowInv
      <4>2. queue' = queue \o <<Menu>>
        BY <1>1, <2>2, <3>1, <4>1
      <4>3. queue' \in Seq(Messages) /\ AllMenus(queue')
        BY <2>2, <4>1, <4>2, AskForMenu
      <4>4. QED
        BY <4>1, <4>3 DEF AllMenus, MenusFirst
    <3>2. CASE ~(home /\ ~menuActive)
      <4>1. queue' = queue \o r.posts \o <<>>
        BY <1>1, <3>2
      <4>2. queue' = queue \o r.posts
        BY <2>3, <4>1
      <4>3. QED
        BY <2>3, <4>2
    <3>3. QED
      BY <3>1, <3>2
  <2>5. Types'
    BY <1>1, <1>2, <2>1, <2>4 DEF Types
  <2>6. QueueInv' /\ WindowInv' /\ AdoptInv'
    BY <1>2, <1>3, <2>4 DEF QueueInv, WindowInv, AdoptInv
  <2>7. QED
    BY <1>2, <2>5, <2>6 DEF LightInv, HomeIsMenus, light
<1>4. CASE mode # Menu
  <2>1. r.posts = <<>>
    BY <1>4, NothingPosted DEF Types
  <2>2. queue \in Seq(Messages) /\ MenusLast(queue) /\ (next = Menu => AllMenus(queue))
    BY <1>2, <1>4 DEF Types, QueueInv
  <2>3. queue' \in {queue, queue \o <<Menu>>}
    BY <1>1, <2>1, <2>2
  <2>4. queue' \in Seq(Messages) /\ MenusLast(queue') /\ (next = Menu => AllMenus(queue'))
    BY <2>2, <2>3, AskForMenu
  <2>5. Types'
    BY <1>2, <1>4, <2>4 DEF Types
  <2>6. QueueInv' /\ WindowInv' /\ AdoptInv'
    BY <1>2, <1>4, <2>4 DEF QueueInv, WindowInv, AdoptInv
  <2>7. QED
    BY <1>2, <2>5, <2>6 DEF LightInv, HomeIsMenus, light
<1>5. QED
  BY <1>3, <1>4

LEMMA LeaveStep ==
  ASSUME IInv, Leave
  PROVE  IInv'
<1> USE DEF IInv, Leave, samples, hostVars
<1>1. Types'
  BY DEF Types, Modes, Menu, Disabled
<1>2. QueueInv' /\ WindowInv' /\ AdoptInv' /\ LightInv'
  BY DEF QueueInv, WindowInv, AdoptInv, LightInv
<1>3. HomeIsMenus'
  BY DEF LightInv, HomeIsMenus
<1>4. QED
  BY <1>1, <1>2, <1>3

-----------------------------------------------------------------------------
(* The steps of the others.                                                *)
LEMMA DeliverStep ==
  ASSUME IInv, Deliver
  PROVE  IInv'
<1> USE DEF IInv
<1>1. /\ pc # "over" /\ queue # <<>> /\ queue \in Seq(Messages)
      /\ queue' = Tail(queue)
      /\ UNCHANGED <<config, pc, mode, h, homeAllowed, home, menuActive, light, away>>
  BY DEF Deliver, Types, homeVars
<1>2. \/ Head(queue) = Exit /\ closed' = TRUE /\ next' = next
      \/ Head(queue) # Exit /\ closed' = closed /\ next' = Head(queue)
  BY DEF Deliver
<1>3. Exit # Menu /\ Head(queue) \in Modes \cup {Exit}
  BY <1>1, Rest DEF Exit, Menu, Messages
<1>4. Types'
  <2>1. queue' \in Seq(Messages)
    BY <1>1, Rest
  <2>2. next' \in Modes /\ closed' \in BOOLEAN
    BY <1>2, <1>3 DEF Types
  <2>3. QED
    BY <1>1, <2>1, <2>2 DEF Types
<1>5. CASE mode = Menu
  <2>1. MenusFirst(queue) /\ (next # Menu => NoMenu(queue))
    BY <1>1, <1>5 DEF QueueInv
  <2>2. MenusFirst(queue') /\ (next' # Menu => NoMenu(queue'))
    BY <1>1, <1>2, <1>3, <2>1, Rest
  <2>3. next # Menu => next' # Menu
    BY <1>1, <1>2, <2>1, Rest
  <2>4. next = Menu /\ AllMenus(queue) => next' = Menu /\ AllMenus(queue')
    BY <1>1, <1>2, <1>3, Rest
  <2>5. QueueInv'
    BY <1>1, <1>5, <2>2 DEF QueueInv
  <2>6. WindowInv'
    BY <1>1, <2>4 DEF WindowInv
  <2>7. AdoptInv'
    BY <1>1, <2>3 DEF AdoptInv
  <2>8. QED
    BY <1>1, <1>4, <2>5, <2>6, <2>7 DEF LightInv, HomeIsMenus, light
<1>6. CASE mode # Menu
  <2>1. MenusLast(queue) /\ (next = Menu => AllMenus(queue))
    BY <1>1, <1>6 DEF QueueInv
  <2>2. MenusLast(queue') /\ (next' = Menu => AllMenus(queue'))
    BY <1>1, <1>2, <1>3, <2>1, Rest
  <2>3. QueueInv' /\ WindowInv' /\ AdoptInv'
    BY <1>1, <1>6, <2>2 DEF QueueInv, WindowInv, AdoptInv
  <2>4. QED
    BY <1>1, <1>4, <2>3 DEF LightInv, HomeIsMenus, light
<1>7. QED
  BY <1>5, <1>6

LEMMA OtherStep ==
  ASSUME IInv, HostEnds \/ PressHome \/ TimePasses \/ Suspend \/ Suspended \/ Resume
  PROVE  IInv'
<1> USE DEF IInv
<1>1. /\ UNCHANGED <<config, pc, queue, next, mode, h, homeAllowed, menuActive>>
      /\ closed' \in BOOLEAN /\ home' \in BOOLEAN
      /\ home' = home \/ (~homeAllowed /\ pc # "over")
  BY DEF HostEnds, PressHome, TimePasses, Suspend, Suspended, Resume, Types, touchVars,
     homeVars, light
<1>2. /\ pc = "over" => lit' = lit
      /\ ~config.autoOff /\ away = "here" => lit' = lit /\ away' = away
  BY DEF HostEnds, PressHome, TimePasses, Suspend, Suspended, Resume, touchVars,
     homeVars, light
<1>3. Types'
  BY <1>1 DEF Types
<1>4. QueueInv' /\ AdoptInv'
  BY <1>1 DEF QueueInv, AdoptInv
<1>5. WindowInv'
  BY <1>1 DEF WindowInv, HomeIsMenus
<1>6. LightInv' /\ HomeIsMenus'
  BY <1>1, <1>2 DEF LightInv, HomeIsMenus
<1>7. QED
  BY <1>3, <1>4, <1>5, <1>6

(* The strengthening: in which order the messages about the menu are, and  *)
(* who may touch the light.                                                *)
THEOREM Inductive == Spec => []IInv
<1>1. ASSUME IInv, [Next]_vars PROVE IInv'
  <2>1. CASE UNCHANGED vars
    <3>1. Types' /\ QueueInv' /\ WindowInv' /\ AdoptInv'
      BY <1>1, <2>1 DEF vars, touchVars, homeVars, IInv, Types, QueueInv, WindowInv, AdoptInv
    <3>2. LightInv' /\ HomeIsMenus'
      BY <1>1, <2>1 DEF vars, touchVars, homeVars, light, IInv, LightInv, HomeIsMenus
    <3>3. QED
      BY <3>1, <3>2 DEF IInv
  <2>2. CASE Steps
    BY <1>1, <2>2, ScanStep, AdoptStep, BacklightStep, RoundStep, LeaveStep DEF Steps
  <2>3. CASE Environment
    BY <1>1, <2>3, DeliverStep, OtherStep DEF Environment
  <2>4. QED
    BY <1>1, <2>1, <2>2, <2>3 DEF Next
<1>2. QED
  BY <1>1, InitIInv, PTL DEF Spec

(* HOME belongs to the program but in its menu, and to the player after    *)
(* the stream: whatever is pressed and chosen, in whatever order the       *)
(* dispatcher and the loop get to it.                                      *)
THEOREM HomeFollowsTheMenu == Spec => []HomeIsMenus
<1>1. IInv => HomeIsMenus
  BY DEF IInv
<1>2. QED
  BY <1>1, Inductive, PTL

-----------------------------------------------------------------------------
(* What the host knows of the controller.                                  *)

(* In the view-only mode no touch is an event for the host.                *)
LEMMA WatchersPressNothing ==
  ASSUME Types, config.viewOnly, NEW r \in Touches
  PROVE  r.pressed = pressed
<1>1. CASE mode = Menu
  BY <1>1, MenuTouched DEF Types
<1>2. CASE mode # Menu
  <2>1. r \in Unchanged
    BY <1>2 DEF Touches
  <2>2. QED
    BY <2>1 DEF Unchanged, Result
<1>3. QED
  BY <1>1, <1>2

LEMMA RoundTells ==
  ASSUME Types, HostPlaysThePad, Round
  PROVE  HostPlaysThePad'
<1>1. PICK r \in Touches :
        /\ config.viewOnly => pad' = pad
        /\ Tell(r.pressed)
  BY DEF Round
<1>2. pc # "over" /\ pc' # "over" /\ config' = config
  BY DEF Round
<1>3. config.viewOnly => r.pressed = pressed
  BY WatchersPressNothing
<1>4. CASE pad' = pad
  <2>1. pressed' = r.pressed /\ hostPad' = hostPad /\ dropped' = dropped
    BY <1>1, <1>4 DEF Tell
  <2>2. QED
    BY <1>2, <1>3, <1>4, <2>1 DEF HostPlaysThePad
<1>5. CASE pad' # pad
  <2>1. hostPad' = IF config.triggersMouse THEN pad' \ Triggers ELSE pad'
    BY <1>1, <1>5 DEF Tell
  <2>2. QED
    BY <1>1, <1>2, <1>5, <2>1 DEF HostPlaysThePad
<1>6. QED
  BY <1>4, <1>5

LEMMA HomeTells ==
  ASSUME Types, HostPlaysThePad, RoundHome
  PROVE  HostPlaysThePad'
<1>1. PICK r \in Touches : pressed' = r.pressed /\ (config.viewOnly => pad' = pad)
  BY DEF RoundHome
<1>2. /\ pc # "over" /\ pc' # "over" /\ config' = config /\ hostPad' = hostPad
      /\ dropped' = (dropped \/ pad' # pad)
  BY DEF RoundHome
<1>3. config.viewOnly => r.pressed = pressed
  BY WatchersPressNothing
<1>4. ~dropped' => ~dropped /\ pad' = pad
  BY <1>2
<1>5. QED
  BY <1>1, <1>2, <1>3, <1>4 DEF HostPlaysThePad

(* The host plays with the controller the player holds, but for what was   *)
(* stored in a round that saw HOME; and nobody who only watches plays.     *)
THEOREM HostHasThePad == Spec => []HostPlaysThePad
<1>1. Init => HostPlaysThePad
  BY DEF Init, HostPlaysThePad
<1>2. ASSUME IInv, HostPlaysThePad, [Next]_vars PROVE HostPlaysThePad'
  <2>1. CASE Round \/ RoundHome
    BY <1>2, <2>1, RoundTells, HomeTells DEF IInv
  <2>2. CASE Leave
    BY <1>2, <2>2 DEF Leave, HostPlaysThePad, hostVars
  <2>3. CASE \/ UNCHANGED vars \/ Scan \/ Adopt \/ Light \/ Power \/ Environment
    <3>1. UNCHANGED <<config, pad, hostPad, pressed, dropped>>
      BY <2>3 DEF vars, hostVars, Scan, Adopt, Light, Power, Environment, Deliver, HostEnds,
         PressHome, TimePasses, Suspend, Suspended, Resume
    <3>2. pc' # "over" => pc # "over"
      BY <2>3 DEF vars, Scan, Adopt, Light, Power, Environment, Deliver, HostEnds,
         PressHome, TimePasses, Suspend, Suspended, Resume
    <3>3. QED
      BY <1>2, <3>1, <3>2 DEF HostPlaysThePad
  <2>4. QED
    BY <1>2, <2>1, <2>2, <2>3 DEF Next, Steps
<1>3. QED
  BY <1>1, <1>2, Inductive, PTL DEF Spec

-----------------------------------------------------------------------------
(* What a touch leaves behind.                                             *)
Hands == {"MOUSEPAD", "KEYBOARD"}                            (* press what is picked *)
Clicks == {"ABSOLUTE_TOUCH", "DS_TOUCH", "MAGNIFY_TOUCH"}    (* the touch is a click *)
Pressable == Mouse \cup Letters \cup Modifiers

Memories ==
  [active : BOOLEAN, r3 : BOOLEAN, hasTap : BOOLEAN, far : BOOLEAN,
   picked : TouchPad \cup Pressable \cup Posted \cup {"none", "switch"},
   mods : [Modifiers -> {"off", "once", "locked"}]]

(* What a handler that remembers g has pressed, and one that has nothing.  *)
Owned(g) ==
  IF mode \in Hands THEN {g.picked}
  ELSE IF mode \in Clicks /\ g.active THEN {"LEFT"} ELSE {}
AtEase(g) == ~g.active /\ (mode \in Hands => g.picked \in {"none", "switch"})
Deaf == mode = Disabled \/ (config.viewOnly /\ mode # Menu)

TouchInv ==
  pc # "over" =>
    /\ h \in Memories /\ finger \in BOOLEAN /\ edge \in {"down", "up", "none"}
    /\ pressed \subseteq Pressable
    /\ pressed \subseteq orphans \cup Triggered \cup Owned(h)
    /\ published # {} => mode = "GAMEPAD" /\ h.active
    /\ pc = "scan" => edge = "none"
    /\ (edge = "up" => ~finger) /\ (edge = "down" => finger)
    /\ edge = "down" \/ (edge = "none" /\ ~finger) \/ Deaf => AtEase(h)

LEMMA Names ==
  /\ "none" \notin Pressable /\ "switch" \notin Pressable
  /\ Hands \cap Clicks = {} /\ "GAMEPAD" \notin Hands \cup Clicks
  /\ Menu \notin Hands \cup Clicks \cup {"GAMEPAD"}
BY InputAssumption DEF Pressable, Mouse, Hands, Clicks, Menu

(* What a touch makes of the handler, of what it publishes and of what is  *)
(* pressed, when the finger comes down, when it is lifted, and between.    *)
DownOk(g, pub, down) ==
  /\ g \in Memories /\ (pressed \subseteq Pressable => down \subseteq Pressable)
  /\ down \subseteq pressed \cup (IF mode \in Hands THEN {g.picked}
                                ELSE IF mode \in Clicks THEN {"LEFT"} ELSE {})
  /\ mode # "GAMEPAD" => pub = published

UpOk(g, pub, down) ==
  /\ g \in Memories /\ down \subseteq pressed
  /\ mode \in Hands => /\ g.picked \in {"none", "switch"}
                       /\ h.picked \in down => h.picked \in {"none", "switch"}
  /\ mode \in Clicks /\ "LEFT" \in down => "LEFT" \in Unlocked
  /\ pub = IF mode = "GAMEPAD" THEN {} ELSE published

HoldOk(g, pub, down) ==
  /\ g \in Memories /\ g.active = h.active /\ down = pressed
  /\ mode \in Hands => g.picked = h.picked
  /\ mode # "GAMEPAD" => pub = published

LEMMA DownPresses ==
  ASSUME mode \in Modes, config \in Configs, h \in Memories, NEW d \in Down
  PROVE  \E g, pub, down, posts : d = Result(g, pub, down, posts) /\ DownOk(g, pub, down)
<1>0. /\ mode = "GAMEPAD" => Down = GamepadDown
      /\ mode = "MOUSEPAD" => Down = MouseDown
      /\ mode = "KEYBOARD" => Down = KeyboardDown
      /\ mode \in {"ABSOLUTE_TOUCH", "DS_TOUCH"} => Down = ClickDown
      /\ mode = "MAGNIFY_TOUCH" => Down = MagnifyDown
      /\ mode = Menu => Down = MenuHold
      /\ mode \in {"DEBUG_TOUCH", Disabled} => Down = Unchanged
  BY DEF Down, Menu, Disabled
<1>1. CASE mode = "GAMEPAD"
  <2> DEFINE S == {[h EXCEPT !.picked = b, !.r3 = FALSE] : b \in Bottom}
                    \cup {[h EXCEPT !.picked = "camera", !.r3 = second, !.far = second,
                                    !.hasTap = FALSE] : second \in {FALSE, h.hasTap}}
  <2>0. S \subseteq Memories
    <3>1. ASSUME NEW b \in Bottom PROVE [h EXCEPT !.picked = b, !.r3 = FALSE] \in Memories
      BY DEF Memories, TouchPad
    <3>2. ASSUME NEW second \in BOOLEAN
          PROVE  [h EXCEPT !.picked = "camera", !.r3 = second, !.far = second,
                           !.hasTap = FALSE] \in Memories
      BY DEF Memories, TouchPad
    <3>3. h.hasTap \in BOOLEAN
      BY DEF Memories
    <3>4. QED
      BY <3>1, <3>2, <3>3
  <2>1. PICK g \in S : d = Result(g, Published(g, FALSE), pressed, <<>>)
    <3>1. d \in {Result(g, Published(g, FALSE), pressed, <<>>) : g \in S}
      BY <1>0, <1>1 DEF GamepadDown
    <3> HIDE DEF S
    <3>2. QED
      BY <3>1
  <2>2. g \in Memories
    BY <2>0
  <2>3. DownOk(g, Published(g, FALSE), pressed)
    BY <1>1, <2>2 DEF DownOk
  <2>4. QED
    BY <2>1, <2>3
<1>2. CASE mode = "MOUSEPAD"
  <2>1. CASE d = Result(h, published, pressed, <<>>)
    <3>1. DownOk(h, published, pressed)
      BY DEF DownOk
    <3>2. QED
      BY <2>1, <3>1
  <2>2. CASE \E b \in Mouse : d = Result(Picks(b), published, pressed \cup {b}, <<>>)
    <3>1. PICK b \in Mouse : d = Result(Picks(b), published, pressed \cup {b}, <<>>)
      BY <2>2
    <3>2. Picks(b) \in Memories /\ Picks(b).picked = b
      BY DEF Picks, Memories, Pressable
    <3>3. DownOk(Picks(b), published, pressed \cup {b})
      BY <1>2, <3>2 DEF DownOk, Pressable, Hands
    <3>4. QED
      BY <3>1, <3>3
  <2>3. QED
    BY <1>0, <1>2, <2>1, <2>2 DEF MouseDown
<1>3. CASE mode = "KEYBOARD"
  <2>1. CASE \E x \in {"none", "switch"} : d = Result(Picks(x), published, pressed, <<>>)
    <3>1. PICK x \in {"none", "switch"} : d = Result(Picks(x), published, pressed, <<>>)
      BY <2>1
    <3>2. Picks(x) \in Memories
      BY DEF Picks, Memories
    <3>3. DownOk(Picks(x), published, pressed)
      BY <3>2 DEF DownOk
    <3>4. QED
      BY <3>1, <3>3
  <2>2. CASE \E k \in Letters : d = Result(Picks(k), published, pressed \cup {k}, <<>>)
    <3>1. PICK k \in Letters : d = Result(Picks(k), published, pressed \cup {k}, <<>>)
      BY <2>2
    <3>2. Picks(k) \in Memories /\ Picks(k).picked = k
      BY DEF Picks, Memories, Pressable
    <3>3. DownOk(Picks(k), published, pressed \cup {k})
      BY <1>3, <3>2 DEF DownOk, Pressable, Hands
    <3>4. QED
      BY <3>1, <3>3
  <2>3. CASE \E k \in Modifiers :
               d = Result([h EXCEPT !.picked = k, !.mods[k] = Cycled(@)], published,
                          pressed \cup {k}, <<>>)
    <3>1. PICK k \in Modifiers :
            d = Result([h EXCEPT !.picked = k, !.mods[k] = Cycled(@)], published,
                       pressed \cup {k}, <<>>)
      BY <2>3
    <3> DEFINE g == [h EXCEPT !.picked = k, !.mods[k] = Cycled(@)]
    <3>2. g \in Memories /\ g.picked = k
      <4>1. h.mods[k] \in {"off", "once", "locked"}
        BY DEF Memories
      <4>2. Cycled(h.mods[k]) \in {"off", "once", "locked"}
        BY <4>1 DEF Cycled
      <4>3. [h.mods EXCEPT ![k] = Cycled(@)] \in [Modifiers -> {"off", "once", "locked"}]
        BY <4>2 DEF Memories
      <4>4. g = [h EXCEPT !.picked = k, !.mods = [h.mods EXCEPT ![k] = Cycled(@)]]
        BY DEF Memories
      <4>5. QED
        BY <4>3, <4>4 DEF Memories, Pressable
    <3> HIDE DEF g
    <3>3. DownOk(g, published, pressed \cup {k})
      BY <1>3, <3>2 DEF DownOk, Pressable, Hands
    <3>4. QED
      BY <3>1, <3>3 DEF g
  <2>4. QED
    BY <1>0, <1>3, <2>1, <2>2, <2>3 DEF KeyboardDown
<1>4. CASE mode \in Clicks
  <2>1. \/ d = Result(h, published, pressed \cup {"LEFT"}, <<>>)
        \/ d = Result(h, published, pressed, <<>>)
    BY <1>0, <1>4 DEF Clicks, MagnifyDown, ClickDown
  <2>2. DownOk(h, published, pressed \cup {"LEFT"}) /\ DownOk(h, published, pressed)
    BY <1>4 DEF DownOk, Pressable, Mouse, Hands, Clicks
  <2>3. QED
    BY <2>1, <2>2
<1>5. CASE mode = Menu
  <2>1. PICK m \in config.modes \cup {Exit} : d = Result(Picks(m), published, pressed, <<>>)
    BY <1>0, <1>5 DEF MenuHold
  <2>2. Picks(m) \in Memories
    BY InputAssumption DEF Picks, Memories, Posted
  <2>3. DownOk(Picks(m), published, pressed)
    BY <2>2 DEF DownOk
  <2>4. QED
    BY <2>1, <2>3
<1>6. CASE mode \in {"DEBUG_TOUCH", Disabled}
  <2>1. d = Result(h, published, pressed, <<>>)
    BY <1>0, <1>6 DEF Unchanged
  <2>2. DownOk(h, published, pressed)
    BY DEF DownOk
  <2>3. QED
    BY <2>1, <2>2
<1>7. QED
  BY <1>1, <1>2, <1>3, <1>4, <1>5, <1>6 DEF Modes, Choices, Clicks

LEMMA UpReleases ==
  ASSUME mode \in Modes, h \in Memories, edge = "up", NEW d \in Up
  PROVE  \E g, pub, down, posts : d = Result(g, pub, down, posts) /\ UpOk(g, pub, down)
<1>0. /\ mode = "GAMEPAD" => Up = GamepadUp
      /\ mode = "MOUSEPAD" => Up = MouseUp
      /\ mode = "KEYBOARD" => Up = KeyboardUp
      /\ mode \in {"ABSOLUTE_TOUCH", "DS_TOUCH"} => Up = ClickUp
      /\ mode = "MAGNIFY_TOUCH" => Up = MagnifyUp
      /\ mode = Menu => Up = MenuUp
      /\ mode \in {"DEBUG_TOUCH", Disabled} => Up = Unchanged
  BY DEF Up, Menu, Disabled
<1>1. CASE mode = "GAMEPAD"
  <2>1. PICK tap \in BOOLEAN :
          d = Result([h EXCEPT !.picked = "none", !.r3 = FALSE, !.hasTap = tap], {},
                     pressed, <<>>)
    <3> DEFINE S == IF h.picked = "camera" THEN {FALSE, ~h.far} ELSE {h.hasTap}
    <3>1. S \subseteq BOOLEAN
      BY DEF Memories
    <3>2. d \in {Result([h EXCEPT !.picked = "none", !.r3 = FALSE, !.hasTap = tap], {},
                       pressed, <<>>) : tap \in S}
      BY <1>0, <1>1 DEF GamepadUp
    <3> HIDE DEF S
    <3>3. QED
      BY <3>1, <3>2
  <2>2. [h EXCEPT !.picked = "none", !.r3 = FALSE, !.hasTap = tap] \in Memories
    BY DEF Memories
  <2>3. UpOk([h EXCEPT !.picked = "none", !.r3 = FALSE, !.hasTap = tap], {}, pressed)
    BY <1>1, <2>2 DEF UpOk, Hands, Clicks
  <2>4. QED
    BY <2>1, <2>3
<1>2. CASE mode = "MOUSEPAD"
  <2>1. d = Result(Picks("none"), published, pressed \ {h.picked}, <<>>)
    BY <1>0, <1>2 DEF MouseUp
  <2>2. Picks("none") \in Memories /\ Picks("none").picked = "none"
    BY DEF Picks, Memories
  <2>3. UpOk(Picks("none"), published, pressed \ {h.picked})
    BY <1>2, <2>2 DEF UpOk, Hands, Clicks
  <2>4. QED
    BY <2>1, <2>3
<1>3. CASE mode = "KEYBOARD"
  <2>1. CASE h.picked \in {"none", "switch"}
    <3>1. d = Result(h, published, pressed, <<>>)
      BY <1>0, <1>3, <2>1 DEF KeyboardUp
    <3>2. UpOk(h, published, pressed)
      BY <1>3, <2>1 DEF UpOk, Hands, Clicks
    <3>3. QED
      BY <3>1, <3>2
  <2>2. CASE h.picked \notin {"none", "switch"}
    <3> DEFINE n == IF h.picked \in Modifiers THEN h.mods
                    ELSE [m \in Modifiers |-> IF h.mods[m] = "once" THEN "off" ELSE h.mods[m]]
               g == [h EXCEPT !.picked = "none", !.mods = n]
    <3>1. d = Result(g, published, pressed \ {h.picked}, <<>>)
      BY <1>0, <1>3, <2>2 DEF KeyboardUp, Memories
    <3>2. n \in [Modifiers -> {"off", "once", "locked"}]
      BY DEF Memories
    <3> HIDE DEF n
    <3>3. g \in Memories /\ g.picked = "none"
      BY <3>2 DEF Memories
    <3> HIDE DEF g
    <3>4. UpOk(g, published, pressed \ {h.picked})
      BY <1>3, <3>3 DEF UpOk, Hands, Clicks
    <3>5. QED
      BY <3>1, <3>4
  <2>3. QED
    BY <2>1, <2>2
<1>4. CASE mode \in Clicks
  <2>1. \/ d = Result(h, published, pressed \ {"LEFT"}, <<>>)
        \/ d = Result(h, published, pressed, <<>>) /\ mode = "MAGNIFY_TOUCH" /\ ~Locked
    BY <1>0, <1>4 DEF Clicks, MagnifyUp, ClickUp
  <2>2. UpOk(h, published, pressed \ {"LEFT"})
    BY <1>4 DEF UpOk, Hands, Clicks
  <2>3. mode = "MAGNIFY_TOUCH" /\ ~Locked => UpOk(h, published, pressed)
    BY <1>4 DEF UpOk, Hands, Clicks, Unlocked
  <2>4. QED
    BY <2>1, <2>2, <2>3
<1>5. CASE mode \in {Menu, "DEBUG_TOUCH", Disabled}
  <2>1. PICK posts : d = Result(h, published, pressed, posts)
    BY <1>0, <1>5 DEF Unchanged, MenuUp
  <2>2. UpOk(h, published, pressed)
    BY <1>5 DEF UpOk, Hands, Clicks, Disabled, Menu
  <2>3. QED
    BY <2>1, <2>2
<1>6. QED
  BY <1>1, <1>2, <1>3, <1>4, <1>5 DEF Modes, Choices, Clicks

LEMMA HoldKeeps ==
  ASSUME mode \in Modes, config \in Configs, h \in Memories, NEW d \in Hold
  PROVE  \E g, pub, down, posts : d = Result(g, pub, down, posts) /\ HoldOk(g, pub, down)
<1>0. /\ mode = "GAMEPAD" => Hold = GamepadHold
      /\ mode = Menu => Hold = MenuHold
      /\ mode \notin {"GAMEPAD", Menu} => Hold = Unchanged
  BY DEF Hold, Menu
<1>1. CASE mode = "GAMEPAD"
  <2>1. PICK far \in BOOLEAN :
          \E pub : d = Result([h EXCEPT !.far = far], pub, pressed, <<>>)
    <3>1. CASE h.picked # "camera"
      <4>1. d = Result(h, published, pressed, <<>>)
        BY <1>0, <1>1, <3>1 DEF GamepadHold
      <4>2. h = [h EXCEPT !.far = h.far] /\ h.far \in BOOLEAN
        BY DEF Memories
      <4>3. QED
        BY <4>1, <4>2
    <3>2. CASE h.picked = "camera"
      <4>1. PICK far \in {h.far, TRUE}, moved \in BOOLEAN :
              d = Result([h EXCEPT !.far = far], Published([h EXCEPT !.far = far], moved),
                         pressed, <<>>)
        <5> DEFINE S == {[h EXCEPT !.far = far] : far \in {h.far, TRUE}}
        <5>1. d \in {Result(g, Published(g, moved), pressed, <<>>) : g \in S, moved \in BOOLEAN}
          BY <1>0, <1>1, <3>2 DEF GamepadHold
        <5>2. ASSUME NEW g \in S PROVE \E far \in {h.far, TRUE} : g = [h EXCEPT !.far = far]
          OBVIOUS
        <5> HIDE DEF S
        <5>3. PICK g \in S, moved \in BOOLEAN : d = Result(g, Published(g, moved), pressed, <<>>)
          BY <5>1
        <5>4. QED
          BY <5>2, <5>3
      <4>2. far \in BOOLEAN
        BY DEF Memories
      <4>3. QED
        BY <4>1, <4>2
    <3>3. QED
      BY <3>1, <3>2
  <2>2. [h EXCEPT !.far = far] \in Memories /\ [h EXCEPT !.far = far].active = h.active
    BY DEF Memories
  <2>3. \A pub : HoldOk([h EXCEPT !.far = far], pub, pressed)
    BY <1>1, <2>2 DEF HoldOk, Hands
  <2>4. QED
    BY <2>1, <2>3
<1>2. CASE mode = Menu
  <2>1. PICK m \in config.modes \cup {Exit} : d = Result(Picks(m), published, pressed, <<>>)
    BY <1>0, <1>2 DEF MenuHold
  <2>2. Picks(m) \in Memories /\ Picks(m).active = h.active
    BY InputAssumption DEF Picks, Memories, Posted
  <2>3. HoldOk(Picks(m), published, pressed)
    BY <1>2, <2>2 DEF HoldOk, Hands, Menu
  <2>4. QED
    BY <2>1, <2>3
<1>3. CASE mode \notin {"GAMEPAD", Menu}
  <2>1. d = Result(h, published, pressed, <<>>)
    BY <1>0, <1>3 DEF Unchanged
  <2>2. HoldOk(h, published, pressed)
    BY DEF HoldOk
  <2>3. QED
    BY <2>1, <2>2
<1>4. QED
  BY <1>1, <1>2, <1>3

(* A touch of a round, whatever the mode.                                  *)
LEMMA TouchEffect ==
  ASSUME Types, TouchInv, pc = "round", NEW r \in Touches
  PROVE  /\ r.h \in Memories /\ r.pressed \subseteq Pressable
         /\ r.pressed \subseteq orphans \cup Triggered \cup Owned(r.h) \cup Unlocked
         /\ r.published # {} => mode = "GAMEPAD" /\ r.h.active
         /\ ~finger \/ Deaf => AtEase(r.h)
<1>1. /\ mode \in Modes /\ config \in Configs /\ h \in Memories
      /\ finger \in BOOLEAN /\ edge \in {"down", "up", "none"}
      /\ pressed \subseteq Pressable
      /\ pressed \subseteq orphans \cup Triggered \cup Owned(h)
      /\ published # {} => mode = "GAMEPAD" /\ h.active
      /\ (edge = "up" => ~finger) /\ (edge = "down" => finger)
      /\ edge = "down" \/ (edge = "none" /\ ~finger) \/ Deaf => AtEase(h)
  BY DEF Types, TouchInv
<1>2. ASSUME NEW g \in Memories, NEW b \in BOOLEAN
      PROVE  /\ [g EXCEPT !.active = b] \in Memories
             /\ [g EXCEPT !.active = b].active = b
             /\ [g EXCEPT !.active = b].picked = g.picked
  BY DEF Memories
<1>4. ASSUME NEW g, NEW pub, NEW down, NEW posts, r = Result(g, pub, down, posts)
      PROVE  r.h = g /\ r.published = pub /\ r.pressed = down
  BY <1>4 DEF Result
<1>5. CASE r = Result(h, published, pressed, <<>>) /\ (Deaf \/ (edge = "none" /\ ~finger))
  <2>1. r.h = h /\ r.published = published /\ r.pressed = pressed
    BY <1>4, <1>5
  <2>2. QED
    BY <1>1, <1>5, <2>1
<1>6. CASE ~Deaf /\ edge = "down"
  <2>1. PICK d \in Down : r = [d EXCEPT !.h.active = TRUE]
    BY <1>6 DEF Touches, Deaf
  <2>2. PICK g, pub, down, posts : d = Result(g, pub, down, posts) /\ DownOk(g, pub, down)
    BY <1>1, DownPresses
  <2> DEFINE k == [g EXCEPT !.active = TRUE]
  <2>3. r.h = k /\ r.published = pub /\ r.pressed = down
    <3>1. r = [Result(g, pub, down, posts) EXCEPT !.h.active = TRUE]
      BY <2>1, <2>2
    <3>2. QED
      BY <3>1 DEF Result
  <2>4. k \in Memories /\ k.active = TRUE /\ k.picked = g.picked
    BY <1>2, <2>2 DEF DownOk
  <2>5. AtEase(h) /\ published = {}
    BY <1>1, <1>6 DEF AtEase
  <2>6. pressed \subseteq orphans \cup Triggered
    BY <1>1, <2>5, Names DEF Owned, AtEase
  <2>7. down \subseteq pressed \cup Owned(k)
    BY <2>2, <2>4 DEF DownOk, Owned
  <2>8. finger
    BY <1>1, <1>6
  <2>9. pub # {} => mode = "GAMEPAD"
    BY <2>2, <2>5 DEF DownOk
  <2> HIDE DEF k
  <2>10. down \subseteq Pressable
    BY <1>1, <2>2 DEF DownOk
  <2>11. QED
    BY <1>6, <2>3, <2>4, <2>6, <2>7, <2>8, <2>9, <2>10
<1>7. CASE ~Deaf /\ edge = "up"
  <2>1. PICK d \in Up : r = [d EXCEPT !.h.active = FALSE]
    BY <1>7 DEF Touches, Deaf
  <2>2. PICK g, pub, down, posts : d = Result(g, pub, down, posts) /\ UpOk(g, pub, down)
    BY <1>1, <1>7, UpReleases
  <2> DEFINE k == [g EXCEPT !.active = FALSE]
  <2>3. r.h = k /\ r.published = pub /\ r.pressed = down
    <3>1. r = [Result(g, pub, down, posts) EXCEPT !.h.active = FALSE]
      BY <2>1, <2>2
    <3>2. QED
      BY <3>1 DEF Result
  <2>4. k \in Memories /\ k.active = FALSE /\ k.picked = g.picked
    BY <1>2, <2>2 DEF UpOk
  <2> HIDE DEF k
  <2>5. pub = {}
    BY <1>1, <2>2 DEF UpOk
  <2>6. AtEase(k)
    BY <2>2, <2>4 DEF UpOk, AtEase
  <2>7. down \subseteq Pressable /\ "none" \notin down /\ "switch" \notin down
    BY <1>1, <2>2, Names DEF UpOk
  <2>8. ASSUME NEW x \in down PROVE x \in orphans \cup Triggered \cup Unlocked
    <3>1. x \in orphans \cup Triggered \cup Owned(h)
      BY <1>1, <2>2, <2>8 DEF UpOk
    <3>2. CASE x \in Owned(h)
      <4>1. CASE mode \in Hands
        <5>1. x = h.picked
          BY <3>2, <4>1 DEF Owned
        <5>2. QED
          BY <2>2, <2>7, <2>8, <4>1, <5>1 DEF UpOk
      <4>2. CASE mode \notin Hands
        <5>1. x = "LEFT" /\ mode \in Clicks
          BY <3>2, <4>2 DEF Owned
        <5>2. QED
          BY <2>2, <2>8, <5>1 DEF UpOk
      <4>3. QED
        BY <4>1, <4>2
    <3>3. QED
      BY <3>1, <3>2
  <2>9. QED
    BY <2>3, <2>4, <2>5, <2>6, <2>7, <2>8
<1>8. CASE ~Deaf /\ edge = "none" /\ finger
  <2>1. CASE h.active
    <3>1. r \in Hold
      BY <1>8, <2>1 DEF Touches, Deaf
    <3>2. PICK g, pub, down, posts : r = Result(g, pub, down, posts) /\ HoldOk(g, pub, down)
      BY <1>1, <3>1, HoldKeeps
    <3>3. r.h = g /\ r.published = pub /\ r.pressed = down
      BY <1>4, <3>2
    <3>4. g \in Memories /\ down = pressed /\ Owned(g) = Owned(h)
      BY <3>2 DEF HoldOk, Owned
    <3>5. pub # {} => mode = "GAMEPAD" /\ g.active
      BY <1>1, <2>1, <3>2 DEF HoldOk
    <3>6. QED
      BY <1>1, <1>8, <3>3, <3>4, <3>5
  <2>2. CASE ~h.active
    <3>1. r = Result(h, published, pressed, <<>>)
      BY <1>8, <2>2 DEF Touches, Deaf, Unchanged
    <3>2. r.h = h /\ r.published = published /\ r.pressed = pressed
      BY <1>4, <3>1
    <3>3. QED
      BY <1>1, <1>8, <3>2
  <2>3. QED
    BY <2>1, <2>2
<1>9. CASE ~Deaf /\ edge = "none" /\ ~finger
  <2>1. ~h.active
    BY <1>1, <1>9 DEF AtEase
  <2>2. r = Result(h, published, pressed, <<>>)
    BY <1>9, <2>1 DEF Touches, Deaf, Unchanged
  <2>3. QED
    BY <1>5, <1>9, <2>2
<1>10. CASE Deaf
  <2>1. r = Result(h, published, pressed, <<>>)
    BY <1>10 DEF Touches, Deaf, Unchanged
  <2>2. QED
    BY <1>5, <1>10, <2>1
<1>11. QED
  BY <1>1, <1>6, <1>7, <1>8, <1>9, <1>10

LEMMA TouchStep ==
  ASSUME Types, TouchInv, Next
  PROVE  TouchInv'
<1>1. CASE pc = "over" \/ pc' = "over"
  <2>1. pc' = "over"
    BY <1>1 DEF Next, Steps, Environment, Scan, Adopt, Light, Power, Round, RoundHome, Leave,
       Deliver, HostEnds, PressHome, TimePasses, Suspend, Suspended, Resume
  <2>2. QED
    BY <2>1 DEF TouchInv
<1>2. CASE Scan
  <2>1. PICK f \in BOOLEAN :
          /\ finger' = f
          /\ edge' = IF f = finger THEN "none" ELSE IF f THEN "down" ELSE "up"
    BY <1>2 DEF Scan
  <2>2. /\ pc = "scan" /\ pc' # "scan" /\ UNCHANGED <<config, h, mode>>
        /\ UNCHANGED <<published, pressed, orphans, pad>>
    BY <1>2 DEF Scan, touchVars, hostVars
  <2>3. /\ h \in Memories /\ finger \in BOOLEAN /\ pressed \subseteq Pressable
        /\ pressed \subseteq orphans \cup Triggered \cup Owned(h)
        /\ published # {} => mode = "GAMEPAD" /\ h.active
        /\ ~finger \/ Deaf => AtEase(h)
    BY <2>2 DEF TouchInv
  <2>4. Triggered' = Triggered /\ Owned(h)' = Owned(h) /\ AtEase(h)' = AtEase(h) /\ Deaf' = Deaf
    BY <2>2 DEF Triggered, Owned, AtEase, Deaf
  <2>5. /\ edge' \in {"down", "up", "none"} /\ finger' \in BOOLEAN
        /\ (edge' = "up" => ~finger') /\ (edge' = "down" => finger')
        /\ edge' = "down" \/ (edge' = "none" /\ ~finger') => ~finger
    <3>1. CASE f = TRUE
      BY <2>1, <2>3, <3>1
    <3>2. CASE f = FALSE
      BY <2>1, <2>3, <3>2
    <3>3. QED
      BY <3>1, <3>2
  <2>6. QED
    BY <2>2, <2>3, <2>4, <2>5 DEF TouchInv
<1>3. CASE Adopt
  <2>1. /\ pc = "adopt" /\ pc' # "scan" /\ h' = Fresh
        /\ UNCHANGED <<config, finger, edge, pressed, pad>>
        /\ orphans' = orphans \cup (Releasable \cap pressed)
        /\ published' = IF "GAMEPAD" \in {mode, next} THEN {} ELSE published
    BY <1>3 DEF Adopt, samples, hostVars
  <2>2. Fresh \in Memories /\ ~Fresh.active /\ Fresh.picked = "none"
    BY DEF Fresh, Memories
  <2>3. Releasable = Owned(h)
    BY DEF Releasable, Owned, Hands, Clicks
  <2>4. AtEase(h)'
    BY <2>1, <2>2 DEF AtEase
  <2>5. published' = {}
    BY <2>1 DEF TouchInv
  <2>6. Triggered' = Triggered
    BY <2>1 DEF Triggered
  <2>7. pressed' \subseteq orphans' \cup Triggered'
    BY <2>1, <2>3, <2>6 DEF TouchInv
  <2>8. QED
    BY <2>1, <2>2, <2>4, <2>5, <2>7 DEF TouchInv
<1>4. CASE Round /\ pc # "over"
  <2>1. PICK r \in Touches :
          /\ h' = r.h /\ published' = r.published /\ Tell(r.pressed)
          /\ orphans' = (orphans \cup Unlocked) \cap pressed'
    BY <1>4 DEF Round
  <2>2. /\ pc = "round" /\ pc' = "scan" /\ edge' = "none"
        /\ UNCHANGED <<config, mode, finger>>
    BY <1>4 DEF Round
  <2>3. /\ r.h \in Memories /\ r.pressed \subseteq Pressable
        /\ r.pressed \subseteq orphans \cup Triggered \cup Owned(r.h) \cup Unlocked
        /\ r.published # {} => mode = "GAMEPAD" /\ r.h.active
        /\ ~finger \/ Deaf => AtEase(r.h)
    BY <2>2, TouchEffect
  <2>4. Owned(h)' = Owned(r.h) /\ AtEase(h)' = AtEase(r.h) /\ Deaf' = Deaf
    BY <2>1, <2>2 DEF Owned, AtEase, Deaf
  <2>5. /\ pressed' \subseteq Pressable
        /\ pressed' \subseteq orphans \cup Unlocked \cup Triggered' \cup Owned(r.h)
    <3>1. CASE pad' = pad
      <4>1. pressed' = r.pressed /\ Triggered' = Triggered
        BY <2>1, <2>2, <3>1 DEF Tell, Triggered
      <4>2. QED
        BY <2>3, <4>1
    <3>2. CASE pad' # pad /\ ~config.triggersMouse
      <4>1. pressed' = r.pressed /\ Triggered' = {} /\ Triggered = {}
        BY <2>1, <2>2, <3>2 DEF Tell, Triggered
      <4>2. QED
        BY <2>3, <4>1
    <3>3. CASE pad' # pad /\ config.triggersMouse
      <4>1. /\ pressed' = Clicked(r.pressed, pad, pad')
            /\ Triggered' = {Click(k) : k \in Triggers \cap pad'}
            /\ Triggered = {Click(k) : k \in Triggers \cap pad}
        BY <2>1, <2>2, <3>3 DEF Tell, Triggered
      <4>2. Triggered' \subseteq Pressable
        BY <4>1 DEF Click, Pressable, Mouse
      <4>3. pressed' \subseteq (r.pressed \ (Triggered \ Triggered')) \cup Triggered'
        BY <4>1 DEF Clicked
      <4>4. QED
        BY <2>3, <4>2, <4>3
    <3>4. QED
      BY <3>1, <3>2, <3>3
  <2>6. QED
    BY <2>1, <2>2, <2>3, <2>4, <2>5 DEF TouchInv
<1>5. CASE RoundHome /\ pc # "over"
  <2>1. PICK r \in Touches :
          /\ h' = r.h /\ published' = r.published /\ pressed' = r.pressed
    BY <1>5 DEF RoundHome
  <2>2. /\ pc = "round" /\ pc' = "scan" /\ edge' = "none"
        /\ UNCHANGED <<config, mode, finger>>
        /\ orphans' = (orphans \cup Unlocked \cup LetGo) \cap pressed'
    BY <1>5 DEF RoundHome
  <2>3. /\ r.h \in Memories /\ r.pressed \subseteq Pressable
        /\ r.pressed \subseteq orphans \cup Triggered \cup Owned(r.h) \cup Unlocked
        /\ r.published # {} => mode = "GAMEPAD" /\ r.h.active
        /\ ~finger \/ Deaf => AtEase(r.h)
    BY <2>2, TouchEffect
  <2>4. Owned(h)' = Owned(r.h) /\ AtEase(h)' = AtEase(r.h) /\ Deaf' = Deaf
    BY <2>1, <2>2 DEF Owned, AtEase, Deaf
  <2>5. Triggered \subseteq Triggered' \cup LetGo
    BY <2>2 DEF Triggered, LetGo
  <2>6. QED
    BY <2>1, <2>2, <2>3, <2>4, <2>5 DEF TouchInv
<1>6. CASE Light \/ Power \/ Environment
  <2>1. UNCHANGED <<config, mode, h, published, orphans, finger, edge, pad, pressed>>
    BY <1>6 DEF Light, Power, Environment, Deliver, HostEnds, PressHome, TimePasses, Suspend,
       Suspended, Resume, touchVars, samples, hostVars
  <2>2. pc' = "scan" => pc = "scan"
    BY <1>6 DEF Light, Power, Environment, Deliver, HostEnds, PressHome, TimePasses, Suspend,
       Suspended, Resume
  <2>3. pc' # "over" => pc # "over"
    BY <1>6 DEF Light, Power, Environment, Deliver, HostEnds, PressHome, TimePasses, Suspend,
       Suspended, Resume
  <2>4. Triggered' = Triggered /\ Owned(h)' = Owned(h) /\ AtEase(h)' = AtEase(h) /\ Deaf' = Deaf
    BY <2>1 DEF Triggered, Owned, AtEase, Deaf
  <2>5. QED
    BY <2>1, <2>2, <2>3, <2>4 DEF TouchInv
<1>7. CASE Leave
  BY <1>7 DEF Leave, TouchInv
<1>8. QED
  BY <1>1, <1>2, <1>3, <1>4, <1>5, <1>6, <1>7 DEF Next, Steps

LEMMA TouchInductive == Spec => []TouchInv
<1>1. Init => TouchInv
  <2>1. Fresh \in Memories /\ ~Fresh.active /\ Fresh.picked = "none"
    BY DEF Fresh, Memories
  <2>2. QED
    BY <2>1 DEF Init, TouchInv, AtEase
<1>2. ASSUME IInv, TouchInv, [Next]_vars PROVE TouchInv'
  <2>1. CASE Next
    BY <1>2, <2>1, TouchStep DEF IInv
  <2>2. CASE UNCHANGED vars
    <3>1. UNCHANGED <<config, pc, mode, h, published, orphans, finger, edge, pad, pressed>>
      BY <2>2 DEF vars, touchVars, samples, hostVars
    <3>2. Triggered' = Triggered /\ Owned(h)' = Owned(h) /\ AtEase(h)' = AtEase(h) /\ Deaf' = Deaf
      BY <3>1 DEF Triggered, Owned, AtEase, Deaf
    <3>3. QED
      BY <1>2, <3>1, <3>2 DEF TouchInv
  <2>3. QED
    BY <1>2, <2>1, <2>2
<1>3. QED
  BY <1>1, <1>2, Inductive, PTL DEF Spec

(* Nothing the touch screen pressed outlives the touch, but what is named: *)
(* whichever handlers follow one another under whichever fingers.          *)
THEOREM TouchesEnd == Spec => []NothingOutlivesTouch
<1>1. TouchInv => NothingOutlivesTouch
  <2>1. SUFFICES ASSUME TouchInv, AtRest
                 PROVE  published = {} /\ pressed \subseteq orphans \cup Triggered
    BY DEF NothingOutlivesTouch
  <2>2. AtEase(h) /\ published = {}
    BY <2>1 DEF TouchInv, AtRest, AtEase
  <2>3. Owned(h) \cap Pressable = {}
    BY <2>2, Names DEF Owned, AtEase
  <2>4. QED
    BY <2>1, <2>2, <2>3 DEF TouchInv, AtRest
<1>2. QED
  BY <1>1, TouchInductive, PTL

-----------------------------------------------------------------------------
(* The types.                                                              *)
Controller == {Sent(k) : k \in Keys \cup Triggers} \cup TouchPad \cup Sticks
Lamps ==
  /\ lit \in BOOLEAN /\ lightOn \in BOOLEAN /\ idle \in BOOLEAN /\ resync \in BOOLEAN
  /\ away \in {"here", "leaving", "away"}
Told ==
  /\ published \subseteq TouchPad /\ pad \subseteq Controller /\ hostPad \subseteq Controller
  /\ dropped \in BOOLEAN /\ orphans \subseteq pressed
Touched ==
  /\ h \in Memories /\ finger \in BOOLEAN /\ edge \in {"down", "up", "none"}
  /\ pressed \subseteq Pressable

(* A touch publishes buttons of its row, the camera and R3.                *)
LEMMA TouchPublishes ==
  ASSUME published \subseteq TouchPad, mode \in Modes, config \in Configs, h \in Memories,
         edge \in {"down", "up", "none"}, NEW r \in Touches
  PROVE  r.published \subseteq TouchPad
<1>1. ASSUME NEW d, NEW b \in BOOLEAN,
             \E g, pub, down, posts : d = Result(g, pub, down, posts)
      PROVE  [d EXCEPT !.h.active = b].published = d.published
  BY <1>1 DEF Result
<1>2. ASSUME NEW d \in Down
      PROVE  /\ d.published \subseteq TouchPad
             /\ \E g, pub, down, posts : d = Result(g, pub, down, posts)
  <2>1. PICK g, pub, down, posts : d = Result(g, pub, down, posts) /\ DownOk(g, pub, down)
    BY DownPresses
  <2>2. d.published = pub
    BY <2>1 DEF Result
  <2>3. CASE mode # "GAMEPAD"
    BY <2>1, <2>2, <2>3 DEF DownOk
  <2>4. CASE mode = "GAMEPAD"
    <3>1. d \in GamepadDown
      BY <1>2, <2>4 DEF Down, Menu
    <3> DEFINE S == {[h EXCEPT !.picked = b, !.r3 = FALSE] : b \in Bottom}
                      \cup {[h EXCEPT !.picked = "camera", !.r3 = second, !.far = second,
                                      !.hasTap = FALSE] : second \in {FALSE, h.hasTap}}
    <3>2. d \in {Result(g1, Published(g1, FALSE), pressed, <<>>) : g1 \in S}
      BY <3>1 DEF GamepadDown
    <3>3. \A g1 \in S : Published(g1, FALSE) \subseteq TouchPad
      <4>1. ASSUME NEW b \in Bottom
            PROVE  Published([h EXCEPT !.picked = b, !.r3 = FALSE], FALSE) \subseteq TouchPad
        BY DEF Published, TouchPad, Memories
      <4>2. ASSUME NEW second
            PROVE  Published([h EXCEPT !.picked = "camera", !.r3 = second, !.far = second,
                                       !.hasTap = FALSE], FALSE) \subseteq TouchPad
        BY DEF Published, TouchPad, Memories
      <4>3. QED
        BY <4>1, <4>2
    <3> HIDE DEF S
    <3>4. PICK g1 \in S : d = Result(g1, Published(g1, FALSE), pressed, <<>>)
      BY <3>2
    <3>5. d.published = Published(g1, FALSE)
      BY <3>4 DEF Result
    <3>6. QED
      BY <2>1, <3>3, <3>5
  <2>5. QED
    BY <2>1, <2>3, <2>4
<1>3. ASSUME NEW d \in Up, edge = "up"
      PROVE  /\ d.published \subseteq TouchPad
             /\ \E g, pub, down, posts : d = Result(g, pub, down, posts)
  <2>1. PICK g, pub, down, posts : d = Result(g, pub, down, posts) /\ UpOk(g, pub, down)
    BY <1>3, UpReleases
  <2>2. d.published = pub
    BY <2>1 DEF Result
  <2>3. QED
    BY <2>1, <2>2 DEF UpOk
<1>4. ASSUME NEW d \in Hold PROVE d.published \subseteq TouchPad
  <2>1. PICK g, pub, down, posts : d = Result(g, pub, down, posts) /\ HoldOk(g, pub, down)
    BY HoldKeeps
  <2>2. d.published = pub
    BY <2>1 DEF Result
  <2>3. CASE mode # "GAMEPAD"
    BY <2>1, <2>2, <2>3 DEF HoldOk
  <2>4. CASE mode = "GAMEPAD" /\ h.picked # "camera"
    <3>1. d = Result(h, published, pressed, <<>>)
      BY <1>4, <2>4 DEF Hold, GamepadHold, Menu
    <3>2. QED
      BY <3>1 DEF Result
  <2>5. CASE mode = "GAMEPAD" /\ h.picked = "camera"
    <3> DEFINE S == {[h EXCEPT !.far = far] : far \in {h.far, TRUE}}
    <3>1. d \in {Result(g1, Published(g1, moved), pressed, <<>>) : g1 \in S, moved \in BOOLEAN}
      BY <1>4, <2>5 DEF Hold, GamepadHold, Menu
    <3>2. \A g1 \in S, moved \in BOOLEAN : Published(g1, moved) \subseteq TouchPad
      BY <2>5 DEF Published, TouchPad, Memories
    <3> HIDE DEF S
    <3>3. PICK g1 \in S, moved \in BOOLEAN : d = Result(g1, Published(g1, moved), pressed, <<>>)
      BY <3>1
    <3>4. d.published = Published(g1, moved)
      BY <3>3 DEF Result
    <3>5. QED
      BY <3>2, <3>4
  <2>6. QED
    BY <2>3, <2>4, <2>5
<1>5. ASSUME NEW d \in Unchanged PROVE d.published \subseteq TouchPad
  BY <1>5 DEF Unchanged, Result
<1>6. CASE r \in Unchanged \cup Hold
  BY <1>4, <1>5, <1>6
<1>7. CASE edge = "down" /\ \E d \in Down : r = [d EXCEPT !.h.active = TRUE]
  <2>1. PICK d \in Down : r = [d EXCEPT !.h.active = TRUE]
    BY <1>7
  <2>2. /\ d.published \subseteq TouchPad
        /\ \E g, pub, down, posts : d = Result(g, pub, down, posts)
    BY <1>2
  <2>3. r.published = d.published
    BY <1>1, <2>1, <2>2
  <2>4. QED
    BY <2>2, <2>3
<1>8. CASE edge = "up" /\ \E d \in Up : r = [d EXCEPT !.h.active = FALSE]
  <2>1. PICK d \in Up : r = [d EXCEPT !.h.active = FALSE]
    BY <1>8
  <2>2. /\ d.published \subseteq TouchPad
        /\ \E g, pub, down, posts : d = Result(g, pub, down, posts)
    BY <1>3, <1>8
  <2>3. r.published = d.published
    BY <1>1, <2>1, <2>2
  <2>4. QED
    BY <2>2, <2>3
<1>9. \/ r \in Unchanged \cup Hold
      \/ edge = "down" /\ \E d \in Down : r = [d EXCEPT !.h.active = TRUE]
      \/ edge = "up" /\ \E d \in Up : r = [d EXCEPT !.h.active = FALSE]
  BY DEF Touches
<1>10. QED
  BY <1>6, <1>7, <1>8, <1>9

(* What a round stores and tells is a state of the controller.             *)
LEMMA RoundStores ==
  ASSUME Types, TouchInv, Told, Round \/ RoundHome
  PROVE  Told'
<1> USE DEF Told
<1>1. PICK r \in Touches :
        /\ published' = r.published
        /\ \E keys \in SUBSET Keys, sticks \in SUBSET Sticks :
             pad' \in {pad, Buttons(keys, r.published) \cup sticks \cup Camera(r.published),
                      Buttons(keys, r.published) \cup (pad \cap Sticks)}
  BY DEF Round, RoundHome
<1>2. pc = "round"
  BY DEF Round, RoundHome
<1>3. r.published \subseteq TouchPad
  BY <1>1, <1>2, TouchPublishes DEF Types, TouchInv
<1>4. ASSUME NEW keys \in SUBSET Keys
      PROVE  Buttons(keys, r.published) \subseteq Controller
  <2>1. {Sent(k) : k \in keys \cup (r.published \cap Triggers)} \subseteq Controller
    BY DEF Controller
  <2>2. QED
    BY <1>3, <2>1 DEF Buttons, Controller
<1>5. Camera(r.published) \subseteq Sticks /\ Sticks \subseteq Controller
  BY DEF Camera, Sticks, Controller
<1>6. pad' \subseteq Controller
  BY <1>1, <1>4, <1>5
<1>7. hostPad' \subseteq Controller /\ dropped' \in BOOLEAN
  BY <1>6 DEF Round, RoundHome, Tell
<1>8. orphans' \subseteq pressed'
  BY DEF Round, RoundHome
<1>9. QED
  BY <1>1, <1>3, <1>6, <1>7, <1>8

LEMMA ToldStep ==
  ASSUME Types, TouchInv, Told, Lamps, [Next]_vars
  PROVE  Told' /\ Lamps'
<1>1. CASE Round \/ RoundHome
  <2>1. UNCHANGED <<light, away>>
    BY <1>1 DEF Round, RoundHome
  <2>2. QED
    BY <1>1, <2>1, RoundStores DEF Lamps, light
<1>2. CASE Adopt \/ Leave
  <2>1. published' \in {published, {}} /\ pad' \in {pad, {}} /\ UNCHANGED hostVars
    BY <1>2 DEF Adopt, Leave
  <2>2. orphans' \subseteq pressed'
    BY <1>2 DEF Adopt, Leave, hostVars, Told
  <2>3. Lamps'
    BY <1>2 DEF Adopt, Leave, light, Lamps
  <2>4. QED
    BY <2>1, <2>2, <2>3 DEF Told, hostVars
<1>3. CASE \/ Scan \/ Light \/ Power \/ Environment \/ UNCHANGED vars
  <2>1. UNCHANGED <<published, orphans, pad, hostPad, pressed, dropped>>
    BY <1>3 DEF Scan, Light, Power, Environment, Deliver, HostEnds, PressHome, TimePasses,
       Suspend, Suspended, Resume, vars, touchVars, hostVars
  <2>2. ASSUME Scan \/ Deliver \/ HostEnds \/ PressHome \/ UNCHANGED vars PROVE Lamps'
    <3>1. UNCHANGED <<light, away>>
      BY <2>2 DEF Scan, Deliver, HostEnds, PressHome, vars
    <3>2. QED
      BY <3>1 DEF Lamps, light
  <2>3. ASSUME Light PROVE Lamps'
    <3>1. idle' = (idle /\ ~resync /\ MayDim /\ ~finger) /\ lightOn' = (lightOn /\ ~resync)
      BY <2>3 DEF Light
    <3>2. idle' \in BOOLEAN /\ lightOn' \in BOOLEAN
      BY <3>1
    <3>3. resync' = FALSE /\ UNCHANGED <<lit, away>>
      BY <2>3 DEF Light
    <3>4. QED
      BY <3>2, <3>3 DEF Lamps
  <2>4. ASSUME Power PROVE Lamps'
    <3>1. lit' = (pc = "on") /\ lightOn' = (pc = "on") /\ UNCHANGED <<idle, resync, away>>
      BY <2>4 DEF Power
    <3>2. lit' \in BOOLEAN /\ lightOn' \in BOOLEAN
      BY <3>1
    <3>3. QED
      BY <3>1, <3>2 DEF Lamps
  <2>5. ASSUME TimePasses \/ Suspend PROVE Lamps'
    BY <2>5 DEF TimePasses, Suspend, Lamps
  <2>6. ASSUME Suspended \/ Resume PROVE Lamps'
    BY <2>6 DEF Suspended, Resume, Lamps
  <2>7. Lamps'
    BY <1>3, <2>2, <2>3, <2>4, <2>5, <2>6 DEF Environment
  <2>8. QED
    BY <2>1, <2>7 DEF Told
<1>4. QED
  BY <1>1, <1>2, <1>3 DEF Next, Steps

(* What the loop samples, what a handler remembers, publishes and presses, *)
(* and what the host is told of, keep their types in any order of rounds,  *)
(* messages and suspensions.                                               *)
THEOREM TypeCorrect == Spec => []TypeOK
<1>1. ASSUME Init PROVE Touched /\ Told /\ Lamps
  <2>1. h \in Memories
    BY <1>1 DEF Init, Fresh, Memories
  <2>2. QED
    BY <1>1, <2>1 DEF Init, Touched, Told, Lamps
<1>2. ASSUME Touched, Types, TouchInv', [Next]_vars PROVE Touched'
  <2>1. CASE pc' # "over"
    BY <1>2, <2>1 DEF TouchInv, Touched
  <2>2. CASE pc' = "over"
    <3>1. Leave \/ UNCHANGED vars
      BY <1>2, <2>2 DEF Next, Steps, Environment, Scan, Adopt, Light, Power, Round, RoundHome,
         Deliver, HostEnds, PressHome, TimePasses, Suspend, Suspended, Resume
    <3>2. CASE Leave
      <4>1. Fresh \in Memories
        BY DEF Fresh, Memories
      <4>2. QED
        BY <1>2, <3>2, <4>1 DEF Leave, Touched, samples, hostVars
    <3>3. CASE UNCHANGED vars
      BY <1>2, <3>3 DEF vars, touchVars, samples, hostVars, Touched
    <3>4. QED
      BY <3>1, <3>2, <3>3
  <2>3. QED
    BY <2>1, <2>2
<1>3. Types /\ TouchInv /\ Told /\ Lamps /\ [Next]_vars => Told' /\ Lamps'
  BY ToldStep
<1>4. IInv => Types
  BY DEF IInv
<1>5. ASSUME Types, Touched, Told, Lamps PROVE TypeOK
  <2>1. h \in [active : BOOLEAN, r3 : BOOLEAN, hasTap : BOOLEAN, far : BOOLEAN,
               picked : TouchPad \cup Mouse \cup Letters \cup Modifiers \cup Modes
                          \cup {Exit, "none", "switch"},
               mods : [Modifiers -> {"off", "once", "locked"}]]
    BY <1>5 DEF Touched, Memories, Posted, Pressable, Modes
  <2>2. QED
    BY <1>5, <2>1 DEF Types, Touched, Told, Lamps, TypeOK, Controller, Pressable, Messages
<1>6. QED
  BY <1>1, <1>2, <1>3, <1>4, <1>5, Inductive, TouchInductive, PTL DEF Spec
=============================================================================
