-------------------------------- MODULE MCInput --------------------------------
(***************************************************************************)
(* An instance of Input.  The modes are shared out among the streams: a    *)
(* stream knows how to go from any of its modes to any other, and only the *)
(* handlers of the two modes of a change meet.  The backlight looks at the *)
(* mode and the finger alone and is played in a stream that is watched.    *)
(***************************************************************************)
EXTENDS Input

Played(mouse, modes, uses) ==
  [viewOnly |-> FALSE, triggersMouse |-> mouse, autoOff |-> FALSE,
   modes |-> modes, uses |-> uses]
Watched(modes) ==
  [viewOnly |-> TRUE, triggersMouse |-> FALSE, autoOff |-> TRUE,
   modes |-> modes, uses |-> {}]

SomeConfigs ==
  {Played(FALSE, {"KEYBOARD", "MOUSEPAD"}, {}),
   Played(FALSE, {"MAGNIFY_TOUCH"}, {"L", "left"}),
   Played(TRUE, {"GAMEPAD", "ABSOLUTE_TOUCH"}, {"ZL"}),
   Watched({"MOUSEPAD"})}
=============================================================================
