\* Two streams and one tap or HOME press: what the first stream leaves behind
\* meets the second.
SPECIFICATION Spec
CONSTANTS
  Modes = {"GAMEPAD", "DEBUG_TOUCH"}
  Debug = "DEBUG_TOUCH"
  Errors = {0, 1}
  MaxSessions = 2
  MaxPosts = 1
INVARIANTS
  ScreenMatchesTouch
  NoDeadWhileStreaming
  OneCauseReported
PROPERTIES
  MessagesTakeEffect
  StreamOverReturns
\* The program may end, and the model stops at a use of a destroyed object.
CHECK_DEADLOCK FALSE
