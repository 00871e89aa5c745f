\* The exit message of one stream arriving in the next one.
SPECIFICATION Spec
CONSTANTS
  Modes = {"GAMEPAD", "DEBUG_TOUCH"}
  Debug = "DEBUG_TOUCH"
  Errors = {1}
  MaxSessions = 2
  MaxPosts = 1
INVARIANT ExitEndsItsOwnStream
CHECK_DEADLOCK FALSE
