\* Two regions, two sizes; ids 3 bits wide that wrap around after two frames.
SPECIFICATION Spec
CONSTANTS
  Regions = 2
  Sizes = {"small", "large"}
  NoSize = "none"
  MaxFrames = 6
  IdMod = 8
  FirstId = 5
  Window = 3
INVARIANTS
  BuffersHold
PROPERTIES
  ShownMovesForward
  ShownIsWhole
\* The sender may stop.
CHECK_DEADLOCK FALSE
