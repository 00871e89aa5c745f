\* Four frames: presented, skipped, failed and one more while the previous is
\* still on its way; two renderer changes.
SPECIFICATION Spec
CONSTANTS
  MaxFrames = 4
  MaxSwaps = 2
  CanTile = TRUE
INVARIANTS
  PlanesAlive
  RendererStable
  OneDrawer
PROPERTIES
  ImplementsFrameHandoff
  QueuedIsShown
  EveryWaitEnds
\* The stream ends.
CHECK_DEADLOCK FALSE
