\* Four slices: the number the client asks the encoder for on an Old 3DS.
SPECIFICATION Spec
CONSTANTS
  MaxSlices = 4
  MaxBatches = 3
INVARIANTS
  SliceDecodedOnce
PROPERTIES
  ImplementsParallelFor
  CallerReturns
\* The stream may end and no further frame come.
CHECK_DEADLOCK FALSE
