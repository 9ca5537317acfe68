CONSTANTS
  NumTransfers = 2
  Size = 2
  Cap = 2
  Lens = {1, 3}
  MaxErrors = 2
  MaxSamples = 8
SPECIFICATION Spec
INVARIANTS SamplesInOrder KeyedWithTransfers
PROPERTIES DrainSeesQueue CallsReturn
CHECK_DEADLOCK FALSE
