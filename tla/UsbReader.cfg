CONSTANTS
  NumTransfers = 2
  Cap = 2
  MaxErrors = 2
  Freqs = {f1, f2}
  MaxMade = 5
  MaxTunes = 1
SPECIFICATION Spec
INVARIANTS QueueKeptFull
PROPERTIES CallsEnd ImplementsPipe
CHECK_DEADLOCK FALSE
