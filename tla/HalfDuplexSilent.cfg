CONSTANTS
  Freqs = {f1, f2}
  MaxOvers = 2
  Worlds = {"flaky"}
SPECIFICATION DriverSpec
INVARIANTS SilentForAnOver
CHECK_DEADLOCK FALSE
