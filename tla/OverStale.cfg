CONSTANTS
  Freqs = {f1, f2, air}
  Air = air
  MaxOvers = 3
  Worlds = {"flaky"}
  MaxJobs = 4
SPECIFICATION Spec
INVARIANTS OnAirOnFrequency
CHECK_DEADLOCK FALSE
