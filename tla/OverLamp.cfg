CONSTANTS
  Freqs = {f1, air}
  Air = air
  MaxOvers = 2
  Worlds = {"fails"}
  MaxJobs = 3
SPECIFICATION Spec
INVARIANTS LampOnlyOnAir
CHECK_DEADLOCK FALSE
