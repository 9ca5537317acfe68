CONSTANTS
  Freqs = {f1, air}
  Air = air
  MaxOvers = 2
  Worlds = {"eager"}
  MaxJobs = 3
SPECIFICATION Spec
INVARIANTS DialIsHome
CHECK_DEADLOCK FALSE
