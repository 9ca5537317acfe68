CONSTANTS
  Freqs = {f1, air}
  Air = air
  MaxOvers = 2
  Worlds = {"eager"}
  MaxJobs = 3
SPECIFICATION Spec
PROPERTIES RetuneSurvived
CHECK_DEADLOCK FALSE
