CONSTANTS
  Freqs = {f1, f2, air}
  Air = air
  MaxOvers = 2
  Worlds = {"calm", "breaks", "eager", "fails", "flaky"}
  MaxJobs = 3
SPECIFICATION Spec
INVARIANTS StreamHasOneOwner LampTellsTheAir DialFollowsTheOver
PROPERTIES HeldKeyHolds ComesHome
CHECK_DEADLOCK FALSE
