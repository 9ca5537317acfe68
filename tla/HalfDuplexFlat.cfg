CONSTANTS
  Freqs = {f1, f2}
  MaxOvers = 1
  Worlds = {"flaky"}
SPECIFICATION DriverSpec
PROPERTIES ComesBackOrIsGone
CHECK_DEADLOCK FALSE
