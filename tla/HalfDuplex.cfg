CONSTANTS
  Freqs = {f1, f2}
  MaxOvers = 3
  Worlds = {"calm", "eager", "flaky"}
SPECIFICATION DriverSpec
INVARIANTS ClaimsAgree SilenceMeansAnOver ReceiverOnFrequency
PROPERTIES ComesBack
CHECK_DEADLOCK FALSE
