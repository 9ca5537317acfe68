CONSTANTS
  Freqs = {f1, f2}
  FirstHz = f1
  OutDepth = 4
  MaxStreams = 2
  MaxRetunes = 2
  MaxNews = 1
  Worlds = {"calm", "moves", "blocked", "comes", "stalls", "drags", "torn"}
SPECIFICATION Spec
INVARIANTS OnePump LabelFollowsDial
PROPERTIES NobodyWaitsForEver
CHECK_DEADLOCK FALSE
