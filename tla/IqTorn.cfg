CONSTANTS
  Freqs = {f1, f2}
  FirstHz = f1
  OutDepth = 4
  MaxStreams = 2
  MaxRetunes = 2
  MaxNews = 1
  Worlds = {"torn"}
SPECIFICATION Spec
PROPERTIES EndsOnItsWord
CHECK_DEADLOCK FALSE
