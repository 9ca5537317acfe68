CONSTANTS
  Freqs = {f1, f2}
  FirstHz = f1
  OutDepth = 4
  MaxStreams = 1
  MaxRetunes = 1
  MaxNews = 0
  Worlds = {"moves"}
SPECIFICATION Spec
INVARIANTS ReaderKnowsDial
CHECK_DEADLOCK FALSE
