SPECIFICATION FairSpec
CONSTANTS
  f1 = f1  f2 = f2  f3 = f3  plt = plt
  w1 = w1  w2 = w2
  ga = ga  gb = gb  gc = gc
  Functions = {f1, f2, f3, plt}
  Linkage = {plt}
  NumBlocks <- MCNumBlocks
  FeatPair <- MCFeatPair
  Features = {ga, gb, gc}
  Workers = {w1, w2}
  NULL = NULL
INVARIANTS
  OneRecordPerFunction
  NoLostWakeup
  LinesDecode
PROPERTIES
  IndexNeverReassigned
  ImplementsStream
  AnalyzeReturns
