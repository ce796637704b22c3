\* The queue over time: one handler, two sweeps that overlap, fairness
CONSTANTS
  OpIds = {1, 2}
  Keys = {k}
  NoKey = NoKey
  Requests = {r}
  Sweepers = {w1, w2}
  MaxParallel = 1
  TTL = 2
  BatchSize = 1
  MaxTime = 4
SPECIFICATION FairSpec
PROPERTIES
  EventuallyTerminal
