\* The races: two handlers and a sweep on two operations
CONSTANTS
  OpIds = {1, 2}
  Keys = {k}
  NoKey = NoKey
  Requests = {r1, r2}
  Sweepers = {w}
  MaxParallel = 1
  TTL = 2
  BatchSize = 1
  MaxTime = 3
SYMMETRY Handlers
SPECIFICATION Spec
INVARIANTS
  TypeOK
  HandedOutOnce
  OneRowPerKey
  TrailAgrees
  ExpiredOnlyAfterDeadline
  OvershootBounded
PROPERTIES
  ImplementsLifecycle
  OldestFirst
