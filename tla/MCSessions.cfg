\* Three handlers on the session of one login, two rotations
CONSTANTS
  SessionIds = {s1}
  Handlers = {h1, h2, h3}
  Grace = 1
  MaxVersion = 3
  MaxTime = 2
SYMMETRY Ids
SPECIFICATION Spec
INVARIANTS
  ExchangedOnce
  ReuseRevokes
  RetryInGrace
  BlockHolds
PROPERTIES
  ImplementsAuthService
