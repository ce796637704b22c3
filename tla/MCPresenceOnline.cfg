\* Heartbeats that announce a return
CONSTANTS
  Handlers = {h1, h2}
  Sweepers = {w}
  Timeout = 1
  MaxTime = 2
SPECIFICATION Spec
INVARIANTS
  OneOnlineEvent
