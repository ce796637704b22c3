CONSTANTS
  Credentials = {c1, c2}
  Tokens = {k1, k2}
  Wires = {w1}
  None = None
  MaxRetries = 1
  Window = 1
  Leads <- WithinWindow
SPECIFICATION Spec
INVARIANTS
  AcceptedOnce
  OnlyRotationLocksOut
PROPERTIES
  KeepsToAgentAccess
  KeepsReporting
