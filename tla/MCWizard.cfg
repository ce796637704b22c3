CONSTANTS
  Servers = {s1, s2}
  None = None
  PollLimit = 2
  Reports = {"agent", "online", "revoked"}
  MaxCalls = 2
SPECIFICATION Spec
INVARIANTS
  OneServerShown
  NoDeadSpinner
PROPERTIES
  TellsTheTruth
  WaitingEnds
