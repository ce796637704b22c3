\* Two handlers at once on one server, two tokens, three credentials
CONSTANTS
  Credentials = {c1, c2, c3}
  NoCredential = NoCredential
  Tokens = {t1, t2}
  Handlers = {h1, h2}
SYMMETRY Ids
SPECIFICATION Spec
INVARIANT
  RevocationHolds
PROPERTIES
  ShutOut
  ImplementsAgentAccess
