CONSTANTS
  Tabs = {t1, t2}
  Requests = {r1, r2}
  Logins = {s1}
  None = None
  MaxOrphans = 1
SPECIFICATION Spec
INVARIANTS
  NoFalseReuse
  LogoutHolds
  NoLostWaiter
PROPERTIES
  KeepsToAuthService
SYMMETRY Alike
