\* Three requests at once, each of its own kinds, on two servers
CONSTANTS
  h1 = h1
  h2 = h2
  h3 = h3
  k1 = k1
  k2 = k2
  p1 = p1
  p2 = p2
  t1 = t1
  None = None
  Keep = Keep
  Handlers = {h1, h2, h3}
  Servers = {s1, s2}
  Keys = {k1, k2}
  Spaces = {p1, p2}
  Tags = {t1}
  Existing = {k1, p1, s1}
  Serves <- ServesDef
  Bodies <- BodiesDef
SPECIFICATION Spec
INVARIANTS
  UsageCovers
  RemovedKeyUnused
  PatchSeesRow
PROPERTIES
  WithdrawnNotRevived
CHECK_DEADLOCK FALSE
