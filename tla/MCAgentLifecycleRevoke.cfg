\* A heartbeat and a revoke
CONSTANTS
  Credentials = {c1}
  NoCredential = NoCredential
  Tokens = {t1}
  Handlers = {h1, h2}
SPECIFICATION Spec
PROPERTIES
  RevokedUntilRotated
