SPECIFICATION AuthoritySpec
CONSTANTS
  Handlers = {h1, h2}
  Families = {f1}
  Tokens = {t1, t2, t3}
  Nobody = Nobody
  Admins = {a1}
  AccessTTL = 2
  RequestLimit = 1
SYMMETRY Symmetry
INVARIANTS
  AuthorityTypeOK
  OneLiveToken
  CompromisedFamilyDead
  LoggedOutIsOver
  AuthorityBounded
PROPERTY ShutOutOfNewSessions
CHECK_DEADLOCK FALSE
