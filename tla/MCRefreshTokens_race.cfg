SPECIFICATION Spec
CONSTANTS
  Handlers = {h1, h2}
  Families = {f1, f2}
  Tokens = {t1, t2, t3, t4}
  Nobody = Nobody
SYMMETRY Symmetry
INVARIANT CompromisedFamilyDead
CHECK_DEADLOCK FALSE
