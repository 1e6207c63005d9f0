SPECIFICATION Spec
CONSTANTS
  Callers = {p1, p2, p3}
  Letters = 2
  PerLetter = 2
  MaxDay = 2
  Nobody = Nobody
SYMMETRY Symmetry
INVARIANT NextCodeIsFresh
