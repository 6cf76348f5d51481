SPECIFICATION Spec
CONSTANTS
  c1 = c1  c2 = c2
  Caller = {c1, c2}
  NoCaller = NoCaller
SYMMETRY Interchangeable
INVARIANTS RefreshIsFresh
