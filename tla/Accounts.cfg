SPECIFICATION Spec
CONSTANTS
  Req = {r1, r2, r3}
  MaxEpoch = 2
SYMMETRY Symmetry
INVARIANTS
  TypeOK
  NobodyIsStranded
  StaleSessionsNeedARace
