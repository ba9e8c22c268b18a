SPECIFICATION FairSpec
CONSTANTS
  Proc = {p1, p2}
  Nobody = Nobody
  Ask = {a1, a2}
  MaxChange = 1
  MaxFaults = 2
INVARIANTS
  TypeOK
  CountIsCurrent
PROPERTIES
  CountNeverGoesBack
  CountCatchesUp
