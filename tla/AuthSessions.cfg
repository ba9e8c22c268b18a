SPECIFICATION Spec
CONSTANTS
  NoDevice = NoDevice
  NoJti = NoJti
  User = {u1}
  Jti = {j1, j2, j3}
  Device = {d1}
  Req = {r1, r2}
  MaxSessions = 2
  Ttl = 1
  MaxNow = 0
  Ops <- MainOps
  Aborts = TRUE
VIEW View
SYMMETRY Symmetry
INVARIANTS
  TypeOK
  SingleUse
  OneLiveToken
  ReuseEvidence
  RevocationComplete
PROPERTIES
  FamiliesSpec
