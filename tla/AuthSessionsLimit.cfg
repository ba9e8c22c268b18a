SPECIFICATION Spec
CONSTANTS
  NoDevice = NoDevice
  NoJti = NoJti
  User = {u1}
  Jti = {j1, j2, j3, j4}
  Device = {}
  Req = {r1, r2}
  MaxSessions = 2
  Ttl = 1
  Ops = {"login", "refresh"}
  MaxNow = 2
  Aborts = TRUE
VIEW View
SYMMETRY Symmetry
INVARIANTS
  LimitOvershoot
