SPECIFICATION FairSpec
CONSTANTS
  NoDevice = NoDevice
  NoJti = NoJti
  User = {u1}
  Jti = {j1, j2}
  Device = {}
  Req = {r1, r2}
  MaxSessions = 2
  Ttl = 1
  Ops = {"login", "refresh", "force", "status", "password", "cleanup"}
  MaxNow = 0
  Aborts = FALSE
INVARIANTS
  NoRenewalAfterDeactivation
PROPERTIES
  RevocationTakesEffect
