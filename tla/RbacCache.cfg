SPECIFICATION Spec
CONSTANTS
  NoUser = NoUser
  NoRole = NoRole
  NoKey = NoKey
  User = {u1, u2}
  Role = {editor, admin}
  SuperAdmin = admin
  System = {admin}
  Data = {p1, p2}
  Req = {q1, q2}
  Ops = {"find", "status", "remove", "perms", "assign"}
  Faults = TRUE
  MaxRev = 1
VIEW View
SYMMETRY Symmetry
INVARIANTS
  TypeOK
  CacheIsCurrent
  RevokedStaysRevoked
