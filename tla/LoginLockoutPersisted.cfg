SPECIFICATION Spec
CONSTANTS
  NoName = NoName
  alice = alice
  Alice = Alice
  ghost = ghost
  Name = {alice, Alice, ghost}
  Stored <- TwoSpellings
  Req = {r1, r2}
  MaxFailures = 2
  Window = 2
  Duration = 1
  Faults = FALSE
  MaxNow = 2
  MaxCount = 4
SYMMETRY Symmetry
INVARIANTS
  ReportedLockIsPersisted
