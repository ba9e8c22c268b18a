SPECIFICATION Spec
CONSTANTS
  Run = {e1, e2}
  Lock <- Keys
  Ttl <- Ttls
  MaxFaults = 2
  Nobody = Nobody
  Plan = {p1, p2}
  BuiltIn = {p2}
  NoPlan = NoPlan
  MaxNow = 2
VIEW View
SYMMETRY Symmetry
CHECK_DEADLOCK FALSE
INVARIANTS
  TypeOK
  Exclusion
  LogTells
  LastRunSettles
  NeverWaits
PROPERTIES
  LeasesSpec
