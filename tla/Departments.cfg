SPECIFICATION Spec
CONSTANTS
  Top = Top
  NoDept = NoDept
  NoUser = NoUser
  Off = Off
  Dept = {d1, d2}
  User = {u1}
  Req = {q1, q2}
  Ops = {"move", "edit", "create", "remove", "assign", "scope"}
  Status = {"active"}
  Faults = TRUE
  MaxTree = 1
\* the bound MaxTree leaves writers nothing to start
CHECK_DEADLOCK FALSE
VIEW View
SYMMETRY Symmetry
INVARIANTS
  TypeOK
  CyclesNeedARace
  RecordsLeadToTheParent
  ScopesAreCurrent
PROPERTIES
  TreesSpec
