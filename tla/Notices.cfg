SPECIFICATION Spec
CONSTANTS
  i1 = i1
  i2 = i2
  u1 = u1
  u2 = u2
  Id = {i1, i2}
  User = {u1, u2}
  Req = {q1, q2}
  Kind = {"user", "role"}
  All = "all"
  Members <- MCMembers
  Text = {a, b}
  Forms <- MCForms
\* a removed notice takes no request
CHECK_DEADLOCK FALSE
VIEW View
SYMMETRY Symmetry
INVARIANTS
  TypeOK
  RecipientsNeedARace
  EveryChangeIsAnnounced
PROPERTY
  InboxesSpec
