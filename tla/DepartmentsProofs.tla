-------------------------- MODULE DepartmentsProofs --------------------------
(***************************************************************************)
(* Proofs about Departments for any departments, users and requests.       *)
(***************************************************************************)
EXTENDS Departments, TLAPS

USE TopAssumption, UserAssumption, OffAssumption, StatusAssumption,
    FaultsAssumption, MaxTreeAssumption

-----------------------------------------------------------------------------
(* Trees                                                                    *)

LEMMA BelowItself ==
  ASSUME NEW par, NEW A, NEW d \in A
  PROVE  d \in Below(par, A, d)
BY DEF Below

LEMMA BelowIsClosed ==
  ASSUME NEW par, NEW A, NEW d, NEW x \in A, par[x] \in Below(par, A, d)
  PROVE  x \in Below(par, A, d)
BY DEF Below, ClosedBelow

LEMMA AcyclicSubset ==
  ASSUME NEW par, NEW A, NEW B \in SUBSET A, Acyclic(par, A)
  PROVE  Acyclic(par, B)
BY DEF Acyclic

LEMMA AcyclicSearchEnds ==
  ASSUME NEW par, NEW A, NEW d, Acyclic(par, A)
  PROVE  SearchEnds(par, A, d)
<1>1. Below(par, A, d) \in SUBSET A
  BY DEF Below
<1>2. QED BY <1>1, AcyclicSubset DEF SearchEnds

(* A row put under one that is not below it leaves a forest a forest: what   *)
(* would be a cycle goes through the row, and all of it but what is below   *)
(* the row was a cycle before.                                              *)
LEMMA MoveKeepsForest ==
  ASSUME NEW par, NEW A, NEW d \in A, NEW p, NEW new,
         Acyclic(par, A), p \notin Below(par, A, d),
         new[d] = p, \A x \in A \ {d} : new[x] = par[x]
  PROVE  Acyclic(new, A)
<1> SUFFICES ASSUME NEW S \in SUBSET A, S # {}, \A x \in S : new[x] \in S
             PROVE  FALSE
  BY DEF Acyclic
<1>1. CASE d \notin S
  <2>1. \A x \in S : par[x] \in S
    BY <1>1
  <2>2. QED BY <2>1 DEF Acyclic
<1>2. CASE d \in S
  <2> DEFINE T == S \ Below(par, A, d)
  <2>1. p \in T
    BY <1>2
  <2>2. ASSUME NEW x \in T PROVE par[x] \in T
    <3>1. x # d
      BY BelowItself
    <3>2. par[x] \in S
      BY <3>1
    <3>3. par[x] \notin Below(par, A, d)
      BY BelowIsClosed
    <3>4. QED BY <3>2, <3>3
  <2>3. T \in SUBSET A
    OBVIOUS
  <2> HIDE DEF T
  <2>4. QED BY <2>1, <2>2, <2>3 DEF Acyclic
<1>3. QED BY <1>1, <1>2

(* So does a new row that no row names.                                     *)
LEMMA InsertKeepsForest ==
  ASSUME NEW par, NEW A, NEW d, NEW p, NEW new,
         Acyclic(par, A), d \notin A, p # d, new[d] = p,
         \A x \in A : par[x] # d /\ new[x] = par[x]
  PROVE  Acyclic(new, A \cup {d})
<1> SUFFICES ASSUME NEW S \in SUBSET (A \cup {d}), S # {}, \A x \in S : new[x] \in S
             PROVE  FALSE
  BY DEF Acyclic
<1> DEFINE T == S \ {d}
<1>1. \A x \in T : par[x] \in T
  OBVIOUS
<1>2. T # {}
  OBVIOUS
<1>3. T \in SUBSET A
  OBVIOUS
<1> HIDE DEF T
<1>4. QED BY <1>1, <1>2, <1>3 DEF Acyclic
-----------------------------------------------------------------------------
(* Types                                                                    *)

LEMMA InitType == Init => TypeOK
<1> SUFFICES ASSUME Init PROVE TypeOK
  OBVIOUS
<1>1. \A r \in Req : pc[r] = "idle"
  BY DEF Init
<1>2. row \in [Dept -> {"unborn", "active", "disabled", "deleted"}]
  BY DEF Init
<1>3. QED BY <1>1, <1>2 DEF Init, TypeOK, PcState

LEMMA EndType ==
  ASSUME TypeOK, NEW r \in Req, End(r),
         row' \in [Dept -> {"unborn", "active", "disabled", "deleted"}],
         parent' \in [Dept -> Dept \cup {Top}], logged' \in [Dept -> Dept \cup {Top}],
         member' \in [User -> Dept \cup {NoDept}], tree' \in Nat, cache' \in SUBSET Entry,
         stale' \in SUBSET Req, crossed' \in BOOLEAN, undone' \in SUBSET Dept,
         lost' \in BOOLEAN
  PROVE  TypeOK'
BY DEF TypeOK, End, PcState

LEMMA AnswerType ==
  ASSUME TypeOK, NEW r \in Req, Answer(r), UNCHANGED <<tables, tree>>,
         cache' \in SUBSET Entry
  PROVE  TypeOK'
<1>1. /\ End(r) /\ stale' \in SUBSET Req /\ UNCHANGED <<crossed, undone, lost>>
      /\ UNCHANGED <<row, parent, logged, member, tree>>
  BY DEF Answer, tables, TypeOK
<1>2. QED BY <1>1, EndType DEF TypeOK

LEMMA OvertakesType ==
  ASSUME TypeOK, NEW r \in Req, NEW h \in BOOLEAN, Overtakes(r, h)
  PROVE  stale' \in SUBSET Req /\ crossed' \in BOOLEAN
BY DEF TypeOK, Overtakes, Checked

(* A move changes the form's department, but not which ones there are.       *)
LEMMA RelocateType ==
  ASSUME TypeOK, NEW r \in Req, Relocate(r)
  PROVE  /\ dpt[r] \in Alive /\ parent[dpt[r]] = from[r]
         /\ parent' = [parent EXCEPT ![dpt[r]] = to[r]]
         /\ row' \in [Dept -> {"unborn", "active", "disabled", "deleted"}]
         /\ Alive' = Alive /\ Unborn' = Unborn
<1> DEFINE d == dpt[r]
<1>1. d \in Alive /\ parent[d] = from[r] /\ parent' = [parent EXCEPT ![d] = to[r]]
  BY DEF Relocate
<1>2. PICK s \in Status \cup {row[d]} : row' = [row EXCEPT ![d] = s]
  BY DEF Relocate
<1>3. d \in Dept /\ row[d] \in {"active", "disabled"} /\ s \in {"active", "disabled"}
  BY <1>1, <1>2 DEF Alive
<1>4. row' \in [Dept -> {"unborn", "active", "disabled", "deleted"}]
  BY <1>2, <1>3 DEF TypeOK
<1>5. \A x \in Dept : row'[x] = IF x = d THEN s ELSE row[x]
  BY <1>2, <1>3 DEF TypeOK
<1>6. Alive' = Alive /\ Unborn' = Unborn
  BY <1>3, <1>5 DEF Alive, Unborn
<1>7. QED BY <1>1, <1>4, <1>6

LEMMA UpdatesType == ASSUME TypeOK, NEW r \in Req, Updates(r) PROVE TypeOK'
<1> USE DEF Goto, Begin, PcState
<1>1. ASSUME NEW d \in Dept, NEW p \in Dept \cup {Top}, Move(r, d, p) PROVE TypeOK'
  BY <1>1 DEF Move, TypeOK, tables, redis, history
<1>2. ASSUME NEW d \in Dept, Edit(r, d) PROVE TypeOK'
  BY <1>2 DEF Edit, TypeOK, tables, redis, history
<1>3. CASE CheckParent(r)
  <2>1. CASE Answer(r)
    BY <1>3, <2>1, AnswerType DEF CheckParent, redis, TypeOK
  <2>2. CASE ~Answer(r)
    BY <1>3, <2>2 DEF CheckParent, TypeOK, tables, redis, locals, history
  <2>3. QED BY <2>1, <2>2
<1>4. CASE CheckBelow(r)
  <2>1. CASE Answer(r)
    BY <1>4, <2>1, AnswerType DEF CheckBelow, redis, TypeOK
  <2>2. CASE ~Answer(r)
    BY <1>4, <2>2 DEF CheckBelow, TypeOK, tables, redis, locals, history
  <2>3. QED BY <2>1, <2>2
<1>5. CASE WriteMove(r)
  <2>1. CASE Answer(r) /\ UNCHANGED <<row, parent, logged>>
    BY <1>5, <2>1, AnswerType DEF WriteMove, tables, redis, TypeOK
  <2>2. CASE ~(Answer(r) /\ UNCHANGED <<row, parent, logged>>)
    <3>1. Relocate(r) /\ Overtakes(r, to[r] # Top)
      BY <1>5, <2>2 DEF WriteMove
    <3>2. stale' \in SUBSET Req /\ crossed' \in BOOLEAN
      BY <3>1, OvertakesType
    <3>3. QED BY <1>5, <2>2, <3>1, <3>2, RelocateType DEF WriteMove, TypeOK, redis, locals
  <2>3. QED BY <2>1, <2>2
<1>6. CASE WriteEdit(r)
  <2>1. dpt[r] \in Dept
    BY <1>6 DEF WriteEdit, TypeOK
  <2>2. /\ row' \in [Dept -> {"unborn", "active", "disabled", "deleted"}]
        /\ parent' \in [Dept -> Dept \cup {Top}]
        /\ undone' \in SUBSET Dept
        /\ lost' \in BOOLEAN
    <3>1. from[r] \in Dept \cup {Top}
      BY DEF TypeOK
    <3>2. /\ row' = row \/ \E s \in Status : row' = [row EXCEPT ![dpt[r]] = s]
          /\ parent' = parent \/ parent' = [parent EXCEPT ![dpt[r]] = from[r]]
          /\ undone' = undone \/ undone' = undone \cup {dpt[r]}
          /\ lost' = lost \/ lost' = TRUE
      BY <1>6 DEF WriteEdit
    <3>3. row' \in [Dept -> {"unborn", "active", "disabled", "deleted"}]
      BY <2>1, <3>2 DEF TypeOK
    <3>4. parent' \in [Dept -> Dept \cup {Top}]
      BY <2>1, <3>1, <3>2 DEF TypeOK
    <3>5. QED BY <2>1, <3>2, <3>3, <3>4, ZenonT(60) DEF TypeOK
  <2>3. stale' \in SUBSET Req /\ crossed' \in BOOLEAN
    BY <1>6, OvertakesType DEF WriteEdit, TypeOK
  <2>4. End(r) /\ UNCHANGED <<logged, member, tree, cache>>
    BY <1>6 DEF WriteEdit, redis
  <2>5. QED BY <2>2, <2>3, <2>4, EndType DEF TypeOK
<1>7. QED BY <1>1, <1>2, <1>3, <1>4, <1>5, <1>6 DEF Updates

LEMMA OthersType == ASSUME TypeOK, NEW r \in Req, Others(r) PROVE TypeOK'
<1> USE DEF Goto, Begin, PcState
<1>1. ASSUME NEW p \in Dept \cup {Top}, Create(r, p) PROVE TypeOK'
  BY <1>1 DEF Create, TypeOK, tables, redis, history
<1>2. ASSUME NEW d \in Dept, Insert(r, d) PROVE TypeOK'
  <2>1. stale' \in SUBSET Req /\ crossed' \in BOOLEAN
    BY <1>2, OvertakesType DEF Insert
  <2>2. QED BY <1>2, <2>1 DEF Insert, TypeOK, redis, locals
<1>3. ASSUME NEW d \in Dept, Remove(r, d) PROVE TypeOK'
  BY <1>3 DEF Remove, TypeOK, tables, redis, history
<1>4. CASE Delete(r)
  <2>1. stale' \in SUBSET Req /\ crossed' \in BOOLEAN
    BY <1>4, OvertakesType DEF Delete, TypeOK
  <2>2. QED BY <1>4, <2>1 DEF Delete, TypeOK, redis, locals
<1>5. CASE Increment(r)
  <2>1. /\ tree' \in Nat /\ lost' \in BOOLEAN /\ stale' \in SUBSET Req
        /\ End(r) /\ UNCHANGED <<row, parent, logged, member, cache, crossed, undone>>
    <3>1. /\ tree' = tree \/ tree' = tree + 1
          /\ lost' \in BOOLEAN /\ stale' = stale \ {r}
          /\ End(r) /\ UNCHANGED <<row, parent, logged, member, cache, crossed, undone>>
      BY <1>5 DEF Increment, tables
    <3>2. QED BY <3>1 DEF TypeOK
  <2>2. QED BY <2>1, EndType DEF TypeOK
<1>6. CASE Drop(r)
  BY <1>6, AnswerType DEF Drop, redis, TypeOK
<1>7. ASSUME NEW u \in User, NEW d \in Dept \cup {NoDept}, Assign(r, u, d) PROVE TypeOK'
  BY <1>7 DEF Assign, TypeOK, tables, redis, history
<1>8. CASE WriteAssignment(r)
  <2>1. stale' \in SUBSET Req /\ crossed' \in BOOLEAN
    BY <1>8, OvertakesType DEF WriteAssignment
  <2>2. /\ member' \in [User -> Dept \cup {NoDept}] /\ End(r)
        /\ UNCHANGED <<row, parent, logged, tree, cache, undone, lost>>
    BY <1>8 DEF WriteAssignment, TypeOK, redis
  <2>3. QED BY <2>1, <2>2, EndType DEF TypeOK
<1>9. QED BY <1>1, <1>2, <1>3, <1>4, <1>5, <1>6, <1>7, <1>8 DEF Others

LEMMA ScopesType == ASSUME TypeOK, NEW r \in Req, Scopes(r) PROVE TypeOK'
<1> USE DEF Goto, Begin, PcState
<1>1. ASSUME NEW u \in User, Scope(r, u) PROVE TypeOK'
  BY <1>1 DEF Scope, TypeOK, tables, redis, history
<1>2. CASE ReadRevision(r)
  BY <1>2 DEF ReadRevision, TypeOK, tables, redis, history
<1>3. CASE GetCached(r)
  <2>1. CASE Answer(r)
    BY <1>3, <2>1, AnswerType DEF GetCached, redis, TypeOK
  <2>2. CASE ~Answer(r)
    BY <1>3, <2>2 DEF GetCached, TypeOK, tables, redis, locals, history
  <2>3. QED BY <2>1, <2>2
<1>4. CASE Expand(r)
  <2>1. CASE Answer(r)
    BY <1>4, <2>1, AnswerType DEF Expand, redis, TypeOK
  <2>2. CASE ~Answer(r)
    <3>1. Below(parent, Alive, dpt[r]) \in SUBSET Dept
      BY DEF Below, Alive
    <3>2. QED BY <1>4, <2>2, <3>1 DEF Expand, TypeOK, tables, redis, locals, history
  <2>3. QED BY <2>1, <2>2
<1>5. CASE Store(r)
  <2>1. dpt[r] \in Dept /\ key[r] \in Nat \cup {Off} /\ ids[r] \in SUBSET Dept
    BY <1>5 DEF Store, TypeOK
  <2>2. cache' \in SUBSET Entry
    BY <1>5, <2>1 DEF Store, File, Filed, Entry, TypeOK
  <2>3. QED BY <1>5, <2>2, AnswerType DEF Store
<1>6. QED BY <1>1, <1>2, <1>3, <1>4, <1>5 DEF Scopes

LEMMA NextType == TypeOK /\ [Next]_vars => TypeOK'
<1> SUFFICES ASSUME TypeOK, [Next]_vars PROVE TypeOK'
  OBVIOUS
<1>1. ASSUME NEW e \in cache, Expire(e) PROVE TypeOK'
  BY <1>1 DEF Expire, TypeOK, tables, locals, history
<1>2. CASE UNCHANGED vars
  BY <1>2 DEF vars, TypeOK, tables, redis, locals, history
<1>3. QED BY <1>1, <1>2, UpdatesType, OthersType, ScopesType DEF Next

(* Every variable keeps its type; in particular nothing is filed without a   *)
(* revision.                                                                *)
THEOREM TypeCorrect == Spec => []TypeOK
BY InitType, NextType, PTL DEF Spec
-----------------------------------------------------------------------------
(* What a step of one request leaves to the others, and to the rows.         *)
Untouched(q) ==
  /\ pc'[q] = pc[q] /\ dpt'[q] = dpt[q] /\ usr'[q] = usr[q] /\ from'[q] = from[q]
  /\ to'[q] = to[q] /\ key'[q] = key[q] /\ ids'[q] = ids[q]

LEMMA EndFrame ==
  ASSUME TypeOK, NEW r \in Req, End(r)
  PROVE  /\ pc'[r] = "idle" /\ from'[r] = Top /\ key'[r] = Off
         /\ \A q \in Req \ {r} : Untouched(q)
BY DEF TypeOK, End, Untouched

LEMMA UpdatesFrame ==
  ASSUME TypeOK, NEW r \in Req, Updates(r) PROVE \A q \in Req \ {r} : Untouched(q)
<1> USE DEF Goto, Begin, TypeOK, locals
<1>1. ASSUME NEW d \in Dept, NEW p \in Dept \cup {Top}, Move(r, d, p)
      PROVE  \A q \in Req \ {r} : Untouched(q)
  BY <1>1 DEF Move, Untouched
<1>2. ASSUME NEW d \in Dept, Edit(r, d) PROVE \A q \in Req \ {r} : Untouched(q)
  BY <1>2 DEF Edit, Untouched
<1>3. CASE End(r)
  BY <1>3, EndFrame
<1>4. CASE CheckParent(r) /\ ~End(r)
  BY <1>4 DEF CheckParent, Answer, Untouched
<1>5. CASE CheckBelow(r) /\ ~End(r)
  BY <1>5 DEF CheckBelow, Answer, Untouched
<1>6. CASE WriteMove(r) /\ ~End(r)
  BY <1>6 DEF WriteMove, Answer, Untouched
<1>7. QED BY <1>1, <1>2, <1>3, <1>4, <1>5, <1>6 DEF Updates, WriteEdit

LEMMA OthersFrame ==
  ASSUME TypeOK, NEW r \in Req, Others(r) PROVE \A q \in Req \ {r} : Untouched(q)
<1> USE DEF Goto, Begin, TypeOK, locals
<1>1. CASE End(r)
  BY <1>1, EndFrame
<1>2. ASSUME NEW p \in Dept \cup {Top}, Create(r, p) PROVE \A q \in Req \ {r} : Untouched(q)
  BY <1>2 DEF Create, Untouched
<1>3. ASSUME NEW d \in Dept, Insert(r, d) \/ Remove(r, d)
      PROVE  \A q \in Req \ {r} : Untouched(q)
  BY <1>3 DEF Insert, Remove, Untouched
<1>4. CASE Delete(r)
  BY <1>4 DEF Delete, Untouched
<1>5. ASSUME NEW u \in User, NEW d \in Dept \cup {NoDept}, Assign(r, u, d)
      PROVE  \A q \in Req \ {r} : Untouched(q)
  BY <1>5 DEF Assign, Untouched
<1>6. QED
  BY <1>1, <1>2, <1>3, <1>4, <1>5 DEF Others, Increment, Drop, Answer, WriteAssignment

LEMMA ScopesFrame ==
  ASSUME TypeOK, NEW r \in Req, Scopes(r)
  PROVE  /\ \A q \in Req \ {r} : Untouched(q)
         /\ UNCHANGED <<row, parent, logged, member, tree, crossed, undone, lost>>
         /\ stale' = stale \/ stale' = stale \ {r}
<1> USE DEF Goto, Begin, TypeOK, locals, tables, redis, history
<1>1. CASE End(r)
  <2>1. \A q \in Req \ {r} : Untouched(q)
    BY <1>1, EndFrame
  <2>2. QED BY <1>1, <2>1 DEF Scopes, Scope, ReadRevision, GetCached, Expand, Store, Answer
<1>2. ASSUME NEW u \in User, Scope(r, u)
      PROVE  (\A q \in Req \ {r} : Untouched(q)) /\ UNCHANGED <<tables, tree, history>>
  BY <1>2 DEF Scope, Untouched
<1>3. CASE ReadRevision(r)
  BY <1>3 DEF ReadRevision, Untouched
<1>4. CASE GetCached(r) /\ ~End(r)
  BY <1>4 DEF GetCached, Answer, Untouched
<1>5. CASE Expand(r) /\ ~End(r)
  BY <1>5 DEF Expand, Answer, Untouched
<1>6. QED BY <1>1, <1>2, <1>3, <1>4, <1>5 DEF Scopes, Store, Answer

(* Rows are born once and stay.                                             *)
LEMMA RowsStayBorn ==
  ASSUME TypeOK, [Next]_vars, NEW d \in Dept, row[d] # "unborn"
  PROVE  row'[d] # "unborn"
<1>1. ASSUME NEW r \in Req, WriteEdit(r) PROVE row'[d] # "unborn"
  BY <1>1, ZenonT(60) DEF WriteEdit, TypeOK
<1>2. ASSUME NEW r \in Req, NEW x \in Dept, Insert(r, x) PROVE row'[d] # "unborn"
  BY <1>2 DEF Insert, TypeOK
<1>3. ASSUME NEW r \in Req, Delete(r) PROVE row'[d] # "unborn"
  BY <1>3, ZenonT(60) DEF Delete, TypeOK
<1>4. CASE row' = row
  BY <1>4
<1>5. ASSUME NEW r \in Req, WriteMove(r), row' # row PROVE row'[d] # "unborn"
  BY <1>5, RelocateType DEF WriteMove, Unborn
<1>6. QED
  BY <1>1, <1>2, <1>3, <1>4, <1>5 DEF Next, vars, tables, Updates, Others, Scopes, Move, Edit,
     CheckParent, CheckBelow, Create, Remove, Increment, Drop, Assign,
     WriteAssignment, Scope, ReadRevision, GetCached, Expand, Store, Expire
-----------------------------------------------------------------------------
(* The transfer records                                                     *)

LEMMA RecordsInit == Init => RecordsLeadToTheParent
BY DEF Init, RecordsLeadToTheParent

LEMMA RecordsStep == TypeOK /\ RecordsLeadToTheParent /\ [Next]_vars => RecordsLeadToTheParent'
<1> SUFFICES ASSUME TypeOK, RecordsLeadToTheParent, [Next]_vars PROVE RecordsLeadToTheParent'
  OBVIOUS
<1> USE DEF RecordsLeadToTheParent
<1>1. ASSUME NEW r \in Req, WriteMove(r) PROVE RecordsLeadToTheParent'
  <2>1. undone' = undone
    BY <1>1 DEF WriteMove, Answer
  <2>2. QED BY <1>1, <2>1 DEF WriteMove, Relocate, TypeOK
<1>2. ASSUME NEW r \in Req, WriteEdit(r) PROVE RecordsLeadToTheParent'
  <2>1. /\ logged' = logged
        /\ \/ parent' = parent /\ undone' = undone
           \/ /\ parent' = [parent EXCEPT ![dpt[r]] = from[r]]
              /\ undone' = undone \cup {dpt[r]}
    BY <1>2 DEF WriteEdit
  <2>2. QED BY <2>1 DEF TypeOK
<1>3. ASSUME NEW r \in Req, NEW d \in Dept, Insert(r, d) PROVE RecordsLeadToTheParent'
  BY <1>3 DEF Insert, TypeOK
<1>4. CASE UNCHANGED <<parent, logged, undone>>
  BY <1>4
<1>5. QED
  BY <1>1, <1>2, <1>3, <1>4, ScopesFrame, ZenonT(60) DEF Next, vars, tables, history, Updates, Others,
     Move, Edit, CheckParent, CheckBelow, Create, Remove, Delete, Increment, Drop, Assign,
     WriteAssignment, Expire, Answer

(* The records of a department lead to the parent it has.                    *)
THEOREM RecordsAreRight == Spec => []RecordsLeadToTheParent
BY RecordsInit, RecordsStep, TypeCorrect, PTL DEF Spec
-----------------------------------------------------------------------------
(* The tree, as long as no request has crossed another                      *)

(* Nothing names a row that is still to be created.                          *)
Born(p, rows) == p = Top \/ (p \in Dept /\ rows[p] # "unborn")
Named(p) == Born(p, row)
NamesOK ==
  /\ \A d \in Dept : Named(parent[d])
  /\ \A r \in Req :
       /\ Named(from[r])
       /\ pc[r] \in {"below", "write", "insert"} => Named(to[r])

LEMMA NamesInit == Init => NamesOK
BY DEF Init, NamesOK, Named, Born, Alive

LEMMA NamesStep == TypeOK /\ NamesOK /\ [Next]_vars => NamesOK'
<1> SUFFICES ASSUME TypeOK, NamesOK, [Next]_vars PROVE NamesOK'
  OBVIOUS
<1>1. \A p : Named(p) => Born(p, row')
  BY RowsStayBorn DEF Named, Born
<1> DEFINE Frame(r) ==
      /\ \A q \in Req \ {r} : Untouched(q)
      /\ \A d \in Dept : parent'[d] = parent[d] \/ Named(parent'[d])
      /\ from'[r] = from[r] \/ Named(from'[r])
      /\ pc'[r] \in {"below", "write", "insert"} => Born(to'[r], row')
<1>2. ASSUME NEW r \in Req, Frame(r) PROVE NamesOK'
  <2>1. \A d \in Dept : Born(parent'[d], row')
    BY <1>1, <1>2 DEF NamesOK
  <2>2. \A q \in Req : Born(from'[q], row')
    BY <1>1, <1>2 DEF NamesOK, Untouched
  <2>3. \A q \in Req : pc'[q] \in {"below", "write", "insert"} => Born(to'[q], row')
    BY <1>1, <1>2 DEF NamesOK, Untouched
  <2>4. QED BY <2>1, <2>2, <2>3 DEF NamesOK, Named
<1>3. ASSUME NEW r \in Req, Updates(r) PROVE Frame(r)
  <2> USE DEF Goto, Begin, NamesOK, TypeOK
  <2>1. \A q \in Req \ {r} : Untouched(q)
    BY <1>3, UpdatesFrame
  <2>2. ASSUME NEW d \in Dept, NEW p \in Dept \cup {Top}, Move(r, d, p) PROVE Frame(r)
    BY <2>1, <2>2 DEF Move, tables, Named, Born
  <2>3. ASSUME NEW d \in Dept, Edit(r, d) PROVE Frame(r)
    BY <2>1, <2>3 DEF Edit, tables
  <2>4. CASE CheckParent(r)
    <3>1. parent' = parent
      BY <2>4 DEF CheckParent, tables
    <3>2. CASE End(r)
      <4>1. pc'[r] = "idle" /\ from'[r] = Top
        BY <3>2, EndFrame
      <4>2. QED BY <2>1, <3>1, <4>1 DEF Named, Born
    <3>3. CASE ~End(r)
      <4>1. /\ to' = to /\ from' = from /\ row' = row
            /\ to[r] \in Dept => row[to[r]] = "active"
        BY <2>4, <3>3 DEF CheckParent, Answer, locals, tables
      <4>2. Born(to'[r], row')
        BY <4>1 DEF Named, Born
      <4>3. QED BY <2>1, <3>1, <4>1, <4>2
    <3>4. QED BY <3>2, <3>3
  <2>5. CASE CheckBelow(r)
    <3>1. parent' = parent
      BY <2>5 DEF CheckBelow, tables
    <3>2. CASE End(r)
      <4>1. pc'[r] = "idle" /\ from'[r] = Top
        BY <3>2, EndFrame
      <4>2. QED BY <2>1, <3>1, <4>1 DEF Named, Born
    <3>3. CASE ~End(r)
      <4>1. to' = to /\ from' = from /\ pc[r] = "below"
        BY <2>5, <3>3 DEF CheckBelow, Answer, locals
      <4>2. QED BY <1>1, <2>1, <3>1, <4>1
    <3>4. QED BY <3>2, <3>3
  <2>6. CASE WriteMove(r)
    <3>1. \A d \in Dept : parent'[d] = parent[d] \/ Named(parent'[d])
      BY <2>6, RelocateType DEF WriteMove
    <3>2. pc'[r] \in {"idle", "incr"} /\ (from'[r] = from[r] \/ from'[r] = Top)
      BY <2>6, EndFrame DEF WriteMove, Answer, locals
    <3>3. QED BY <2>1, <3>1, <3>2 DEF Named, Born
  <2>7. CASE WriteEdit(r)
    <3>1. \A d \in Dept : parent'[d] = parent[d] \/ Named(parent'[d])
      BY <2>7, ZenonT(60) DEF WriteEdit
    <3>2. pc'[r] = "idle" /\ from'[r] = Top
      BY <2>7, EndFrame DEF WriteEdit
    <3>3. QED BY <2>1, <3>1, <3>2 DEF Named, Born
  <2>8. QED BY <1>3, <2>2, <2>3, <2>4, <2>5, <2>6, <2>7 DEF Updates
<1>4. ASSUME NEW r \in Req, Others(r) PROVE Frame(r)
  <2> USE DEF Goto, Begin, NamesOK, TypeOK
  <2>1. \A q \in Req \ {r} : Untouched(q)
    BY <1>4, OthersFrame
  <2>2. ASSUME NEW d \in Dept, Insert(r, d) PROVE Frame(r)
    <3>1. \A x \in Dept : parent'[x] = parent[x] \/ Named(parent'[x])
      BY <2>2 DEF Insert
    <3>2. pc'[r] = "incr" /\ from'[r] = from[r]
      BY <2>2 DEF Insert, locals
    <3>3. QED BY <2>1, <3>1, <3>2
  <2>3. CASE UNCHANGED parent /\ (End(r) \/ (UNCHANGED from /\ pc'[r] \notin {"below", "write"}
                                             /\ (pc'[r] = "insert" => to'[r] = Top)))
    <3>1. pc'[r] \notin {"below", "write"} /\ (pc'[r] = "insert" => to'[r] = Top)
      BY <2>3, EndFrame
    <3>2. from'[r] = from[r] \/ from'[r] = Top
      BY <2>3, EndFrame
    <3>3. QED BY <2>1, <2>3, <3>1, <3>2 DEF Named, Born
  <2>4. ASSUME NEW p \in Dept \cup {Top}, Create(r, p) PROVE Frame(r)
    BY <2>3, <2>4 DEF Create, tables
  <2>5. ASSUME NEW d \in Dept, Remove(r, d) PROVE Frame(r)
    BY <2>3, <2>5 DEF Remove, tables
  <2>6. CASE Delete(r)
    BY <2>3, <2>6 DEF Delete, locals
  <2>7. ASSUME NEW u \in User, NEW d \in Dept \cup {NoDept}, Assign(r, u, d) PROVE Frame(r)
    BY <2>3, <2>7 DEF Assign, tables
  <2>8. CASE Increment(r) \/ Drop(r) \/ WriteAssignment(r)
    BY <2>3, <2>8 DEF Increment, Drop, Answer, WriteAssignment, tables
  <2>9. QED BY <1>4, <2>2, <2>4, <2>5, <2>6, <2>7, <2>8 DEF Others
<1>5. ASSUME NEW r \in Req, Scopes(r) PROVE Frame(r)
  <2>1. /\ \A q \in Req \ {r} : Untouched(q)
        /\ parent' = parent
    BY <1>5, ScopesFrame
  <2>2. pc'[r] \notin {"below", "write", "insert"} /\ (from'[r] = from[r] \/ from'[r] = Top)
    BY <1>5, EndFrame DEF Scopes, Scope, ReadRevision, GetCached, Expand, Store, Answer,
       Goto, Begin, TypeOK, locals
  <2>3. QED BY <2>1, <2>2 DEF Named, Born
<1>6. CASE \E e \in cache : Expire(e)
  BY <1>6 DEF Expire, NamesOK, Named, Born, tables, locals
<1>7. CASE UNCHANGED vars
  BY <1>7 DEF vars, NamesOK, Named, Born, tables, locals
<1>8. QED BY <1>2, <1>3, <1>4, <1>5, <1>6, <1>7 DEF Next
-----------------------------------------------------------------------------
(* What the checks of a request found, while its tables are not stale.       *)
CheckOK(r) ==
  /\ pc[r] \in {"below", "write", "insert"} => to[r] \in Alive \cup {Top}
  /\ pc[r] = "write" => to[r] \notin Below(parent, Alive, dpt[r])
  /\ pc[r] = "edit" /\ dpt[r] \in Alive => from[r] = parent[dpt[r]]
  /\ pc[r] = "delete" =>
       /\ \A x \in Alive : parent[x] # dpt[r]
       /\ \A u \in User : member[u] # dpt[r]
  /\ pc[r] = "assign" => dpt[r] \in Alive \cup {NoDept}

InUse ==
  /\ \A d \in Alive : parent[d] \in Alive \cup {Top}
  /\ \A u \in User : member[u] \in Alive \cup {NoDept}

TreeOK ==
  /\ Acyclic(parent, Alive)
  /\ InUse
  /\ \A r \in Req \ stale : CheckOK(r)

(* The search for what is under a department does not end on a cycle only.   *)
SearchesEnd == \A r \in Req : pc[r] = "endless" => crossed

TreeInv ==
  /\ NamesOK
  /\ crossed \/ TreeOK
  /\ SearchesEnd

LEMMA TreeInit == Init => TreeInv
<1> SUFFICES ASSUME Init PROVE TreeInv
  OBVIOUS
<1>1. NamesOK
  BY NamesInit
<1>2. \A r \in Req : pc[r] = "idle"
  BY DEF Init
<1>3. InUse
  BY DEF Init, InUse, Alive
<1>4. TreeOK
  BY <1>2, <1>3 DEF Init, TreeOK, CheckOK
<1>5. QED BY <1>1, <1>2, <1>4 DEF TreeInv, SearchesEnd

(* A step that changes nothing a check has read.                             *)
Quiet == UNCHANGED <<parent, member, crossed>> /\ Alive' = Alive

LEMMA QuietCheck ==
  ASSUME NEW q \in Req, Quiet, Untouched(q), CheckOK(q) PROVE CheckOK(q)'
BY DEF Quiet, Untouched, CheckOK

LEMMA QuietStep ==
  ASSUME TypeOK, TreeOK, NEW r \in Req, Quiet, \A q \in Req \ {r} : Untouched(q),
         stale' = stale \/ stale' = stale \ {r},
         r \notin stale' => CheckOK(r)'
  PROVE  TreeOK'
<1>1. Acyclic(parent, Alive)' /\ InUse'
  BY DEF TreeOK, Quiet, InUse
<1>2. ASSUME NEW q \in Req, q \notin stale' PROVE CheckOK(q)'
  <2>1. CASE q = r
    BY <1>2, <2>1
  <2>2. CASE q # r
    BY <1>2, <2>2, QuietCheck DEF TreeOK
  <2>3. QED BY <2>1, <2>2
<1>3. QED BY <1>1, <1>2 DEF TreeOK

(* A step that writes the tables.                                            *)
LEMMA WriteStep ==
  ASSUME TypeOK, NEW r \in Req, NEW h, Overtakes(r, h),
         \A q \in Req \ {r} : Untouched(q), pc'[r] \in {"incr", "idle"},
         Acyclic(parent, Alive)', InUse'
  PROVE  TreeOK'
<1>1. ASSUME NEW q \in Req, q \notin stale' PROVE CheckOK(q)'
  <2>1. CASE q = r
    BY <2>1 DEF CheckOK
  <2>2. CASE q # r
    <3>1. /\ pc'[q] \notin {"below", "edit", "delete", "assign"}
          /\ pc'[q] \in {"write", "insert"} => to'[q] = Top
      BY <1>1, <2>2 DEF Overtakes, Checked, Untouched
    <3>2. Top \notin Below(parent', Alive', dpt'[q])
      BY DEF Below, Alive
    <3>3. QED BY <3>1, <3>2 DEF CheckOK
  <2>3. QED BY <2>1, <2>2
<1>2. QED BY <1>1 DEF TreeOK

LEMMA UpdatesTree ==
  ASSUME TypeOK, TreeInv, TreeOK, NEW r \in Req, Updates(r), ~crossed' PROVE TreeOK'
<1> USE DEF Goto, Begin, TypeOK
<1>1. \A q \in Req \ {r} : Untouched(q)
  BY UpdatesFrame
<1>2. ASSUME Answer(r), UNCHANGED tables PROVE TreeOK'
  <2>1. Quiet /\ stale' = stale \ {r}
    BY <1>2 DEF Answer, Quiet, Alive, tables
  <2>2. CheckOK(r)'
    BY <1>2, EndFrame DEF Answer, CheckOK
  <2>3. QED BY <1>1, <2>1, <2>2, QuietStep
<1>3. ASSUME NEW d \in Dept, NEW p \in Dept \cup {Top}, Move(r, d, p) PROVE TreeOK'
  <2>1. Quiet /\ stale' = stale
    BY <1>3 DEF Move, Quiet, Alive, tables, history
  <2>2. /\ pc'[r] \in {"write", "parent"} /\ (pc'[r] = "write" => to'[r] = Top)
        /\ dpt'[r] = d
    BY <1>3 DEF Move
  <2>3. Top \notin Below(parent', Alive', d)
    BY DEF Below, Alive
  <2>4. CheckOK(r)'
    BY <2>2, <2>3 DEF CheckOK
  <2>5. QED BY <1>1, <2>1, <2>4, QuietStep
<1>4. ASSUME NEW d \in Dept, Edit(r, d) PROVE TreeOK'
  <2>1. Quiet /\ stale' = stale
    BY <1>4 DEF Edit, Quiet, Alive, tables, history
  <2>2. pc'[r] = "edit" /\ from'[r] = parent'[d] /\ dpt'[r] = d
    BY <1>4 DEF Edit, tables
  <2>3. CheckOK(r)'
    BY <2>2 DEF CheckOK
  <2>4. QED BY <1>1, <2>1, <2>3, QuietStep
<1>5. CASE CheckParent(r)
  <2>1. CASE Answer(r)
    BY <1>2, <1>5, <2>1 DEF CheckParent
  <2>2. CASE ~Answer(r)
    <3>1. Quiet /\ stale' = stale /\ pc'[r] \in {"below", "insert"} /\ to'[r] \in Alive' \cup {Top}
      BY <1>5, <2>2 DEF CheckParent, Quiet, Alive, tables, history, locals
    <3>2. CheckOK(r)'
      BY <3>1 DEF CheckOK
    <3>3. QED BY <1>1, <3>1, <3>2, QuietStep
  <2>3. QED BY <2>1, <2>2
<1>6. CASE CheckBelow(r)
  <2>1. CASE Answer(r)
    BY <1>2, <1>6, <2>1 DEF CheckBelow
  <2>2. CASE ~Answer(r)
    <3>1. /\ Quiet /\ stale' = stale /\ pc[r] = "below" /\ UNCHANGED <<to, dpt>>
          /\ \/ pc'[r] = "endless"
             \/ pc'[r] = "write" /\ to[r] \notin Below(parent, Alive, dpt[r])
      BY <1>6, <2>2 DEF CheckBelow, Quiet, Alive, tables, history, locals
    <3>2. ASSUME r \notin stale' PROVE CheckOK(r)'
      <4>1. to[r] \in Alive \cup {Top}
        BY <3>1, <3>2 DEF TreeOK, CheckOK
      <4>2. QED BY <3>1, <4>1 DEF CheckOK, Quiet
    <3>3. QED BY <1>1, <3>1, <3>2, QuietStep
  <2>3. QED BY <2>1, <2>2
<1>7. CASE WriteMove(r)
  <2>1. CASE Answer(r) /\ UNCHANGED <<row, parent, logged>>
    BY <1>2, <1>7, <2>1 DEF WriteMove, tables
  <2>2. CASE ~(Answer(r) /\ UNCHANGED <<row, parent, logged>>)
    <3> DEFINE d == dpt[r]
    <3>1. /\ d \in Alive /\ parent' = [parent EXCEPT ![d] = to[r]] /\ Alive' = Alive
          /\ pc[r] = "write" /\ pc'[r] = "incr" /\ member' = member
          /\ Overtakes(r, to[r] # Top)
      BY <1>7, <2>2, RelocateType DEF WriteMove
    <3>2. to[r] # Top => r \notin stale
      BY <3>1 DEF Overtakes
    <3>3. to[r] \in Alive \cup {Top} /\ to[r] \notin Below(parent, Alive, d)
      <4>1. CASE to[r] = Top
        BY <4>1 DEF Below, Alive
      <4>2. CASE to[r] # Top
        BY <3>1, <3>2, <4>2 DEF TreeOK, CheckOK
      <4>3. QED BY <4>1, <4>2
    <3>4. /\ parent'[d] = to[r]
          /\ \A x \in Alive \ {d} : parent'[x] = parent[x]
      BY <3>1 DEF Alive
    <3>5. Acyclic(parent', Alive)
      <4>1. Acyclic(parent, Alive)
        BY DEF TreeOK
      <4> HIDE DEF d, TypeOK
      <4>2. QED BY <3>1, <3>3, <3>4, <4>1, MoveKeepsForest, ZenonT(60)
    <3>6. InUse'
      BY <3>1, <3>3, <3>4 DEF TreeOK, InUse
    <3>7. QED BY <1>1, <3>1, <3>5, <3>6, WriteStep
  <2>3. QED BY <2>1, <2>2
<1>8. CASE WriteEdit(r)
  <2>1. End(r) /\ member' = member /\ Alive' = Alive
    <3>1. /\ End(r) /\ member' = member
          /\ \/ row' = row
             \/ dpt[r] \in Alive /\ \E s \in Status : row' = [row EXCEPT ![dpt[r]] = s]
      BY <1>8 DEF WriteEdit
    <3>2. QED BY <3>1 DEF Alive
  <2>2. pc[r] = "edit" /\ pc'[r] = "idle"
    BY <1>8, EndFrame DEF WriteEdit
  <2>3. CASE parent' = parent /\ crossed' = crossed /\ stale' = stale \ {r}
    <3>1. CheckOK(r)'
      BY <2>2 DEF CheckOK
    <3>2. QED BY <1>1, <2>1, <2>3, <3>1, QuietStep DEF Quiet
  <2>4. CASE dpt[r] \in Alive /\ parent[dpt[r]] # from[r] /\ Overtakes(r, TRUE)
    BY <2>2, <2>4 DEF Overtakes, TreeOK, CheckOK
  <2>5. QED BY <1>8, <2>3, <2>4 DEF WriteEdit
<1>9. QED BY <1>3, <1>4, <1>5, <1>6, <1>7, <1>8 DEF Updates

LEMMA OthersTree ==
  ASSUME TypeOK, TreeInv, TreeOK, NEW r \in Req, Others(r), ~crossed' PROVE TreeOK'
<1> USE DEF Goto, Begin, TypeOK
<1>1. \A q \in Req \ {r} : Untouched(q)
  BY OthersFrame
<1>2. ASSUME End(r), stale' = stale \ {r}, UNCHANGED <<row, parent, member, crossed>>
      PROVE  TreeOK'
  <2>1. CheckOK(r)'
    BY <1>2, EndFrame DEF CheckOK
  <2>2. QED BY <1>1, <1>2, <2>1, QuietStep DEF Quiet, Alive
<1>3. ASSUME NEW p \in Dept \cup {Top}, Create(r, p) PROVE TreeOK'
  <2>1. /\ Quiet /\ stale' = stale
        /\ pc'[r] \in {"insert", "parent"} /\ (pc'[r] = "insert" => to'[r] = Top)
    BY <1>3 DEF Create, Quiet, Alive, tables, history
  <2>2. CheckOK(r)'
    BY <2>1 DEF CheckOK
  <2>3. QED BY <1>1, <2>1, <2>2, QuietStep
<1>4. ASSUME NEW d \in Dept, Insert(r, d) PROVE TreeOK'
  <2>1. /\ row[d] = "unborn" /\ pc[r] = "insert" /\ pc'[r] = "incr" /\ member' = member
        /\ parent' = [parent EXCEPT ![d] = to[r]]
        /\ Overtakes(r, to[r] # Top)
    BY <1>4 DEF Insert
  <2>2. Alive' = Alive \cup {d} /\ d \notin Alive
    BY <1>4 DEF Insert, Alive
  <2>3. to[r] # Top => r \notin stale
    BY <2>1 DEF Overtakes
  <2>4. to[r] \in Alive \cup {Top}
    BY <2>1, <2>3 DEF TreeOK, CheckOK
  <2>5. to[r] # d
    BY <2>2, <2>4
  <2>6. \A x \in Alive : parent[x] # d /\ parent'[x] = parent[x]
    BY <2>1, <2>2 DEF TreeInv, NamesOK, Named, Born, Alive
  <2>7. parent'[d] = to[r]
    BY <2>1
  <2>8. Acyclic(parent', Alive \cup {d})
    BY <2>2, <2>5, <2>6, <2>7, InsertKeepsForest DEF TreeOK
  <2>9. InUse'
    BY <2>1, <2>2, <2>4, <2>6, <2>7 DEF TreeOK, InUse
  <2>10. QED BY <1>1, <2>1, <2>2, <2>8, <2>9, WriteStep
<1>5. ASSUME NEW d \in Dept, Remove(r, d) PROVE TreeOK'
  <2>1. Quiet /\ stale' = stale /\ pc'[r] = "delete" /\ dpt'[r] = d
    BY <1>5 DEF Remove, Quiet, Alive, tables, history
  <2>2. CheckOK(r)'
    BY <1>5, <2>1 DEF CheckOK, Remove, Quiet
  <2>3. QED BY <1>1, <2>1, <2>2, QuietStep
<1>6. CASE Delete(r)
  <2>1. pc[r] = "delete" /\ pc'[r] = "incr" /\ parent' = parent /\ member' = member
    BY <1>6 DEF Delete
  <2>2. CASE dpt[r] \in Alive /\ Overtakes(r, TRUE)
    <3>1. Alive' = Alive \ {dpt[r]}
      BY <1>6, <2>2 DEF Delete, Alive
    <3>2. CheckOK(r)
      BY <2>2 DEF Overtakes, TreeOK
    <3>3. InUse'
      BY <2>1, <3>1, <3>2 DEF TreeOK, InUse, CheckOK
    <3>4. Acyclic(parent', Alive')
      BY <2>1, <3>1, AcyclicSubset DEF TreeOK
    <3>5. QED BY <1>1, <2>1, <2>2, <3>3, <3>4, WriteStep
  <2>3. CASE row' = row /\ crossed' = crossed /\ stale' = stale \ {r}
    <3>1. CheckOK(r)'
      BY <2>1 DEF CheckOK
    <3>2. QED BY <1>1, <2>1, <2>3, <3>1, QuietStep DEF Quiet, Alive
  <2>4. QED BY <1>6, <2>2, <2>3 DEF Delete
<1>7. CASE Increment(r) \/ Drop(r)
  BY <1>2, <1>7 DEF Increment, Drop, Answer, tables
<1>8. ASSUME NEW u \in User, NEW d \in Dept \cup {NoDept}, Assign(r, u, d) PROVE TreeOK'
  <2>1. /\ Quiet /\ stale' = stale /\ pc'[r] = "assign" /\ dpt'[r] = d
        /\ d \in Alive' \cup {NoDept}
    BY <1>8 DEF Assign, Quiet, Alive, tables, history
  <2>2. CheckOK(r)'
    BY <2>1 DEF CheckOK
  <2>3. QED BY <1>1, <2>1, <2>2, QuietStep
<1>9. CASE WriteAssignment(r)
  <2>1. /\ pc[r] = "assign" /\ pc'[r] = "idle" /\ parent' = parent /\ Alive' = Alive
        /\ member' = [member EXCEPT ![usr[r]] = dpt[r]]
        /\ Overtakes(r, dpt[r] # NoDept)
    BY <1>9, EndFrame DEF WriteAssignment, Alive
  <2>2. dpt[r] \in Alive \cup {NoDept}
    BY <2>1 DEF Overtakes, TreeOK, CheckOK
  <2>3. Acyclic(parent', Alive') /\ InUse'
    BY <2>1, <2>2 DEF TreeOK, InUse
  <2>4. QED BY <1>1, <2>1, <2>3, WriteStep
<1>10. QED BY <1>3, <1>4, <1>5, <1>6, <1>7, <1>8, <1>9 DEF Others

LEMMA ScopesTree ==
  ASSUME TypeOK, TreeInv, TreeOK, NEW r \in Req, Scopes(r) PROVE TreeOK'
<1>1. /\ \A q \in Req \ {r} : Untouched(q)
      /\ Quiet
      /\ stale' = stale \/ stale' = stale \ {r}
  BY ScopesFrame DEF Quiet, Alive
<1>2. pc'[r] \in {"idle", "revision", "get", "expand", "store", "endless"}
  BY EndFrame DEF Scopes, Scope, ReadRevision, GetCached, Expand, Store, Answer, Goto, Begin,
     TypeOK
<1>3. CheckOK(r)'
  BY <1>2 DEF CheckOK
<1>4. QED BY <1>1, <1>3, QuietStep

LEMMA CrossedStays == ASSUME TypeOK, [Next]_vars, crossed PROVE crossed'
<1>1. ASSUME NEW r \in Req, Updates(r) PROVE crossed'
  BY <1>1 DEF Updates, Move, Edit, CheckParent, CheckBelow, WriteMove, WriteEdit, Answer,
     Overtakes, history
<1>2. ASSUME NEW r \in Req, Others(r) PROVE crossed'
  <2>1. ASSUME NEW d \in Dept, Insert(r, d) PROVE crossed'
    BY <2>1 DEF Insert, Overtakes
  <2>2. CASE Delete(r)
    BY <2>2 DEF Delete, Overtakes
  <2>3. CASE WriteAssignment(r)
    BY <2>3 DEF WriteAssignment, Overtakes
  <2>4. CASE crossed' = crossed
    BY <2>4
  <2>5. QED
    BY <1>2, <2>1, <2>2, <2>3, <2>4 DEF Others, Create, Remove, Increment, Drop, Answer,
       Assign, history
<1>3. CASE crossed' = crossed
  BY <1>3
<1>4. QED BY <1>1, <1>2, <1>3, ScopesFrame DEF Next, Expire, vars, history

(* A search that does not end has found a cycle.                            *)
LEMMA SearchStep ==
  ASSUME TypeOK, TreeInv, [Next]_vars PROVE SearchesEnd'
<1> USE DEF SearchesEnd, TypeOK, Goto, Begin, history, locals
<1>1. crossed => crossed'
  BY CrossedStays
<1>2. ASSUME ~crossed, NEW d PROVE SearchEnds(parent, Alive, d)
  BY <1>2, AcyclicSearchEnds DEF TreeInv, TreeOK
<1>3. ASSUME NEW r \in Req, \A q \in Req \ {r} : Untouched(q), pc'[r] = "endless" => crossed
      PROVE  SearchesEnd'
  BY <1>1, <1>3 DEF TreeInv, Untouched
<1>4. ASSUME NEW r \in Req, Updates(r), pc'[r] = "endless" PROVE crossed
  <2>1. ~End(r)
    BY <1>4, EndFrame
  <2>2. ASSUME NEW d \in Dept, (\E p \in Dept \cup {Top} : Move(r, d, p)) \/ Edit(r, d) PROVE FALSE
    BY <1>4, <2>2 DEF Move, Edit
  <2>3. CASE CheckParent(r)
    BY <1>4, <2>1, <2>3 DEF CheckParent, Answer
  <2>4. CASE CheckBelow(r)
    <3>1. ~SearchEnds(parent, Alive, dpt[r])
      BY <1>4, <2>1, <2>4 DEF CheckBelow, Answer
    <3>2. QED BY <1>2, <3>1
  <2>5. CASE WriteMove(r) \/ WriteEdit(r)
    BY <1>4, <2>1, <2>5 DEF WriteMove, WriteEdit, Answer
  <2>6. QED BY <1>4, <2>2, <2>3, <2>4, <2>5 DEF Updates
<1>5. ASSUME NEW r \in Req, Others(r) PROVE pc'[r] # "endless"
  <2>1. CASE End(r)
    BY <2>1, EndFrame
  <2>2. ASSUME NEW d \in Dept, Insert(r, d) \/ Remove(r, d) PROVE pc'[r] # "endless"
    BY <2>2 DEF Insert, Remove
  <2>3. CASE Delete(r)
    BY <2>3 DEF Delete
  <2>4. ASSUME NEW p \in Dept \cup {Top}, Create(r, p) PROVE pc'[r] # "endless"
    BY <2>4 DEF Create
  <2>5. ASSUME NEW u \in User, NEW d \in Dept \cup {NoDept}, Assign(r, u, d)
        PROVE  pc'[r] # "endless"
    BY <2>5 DEF Assign
  <2>6. QED
    BY <1>5, <2>1, <2>2, <2>3, <2>4, <2>5 DEF Others, Increment, Drop, Answer, WriteAssignment
<1>6. ASSUME NEW r \in Req, Scopes(r), pc'[r] = "endless" PROVE crossed
  <2>1. ~End(r)
    BY <1>6, EndFrame
  <2>2. Expand(r) /\ ~SearchEnds(parent, Alive, dpt[r])
    BY <1>6, <2>1 DEF Scopes, Scope, ReadRevision, GetCached, Expand, Store, Answer
  <2>3. QED BY <1>2, <2>2
<1>7. CASE \E e \in cache : Expire(e)
  BY <1>7 DEF TreeInv, Expire
<1>8. CASE UNCHANGED vars
  BY <1>8 DEF TreeInv, vars
<1>9. QED
  BY <1>3, <1>4, <1>5, <1>6, <1>7, <1>8, UpdatesFrame, OthersFrame, ScopesFrame DEF Next

LEMMA TreeStep == TypeOK /\ TreeInv /\ [Next]_vars => TreeInv'
<1> SUFFICES ASSUME TypeOK, TreeInv, [Next]_vars PROVE TreeInv'
  OBVIOUS
<1>1. NamesOK'
  BY NamesStep DEF TreeInv
<1>2. SearchesEnd'
  BY SearchStep
<1>3. crossed => crossed'
  BY CrossedStays
<1>4. ASSUME ~crossed' PROVE TreeOK'
  <2>1. TreeOK
    BY <1>3, <1>4 DEF TreeInv
  <2>2. CASE UNCHANGED <<tables, pc, locals, history>>
    BY <2>1, <2>2 DEF TreeOK, InUse, CheckOK, Alive, tables, locals, history
  <2>3. QED
    BY <1>4, <2>1, <2>2, UpdatesTree, OthersTree, ScopesTree DEF Next, Expire, vars
<1>5. QED BY <1>1, <1>2, <1>4 DEF TreeInv

LEMMA TreeHolds == Spec => []TreeInv
BY TreeInit, TreeStep, TypeCorrect, PTL DEF Spec

(* No department is above itself, and no search goes on for ever, unless two *)
(* requests crossed.                                                        *)
THEOREM NoCycles == Spec => []CyclesNeedARace
<1>1. TreeInv => CyclesNeedARace
  BY DEF TreeInv, TreeOK, SearchesEnd, CyclesNeedARace
<1>2. QED BY <1>1, TreeHolds, PTL

OrphansNeedARace ==
  \/ crossed
  \/ /\ \A d \in Alive : parent[d] \in Alive \cup {Top}
     /\ \A u \in User : member[u] \in Alive \cup {NoDept}

(* Unless two requests crossed, a department in use is under one in use, and *)
(* a user is in a department in use: none is removed from under the others  *)
(* (department.service.ts:259).                                             *)
THEOREM NoOrphans == Spec => []OrphansNeedARace
<1>1. TreeInv => OrphansNeedARace
  BY DEF TreeInv, TreeOK, InUse, OrphansNeedARace
<1>2. QED BY <1>1, TreeHolds, PTL
-----------------------------------------------------------------------------
(* Each write as one step of Trees, as long as no request has crossed another *)

LEMMA SameBelow ==
  ASSUME NEW par, NEW A, NEW d
  PROVE  Below([x \in A |-> par[x]], A, d) = Below(par, A, d)
<1>1. \A S \in SUBSET A : ClosedBelow([x \in A |-> par[x]], A, S) <=> ClosedBelow(par, A, S)
  BY DEF ClosedBelow
<1>2. QED BY <1>1 DEF Below

LEMMA SameForests ==
  ASSUME NEW par, NEW A
  PROVE  /\ \A d : Serial!Below(par, A, d) = Below(par, A, d)
         /\ Serial!Acyclic(par, A) <=> Acyclic(par, A)
BY DEF Serial!Below, Serial!ClosedBelow, Serial!Acyclic, Below, ClosedBelow, Acyclic

LEMMA SerialInit == Init => Serial!TInit
<1> SUFFICES ASSUME Init PROVE Serial!TInit
  OBVIOUS
<1>1. \A d \in Alive : parent[d] \in Alive \cup {Top}
  BY DEF Init, Alive
<1>2. Acyclic(Above, Alive)
  BY DEF Init, Acyclic, Above
<1>3. member = [u \in User |-> NoDept] /\ Alive \cup Unborn \subseteq Dept /\ Alive \cap Unborn = {}
  BY DEF Init, Alive, Unborn
<1>4. DOMAIN Above = Alive /\ \A d \in Alive : Above[d] = parent[d]
  BY DEF Above
<1>5. Serial!Acyclic(Above, Alive)
  BY <1>2, SameForests
<1>6. QED BY <1>1, <1>3, <1>4, <1>5 DEF Serial!TInit, Serial!Used

LEMMA SerialStutter ==
  ASSUME TypeOK, parent' = parent, member' = member, Alive' = Alive, Unborn' = Unborn
  PROVE  UNCHANGED Serial!tvars
BY DEF Serial!tvars, Above

LEMMA SerialPut ==
  ASSUME TypeOK, TreeOK, NEW r \in Req, WriteMove(r), ~crossed', ~UNCHANGED parent
  PROVE  Serial!TNext
<1> DEFINE d == dpt[r]
<1>1. /\ d \in Alive /\ pc[r] = "write" /\ Overtakes(r, to[r] # Top)
      /\ parent' = [parent EXCEPT ![d] = to[r]] /\ member' = member
      /\ Alive' = Alive /\ Unborn' = Unborn
  BY RelocateType DEF WriteMove
<1>2. to[r] # Top => r \notin stale
  BY <1>1 DEF Overtakes
<1>3. to[r] \in Alive \cup {Top} /\ to[r] \notin Below(parent, Alive, d)
  <2>1. CASE to[r] = Top
    BY <2>1, TopAssumption DEF Below, Alive
  <2>2. CASE to[r] # Top
    BY <1>1, <1>2, <2>2 DEF TreeOK, CheckOK
  <2>3. QED BY <2>1, <2>2
<1>4. Alive' = Alive /\ Unborn' = Unborn /\ Alive \subseteq Dept
  BY <1>1 DEF Alive, Unborn
<1>5. Above' = [Above EXCEPT ![d] = to[r]]
  BY <1>1, <1>4 DEF Above, TypeOK
<1>6. to[r] \notin Below(Above, Alive, d)
  BY <1>3, SameBelow DEF Above
<1> HIDE DEF d
<1>7. Serial!Put(d, to[r])
  <2>1. DOMAIN Above = Alive /\ Unborn' = Unborn /\ member' = member
    BY <1>1, <1>4 DEF Above
  <2>2. d \in DOMAIN Above /\ to[r] \in (DOMAIN Above \cup {Top}) \ Below(Above, DOMAIN Above, d)
    BY <1>1, <1>3, <1>6, <2>1
  <2>3. to[r] \notin Serial!Below(Above, DOMAIN Above, d)
    BY <2>2, SameForests
  <2>4. QED BY <1>5, <2>1, <2>2, <2>3 DEF Serial!Put, Serial!Used
<1>8. d \in Dept /\ to[r] \in Dept \cup {Top}
  BY <1>1, <1>3, <1>4
<1>9. \E x \in Dept, p \in Dept \cup {Top} : Serial!Put(x, p)
  BY <1>7, <1>8
<1>10. QED BY <1>9 DEF Serial!TNext

LEMMA SerialOpen ==
  ASSUME TypeOK, TreeOK, NEW r \in Req, NEW d \in Dept, Insert(r, d), ~crossed'
  PROVE  Serial!TNext
<1>1. /\ pc[r] = "insert" /\ row[d] = "unborn" /\ Overtakes(r, to[r] # Top) /\ member' = member
      /\ parent' = [parent EXCEPT ![d] = to[r]]
      /\ \E s \in Status : row' = [row EXCEPT ![d] = s]
  BY DEF Insert, Goto
<1>2. to[r] \in Alive \cup {Top}
  BY <1>1 DEF Overtakes, TreeOK, CheckOK
<1>3. Alive' = Alive \cup {d} /\ Unborn' = Unborn \ {d} /\ d \notin Alive /\ d \in Unborn
  BY <1>1, StatusAssumption DEF Alive, Unborn, TypeOK
<1>4. Above' = [x \in Alive \cup {d} |-> IF x = d THEN to[r] ELSE Above[x]]
  BY <1>1, <1>3 DEF Above, TypeOK, Alive
<1>5. Serial!Open(d, to[r])
  BY <1>1, <1>2, <1>3, <1>4 DEF Serial!Open, Serial!Used, Above
<1>6. to[r] \in Dept \cup {Top}
  BY <1>2 DEF Alive
<1>7. \E x \in Dept, p \in Dept \cup {Top} : Serial!Open(x, p)
  BY <1>5, <1>6
<1>8. QED BY <1>7 DEF Serial!TNext

LEMMA SerialClose ==
  ASSUME TypeOK, TreeOK, NEW r \in Req, Delete(r), ~crossed', ~UNCHANGED row
  PROVE  Serial!TNext
<1> DEFINE d == dpt[r]
<1>1. /\ d \in Alive /\ pc[r] = "delete" /\ Overtakes(r, TRUE)
      /\ row' = [row EXCEPT ![d] = "deleted"] /\ parent' = parent /\ member' = member
  BY DEF Delete, Goto
<1>2. (\A x \in Alive : parent[x] # d) /\ \A u \in User : member[u] # d
  BY <1>1 DEF Overtakes, TreeOK, CheckOK
<1>3. Alive' = Alive \ {d} /\ Unborn' = Unborn /\ d \in Dept
  BY <1>1 DEF Alive, Unborn, TypeOK
<1>4. Above' = [x \in Alive \ {d} |-> Above[x]]
  BY <1>1, <1>3 DEF Above
<1> HIDE DEF d
<1>5. Serial!Close(d)
  BY <1>1, <1>2, <1>3, <1>4 DEF Serial!Close, Serial!Used, Above, Unborn
<1>6. QED BY <1>3, <1>5 DEF Serial!TNext

LEMMA SerialSettle ==
  ASSUME TypeOK, TreeOK, NEW r \in Req, WriteAssignment(r), ~crossed'
  PROVE  Serial!TNext
<1>1. /\ pc[r] = "assign" /\ usr[r] \in User /\ Overtakes(r, dpt[r] # NoDept)
      /\ member' = [member EXCEPT ![usr[r]] = dpt[r]] /\ row' = row /\ parent' = parent
  BY DEF WriteAssignment, TypeOK
<1>2. dpt[r] \in Alive \cup {NoDept}
  BY <1>1 DEF Overtakes, TreeOK, CheckOK
<1>3. Serial!Settle(usr[r], dpt[r])
  BY <1>1, <1>2 DEF Serial!Settle, Serial!Used, Above, Alive, Unborn
<1>4. dpt[r] \in Dept \cup {NoDept}
  BY <1>2 DEF Alive
<1>5. QED BY <1>1, <1>3, <1>4 DEF Serial!TNext

(* An edit writes the parent it read; unless it is stale, that is the parent *)
(* there is.                                                                *)
LEMMA SerialEdit ==
  ASSUME TypeOK, TreeOK, NEW r \in Req, WriteEdit(r), ~crossed'
  PROVE  UNCHANGED Serial!tvars
<1>1. pc[r] = "edit" /\ member' = member
  BY DEF WriteEdit
<1>2. parent' = parent
  BY <1>1 DEF WriteEdit, Overtakes, TreeOK, CheckOK
<1>3. row' = row \/ (dpt[r] \in Alive /\ \E s \in Status : row' = [row EXCEPT ![dpt[r]] = s])
  <2>1. CASE dpt[r] \notin Alive
    BY <2>1, Zenon DEF WriteEdit
  <2>2. CASE dpt[r] \in Alive
    BY <2>2, Zenon DEF WriteEdit
  <2>3. QED BY <2>1, <2>2
<1>4. Alive' = Alive /\ Unborn' = Unborn
  BY <1>3, StatusAssumption DEF Alive, Unborn, TypeOK
<1>5. QED BY <1>1, <1>2, <1>4, SerialStutter

LEMMA SerialStep ==
  ASSUME TypeOK, TreeInv, [Next]_vars, ~crossed' PROVE [Serial!TNext]_(Serial!tvars)
<1>1. TreeOK
  BY CrossedStays DEF TreeInv
<1>2. CASE row' = row /\ parent' = parent /\ member' = member
  BY <1>2, SerialStutter DEF Alive, Unborn
<1>3. ASSUME NEW r \in Req, Updates(r) PROVE [Serial!TNext]_(Serial!tvars)
  <2>1. CASE WriteMove(r)
    <3>1. CASE parent' = parent
      <4>1. Alive' = Alive /\ Unborn' = Unborn /\ member' = member
        BY <2>1, RelocateType DEF WriteMove, Alive, Unborn
      <4>2. QED BY <3>1, <4>1, SerialStutter
    <3>2. QED BY <1>1, <2>1, <3>1, SerialPut
  <2>2. CASE WriteEdit(r)
    BY <1>1, <2>2, SerialEdit
  <2>3. CASE ~WriteMove(r) /\ ~WriteEdit(r)
    BY <1>2, <1>3, <2>3 DEF Updates, Move, Edit, CheckParent, CheckBelow, tables
  <2>4. QED BY <2>1, <2>2, <2>3
<1>4. ASSUME NEW r \in Req, Others(r) PROVE [Serial!TNext]_(Serial!tvars)
  <2>1. CASE \E d \in Dept : Insert(r, d)
    BY <1>1, <2>1, SerialOpen
  <2>2. CASE Delete(r)
    <3>1. parent' = parent /\ member' = member
      BY <2>2 DEF Delete
    <3>2. QED BY <1>1, <1>2, <2>2, <3>1, SerialClose
  <2>3. CASE WriteAssignment(r)
    BY <1>1, <2>3, SerialSettle
  <2>4. CASE ~(\E d \in Dept : Insert(r, d)) /\ ~Delete(r) /\ ~WriteAssignment(r)
    BY <1>2, <1>4, <2>4 DEF Others, Create, Remove, Increment, Drop, Assign, tables
  <2>5. QED BY <2>1, <2>2, <2>3, <2>4
<1>5. ASSUME NEW r \in Req, Scopes(r) PROVE [Serial!TNext]_(Serial!tvars)
  BY <1>2, <1>5, ScopesFrame
<1>6. CASE (\E e \in cache : Expire(e)) \/ UNCHANGED vars
  BY <1>2, <1>6 DEF Expire, vars, tables
<1>7. QED BY <1>3, <1>4, <1>5, <1>6 DEF Next

(* Until two requests cross, every write is one step of Trees: opened, put,   *)
(* closed, settled, as the checks of its request would allow it now.        *)
THEOREM ImplementsTrees == Spec => TreesSpec
<1>1. TypeOK /\ TreeInv /\ [Next]_vars => [crossed' \/ Serial!TNext]_(Serial!tvars)
  BY SerialStep
<1>2. QED BY <1>1, SerialInit, TypeCorrect, TreeHolds, PTL DEF Spec, TreesSpec
-----------------------------------------------------------------------------
(* The revision stands for the tree: while no increment is due or lost, what *)
(* was expanded under the current revision is what the table has.           *)
Settled == ~lost /\ \A r \in Req : pc[r] # "incr"
Current(d) == Below(parent, Alive, d)

LookupOK(r) ==
  key[r] # Off =>
    /\ key[r] <= tree
    /\ pc[r] = "store" /\ key[r] = tree /\ Settled => ids[r] = Current(dpt[r])

EntryOK(e) == e.rev <= tree /\ (e.rev = tree /\ Settled => e.ids = Current(e.dept))

ScopeInv ==
  /\ TypeOK
  /\ \A r \in Req : LookupOK(r)
  /\ \A e \in cache : EntryOK(e)

(* A step gives the tree another revision, or leaves it as it is if it ends  *)
(* with nothing due or lost.                                                *)
Kept ==
  /\ tree' = tree
  /\ Settled' => Settled /\ \A d : Current(d)' = Current(d)
Bumped == tree' = tree + 1

LEMMA TreeUnchanged ==
  ASSUME UNCHANGED <<parent, tree>>, Alive' = Alive, Settled' => Settled PROVE Kept
BY DEF Kept, Current

LEMMA IncrementDue ==
  ASSUME tree' = tree, NEW r \in Req, pc'[r] = "incr" \/ lost' PROVE Kept
<1>1. ~Settled'
  BY DEF Settled
<1>2. QED BY <1>1 DEF Kept

LEMMA UpdatesRevision ==
  ASSUME TypeOK, NEW r \in Req, Updates(r) PROVE Kept /\ cache' = cache
<1> USE DEF Goto, Begin, TypeOK
<1>1. cache' = cache
  BY DEF Updates, Move, Edit, CheckParent, CheckBelow, WriteMove, WriteEdit, redis
<1>2. \A q \in Req \ {r} : Untouched(q)
  BY UpdatesFrame
<1>3. CASE pc'[r] = "incr" \/ lost'
  <2>1. tree' = tree
    BY DEF Updates, Move, Edit, CheckParent, CheckBelow, WriteMove, WriteEdit, redis
  <2>2. QED BY <1>1, <1>3, <2>1, IncrementDue
<1>4. CASE pc'[r] # "incr" /\ ~lost'
  <2>1. /\ UNCHANGED <<parent, tree, lost>> /\ Alive' = Alive /\ pc[r] # "incr"
    <3>1. CASE WriteEdit(r)
      <4>1. /\ UNCHANGED <<parent, tree, lost>> /\ pc[r] = "edit"
            /\ \/ row' = row
               \/ dpt[r] \in Alive /\ \E s \in Status : row' = [row EXCEPT ![dpt[r]] = s]
        BY <1>4, <3>1 DEF WriteEdit, redis
      <4>2. QED BY <4>1 DEF Alive
    <3>2. CASE WriteMove(r)
      BY <1>4, <3>2 DEF WriteMove, Answer, redis, Alive
    <3>3. QED
      BY <3>1, <3>2 DEF Updates, Move, Edit, CheckParent, CheckBelow, Answer, tables, redis,
         history, Alive
  <2>2. Settled' => Settled
    BY <1>2, <2>1 DEF Settled, Untouched
  <2>3. QED BY <1>1, <2>1, <2>2, TreeUnchanged
<1>5. QED BY <1>1, <1>3, <1>4

LEMMA OthersRevision ==
  ASSUME TypeOK, NEW r \in Req, Others(r) PROVE (Kept \/ Bumped) /\ cache' = cache
<1> USE DEF Goto, Begin, TypeOK
<1>1. cache' = cache
  BY DEF Others, Create, Insert, Remove, Delete, Increment, Drop, Assign, WriteAssignment, redis
<1>2. \A q \in Req \ {r} : Untouched(q)
  BY OthersFrame
<1>3. CASE Increment(r)
  BY <1>3 DEF Increment, Kept, Bumped, Settled
<1>4. ASSUME NEW d \in Dept, Insert(r, d) PROVE Kept
  <2>1. pc'[r] = "incr" /\ tree' = tree
    BY <1>4 DEF Insert, redis
  <2>2. QED BY <2>1, IncrementDue
<1>5. CASE Delete(r)
  <2>1. pc'[r] = "incr" /\ tree' = tree
    BY <1>5 DEF Delete, redis
  <2>2. QED BY <1>1, <2>1, IncrementDue
<1>6. ASSUME UNCHANGED <<row, parent, tree, lost>>, pc[r] # "incr" PROVE Kept
  <2>1. Settled' => Settled
    BY <1>2, <1>6 DEF Settled, Untouched
  <2>2. QED BY <1>6, <2>1, TreeUnchanged DEF Alive
<1>7. CASE Drop(r) \/ WriteAssignment(r)
  BY <1>6, <1>7 DEF Drop, WriteAssignment, Answer, tables, redis
<1>8. ASSUME NEW p \in Dept \cup {Top}, Create(r, p) PROVE Kept
  BY <1>6, <1>8 DEF Create, tables, redis, history
<1>9. ASSUME NEW d \in Dept, Remove(r, d) PROVE Kept
  BY <1>6, <1>9 DEF Remove, tables, redis, history
<1>10. ASSUME NEW u \in User, NEW d \in Dept \cup {NoDept}, Assign(r, u, d) PROVE Kept
  BY <1>6, <1>10 DEF Assign, tables, redis, history
<1>11. QED BY <1>1, <1>3, <1>4, <1>5, <1>7, <1>8, <1>9, <1>10 DEF Others

LEMMA ScopesRevision ==
  ASSUME TypeOK, NEW r \in Req, Scopes(r) PROVE Kept
<1>1. /\ \A q \in Req \ {r} : Untouched(q)
      /\ UNCHANGED <<row, parent, tree, lost>>
  BY ScopesFrame
<1>2. pc[r] # "incr"
  BY DEF Scopes, Scope, ReadRevision, GetCached, Expand, Store, Goto, Begin
<1>3. Settled' => Settled
  BY <1>1, <1>2 DEF Settled, Untouched
<1>4. QED BY <1>1, <1>3, TreeUnchanged DEF Alive

LEMMA LookupKept ==
  ASSUME ScopeInv, TypeOK', Kept \/ Bumped, NEW q \in Req, Untouched(q) PROVE LookupOK(q)'
BY DEF ScopeInv, TypeOK, LookupOK, Kept, Bumped, Untouched

LEMMA EntryKept ==
  ASSUME ScopeInv, Kept \/ Bumped, NEW e \in cache PROVE EntryOK(e)'
<1>1. e \in Entry /\ tree \in Nat
  BY DEF ScopeInv, TypeOK
<1>2. QED BY <1>1 DEF ScopeInv, EntryOK, Kept, Bumped, Entry

LEMMA ScopeStep == ScopeInv /\ [Next]_vars => ScopeInv'
<1> SUFFICES ASSUME ScopeInv, [Next]_vars PROVE ScopeInv'
  OBVIOUS
<1>1. TypeOK /\ TypeOK'
  BY NextType DEF ScopeInv
<1>2. ASSUME NEW r \in Req, Kept \/ Bumped, \A q \in Req \ {r} : Untouched(q), LookupOK(r)',
             cache' = cache
      PROVE  ScopeInv'
  <2>1. \A q \in Req : LookupOK(q)'
    BY <1>1, <1>2, LookupKept
  <2>2. \A e \in cache' : EntryOK(e)'
    BY <1>2, EntryKept
  <2>3. QED BY <1>1, <2>1, <2>2 DEF ScopeInv
<1>3. ASSUME NEW r \in Req, Updates(r) PROVE ScopeInv'
  <2>1. (key'[r] = key[r] \/ key'[r] = Off) /\ pc'[r] # "store" /\ tree' = tree
    <3> USE DEF Goto, Begin, redis
    <3>1. tree' = tree
      BY <1>3 DEF Updates, Move, Edit, CheckParent, CheckBelow, WriteMove, WriteEdit
    <3>2. CASE End(r)
      BY <1>1, <3>1, <3>2, EndFrame
    <3>3. CASE ~End(r)
      <4> USE DEF TypeOK, locals
      <4>1. ASSUME NEW x \in Dept, NEW p \in Dept \cup {Top}, Move(r, x, p)
            PROVE  key'[r] = key[r] /\ pc'[r] # "store"
        BY <1>1, <4>1 DEF Move
      <4>2. ASSUME NEW x \in Dept, Edit(r, x) PROVE key'[r] = key[r] /\ pc'[r] # "store"
        BY <1>1, <4>2 DEF Edit
      <4>3. CASE CheckParent(r) \/ CheckBelow(r) \/ WriteMove(r)
        BY <1>1, <3>1, <3>3, <4>3 DEF CheckParent, CheckBelow, WriteMove, Answer
      <4>4. QED BY <1>3, <3>1, <3>3, <4>1, <4>2, <4>3 DEF Updates, WriteEdit
    <3>4. QED BY <3>2, <3>3
  <2>2. LookupOK(r)'
    BY <2>1 DEF LookupOK, ScopeInv
  <2>3. QED BY <1>1, <1>2, <1>3, <2>2, UpdatesFrame, UpdatesRevision
<1>4. ASSUME NEW r \in Req, Others(r) PROVE ScopeInv'
  <2>1. key'[r] = key[r] \/ key'[r] = Off
    BY <1>1, <1>4, EndFrame DEF Others, Create, Insert, Remove, Delete, Increment, Drop,
       Answer, Assign, WriteAssignment, locals
  <2>2. pc'[r] # "store"
    <3> USE DEF Goto, Begin, TypeOK
    <3>1. CASE End(r)
      BY <1>1, <3>1, EndFrame
    <3>2. CASE ~End(r)
      <4>1. ASSUME NEW d \in Dept, Insert(r, d) \/ Remove(r, d) PROVE pc'[r] # "store"
        BY <1>1, <4>1 DEF Insert, Remove
      <4>2. CASE Delete(r)
        BY <1>1, <4>2 DEF Delete
      <4>3. ASSUME NEW p \in Dept \cup {Top}, Create(r, p) PROVE pc'[r] # "store"
        BY <1>1, <4>3 DEF Create
      <4>4. ASSUME NEW u \in User, NEW d \in Dept \cup {NoDept}, Assign(r, u, d)
            PROVE  pc'[r] # "store"
        BY <1>1, <4>4 DEF Assign
      <4>5. QED
        BY <1>4, <3>2, <4>1, <4>2, <4>3, <4>4 DEF Others, Increment, Drop, Answer,
           WriteAssignment
    <3>3. QED BY <3>1, <3>2
  <2>3. Kept \/ Bumped
    BY <1>1, <1>4, OthersRevision
  <2>4. LookupOK(r)'
    BY <1>1, <2>1, <2>2, <2>3 DEF LookupOK, ScopeInv, Kept, Bumped, TypeOK
  <2>5. QED BY <1>1, <1>2, <1>4, <2>3, <2>4, OthersFrame, OthersRevision
<1>5. ASSUME NEW r \in Req, Scopes(r) PROVE ScopeInv'
  <2> USE DEF Goto, Begin, TypeOK
  <2>1. \A q \in Req \ {r} : Untouched(q)
    BY <1>1, <1>5, ScopesFrame
  <2>2. Kept
    BY <1>1, <1>5, ScopesRevision
  <2>3. ASSUME key'[r] = key[r] \/ key'[r] = Off \/ key'[r] = tree, pc'[r] # "store"
        PROVE  LookupOK(r)'
    BY <1>1, <2>2, <2>3 DEF LookupOK, ScopeInv, Kept
  <2>4. CASE Answer(r) /\ cache' = cache
    BY <1>1, <1>2, <2>1, <2>2, <2>3, <2>4, EndFrame DEF Answer
  <2>5. ASSUME NEW u \in User, Scope(r, u) PROVE ScopeInv'
    BY <1>1, <1>2, <2>1, <2>2, <2>3, <2>5 DEF Scope, redis
  <2>6. CASE ReadRevision(r)
    BY <1>1, <1>2, <2>1, <2>2, <2>3, <2>6 DEF ReadRevision, redis
  <2>7. CASE GetCached(r)
    BY <1>1, <1>2, <2>1, <2>2, <2>3, <2>4, <2>7 DEF GetCached, redis, locals
  <2>8. CASE Expand(r)
    <3>1. cache' = cache
      BY <2>8 DEF Expand, redis
    <3>2. CASE pc'[r] = "store"
      <4>1. /\ ids'[r] = Current(dpt[r]) /\ UNCHANGED <<dpt, key, parent, tree>> /\ Alive' = Alive
        BY <1>1, <2>8, <3>2, EndFrame DEF Expand, Answer, Current, tables, redis, Alive
      <4>2. LookupOK(r)'
        BY <1>1, <4>1 DEF LookupOK, ScopeInv, Current
      <4>3. QED BY <1>2, <2>1, <2>2, <3>1, <4>2
    <3>3. CASE pc'[r] # "store"
      BY <1>1, <1>2, <2>1, <2>2, <2>3, <2>4, <2>8, <3>1, <3>3 DEF Expand, locals
    <3>4. QED BY <3>2, <3>3
  <2>9. CASE Store(r)
    <3>1. LookupOK(r)'
      BY <1>1, <2>3, <2>9, EndFrame DEF Store, Answer
    <3>2. \A q \in Req : LookupOK(q)'
      BY <1>1, <2>1, <2>2, <3>1, LookupKept
    <3>3. ASSUME NEW e \in cache' PROVE EntryOK(e)'
      <4>1. CASE e \in cache
        BY <2>2, <4>1, EntryKept
      <4>2. CASE e \notin cache
        <5>1. /\ e = [rev |-> key[r], dept |-> dpt[r], ids |-> ids[r]]
              /\ key[r] # Off /\ pc[r] = "store"
          BY <2>9, <4>2 DEF Store, File
        <5>2. e.rev = key[r] /\ e.dept = dpt[r] /\ e.ids = ids[r]
          BY <5>1
        <5>3. /\ e.rev <= tree
              /\ e.rev = tree /\ Settled => e.ids = Current(e.dept)
          BY <5>1, <5>2 DEF ScopeInv, LookupOK
        <5>4. QED BY <2>2, <5>3 DEF EntryOK, Kept
      <4>3. QED BY <4>1, <4>2
    <3>4. QED BY <1>1, <3>2, <3>3 DEF ScopeInv
  <2>10. QED BY <1>5, <2>5, <2>6, <2>7, <2>8, <2>9 DEF Scopes
<1>6. ASSUME NEW e \in cache, Expire(e) PROVE ScopeInv'
  <2>1. UNCHANGED <<row, parent, tree, pc, key, ids, dpt, lost>> /\ cache' \in SUBSET cache
    BY <1>6 DEF Expire, tables, locals, history
  <2>2. QED
    BY <1>1, <2>1 DEF ScopeInv, LookupOK, EntryOK, Settled, Current, Alive
<1>7. CASE UNCHANGED vars
  BY <1>1, <1>7 DEF vars, ScopeInv, LookupOK, EntryOK, Settled, Current, Alive, tables, redis,
     locals, history
<1>8. QED BY <1>3, <1>4, <1>5, <1>6, <1>7 DEF Next

(* What a lookup finds cached is what the table has, when nothing is due or  *)
(* lost.                                                                    *)
THEOREM CachedScopesAreCurrent == Spec => []ScopesAreCurrent
<1>1. Init => ScopeInv
  BY InitType DEF Init, ScopeInv, LookupOK
<1>2. ScopeInv => ScopesAreCurrent
  BY DEF ScopeInv, EntryOK, ScopesAreCurrent, Settled, Current
<1>3. QED BY <1>1, <1>2, ScopeStep, PTL DEF Spec
=============================================================================
