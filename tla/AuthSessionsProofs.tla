------------------------- MODULE AuthSessionsProofs -------------------------
(***************************************************************************)
(* Proofs about AuthSessions for any accounts, tokens, devices and         *)
(* requests.  Every action of Next does to the table one of six things     *)
(* (TableStep); what the table alone determines (Lineage) is proved once   *)
(* per statement, what ties a request to the table (Requests) per action.  *)
(***************************************************************************)
EXTENDS AuthSessions, FiniteSetTheorems, TLAPS

(* The part of the inductive invariant about the table: who links to whom. *)
(* OneLiveToken needs it, because a rotation gives the new token the root  *)
(* of the old one and must not meet another live token there; a kick needs *)
(* to know that a session has one last token, live or not (OneTail).       *)
OneTail ==
  \A i, j \in Jti :
    /\ row[i].st # "unborn" /\ row[i].next = NoJti
    /\ row[j].st # "unborn" /\ row[j].next = NoJti
    /\ root[i] = root[j]
    => i = j

Lineage ==
  /\ \A j \in Jti : row[j].st = "unborn" =>
        row[j].next = NoJti /\ root[j] = NoJti /\ from[j] = NoJti
  /\ \A j \in Jti : row[j].st # "unborn" =>
        /\ root[j] \in Jti
        /\ row[root[j]].st # "unborn"
        /\ row[root[j]].user = row[j].user
  /\ ReuseEvidence
  /\ OneLiveToken
  /\ OneTail

(* The part about the requests: what a request remembers of the table.     *)
RequestOK(r) ==
  /\ pc[r] = "idle" => doomed[r] = {}
  /\ pc[r] \in {"guard", "guardUser"} => op[r] \in {"others", "password"}
  /\ pc[r] \in {"check", "user", "rotate", "guard", "guardUser", "password",
                "others", "othersUpdate"} =>
       /\ tok[r] \in Jti
       /\ row[tok[r]].st # "unborn"
       /\ row[tok[r]].user = usr[r]
  /\ pc[r] \in {"kickUpdate", "kickDone"} => tok[r] \in Jti /\ row[tok[r]].st # "unborn"
  /\ \A f \in doomed[r] : row[f].st # "unborn" /\ row[f].user = usr[r]
  /\ pc[r] \in {"others", "othersUpdate"} => root[tok[r]] \notin doomed[r]

Requests == \A r \in Req : RequestOK(r)

IInv == TypeOK /\ Lineage /\ Requests

USE UserAssumption, NoJtiAssumption

LEMMA AnyUserType == AnyUser \in User
BY DEF AnyUser

LEMMA ExpiryType == now \in Nat => RefreshExpiry \in Nat
BY TtlAssumption DEF RefreshExpiry

(***************************************************************************)
(* The table                                                               *)
(***************************************************************************)

TableStep ==
  \/ UNCHANGED <<row, root, from>>
  \/ \E S \in SUBSET {j \in Jti : row[j].st \in {"live", "revoked"}} :
        SetRevoked(S) \/ DeleteRows(S)
  \/ \E j \in Jti, u \in User, d \in Device \cup {NoDevice}, e \in Nat :
        InsertLogin(j, u, d, e)
  \/ \E i, j \in Jti, u \in User, d \in Device \cup {NoDevice}, e \in Nat :
        RotateRow(i, j, u, d, e) /\ row[i].user = u

TableType ==
  /\ now \in Nat
  /\ row \in [Jti -> Row]
  /\ root \in [Jti -> Jti \cup {NoJti}]
  /\ from \in [Jti -> Jti \cup {NoJti}]

LEMMA NewRowType ==
  ASSUME now \in Nat, NEW u \in User, NEW d \in Device \cup {NoDevice}, NEW e \in Nat
  PROVE  NewRow(u, d, e) \in Row
BY DEF NewRow, Row

(* what a row keeps for ever, and that nothing is used twice *)
Monotone ==
  \A j \in Jti : row[j].st # "unborn" =>
    /\ row'[j].st # "unborn" /\ row'[j].user = row[j].user /\ root'[j] = root[j]
    /\ row'[j].next = NoJti => row[j].next = NoJti

LEMMA SetStType ==
  ASSUME TableType, NEW S, NEW s \in {"revoked", "gone"},
         row' = [j \in Jti |-> IF j \in S THEN [row[j] EXCEPT !.st = s] ELSE row[j]],
         UNCHANGED <<root, from>>, now' \in Nat
  PROVE  TableType'
BY DEF TableType, Row

LEMMA RotatedType ==
  ASSUME NEW x \in Row, NEW j \in Jti
  PROVE  [x EXCEPT !.st = "revoked", !.next = j] \in Row
<1>1. [x EXCEPT !.st = "revoked"] \in Row
  BY DEF Row
<1>2. ASSUME NEW y \in Row PROVE [y EXCEPT !.next = j] \in Row
  BY DEF Row
<1>3. [[x EXCEPT !.st = "revoked"] EXCEPT !.next = j] \in Row
  BY <1>1, <1>2
<1>4. QED BY <1>3

LEMMA TableTypes ==
  ASSUME TableType, TableStep, now' \in Nat
  PROVE  TableType'
<1>1. CASE UNCHANGED <<row, root, from>>
  BY <1>1 DEF TableType
<1>2. ASSUME NEW S, SetRevoked(S) PROVE TableType'
  BY <1>2, SetStType DEF SetRevoked
<1>3. ASSUME NEW S, DeleteRows(S) PROVE TableType'
  BY <1>3, SetStType DEF DeleteRows
<1>4. ASSUME NEW j \in Jti, NEW u \in User, NEW d \in Device \cup {NoDevice}, NEW e \in Nat,
             InsertLogin(j, u, d, e)
      PROVE  TableType'
  BY <1>4, NewRowType DEF InsertLogin, TableType
<1>5. ASSUME NEW i \in Jti, NEW j \in Jti, NEW u \in User,
             NEW d \in Device \cup {NoDevice}, NEW e \in Nat, RotateRow(i, j, u, d, e)
      PROVE  TableType'
  <2>1. [row[i] EXCEPT !.st = "revoked", !.next = j] \in Row
    BY RotatedType DEF TableType
  <2>2. QED BY <1>5, <2>1, NewRowType DEF RotateRow, TableType
<1>6. QED BY <1>1, <1>2, <1>3, <1>4, <1>5 DEF TableStep

LEMMA SetStLineage ==
  ASSUME TableType, Lineage,
         NEW S \in SUBSET {j \in Jti : row[j].st \in {"live", "revoked"}},
         NEW s \in {"revoked", "gone"},
         row' = [j \in Jti |-> IF j \in S THEN [row[j] EXCEPT !.st = s] ELSE row[j]],
         UNCHANGED <<root, from>>
  PROVE  Lineage' /\ Monotone
<1>1. \A j \in Jti : /\ row'[j].user = row[j].user
                     /\ row'[j].next = row[j].next
                     /\ row'[j].st = "unborn" <=> row[j].st = "unborn"
                     /\ row'[j].st = "live" => row[j].st = "live"
  BY DEF TableType, Row
<1>2. ReuseEvidence'
  BY <1>1 DEF Lineage, ReuseEvidence, TableType
<1>3. OneLiveToken'
  BY <1>1 DEF Lineage, OneLiveToken
<1>4. OneTail'
  BY <1>1 DEF Lineage, OneTail
<1>5. QED BY <1>1, <1>2, <1>3, <1>4 DEF Lineage, Monotone

LEMMA InsertLineage ==
  ASSUME TableType, Lineage, NEW k \in Jti, NEW u \in User,
         NEW d \in Device \cup {NoDevice}, NEW e \in Nat, InsertLogin(k, u, d, e)
  PROVE  Lineage' /\ Monotone
<1>1. row[k].st = "unborn"
  BY DEF InsertLogin, Unused
<1>2. \A j \in Jti : j # k => row'[j] = row[j] /\ root'[j] = root[j]
  BY DEF InsertLogin, TableType
<1>3. /\ row'[k].st = "live" /\ row'[k].next = NoJti /\ row'[k].user = u
      /\ root'[k] = k /\ from' = from
  BY DEF InsertLogin, TableType, NewRow
<1>4. \A j \in Jti : from[j] # k
  BY <1>1 DEF Lineage, ReuseEvidence
<1>5. \A j \in Jti : row[j].st # "unborn" => root[j] # k
  BY <1>1 DEF Lineage
<1>6. ReuseEvidence'
  <2>1. \A i, j \in Jti : row'[i].next = j <=> from'[j] = i
    BY <1>1, <1>2, <1>3, <1>4 DEF Lineage, ReuseEvidence
  <2>2. ASSUME NEW i \in Jti, NEW j \in Jti, from'[j] = i
        PROVE  /\ row'[i].st # "live" /\ row'[j].st # "unborn"
               /\ row'[i].user = row'[j].user /\ root'[i] = root'[j]
    <3>1. i # k /\ j # k
      BY <2>2, <1>1, <1>3, <1>4 DEF Lineage
    <3>2. QED BY <3>1, <2>2, <1>2, <1>3 DEF Lineage, ReuseEvidence
  <2>3. QED BY <2>1, <2>2 DEF ReuseEvidence
<1>7. OneLiveToken'
  BY <1>1, <1>2, <1>3, <1>5 DEF Lineage, OneLiveToken
<1>8. \A j \in Jti : row'[j].st = "unborn" =>
        row'[j].next = NoJti /\ root'[j] = NoJti /\ from'[j] = NoJti
  BY <1>2, <1>3 DEF Lineage
<1>9. \A j \in Jti : row'[j].st # "unborn" =>
        /\ root'[j] \in Jti /\ row'[root'[j]].st # "unborn"
        /\ row'[root'[j]].user = row'[j].user
  BY <1>1, <1>2, <1>3 DEF Lineage
<1>10. Monotone
  BY <1>1, <1>2 DEF Monotone
<1>11. OneTail'
  BY <1>1, <1>2, <1>3, <1>5 DEF Lineage, OneTail
<1>12. QED BY <1>6, <1>7, <1>8, <1>9, <1>10, <1>11 DEF Lineage

LEMMA RotateLineage ==
  ASSUME TableType, Lineage, NEW o \in Jti, NEW k \in Jti, NEW u \in User,
         NEW d \in Device \cup {NoDevice}, NEW e \in Nat, RotateRow(o, k, u, d, e),
         row[o].user = u
  PROVE  Lineage' /\ Monotone
<1>1. row[o].st = "live" /\ row[k].st = "unborn" /\ o # k
  BY DEF RotateRow, Unused
<1>2. \A j \in Jti : j # k => /\ root'[j] = root[j]
                              /\ from'[j] = from[j]
                              /\ row'[j].user = row[j].user
  BY <1>1 DEF RotateRow, TableType, Row
<1>3. \A j \in Jti : j # k /\ j # o => row'[j] = row[j]
  BY DEF RotateRow, TableType
<1>4. row'[o].st = "revoked" /\ row'[o].next = k
  BY <1>1 DEF RotateRow, TableType, Row
<1>5. /\ row'[k].st = "live" /\ row'[k].next = NoJti /\ row'[k].user = u
      /\ root'[k] = root[o] /\ from'[k] = o
  BY <1>1 DEF RotateRow, TableType, NewRow
<1>6. row[o].next = NoJti
  <2>1. \A j \in Jti : row[o].next # j
    BY <1>1 DEF Lineage, ReuseEvidence
  <2>2. QED BY <2>1 DEF TableType, Row
<1>7. \A j \in Jti : from[j] # k /\ from[j] # o
  BY <1>1, <1>6 DEF Lineage, ReuseEvidence
<1>8. root[o] \in Jti /\ root[o] # k
  BY <1>1 DEF Lineage
<1>9. \A j \in Jti : row[j].st # "unborn" => root[j] # k
  BY <1>1 DEF Lineage
<1>10. ReuseEvidence'
  <2>1. ASSUME NEW i \in Jti, NEW j \in Jti
        PROVE  row'[i].next = j <=> from'[j] = i
    <3>1. CASE i = o /\ j = k
      BY <3>1, <1>4, <1>5
    <3>2. CASE i = o /\ j # k
      BY <3>2, <1>2, <1>4, <1>7
    <3>3. CASE i = k
      <4>1. from'[j] # k
        BY <1>1, <1>2, <1>5, <1>7
      <4>2. QED BY <3>3, <4>1, <1>5
    <3>4. CASE i # k /\ i # o /\ j = k
      <4>1. row[i].next # k
        BY <1>1 DEF Lineage, ReuseEvidence
      <4>2. QED BY <3>4, <4>1, <1>3, <1>5
    <3>5. CASE i # k /\ i # o /\ j # k
      BY <3>5, <1>2, <1>3 DEF Lineage, ReuseEvidence
    <3>6. QED BY <3>1, <3>2, <3>3, <3>4, <3>5
  <2>2. ASSUME NEW i \in Jti, NEW j \in Jti, from'[j] = i
        PROVE  /\ row'[i].st # "live" /\ row'[j].st # "unborn"
               /\ row'[i].user = row'[j].user /\ root'[i] = root'[j]
    <3>1. CASE j = k
      BY <3>1, <2>2, <1>1, <1>2, <1>4, <1>5
    <3>2. CASE j # k
      <4>1. from[j] = i /\ i # k /\ i # o
        BY <3>2, <2>2, <1>2, <1>7
      <4>2. /\ row[i].st # "live" /\ row[j].st # "unborn"
            /\ row[i].user = row[j].user /\ root[i] = root[j]
        BY <4>1 DEF Lineage, ReuseEvidence
      <4>3. row'[j].st # "unborn"
        BY <4>2, <3>2, <1>3, <1>4
      <4>4. QED BY <4>1, <4>2, <4>3, <3>2, <1>2, <1>3
    <3>3. QED BY <3>1, <3>2
  <2>3. QED BY <2>1, <2>2 DEF ReuseEvidence
<1>11. OneLiveToken'
  <2> SUFFICES ASSUME NEW i \in Jti, NEW j \in Jti, row'[i].st = "live",
                      row'[j].st = "live", root'[i] = root'[j], i # j
               PROVE  FALSE
    BY DEF OneLiveToken
  <2>1. i # o /\ j # o
    BY <1>4
  <2>2. CASE i # k /\ j # k
    BY <2>1, <2>2, <1>2, <1>3 DEF Lineage, OneLiveToken
  <2>3. CASE i = k
    BY <2>1, <2>3, <1>1, <1>2, <1>3, <1>5 DEF Lineage, OneLiveToken
  <2>4. CASE j = k
    BY <2>1, <2>4, <1>1, <1>2, <1>3, <1>5 DEF Lineage, OneLiveToken
  <2>5. QED BY <2>2, <2>3, <2>4
<1>12. Monotone
  BY <1>1, <1>2, <1>3, <1>4, <1>6 DEF Monotone
<1>13. \A j \in Jti : row'[j].st = "unborn" =>
         row'[j].next = NoJti /\ root'[j] = NoJti /\ from'[j] = NoJti
  BY <1>2, <1>3, <1>4, <1>5 DEF Lineage
<1>14. ASSUME NEW j \in Jti, row'[j].st # "unborn"
       PROVE  /\ root'[j] \in Jti /\ row'[root'[j]].st # "unborn"
              /\ row'[root'[j]].user = row'[j].user
  <2>1. CASE j = k
    <3>1. row[root[o]].st # "unborn" /\ row[root[o]].user = u
      BY <1>1 DEF Lineage
    <3>2. QED BY <2>1, <3>1, <1>5, <1>8, <1>12 DEF Monotone
  <2>2. CASE j # k
    <3>1. row[j].st # "unborn"
      BY <2>2, <1>14, <1>1, <1>3
    <3>2. /\ root[j] \in Jti /\ row[root[j]].st # "unborn"
          /\ row[root[j]].user = row[j].user
      BY <3>1 DEF Lineage
    <3>3. QED BY <2>2, <3>1, <3>2, <1>2, <1>12 DEF Monotone
  <2>3. QED BY <2>1, <2>2
<1>15. OneTail'
  <2> SUFFICES ASSUME NEW i \in Jti, NEW j \in Jti,
                      row'[i].st # "unborn", row'[i].next = NoJti,
                      row'[j].st # "unborn", row'[j].next = NoJti,
                      root'[i] = root'[j], i # j
               PROVE  FALSE
    BY DEF OneTail
  <2>1. i # o /\ j # o
    BY <1>4
  <2>2. CASE i # k /\ j # k
    BY <2>1, <2>2, <1>2, <1>3 DEF Lineage, OneTail
  <2>3. CASE i = k
    BY <2>1, <2>3, <1>1, <1>2, <1>3, <1>5, <1>6 DEF Lineage, OneTail
  <2>4. CASE j = k
    BY <2>1, <2>4, <1>1, <1>2, <1>3, <1>5, <1>6 DEF Lineage, OneTail
  <2>5. QED BY <2>2, <2>3, <2>4
<1>16. QED BY <1>10, <1>11, <1>12, <1>13, <1>14, <1>15 DEF Lineage

LEMMA TableLineage ==
  ASSUME TableType, Lineage, TableStep
  PROVE  Lineage' /\ Monotone
<1>1. CASE UNCHANGED <<row, root, from>>
  BY <1>1 DEF Lineage, Monotone, ReuseEvidence, OneLiveToken, OneTail
<1>2. ASSUME NEW S \in SUBSET {j \in Jti : row[j].st \in {"live", "revoked"}},
             SetRevoked(S) \/ DeleteRows(S)
      PROVE  Lineage' /\ Monotone
  BY <1>2, SetStLineage DEF SetRevoked, DeleteRows
<1>3. QED BY <1>1, <1>2, InsertLineage, RotateLineage DEF TableStep

(***************************************************************************)
(* The requests                                                            *)
(***************************************************************************)

ReqType ==
  /\ status \in [User -> {"active", "disabled", "deleted"}]
  /\ pc \in [Req -> PcState]
  /\ op \in [Req -> OpName]
  /\ usr \in [Req -> User]
  /\ tok \in [Req -> Jti \cup {NoJti}]
  /\ dev \in [Req -> Device \cup {NoDevice}]
  /\ due \in [Req -> Nat]
  /\ keep \in [Req -> SUBSET Jti]
  /\ doomed \in [Req -> SUBSET Jti]
  /\ purging \in SUBSET Jti

LEMMA TypeParts == TypeOK <=> TableType /\ ReqType
BY DEF TypeOK, TableType, ReqType

LEMMA SessionsOfFacts ==
  ASSUME IInv, NEW u \in User
  PROVE  /\ SessionsOf(u) \in SUBSET Jti
         /\ \A f \in SessionsOf(u) : row[f].st # "unborn" /\ row[f].user = u
BY DEF IInv, Lineage, SessionsOf, Unused

(* Requests speaks of columns that no statement changes, so a step of       *)
(* another request cannot disturb it.                                       *)
SameLocals(r) ==
  /\ pc'[r] = pc[r] /\ op'[r] = op[r] /\ usr'[r] = usr[r]
  /\ tok'[r] = tok[r] /\ doomed'[r] = doomed[r]

LEMMA OtherRequest ==
  ASSUME TypeOK, Monotone, NEW r \in Req, RequestOK(r), SameLocals(r)
  PROVE  RequestOK(r)'
BY DEF TypeOK, Monotone, RequestOK, SameLocals

(* what one action has to show *)
StepOK(r) ==
  /\ TableStep
  /\ now' \in Nat
  /\ ReqType'
  /\ \A q \in Req \ {r} : SameLocals(q)
  /\ Monotone => RequestOK(r)'

LEMMA StepSuffices ==
  ASSUME IInv, NEW r \in Req, StepOK(r)
  PROVE  IInv'
<1>1. TableType' /\ Lineage' /\ Monotone
  BY TypeParts, TableTypes, TableLineage DEF IInv, StepOK
<1>2. \A q \in Req : RequestOK(q)'
  BY <1>1, OtherRequest DEF IInv, StepOK, Requests
<1>3. TypeOK'
  BY <1>1 DEF StepOK, TypeOK, TableType, ReqType
<1>4. QED BY <1>1, <1>2, <1>3 DEF IInv, Requests

LEMMA TableSteps ==
  /\ UNCHANGED tokenVars => TableStep
  /\ \A S \in SUBSET {j \in Jti : row[j].st \in {"live", "revoked"}} : SetRevoked(S) => TableStep
  /\ \A i, j \in Jti, u \in User, d \in Device \cup {NoDevice}, e \in Nat :
       RotateRow(i, j, u, d, e) /\ row[i].user = u => TableStep
BY DEF TableStep, tokenVars

LEMMA LoginOK ==
  ASSUME IInv, NEW r \in Req
  PROVE  /\ \A u \in User, d \in Device \cup {NoDevice} : LoginVerified(r, u, d) => StepOK(r)
         /\ RevokeDeviceSessions(r) => StepOK(r)
         /\ SessionLimitRead(r) => StepOK(r)
         /\ SessionLimitEvict(r) => StepOK(r)
         /\ \A j \in Jti : IssueInsert(r, j) => StepOK(r)
<1> USE DEF IInv, TypeOK, ReqType, StepOK, SameLocals, Goto, PcState, OpName, Requests, RequestOK, Monotone
<1>1. ASSUME NEW u \in User, NEW d \in Device \cup {NoDevice}, LoginVerified(r, u, d)
      PROVE  StepOK(r)
  BY <1>1, ExpiryType DEF LoginVerified, Begin, tokenVars, TableStep
<1>2. ASSUME RevokeDeviceSessions(r) PROVE StepOK(r)
  <2>1. DeviceSessions(usr[r], dev[r]) \in SUBSET {j \in Jti : row[j].st \in {"live", "revoked"}}
    BY DEF DeviceSessions, Active, Unrevoked
  <2>2. TableStep
    BY <1>2, <2>1 DEF RevokeDeviceSessions, TableStep
  <2>3. QED BY <1>2, <2>2 DEF RevokeDeviceSessions, SetRevoked, reqVars
<1>3. ASSUME SessionLimitRead(r) PROVE StepOK(r)
  <2>1. TableStep /\ UNCHANGED <<now, row, root, from, op, usr, tok, dev, due, doomed, status, purging>>
    BY <1>3, TableSteps DEF SessionLimitRead, tokenVars
  <2>2. PICK to \in {"insert", "evict"} : Goto(r, "limit", to)
    BY <1>3 DEF SessionLimitRead
  <2>3. keep' \in [Req -> SUBSET Jti]
    BY <1>3 DEF SessionLimitRead, Newest, Active, Unrevoked
  <2>4. QED BY <2>1, <2>2, <2>3
<1>4. ASSUME SessionLimitEvict(r) PROVE StepOK(r)
  <2>1. Unrevoked(usr[r]) \ keep[r] \in SUBSET {j \in Jti : row[j].st \in {"live", "revoked"}}
    BY DEF Unrevoked
  <2>2. TableStep
    BY <1>4, <2>1 DEF SessionLimitEvict, TableStep
  <2>3. QED BY <1>4, <2>2 DEF SessionLimitEvict, SetRevoked, reqVars
<1>5. ASSUME NEW j \in Jti, IssueInsert(r, j) PROVE StepOK(r)
  <2>1. TableStep
    BY <1>5 DEF IssueInsert, TableStep
  <2>2. QED BY <1>5, <2>1, AnyUserType DEF IssueInsert, InsertLogin, End, Expired
<1>6. QED BY <1>1, <1>2, <1>3, <1>4, <1>5

LEMMA RefreshOK ==
  ASSUME IInv, NEW r \in Req
  PROVE  /\ \A j \in Jti, d \in Device \cup {NoDevice} : RefreshBegin(r, j, d) => StepOK(r)
         /\ RefreshCheck(r) => StepOK(r)
         /\ RefreshFindUser(r) => StepOK(r)
         /\ \A j \in Jti : RefreshRotate(r, j) => StepOK(r)
         /\ RefreshConflict(r) => StepOK(r)
<1> USE AnyUserType, SessionsOfFacts
    DEF IInv, TypeOK, ReqType, StepOK, SameLocals, Goto, PcState, OpName,
        Requests, RequestOK, Monotone, StartRevokeAll, End
<1>1. ASSUME NEW j \in Jti, NEW d \in Device \cup {NoDevice}, RefreshBegin(r, j, d)
      PROVE  StepOK(r)
  <2>1. row[j].user \in User /\ row[j].st # "unborn"
    BY <1>1 DEF RefreshBegin, Presentable, Row
  <2>2. QED BY <1>1, <2>1 DEF RefreshBegin, Begin, tokenVars, TableStep
<1>2. ASSUME RefreshCheck(r) PROVE StepOK(r)
  <2> UNCHANGED <<now, row, root, from, status, purging>> /\ TableStep
    BY <1>2 DEF RefreshCheck, tokenVars, TableStep
  <2>1. CASE Goto(r, "check", "user") /\ UNCHANGED reqVars
    BY <2>1 DEF reqVars
  <2>2. CASE StartRevokeAll(r, "check", "reuse")
    BY <2>2
  <2>3. CASE End(r, "check")
    BY <2>3
  <2>4. QED BY <1>2, <2>1, <2>2, <2>3 DEF RefreshCheck
<1>3. ASSUME RefreshFindUser(r) PROVE StepOK(r)
  <2> UNCHANGED <<now, row, root, from, status, purging>> /\ TableStep
    BY <1>3 DEF RefreshFindUser, tokenVars, TableStep
  <2>1. CASE /\ Goto(r, "user", "rotate")
             /\ due' = [due EXCEPT ![r] = RefreshExpiry]
             /\ UNCHANGED <<op, usr, tok, dev, keep, doomed>>
    BY <2>1, ExpiryType
  <2>2. CASE StartRevokeAll(r, "user", "status")
    BY <2>2
  <2>3. QED BY <1>3, <2>1, <2>2 DEF RefreshFindUser
<1>4. ASSUME NEW j \in Jti, RefreshRotate(r, j) PROVE StepOK(r)
  <2>1. tok[r] \in Jti /\ row[tok[r]].user = usr[r] /\ due[r] \in Nat
    BY <1>4 DEF RefreshRotate
  <2>2. TableStep
    <3>1. RotateRow(tok[r], j, usr[r], dev[r], due[r])
      BY <1>4 DEF RefreshRotate
    <3>2. usr[r] \in User /\ dev[r] \in Device \cup {NoDevice}
      OBVIOUS
    <3>3. QED BY <2>1, <3>1, <3>2, TableSteps
  <2>3. QED BY <1>4, <2>2 DEF RefreshRotate, RotateRow
<1>5. ASSUME RefreshConflict(r) PROVE StepOK(r)
  BY <1>5 DEF RefreshConflict, tokenVars, TableStep
<1>6. QED BY <1>1, <1>2, <1>3, <1>4, <1>5

LEMMA RevokeOK ==
  ASSUME IInv, NEW r \in Req
  PROVE  /\ RevokeAllSelect(r) => StepOK(r)
         /\ RevokeAllUpdate(r) => StepOK(r)
         /\ \A u \in User : ForceLogout(r, u) => StepOK(r)
         /\ \A u \in User, s \in {"disabled", "deleted"} : Deactivate(r, u, s) => StepOK(r)
         /\ \A j \in Jti : KickSelect(r, j) => StepOK(r)
         /\ KickUpdate(r) => StepOK(r)
<1> USE SessionsOfFacts
    DEF IInv, TypeOK, ReqType, StepOK, SameLocals, Goto, PcState, OpName,
        Requests, RequestOK, Monotone, Begin
<1>1. ASSUME RevokeAllSelect(r) PROVE StepOK(r)
  <2>1. TableStep /\ UNCHANGED <<now, row, root, from, status, purging, op, usr, tok, dev, due, keep, doomed>>
    BY <1>1, TableSteps DEF RevokeAllSelect, tokenVars, reqVars
  <2>2. PICK to \in {"raDone", "raUpdate"} : Goto(r, "raSelect", to)
    BY <1>1 DEF RevokeAllSelect
  <2>3. QED BY <2>1, <2>2
<1>2. ASSUME RevokeAllUpdate(r) PROVE StepOK(r)
  <2>1. TableStep
    BY <1>2 DEF RevokeAllUpdate, Unrevoked, TableStep
  <2>2. QED BY <1>2, <2>1 DEF RevokeAllUpdate, SetRevoked, reqVars
<1>3. ASSUME NEW u \in User, ForceLogout(r, u) PROVE StepOK(r)
  BY <1>3 DEF ForceLogout, tokenVars, TableStep
<1>4. ASSUME NEW u \in User, NEW s \in {"disabled", "deleted"}, Deactivate(r, u, s)
      PROVE  StepOK(r)
  BY <1>4 DEF Deactivate, tokenVars, TableStep
<1>5. ASSUME NEW j \in Jti, KickSelect(r, j) PROVE StepOK(r)
  <2>1. row[j].user \in User
    BY DEF Row
  <2>2. QED BY <1>5, <2>1 DEF KickSelect, tokenVars, TableStep
<1>6. ASSUME KickUpdate(r) PROVE StepOK(r)
  <2>1. SetRevoked({j \in Jti : j = tok[r] /\ Stored(j)})
    BY <1>6 DEF KickUpdate, SetRevoked
  <2>2. TableStep
    <3>1. {j \in Jti : j = tok[r] /\ Stored(j)}
             \in SUBSET {j \in Jti : row[j].st \in {"live", "revoked"}}
      BY DEF Stored
    <3>2. QED BY <2>1, <3>1, TableSteps
  <2>3. QED BY <1>6, <2>2 DEF KickUpdate, SetRevoked, reqVars
<1>7. QED BY <1>1, <1>2, <1>3, <1>4, <1>5, <1>6

LEMMA GuardedOK ==
  ASSUME IInv, NEW r \in Req
  PROVE  /\ \A j \in Jti, o \in {"others", "password"} : GuardBegin(r, o, j) => StepOK(r)
         /\ GuardCheck(r) => StepOK(r)
         /\ GuardFindUser(r) => StepOK(r)
         /\ ChangePassword(r) => StepOK(r)
         /\ RevokeOthersSelect(r) => StepOK(r)
         /\ RevokeOthersUpdate(r) => StepOK(r)
         /\ Respond(r) => StepOK(r)
         /\ Abort(r) => StepOK(r)
<1> USE AnyUserType, SessionsOfFacts
    DEF IInv, TypeOK, ReqType, StepOK, SameLocals, Goto, PcState, OpName,
        Requests, RequestOK, Monotone, StartRevokeAll, End
<1>1. ASSUME NEW j \in Jti, NEW o \in {"others", "password"}, GuardBegin(r, o, j)
      PROVE  StepOK(r)
  <2>1. row[j].user \in User /\ row[j].st # "unborn"
    BY <1>1 DEF GuardBegin, Presentable, Row
  <2>2. QED BY <1>1, <2>1 DEF GuardBegin, Begin, tokenVars, TableStep
<1>2. ASSUME GuardCheck(r) PROVE StepOK(r)
  <2> UNCHANGED <<now, row, root, from, status, purging>> /\ TableStep
    BY <1>2 DEF GuardCheck, tokenVars, TableStep
  <2>1. CASE Goto(r, "guard", "guardUser") /\ UNCHANGED reqVars
    BY <2>1 DEF reqVars
  <2>2. CASE End(r, "guard")
    BY <2>2
  <2>3. QED BY <1>2, <2>1, <2>2 DEF GuardCheck
<1>3. ASSUME GuardFindUser(r) PROVE StepOK(r)
  <2>1. CASE Goto(r, "guardUser", op[r])
    <3>1. op[r] \in {"others", "password"}
      BY <2>1
    <3>2. doomed' = [doomed EXCEPT ![r] =
                        IF op[r] = "others"
                        THEN SessionsOf(usr[r]) \ {root[tok[r]]} ELSE {}]
      BY <1>3, <2>1 DEF GuardFindUser
    <3>3. QED BY <1>3, <2>1, <3>1, <3>2 DEF GuardFindUser, tokenVars, TableStep
  <2>2. CASE End(r, "guardUser")
    BY <1>3, <2>2 DEF GuardFindUser, tokenVars, TableStep
  <2>3. QED BY <1>3, <2>1, <2>2 DEF GuardFindUser
<1>4. ASSUME ChangePassword(r) PROVE StepOK(r)
  <2> UNCHANGED <<now, row, root, from, status, purging>> /\ TableStep
    BY <1>4 DEF ChangePassword, tokenVars, TableStep
  <2>1. CASE StartRevokeAll(r, "password", "password")
    BY <2>1
  <2>2. CASE End(r, "password")
    BY <2>2
  <2>3. QED BY <1>4, <2>1, <2>2 DEF ChangePassword
<1>5. ASSUME RevokeOthersSelect(r) PROVE StepOK(r)
  <2>1. TableStep /\ UNCHANGED <<now, row, root, from, status, purging, op, usr, tok, dev, due, keep, doomed>>
    BY <1>5, TableSteps DEF RevokeOthersSelect, tokenVars, reqVars
  <2>2. PICK to \in {"othersDone", "othersUpdate"} : Goto(r, "others", to)
    BY <1>5 DEF RevokeOthersSelect
  <2>3. QED BY <2>1, <2>2
<1>6. ASSUME RevokeOthersUpdate(r) PROVE StepOK(r)
  <2>1. TableStep
    BY <1>6 DEF RevokeOthersUpdate, Others, Unrevoked, TableStep
  <2>2. QED BY <1>6, <2>1 DEF RevokeOthersUpdate, SetRevoked, reqVars
<1>7. ASSUME Respond(r) PROVE StepOK(r)
  BY <1>7 DEF Respond, tokenVars, TableStep
<1>8. ASSUME Abort(r) PROVE StepOK(r)
  BY <1>8 DEF Abort, tokenVars, TableStep
<1>9. QED BY <1>1, <1>2, <1>3, <1>4, <1>5, <1>6, <1>7, <1>8

LEMMA RequestSteps ==
  ASSUME IInv, NEW r \in Req, Arrive(r) \/ Step(r) \/ Abort(r)
  PROVE  StepOK(r)
BY LoginOK, RefreshOK, RevokeOK, GuardedOK DEF Arrive, Step

(* the steps that belong to no request *)
LEMMA OtherSteps ==
  ASSUME IInv,
         \/ \E u \in User : PurgeExpired(u) \/ Reactivate(u)
         \/ \E j \in Jti : Logout(j) \/ CleanUp(j)
         \/ Clock
         \/ UNCHANGED vars
  PROVE  /\ TableStep
         /\ now' \in Nat
         /\ ReqType'
         /\ \A q \in Req : SameLocals(q)
<1> USE DEF IInv, TypeOK, ReqType, SameLocals, PcState, OpName
<1>1. ASSUME NEW u \in User, PurgeExpired(u)
      PROVE  TableStep /\ now' \in Nat /\ ReqType' /\ \A q \in Req : SameLocals(q)
  <2>1. TableStep
    BY <1>1 DEF PurgeExpired, TableStep, Stored, tokenVars
  <2>2. QED BY <1>1, <2>1 DEF PurgeExpired, DeleteRows, tokenVars, reqVars
<1>2. ASSUME NEW u \in User, Reactivate(u)
      PROVE  TableStep /\ now' \in Nat /\ ReqType' /\ \A q \in Req : SameLocals(q)
  BY <1>2 DEF Reactivate, tokenVars, reqVars, TableStep
<1>3. ASSUME NEW j \in Jti, Logout(j)
      PROVE  TableStep /\ now' \in Nat /\ ReqType' /\ \A q \in Req : SameLocals(q)
  <2>1. TableStep
    BY <1>3 DEF Logout, TableStep, Unrevoked
  <2>2. QED BY <1>3, <2>1 DEF Logout, DeleteRows, reqVars
<1>4. ASSUME NEW j \in Jti, CleanUp(j)
      PROVE  TableStep /\ now' \in Nat /\ ReqType' /\ \A q \in Req : SameLocals(q)
  <2>1. TableStep
    BY <1>4 DEF CleanUp, TableStep, Stored
  <2>2. QED BY <1>4, <2>1 DEF CleanUp, DeleteRows, reqVars
<1>5. CASE Clock
  BY <1>5 DEF Clock, Tick, reqVars, TableStep
<1>6. CASE UNCHANGED vars
  BY <1>6 DEF vars, TableStep
<1>7. QED BY <1>1, <1>2, <1>3, <1>4, <1>5, <1>6

LEMMA OthersSuffice ==
  ASSUME IInv, TableStep, now' \in Nat, ReqType', \A q \in Req : SameLocals(q)
  PROVE  IInv'
<1>1. TableType' /\ Lineage' /\ Monotone
  BY TypeParts, TableTypes, TableLineage DEF IInv
<1>2. \A q \in Req : RequestOK(q)'
  BY <1>1, OtherRequest DEF IInv, Requests
<1>3. TypeOK'
  BY <1>1 DEF TypeOK, TableType, ReqType
<1>4. QED BY <1>1, <1>2, <1>3 DEF IInv, Requests

LEMMA NextTable ==
  ASSUME IInv, [Next]_vars
  PROVE  TableStep /\ IInv'
<1>1. ASSUME NEW r \in Req, Arrive(r) \/ Step(r) \/ Abort(r)
      PROVE  TableStep /\ IInv'
  BY <1>1, RequestSteps, StepSuffices DEF StepOK
<1>2. CASE \/ \E u \in User : PurgeExpired(u) \/ Reactivate(u)
           \/ \E j \in Jti : Logout(j) \/ CleanUp(j)
           \/ Clock
           \/ UNCHANGED vars
  BY <1>2, OtherSteps, OthersSuffice
<1>3. QED BY <1>1, <1>2 DEF Next

LEMMA InitIInv == Init => IInv
<1> SUFFICES ASSUME Init PROVE IInv
  OBVIOUS
<1> USE DEF Init, TokensInit
<1>1. TypeOK
  BY AnyUserType DEF TypeOK, Row, PcState, OpName, AnyUser
<1>2. Lineage
  BY DEF Lineage, ReuseEvidence, OneLiveToken, OneTail
<1>3. Requests
  BY DEF Requests, RequestOK
<1>4. QED BY <1>1, <1>2, <1>3 DEF IInv

(***************************************************************************)
(* Theorems                                                                *)
(***************************************************************************)

(* IInv is inductive: types, lineage and what requests remember.           *)
THEOREM InductiveInvariant == Spec => []IInv
<1>1. IInv /\ [Next]_vars => IInv'
  BY NextTable
<1>2. QED BY InitIInv, <1>1, PTL DEF Spec

(* Every variable keeps its type, for any accounts, tokens and requests.   *)
THEOREM TypeCorrect == Spec => []TypeOK
<1>1. IInv => TypeOK
  BY DEF IInv
<1>2. QED BY InductiveInvariant, <1>1, PTL

(* No refresh token is exchanged twice, however many refreshes present it. *)
THEOREM TokensAreSingleUse == Spec => []SingleUse
<1>1. IInv => SingleUse
  <2> SUFFICES ASSUME IInv, NEW i \in Jti, NEW j \in Jti,
                      from[i] = from[j], from[i] # NoJti
               PROVE  i = j
    BY DEF SingleUse
  <2>1. from[i] \in Jti
    BY DEF IInv, TypeOK
  <2>2. row[from[i]].next = i /\ row[from[i]].next = j
    BY <2>1 DEF IInv, Lineage, ReuseEvidence
  <2>3. QED BY <2>2
<1>2. QED BY InductiveInvariant, <1>1, PTL

(* A session has at most one usable token at any time.                     *)
THEOREM SessionsHaveOneToken == Spec => []OneLiveToken
<1>1. IInv => OneLiveToken
  BY DEF IInv, Lineage
<1>2. QED BY InductiveInvariant, <1>1, PTL

(* replaced_by_jti is evidence of reuse: it is set exactly on tokens that   *)
(* were exchanged, which are unusable and share session and account with    *)
(* their successor.                                                         *)
THEOREM ReplacedMeansExchanged == Spec => []ReuseEvidence
<1>1. IInv => ReuseEvidence
  BY DEF IInv, Lineage
<1>2. QED BY InductiveInvariant, <1>1, PTL

(***************************************************************************)
(* Revocations are complete                                                *)
(***************************************************************************)

(* A usable token is new in a session that has just been opened, or its     *)
(* session had a usable token before: ended sessions never come back.       *)
LEMMA LiveSessions ==
  ASSUME TableType, Lineage, TableStep, NEW j \in Jti, row'[j].st = "live"
  PROVE  \/ row[j].st = "unborn" /\ root'[j] = j
         \/ \E i \in Jti : row[i].st = "live" /\ root[i] = root'[j]
<1>1. CASE UNCHANGED <<row, root, from>>
  BY <1>1
<1>2. ASSUME NEW S, SetRevoked(S) \/ DeleteRows(S)
      PROVE  \E i \in Jti : row[i].st = "live" /\ root[i] = root'[j]
  BY <1>2 DEF SetRevoked, DeleteRows, TableType, Row
<1>3. ASSUME NEW k \in Jti, NEW u \in User, NEW d \in Device \cup {NoDevice}, NEW e \in Nat,
             InsertLogin(k, u, d, e)
      PROVE  \/ row[j].st = "unborn" /\ root'[j] = j
             \/ \E i \in Jti : row[i].st = "live" /\ root[i] = root'[j]
  BY <1>3 DEF InsertLogin, Unused, TableType
<1>4. ASSUME NEW o \in Jti, NEW k \in Jti, NEW u \in User,
             NEW d \in Device \cup {NoDevice}, NEW e \in Nat, RotateRow(o, k, u, d, e)
      PROVE  \E i \in Jti : row[i].st = "live" /\ root[i] = root'[j]
  <2>1. CASE j = k
    BY <1>4, <2>1 DEF RotateRow, TableType
  <2>2. CASE j # k
    <3>1. row[j].st = "live"
      BY <1>4, <2>2 DEF RotateRow, TableType, Row
    <3>2. QED BY <1>4, <2>2, <3>1 DEF RotateRow, TableType
  <2>3. QED BY <2>1, <2>2
<1>5. QED BY <1>1, <1>2, <1>3, <1>4 DEF TableStep

Done == {"raDone", "othersDone"}

Finishes(r) ==
  \/ RevokeAllSelect(r)
  \/ RevokeAllUpdate(r)
  \/ RevokeOthersSelect(r)
  \/ RevokeOthersUpdate(r)

(* only those four actions end a revocation *)
LEMMA DoneFrom ==
  ASSUME IInv, [Next]_vars, NEW r \in Req, pc'[r] \in Done
  PROVE  \/ pc[r] \in Done /\ doomed'[r] = doomed[r]
         \/ Finishes(r)
<1> DEFINE Goal == (pc[r] \in Done /\ doomed'[r] = doomed[r]) \/ Finishes(r)
<1> USE DEF Done
<1>1. ASSUME NEW q \in Req, Arrive(q) PROVE Goal
  BY <1>1 DEF Arrive, LoginVerified, RefreshBegin, ForceLogout, Deactivate,
              KickSelect, GuardBegin, Begin, Goto, IInv, TypeOK
<1>2. ASSUME NEW q \in Req, Step(q) PROVE Goal
  <2>1. CASE q # r
    <3>1. pc'[r] = pc[r] /\ doomed'[r] = doomed[r]
      BY <1>2, <2>1, RequestSteps DEF StepOK, SameLocals
    <3>2. QED BY <3>1
  <2>2. CASE q = r
    <3> USE <2>2 DEF IInv, TypeOK, Goto, End, StartRevokeAll
    <3>1. CASE RevokeDeviceSessions(r) \/ SessionLimitRead(r) \/ SessionLimitEvict(r)
               \/ \E j \in Jti : IssueInsert(r, j)
      BY <3>1 DEF RevokeDeviceSessions, SessionLimitRead, SessionLimitEvict, IssueInsert
    <3>2. CASE RefreshCheck(r) \/ RefreshFindUser(r) \/ RefreshConflict(r)
               \/ \E j \in Jti : RefreshRotate(r, j)
      BY <3>2 DEF RefreshCheck, RefreshFindUser, RefreshRotate, RefreshConflict
    <3>3. CASE KickUpdate(r) \/ GuardCheck(r) \/ ChangePassword(r) \/ Respond(r)
      BY <3>3 DEF KickUpdate, GuardCheck, ChangePassword, Respond
    <3>4. CASE GuardFindUser(r)
      BY <3>4 DEF GuardFindUser, Requests, RequestOK
    <3>5. CASE Finishes(r)
      BY <3>5
    <3>6. QED BY <1>2, <3>1, <3>2, <3>3, <3>4, <3>5 DEF Step, Finishes
  <2>3. QED BY <2>1, <2>2
<1>3. ASSUME NEW q \in Req, Abort(q) PROVE Goal
  BY <1>3 DEF Abort, End, Goto, IInv, TypeOK
<1>4. CASE \/ \E u \in User : PurgeExpired(u) \/ Reactivate(u)
           \/ \E j \in Jti : Logout(j) \/ CleanUp(j)
           \/ Clock
           \/ UNCHANGED vars
  <2>1. SameLocals(r)
    BY <1>4, OtherSteps
  <2>2. QED BY <2>1 DEF SameLocals
<1>5. QED BY <1>1, <1>2, <1>3, <1>4 DEF Next

LEMMA FinishesComplete ==
  ASSUME IInv, NEW r \in Req, Finishes(r), pc'[r] \in Done,
         NEW j \in Jti, row'[j].st = "live"
  PROVE  root'[j] \notin doomed'[r]
<1> USE DEF Goto
<1>1. /\ root' = root /\ doomed' = doomed
      /\ row[j].st = "live"
  BY DEF Finishes, RevokeAllSelect, RevokeAllUpdate, RevokeOthersSelect,
         RevokeOthersUpdate, SetRevoked, tokenVars, reqVars, IInv, TypeOK, Row
<1>2. row[j].st # "unborn" => row[root[j]].user = row[j].user
  BY DEF IInv, Lineage
<1>3. root[j] \in doomed[r] => row[j].user = usr[r]
  BY <1>1, <1>2 DEF IInv, Requests, RequestOK
<1>4. CASE RevokeAllSelect(r) \/ RevokeAllUpdate(r)
  <2>1. j \notin Unrevoked(usr[r])
    <3>1. CASE RevokeAllSelect(r)
      BY <3>1 DEF RevokeAllSelect, IInv, TypeOK, Done
    <3>2. CASE RevokeAllUpdate(r)
      BY <3>2 DEF RevokeAllUpdate, SetRevoked, IInv, TypeOK, Row
    <3>3. QED BY <1>4, <3>1, <3>2
  <2>2. QED BY <1>1, <1>3, <2>1 DEF Unrevoked
<1>5. CASE RevokeOthersSelect(r) \/ RevokeOthersUpdate(r)
  <2>1. j \notin Others(r)
    <3>1. CASE RevokeOthersSelect(r)
      BY <3>1 DEF RevokeOthersSelect, IInv, TypeOK, Done
    <3>2. CASE RevokeOthersUpdate(r)
      BY <3>2 DEF RevokeOthersUpdate, SetRevoked, IInv, TypeOK, Row
    <3>3. QED BY <1>5, <3>1, <3>2
  <2>2. row[j].user = usr[r] => j = tok[r]
    BY <1>1, <2>1 DEF Others, Unrevoked
  <2>3. root[tok[r]] \notin doomed[r]
    BY <1>5 DEF RevokeOthersSelect, RevokeOthersUpdate, IInv, Requests, RequestOK
  <2>4. QED BY <1>1, <1>3, <2>2, <2>3
<1>6. QED BY <1>4, <1>5 DEF Finishes

(* A kick ends in KickUpdate, and the session of its token with it.         *)
LEMMA KickDoneFrom ==
  ASSUME IInv, [Next]_vars, NEW r \in Req, pc'[r] = "kickDone"
  PROVE  tok'[r] = tok[r] /\ (pc[r] = "kickDone" \/ KickUpdate(r))
<1> DEFINE Goal == tok'[r] = tok[r] /\ (pc[r] = "kickDone" \/ KickUpdate(r))
<1>1. ASSUME NEW q \in Req, Arrive(q) PROVE Goal
  BY <1>1 DEF Arrive, LoginVerified, RefreshBegin, ForceLogout, Deactivate,
              KickSelect, GuardBegin, Begin, Goto, IInv, TypeOK
<1>2. ASSUME NEW q \in Req, Step(q) PROVE Goal
  <2>1. CASE q # r
    BY <1>2, <2>1, RequestSteps DEF StepOK, SameLocals
  <2>2. CASE q = r
    <3> USE <2>2 DEF IInv, TypeOK, Goto, End, StartRevokeAll
    <3>1. CASE RevokeDeviceSessions(r) \/ SessionLimitRead(r) \/ SessionLimitEvict(r)
               \/ \E j \in Jti : IssueInsert(r, j)
      BY <3>1 DEF RevokeDeviceSessions, SessionLimitRead, SessionLimitEvict, IssueInsert
    <3>2. CASE RefreshCheck(r) \/ RefreshFindUser(r) \/ RefreshConflict(r)
               \/ \E j \in Jti : RefreshRotate(r, j)
      BY <3>2 DEF RefreshCheck, RefreshFindUser, RefreshRotate, RefreshConflict
    <3>3. CASE GuardCheck(r) \/ ChangePassword(r) \/ Respond(r)
      BY <3>3 DEF GuardCheck, ChangePassword, Respond
    <3>4. CASE GuardFindUser(r)
      BY <3>4 DEF GuardFindUser, Requests, RequestOK
    <3>5. CASE Finishes(r)
      BY <3>5 DEF Finishes, RevokeAllSelect, RevokeAllUpdate, RevokeOthersSelect,
                  RevokeOthersUpdate
    <3>6. CASE KickUpdate(r)
      BY <3>6 DEF KickUpdate, reqVars
    <3>7. QED BY <1>2, <3>1, <3>2, <3>3, <3>4, <3>5, <3>6 DEF Step, Finishes
  <2>3. QED BY <2>1, <2>2
<1>3. ASSUME NEW q \in Req, Abort(q) PROVE Goal
  BY <1>3 DEF Abort, End, Goto, IInv, TypeOK
<1>4. CASE \/ \E u \in User : PurgeExpired(u) \/ Reactivate(u)
           \/ \E j \in Jti : Logout(j) \/ CleanUp(j)
           \/ Clock
           \/ UNCHANGED vars
  <2>1. SameLocals(r)
    BY <1>4, OtherSteps
  <2>2. QED BY <2>1 DEF SameLocals
<1>5. QED BY <1>1, <1>2, <1>3, <1>4 DEF Next

LEMMA KickEnds ==
  ASSUME IInv, NEW r \in Req, KickUpdate(r), NEW k \in Jti, k = tok[r],
         row'[k].next = NoJti, NEW j \in Jti, row'[j].st = "live"
  PROVE  root'[j] # root'[k]
<1>1. /\ root' = root
      /\ row[k].st # "unborn"
      /\ row[k].next = NoJti
      /\ row[j].st = "live"
      /\ row'[k].st # "live"
  BY DEF KickUpdate, Goto, SetRevoked, Stored, IInv, TypeOK, Row, Requests, RequestOK
<1>2. j # k
  BY <1>1
<1>3. row[j].next = NoJti
  <2>1. \A i \in Jti : row[j].next # i
    BY <1>1 DEF IInv, Lineage, ReuseEvidence
  <2>2. QED BY <2>1 DEF IInv, TypeOK, Row
<1>4. root[j] # root[k]
  BY <1>1, <1>2, <1>3 DEF IInv, Lineage, OneTail
<1>5. QED BY <1>1, <1>4

(* A returned revocation stays complete, too: nothing revives what it       *)
(* ended before its response is sent.                                       *)
THEOREM RevocationsComplete == Spec => []RevocationComplete
<1>1. Init => RevocationComplete
  BY DEF Init, RevocationComplete
<1>2. IInv /\ RevocationComplete /\ [Next]_vars => RevocationComplete'
  <2> SUFFICES ASSUME IInv, RevocationComplete, [Next]_vars, NEW r \in Req,
                      NEW j \in Jti, row'[j].st = "live"
               PROVE  /\ pc'[r] \in Done => root'[j] \notin doomed'[r]
                      /\ pc'[r] = "kickDone" /\ row'[tok'[r]].next = NoJti =>
                           root'[j] # root'[tok'[r]]
    BY DEF RevocationComplete, Done
  <2>1. TableType /\ Lineage /\ TableStep /\ Monotone
    BY NextTable, TypeParts, TableLineage DEF IInv
  <2>2. \/ row[j].st = "unborn" /\ root'[j] = j
        \/ \E i \in Jti : row[i].st = "live" /\ root[i] = root'[j]
    BY <2>1, LiveSessions
  <2>3. ASSUME pc'[r] \in Done PROVE root'[j] \notin doomed'[r]
    <3>1. CASE pc[r] \in Done /\ doomed'[r] = doomed[r]
      <4>1. CASE row[j].st = "unborn" /\ root'[j] = j
        BY <3>1, <4>1 DEF IInv, Requests, RequestOK
      <4>2. CASE \E i \in Jti : row[i].st = "live" /\ root[i] = root'[j]
        BY <3>1, <4>2 DEF RevocationComplete, Done
      <4>3. QED BY <2>2, <4>1, <4>2
    <3>2. CASE Finishes(r)
      BY <2>3, <3>2, FinishesComplete
    <3>3. QED BY <2>3, <3>1, <3>2, DoneFrom
  <2>4. ASSUME pc'[r] = "kickDone", row'[tok'[r]].next = NoJti
        PROVE  root'[j] # root'[tok'[r]]
    <3>1. tok'[r] = tok[r] /\ (pc[r] = "kickDone" \/ KickUpdate(r))
      BY <2>4, KickDoneFrom
    <3>2. PICK k \in Jti : k = tok[r] /\ row[k].st # "unborn"
      BY <3>1 DEF KickUpdate, Goto, IInv, Requests, RequestOK
    <3>3. CASE KickUpdate(r)
      BY <2>4, <3>1, <3>2, <3>3, KickEnds
    <3>4. CASE pc[r] = "kickDone"
      <4>1. row[k].next = NoJti /\ root'[k] = root[k]
        BY <2>1, <2>4, <3>1, <3>2 DEF Monotone
      <4>2. CASE row[j].st = "unborn" /\ root'[j] = j
        BY <2>1, <3>1, <3>2, <4>1, <4>2 DEF Lineage
      <4>3. CASE \E i \in Jti : row[i].st = "live" /\ root[i] = root'[j]
        BY <3>1, <3>2, <3>4, <4>1, <4>3 DEF RevocationComplete
      <4>4. QED BY <2>2, <4>2, <4>3
    <3>5. QED BY <3>1, <3>3, <3>4
  <2>5. QED BY <2>3, <2>4
<1>3. QED BY <1>1, <1>2, InductiveInvariant, PTL DEF Spec

(***************************************************************************)
(* AuthSessions implements SessionFamilies                                 *)
(***************************************************************************)

HolderOf(f) == IF LiveOf(f) = {} THEN NoJti ELSE CHOOSE j \in LiveOf(f) : TRUE
Holders == [f \in Jti |-> HolderOf(f)]

LEMMA HolderIs ==
  ASSUME OneLiveToken, NEW f \in Jti
  PROVE  /\ \A j \in LiveOf(f) : HolderOf(f) = j
         /\ LiveOf(f) = {} => HolderOf(f) = NoJti
BY DEF OneLiveToken, LiveOf, HolderOf

LEMMA CloseStep ==
  ASSUME OneLiveToken, OneLiveToken', NEW S \in SUBSET Jti,
         \A j \in Jti : row'[j].st = "live" <=> row[j].st = "live" /\ j \notin S,
         root' = root
  PROVE  \E F \in SUBSET Jti :
           Holders' = [f \in Jti |-> IF f \in F THEN NoJti ELSE Holders[f]]
<1> DEFINE F == {f \in Jti : LiveOf(f)' = {}}
<1>1. ASSUME NEW f \in Jti PROVE LiveOf(f)' = LiveOf(f) \ S
  BY DEF LiveOf
<1>2. ASSUME NEW f \in Jti, f \in F PROVE HolderOf(f)' = NoJti
  BY <1>2 DEF HolderOf
<1>3. ASSUME NEW f \in Jti, f \notin F PROVE HolderOf(f)' = HolderOf(f)
  <2>1. PICK j \in Jti : j \in LiveOf(f)' /\ j \in LiveOf(f)
    BY <1>1, <1>3 DEF LiveOf
  <2>2. HolderOf(f) = j
    BY <2>1, HolderIs
  <2>3. \A i \in LiveOf(f)' : i = j
    BY <2>1 DEF LiveOf, OneLiveToken
  <2>4. HolderOf(f)' = j
    BY <2>1, <2>3 DEF HolderOf
  <2>5. QED BY <2>2, <2>4
<1>4. Holders' = [f \in Jti |-> IF f \in F THEN NoJti ELSE Holders[f]]
  BY <1>2, <1>3 DEF Holders
<1>5. QED BY <1>4

LEMMA FamilyStep ==
  ASSUME IInv, IInv', TableStep
  PROVE  [Families!FNext]_(Families!fvars)
<1> DEFINE Issued == Jti \ Unused
<1>a. OneLiveToken /\ OneLiveToken'
  BY DEF IInv, Lineage
<1>b. TableType
  BY TypeParts DEF IInv
<1>1. CASE UNCHANGED <<row, root, from>>
  BY <1>1 DEF Families!fvars, LiveOf, Unused
<1>2. ASSUME NEW S \in SUBSET {j \in Jti : row[j].st \in {"live", "revoked"}},
             SetRevoked(S) \/ DeleteRows(S)
      PROVE  Families!FNext
  <2>1. \A j \in Jti : row'[j].st = "live" <=> row[j].st = "live" /\ j \notin S
    BY <1>2, <1>b DEF SetRevoked, DeleteRows, TableType, Row
  <2>2. root' = root /\ Issued' = Issued
    BY <1>2, <1>b DEF SetRevoked, DeleteRows, Unused, TableType, Row
  <2>3. \E F \in SUBSET Jti :
           Holders' = [f \in Jti |-> IF f \in F THEN NoJti ELSE Holders[f]]
    BY <2>1, <2>2, <1>a, CloseStep
  <2>4. \E F \in SUBSET Jti : Families!Close(F)
    BY <2>2, <2>3 DEF Families!Close, Holders, HolderOf
  <2>5. QED BY <2>4 DEF Families!FNext
<1>3. ASSUME NEW k \in Jti, NEW u \in User, NEW d \in Device \cup {NoDevice}, NEW e \in Nat,
             InsertLogin(k, u, d, e)
      PROVE  Families!FNext
  <2>1. row[k].st = "unborn"
    BY <1>3 DEF InsertLogin, Unused
  <2>2. \A j \in Jti : j # k => row'[j] = row[j] /\ root'[j] = root[j]
    BY <1>3, <1>b DEF InsertLogin, TableType
  <2>3. row'[k].st = "live" /\ root'[k] = k
    BY <1>3, <1>b DEF InsertLogin, TableType, NewRow
  <2>4. Issued' = Issued \cup {k} /\ k \notin Issued
    BY <2>1, <2>2, <2>3 DEF Unused
  <2>5. ASSUME NEW f \in Jti PROVE HolderOf(f)' = IF f = k THEN k ELSE HolderOf(f)
    <3>1. CASE f = k
      <4>1. k \in LiveOf(f)' /\ \A i \in LiveOf(f)' : i = k
        BY <3>1, <2>3, <1>a DEF LiveOf, OneLiveToken
      <4>2. QED BY <3>1, <4>1 DEF HolderOf
    <3>2. CASE f # k
      <4>1. LiveOf(f)' = LiveOf(f)
        BY <3>2, <2>1, <2>2, <2>3 DEF LiveOf
      <4>2. QED BY <3>2, <4>1 DEF HolderOf
    <3>3. QED BY <3>1, <3>2
  <2>6. Holders' = [Holders EXCEPT ![k] = k]
    BY <2>5 DEF Holders
  <2>7. Families!Open(k)
    BY <2>4, <2>6 DEF Families!Open, Holders, HolderOf
  <2>8. QED BY <2>7 DEF Families!FNext
<1>4. ASSUME NEW o \in Jti, NEW k \in Jti, NEW u \in User,
             NEW d \in Device \cup {NoDevice}, NEW e \in Nat, RotateRow(o, k, u, d, e)
      PROVE  Families!FNext
  <2>1. row[o].st = "live" /\ row[k].st = "unborn" /\ o # k
    BY <1>4 DEF RotateRow, Unused
  <2>2. \A j \in Jti : j # k => root'[j] = root[j]
    BY <1>4, <1>b DEF RotateRow, TableType
  <2>3. \A j \in Jti : j # k /\ j # o => row'[j] = row[j]
    BY <1>4, <1>b DEF RotateRow, TableType
  <2>4. row'[k].st = "live" /\ root'[k] = root[o] /\ row'[o].st = "revoked"
    BY <1>4, <1>b, <2>1 DEF RotateRow, TableType, NewRow, Row
  <2>5. root[o] \in Jti /\ o \in LiveOf(root[o])
    BY <2>1 DEF IInv, Lineage, LiveOf
  <2>6. Issued' = Issued \cup {k} /\ k \notin Issued
    BY <2>1, <2>3, <2>4 DEF Unused
  <2>7. HolderOf(root[o]) = o
    BY <2>5, <1>a, HolderIs
  <2>8. ASSUME NEW f \in Jti
        PROVE  HolderOf(f)' = IF f = root[o] THEN k ELSE HolderOf(f)
    <3>1. CASE f = root[o]
      <4>1. k \in LiveOf(f)' /\ \A i \in LiveOf(f)' : i = k
        BY <3>1, <2>4, <1>a DEF LiveOf, OneLiveToken
      <4>2. QED BY <3>1, <4>1 DEF HolderOf
    <3>2. CASE f # root[o]
      <4>1. LiveOf(f)' = LiveOf(f)
        BY <3>2, <2>1, <2>2, <2>3, <2>4 DEF LiveOf
      <4>2. QED BY <3>2, <4>1 DEF HolderOf
    <3>3. QED BY <3>1, <3>2
  <2>9. Holders' = [Holders EXCEPT ![root[o]] = k] /\ Holders[root[o]] # NoJti
    BY <2>5, <2>7, <2>8 DEF Holders
  <2>10. Families!Renew(root[o], k)
    BY <2>6, <2>9 DEF Families!Renew, Holders, HolderOf
  <2>11. QED BY <2>5, <2>10 DEF Families!FNext
<1>5. QED BY <1>1, <1>2, <1>3, <1>4 DEF TableStep

(* The interleaved requests implement the abstract sessions: a session is   *)
(* opened once, passed on to fresh tokens only, and never comes back.       *)
THEOREM ImplementsFamilies == Spec => FamiliesSpec
<1>1. Init => Families!FInit
  BY DEF Init, TokensInit, Families!FInit, LiveOf, Unused
<1>2. IInv /\ IInv' /\ [Next]_vars => [Families!FNext]_(Families!fvars)
  BY NextTable, FamilyStep
<1>3. QED BY <1>1, <1>2, InductiveInvariant, PTL DEF Spec, FamiliesSpec, Families!FSpec

(***************************************************************************)
(* Deactivation                                                            *)
(***************************************************************************)

LEMMA StaysDead ==
  ASSUME TableType, TableStep, NEW j \in Jti, row[j].st # "unborn",
         row'[j].st = "live"
  PROVE  row[j].st = "live"
<1>1. ASSUME NEW S, SetRevoked(S) \/ DeleteRows(S) PROVE row[j].st = "live"
  BY <1>1 DEF SetRevoked, DeleteRows, TableType, Row
<1>2. ASSUME NEW k \in Jti, NEW u \in User, NEW d \in Device \cup {NoDevice}, NEW e \in Nat,
             InsertLogin(k, u, d, e)
      PROVE  row[j].st = "live"
  BY <1>2 DEF InsertLogin, Unused, TableType
<1>3. ASSUME NEW o \in Jti, NEW k \in Jti, NEW u \in User,
             NEW d \in Device \cup {NoDevice}, NEW e \in Nat, RotateRow(o, k, u, d, e)
      PROVE  row[j].st = "live"
  BY <1>3 DEF RotateRow, Unused, TableType, Row
<1>4. QED BY <1>1, <1>2, <1>3 DEF TableStep

(* a refresh reaches its rotation only from an account just read as active *)
LEMMA RotateFrom ==
  ASSUME IInv, [Next]_vars, NEW r \in Req, pc'[r] = "rotate"
  PROVE  \/ pc[r] = "rotate" /\ SameLocals(r)
         \/ status'[usr'[r]] = "active"
<1> DEFINE Goal == (pc[r] = "rotate" /\ SameLocals(r)) \/ status'[usr'[r]] = "active"
<1>1. ASSUME NEW q \in Req, Arrive(q) \/ Step(q) \/ Abort(q), q # r PROVE Goal
  BY <1>1, RequestSteps DEF StepOK, SameLocals
<1>2. ASSUME Arrive(r) PROVE Goal
  BY <1>2 DEF Arrive, LoginVerified, RefreshBegin, ForceLogout, Deactivate,
              KickSelect, GuardBegin, Begin, Goto, IInv, TypeOK
<1>3. ASSUME Step(r) PROVE Goal
  <2> USE DEF IInv, TypeOK, Goto, End, StartRevokeAll
  <2>1. CASE RevokeDeviceSessions(r) \/ SessionLimitRead(r) \/ SessionLimitEvict(r)
             \/ \E j \in Jti : IssueInsert(r, j)
    BY <2>1 DEF RevokeDeviceSessions, SessionLimitRead, SessionLimitEvict, IssueInsert
  <2>2. CASE RefreshCheck(r) \/ RefreshConflict(r) \/ \E j \in Jti : RefreshRotate(r, j)
    BY <2>2 DEF RefreshCheck, RefreshRotate, RefreshConflict
  <2>3. CASE RefreshFindUser(r)
    BY <2>3 DEF RefreshFindUser, reqVars
  <2>4. CASE KickUpdate(r) \/ GuardCheck(r) \/ ChangePassword(r) \/ Respond(r)
    BY <2>4 DEF KickUpdate, GuardCheck, ChangePassword, Respond
  <2>5. CASE GuardFindUser(r)
    BY <2>5 DEF GuardFindUser, Requests, RequestOK
  <2>6. CASE Finishes(r)
    BY <2>6 DEF Finishes, RevokeAllSelect, RevokeAllUpdate, RevokeOthersSelect,
                RevokeOthersUpdate
  <2>7. QED BY <1>3, <2>1, <2>2, <2>3, <2>4, <2>5, <2>6 DEF Step, Finishes
<1>4. ASSUME Abort(r) PROVE Goal
  BY <1>4 DEF Abort, End, Goto, IInv, TypeOK
<1>5. CASE \/ \E u \in User : PurgeExpired(u) \/ Reactivate(u)
           \/ \E j \in Jti : Logout(j) \/ CleanUp(j)
           \/ Clock
           \/ UNCHANGED vars
  <2>1. SameLocals(r)
    BY <1>5, OtherSteps
  <2>2. QED BY <2>1 DEF SameLocals
<1>6. QED BY <1>1, <1>2, <1>3, <1>4, <1>5 DEF Next

InFlight(q, u) == op[q] = "status" /\ usr[q] = u /\ pc[q] \in {"raSelect", "raUpdate"}

(* a deactivation under way stays so until it has revoked every session *)
LEMMA InFlightUntilRevoked ==
  ASSUME Aborts = FALSE, IInv, [Next]_vars, NEW q \in Req, NEW u \in User,
         InFlight(q, u), NEW j \in Jti, row[j].user = u, row'[j].st = "live",
         row[j].st = "live"
  PROVE  InFlight(q, u)'
<1> USE DEF InFlight
<1>1. ASSUME NEW p \in Req, Arrive(p) \/ Step(p) \/ Abort(p), p # q
      PROVE  InFlight(q, u)'
  BY <1>1, RequestSteps DEF StepOK, SameLocals
<1>2. CASE Arrive(q)
  BY <1>2 DEF Arrive, LoginVerified, RefreshBegin, ForceLogout, Deactivate,
              KickSelect, GuardBegin, Begin, Goto
<1>3. CASE Step(q)
  <2>1. CASE RevokeAllSelect(q)
    <3>1. Unrevoked(usr[q]) # {}
      BY DEF Unrevoked
    <3>2. QED BY <2>1, <3>1 DEF RevokeAllSelect, Goto, reqVars, IInv, TypeOK
  <2>2. CASE RevokeAllUpdate(q)
    <3>1. j \in Unrevoked(usr[q])
      BY DEF Unrevoked
    <3>2. QED BY <2>2, <3>1 DEF RevokeAllUpdate, SetRevoked, IInv, TypeOK, Row
  <2>3. QED BY <1>3, <2>1, <2>2 DEF Step, RevokeDeviceSessions, SessionLimitRead,
      SessionLimitEvict, IssueInsert, RefreshCheck, RefreshFindUser, RefreshRotate,
      RefreshConflict, KickUpdate, GuardCheck, GuardFindUser, ChangePassword,
      RevokeOthersSelect, RevokeOthersUpdate, Respond, StartRevokeAll, End, Goto
<1>4. CASE Abort(q)
  BY <1>4 DEF Abort
<1>5. CASE \/ \E v \in User : PurgeExpired(v) \/ Reactivate(v)
           \/ \E i \in Jti : Logout(i) \/ CleanUp(i)
           \/ Clock
           \/ UNCHANGED vars
  BY <1>5, OtherSteps DEF SameLocals
<1>6. QED BY <1>1, <1>2, <1>3, <1>4, <1>5 DEF Next

(* the status of an account changes to inactive only with InFlight *)
LEMMA DeactivationStarts ==
  ASSUME IInv, [Next]_vars, NEW u \in User, status[u] = "active",
         status'[u] # "active"
  PROVE  \E q \in Req : InFlight(q, u)'
<1>1. PICK q \in Req, s \in {"disabled", "deleted"} : Deactivate(q, u, s)
  <2>1. ASSUME NEW q \in Req, Step(q) \/ Abort(q) PROVE status' = status
    BY <2>1 DEF Step, RevokeDeviceSessions, SessionLimitRead, SessionLimitEvict,
      IssueInsert, RefreshCheck, RefreshFindUser, RefreshRotate, RefreshConflict,
      RevokeAllSelect, RevokeAllUpdate, KickUpdate, GuardCheck, GuardFindUser,
      ChangePassword, RevokeOthersSelect, RevokeOthersUpdate, Respond, Abort
  <2>2. ASSUME NEW q \in Req, Arrive(q), status' # status
        PROVE  \E v \in User, s \in {"disabled", "deleted"} : Deactivate(q, v, s)
    BY <2>2 DEF Arrive, LoginVerified, RefreshBegin, ForceLogout, KickSelect, GuardBegin
  <2>3. ASSUME NEW v \in User, Reactivate(v) PROVE status'[u] = "active"
    BY <2>3 DEF Reactivate, IInv, TypeOK
  <2>4. ASSUME \/ \E v \in User : PurgeExpired(v)
               \/ \E i \in Jti : Logout(i) \/ CleanUp(i)
               \/ Clock
               \/ UNCHANGED vars
        PROVE  status' = status
    BY <2>4 DEF PurgeExpired, Logout, CleanUp, Clock, vars
  <2>5. PICK q \in Req, v \in User, s \in {"disabled", "deleted"} : Deactivate(q, v, s)
    BY <2>1, <2>2, <2>3, <2>4 DEF Next
  <2>6. v = u
    BY <2>5 DEF Deactivate, IInv, TypeOK
  <2>7. QED BY <2>5, <2>6
<1>2. InFlight(q, u)'
  BY <1>1 DEF Deactivate, Begin, Goto, InFlight, IInv, TypeOK
<1>3. QED BY <1>2

(* As long as no request fails half way, a refresh that read the account as *)
(* active before it was disabled or removed can only succeed before the     *)
(* deactivation has revoked the sessions.                                   *)
THEOREM DeactivationWins ==
  ASSUME Aborts = FALSE
  PROVE  Spec => []NoRenewalAfterDeactivation
<1>1. Init => NoRenewalAfterDeactivation
  BY DEF Init, NoRenewalAfterDeactivation
<1>2. IInv /\ NoRenewalAfterDeactivation /\ [Next]_vars => NoRenewalAfterDeactivation'
  <2> SUFFICES ASSUME IInv, NoRenewalAfterDeactivation, [Next]_vars, NEW r \in Req,
                      pc'[r] = "rotate", status'[usr'[r]] # "active",
                      row'[tok'[r]].st = "live"
               PROVE  \E q \in Req : InFlight(q, usr[r])'
    BY DEF NoRenewalAfterDeactivation, InFlight
  <2>1. pc[r] = "rotate" /\ SameLocals(r)
    BY RotateFrom
  <2>2. PICK u \in User : u = usr[r] /\ u = usr'[r]
    BY <2>1 DEF IInv, TypeOK, SameLocals
  <2>3. PICK j \in Jti : /\ j = tok[r] /\ j = tok'[r]
                         /\ row[j].st # "unborn" /\ row[j].user = u
    BY <2>1, <2>2 DEF IInv, Requests, RequestOK, SameLocals
  <2>4. row[j].st = "live" /\ row'[j].st = "live"
    BY <2>3, NextTable, TypeParts, StaysDead DEF IInv
  <2>5. \E q \in Req : InFlight(q, u)'
    <3>1. CASE status[u] = "active"
      BY <2>2, <3>1, DeactivationStarts
    <3>2. CASE status[u] # "active"
      <4>1. PICK q \in Req : InFlight(q, u)
        <5>1. row[tok[r]].st = "live" /\ status[usr[r]] # "active"
          BY <2>2, <2>3, <2>4, <3>2
        <5>2. \E q \in Req : InFlight(q, usr[r])
          BY <2>1, <5>1 DEF NoRenewalAfterDeactivation, InFlight
        <5>3. QED BY <5>2, <2>2
      <4>2. QED BY <4>1, <2>3, <2>4, InFlightUntilRevoked
    <3>3. QED BY <3>1, <3>2
  <2>6. QED BY <2>2, <2>5 DEF InFlight
<1>3. QED BY <1>1, <1>2, InductiveInvariant, PTL DEF Spec

(***************************************************************************)
(* The session limit                                                       *)
(***************************************************************************)

(* A refresh that has passed check() no longer looks at the expiry of its   *)
(* token: what it holds counts as a session it may still renew.             *)
Holding(r) == pc[r] \in {"user", "rotate"}

Usable(u) ==
  {j \in Unrevoked(u) : row[j].exp > now \/ \E r \in Req : Holding(r) /\ tok[r] = j}

(* logins past the limit check, whose INSERT is still to come *)
Inserting(u) == {r \in Req : pc[r] = "insert" /\ usr[r] = u}

(* The inductive invariant: LimitOvershoot alone is not one, since a login  *)
(* about to insert, or a refresh about to rotate an expired token, adds a   *)
(* session that no longer meets the check.                                  *)
WithinLimit(u) ==
  /\ IsFiniteSet(Unrevoked(u))
  /\ Cardinality(Usable(u)) + Cardinality(Inserting(u)) <= MaxSessions - 1 + Cardinality(Req)

Evicts(r) ==
  pc[r] = "evict" => IsFiniteSet(keep[r]) /\ Cardinality(keep[r]) = MaxSessions - 1

LimitInv == (\A u \in User : WithinLimit(u)) /\ (\A r \in Req : Evicts(r))

LEMMA SmallerSet ==
  ASSUME NEW T, IsFiniteSet(T), NEW S, S \subseteq T
  PROVE  /\ IsFiniteSet(S)
         /\ Cardinality(S) \in Nat /\ Cardinality(T) \in Nat
         /\ Cardinality(S) <= Cardinality(T)
BY FS_Subset, FS_CardinalityType

LEMMA SmallUnion ==
  ASSUME NEW S, NEW T, IsFiniteSet(S), IsFiniteSet(T)
  PROVE  /\ IsFiniteSet(S \cup T)
         /\ Cardinality(S \cup T) <= Cardinality(S) + Cardinality(T)
<1>1. Cardinality(S \cap T) \in Nat
  BY SmallerSet
<1>2. Cardinality(S \cup T) = Cardinality(S) + Cardinality(T) - Cardinality(S \cap T)
  BY FS_Union
<1>3. IsFiniteSet(S \cup T)
  BY FS_Union
<1>4. Cardinality(S) \in Nat /\ Cardinality(T) \in Nat
  BY FS_CardinalityType
<1>5. QED BY <1>1, <1>2, <1>3, <1>4

LEMMA Counts ==
  /\ MaxSessions \in Nat /\ MaxSessions > 1
  /\ Cardinality(Req) \in Nat
  /\ \A R \in SUBSET Req : /\ IsFiniteSet(R)
                           /\ Cardinality(R) \in Nat
                           /\ Cardinality(R) <= Cardinality(Req)
BY ReqAssumption, MaxSessionsAssumption, SmallerSet

LEMMA DisjointRequests ==
  ASSUME NEW R \in SUBSET Req, NEW S \in SUBSET Req, R \cap S = {}
  PROVE  Cardinality(R) + Cardinality(S) <= Cardinality(Req)
<1>1. Cardinality(R \cup S) = Cardinality(R) + Cardinality(S) - Cardinality(R \cap S)
  BY Counts, FS_Union
<1>2. Cardinality(R \cap S) = 0
  BY FS_EmptySet
<1>3. R \cup S \in SUBSET Req
  OBVIOUS
<1>4. QED BY <1>1, <1>2, <1>3, Counts

(* requests hold no more tokens than there are of them *)
LEMMA TokensOf ==
  ASSUME NEW R \in SUBSET Req
  PROVE  /\ IsFiniteSet({tok[r] : r \in R})
         /\ Cardinality({tok[r] : r \in R}) <= Cardinality(R)
<1> DEFINE f == [r \in R |-> tok[r]]
<1>1. f \in Surjection(R, {tok[r] : r \in R})
  BY DEF Surjection
<1>2. QED BY <1>1, Counts, FS_Surjection

LEMMA UsableFinite ==
  ASSUME NEW u \in User, WithinLimit(u)
  PROVE  /\ IsFiniteSet(Usable(u))
         /\ Cardinality(Usable(u)) \in Nat
         /\ Cardinality(Inserting(u)) \in Nat
<1>1. Usable(u) \subseteq Unrevoked(u)
  BY DEF Usable
<1>2. Inserting(u) \in SUBSET Req
  BY DEF Inserting
<1>3. QED BY <1>1, <1>2, SmallerSet, Counts DEF WithinLimit

(* An account that gains no row and no login stays within the limit.        *)
LEMMA ShrinkingWithin ==
  ASSUME NEW u \in User, WithinLimit(u),
         Unrevoked(u)' \subseteq Unrevoked(u),
         Usable(u)' \subseteq Usable(u),
         Inserting(u)' \subseteq Inserting(u)
  PROVE  WithinLimit(u)'
<1>1. IsFiniteSet(Unrevoked(u)')
  BY SmallerSet DEF WithinLimit
<1>2. Cardinality(Usable(u)') <= Cardinality(Usable(u)) /\ Cardinality(Usable(u)') \in Nat
  BY UsableFinite, SmallerSet
<1>3. /\ Cardinality(Inserting(u)') <= Cardinality(Inserting(u))
      /\ Cardinality(Inserting(u)') \in Nat
  <2>1. IsFiniteSet(Inserting(u))
    BY Counts DEF Inserting
  <2>2. QED BY <2>1, SmallerSet
<1>4. QED BY <1>1, <1>2, <1>3, UsableFinite, Counts DEF WithinLimit

(* A step that lets no row, no login and no eviction in keeps LimitInv.     *)
QuietTable ==
  /\ now' >= now
  /\ now' \in Nat
  /\ \A j \in Jti : row'[j].st = "live" =>
        row[j].st = "live" /\ row'[j].user = row[j].user /\ row'[j].exp = row[j].exp

QuietRequest(r) ==
  /\ pc'[r] = "insert" => pc[r] = "insert" /\ usr'[r] = usr[r]
  /\ pc'[r] = "evict" => pc[r] = "evict" /\ keep'[r] = keep[r]
  /\ pc'[r] \in {"user", "rotate"} =>
        \/ Holding(r) /\ tok'[r] = tok[r]
        \/ row[tok'[r]].exp > now

Quiet == QuietTable /\ \A r \in Req : QuietRequest(r)

LEMMA QuietKeepsLimit ==
  ASSUME TypeOK, LimitInv, Quiet
  PROVE  LimitInv'
<1>1. ASSUME NEW u \in User
      PROVE  WithinLimit(u)'
  <2>1. Unrevoked(u)' \subseteq Unrevoked(u)
    BY DEF Unrevoked, Quiet, QuietTable
  <2>2. Usable(u)' \subseteq Usable(u)
    BY DEF Usable, Holding, Unrevoked, Quiet, QuietTable, QuietRequest, TypeOK, Row
  <2>3. Inserting(u)' \subseteq Inserting(u)
    BY DEF Inserting, Quiet, QuietRequest
  <2>4. QED BY <2>1, <2>2, <2>3, ShrinkingWithin DEF LimitInv
<1>2. \A r \in Req : Evicts(r)'
  BY DEF LimitInv, Evicts, Quiet, QuietRequest
<1>3. QED BY <1>1, <1>2 DEF LimitInv

LEMMA QuietTables ==
  ASSUME TypeOK
  PROVE  /\ UNCHANGED <<now, row>> => QuietTable
         /\ \A S : SetRevoked(S) \/ DeleteRows(S) => QuietTable
<1>1. ASSUME UNCHANGED <<now, row>> PROVE QuietTable
  BY <1>1 DEF TypeOK, QuietTable
<1>2. ASSUME NEW S, SetRevoked(S) \/ DeleteRows(S) PROVE QuietTable
  BY <1>2 DEF SetRevoked, DeleteRows, TypeOK, Row, QuietTable
<1>3. QED BY <1>1, <1>2

Steady == {"insert", "evict", "user", "rotate"}

LEMMA QuietRequests ==
  ASSUME TypeOK, NEW r \in Req, NEW at, NEW to, to \notin Steady
  PROVE  /\ \A o, u, j, d : Begin(r, o, u, j, d, to) => \A q \in Req : QuietRequest(q)
         /\ End(r, at) => \A q \in Req : QuietRequest(q)
         /\ \A o : StartRevokeAll(r, at, o) => \A q \in Req : QuietRequest(q)
         /\ Goto(r, at, to) /\ UNCHANGED <<usr, tok, keep>> =>
              \A q \in Req : QuietRequest(q)
BY DEF Begin, End, StartRevokeAll, Goto, Steady, QuietRequest, Holding, TypeOK

LEMMA QuietArrivals ==
  ASSUME IInv, NEW r \in Req, Arrive(r) \/ Abort(r)
  PROVE  Quiet
<1>0. TypeOK
  BY DEF IInv
<1>1. UNCHANGED <<now, row>>
  BY DEF Arrive, Abort, LoginVerified, RefreshBegin, ForceLogout, Deactivate, KickSelect,
         GuardBegin, tokenVars
<1>2. ASSUME NEW to \in {"device", "check", "raSelect", "kickUpdate", "guard"},
             NEW o, NEW u, NEW j, NEW d, Begin(r, o, u, j, d, to)
      PROVE  \A q \in Req : QuietRequest(q)
  <2>1. to \notin Steady
    BY DEF Steady
  <2>2. QED BY <1>0, <1>2, <2>1, QuietRequests
<1>3. CASE Abort(r)
  <2>1. "idle" \notin Steady
    BY DEF Steady
  <2>2. \A q \in Req : QuietRequest(q)
    BY <1>0, <1>3, <2>1, QuietRequests DEF Abort
  <2>3. QED BY <1>0, <1>1, <2>2, QuietTables DEF Quiet
<1>4. CASE Arrive(r)
  <2>1. \A q \in Req : QuietRequest(q)
    BY <1>2, <1>4 DEF Arrive, LoginVerified, RefreshBegin, ForceLogout, Deactivate,
                      KickSelect, GuardBegin
  <2>2. QED BY <1>0, <1>1, <2>1, QuietTables DEF Quiet
<1>5. QED BY <1>3, <1>4

LEMMA QuietOthers ==
  ASSUME IInv,
         \/ \E u \in User : PurgeExpired(u) \/ Reactivate(u)
         \/ \E j \in Jti : Logout(j) \/ CleanUp(j)
         \/ Clock
         \/ UNCHANGED vars
  PROVE  Quiet
<1>0. TypeOK
  BY DEF IInv
<1>1. UNCHANGED <<pc, usr, tok, keep>>
  BY DEF PurgeExpired, Reactivate, Logout, CleanUp, Clock, reqVars, vars
<1>2. \A q \in Req : QuietRequest(q)
  BY <1>1 DEF QuietRequest, Holding
<1> SUFFICES QuietTable
  BY <1>2 DEF Quiet
<1>3. CASE Clock
  BY <1>0, <1>3 DEF Clock, Tick, TypeOK, QuietTable
<1>4. CASE ~Clock
  BY <1>0, <1>4, QuietTables
     DEF PurgeExpired, Reactivate, Logout, CleanUp, vars, tokenVars
<1>5. QED BY <1>3, <1>4

(* the steps that change who is within the limit *)
Counted(r) ==
  \/ SessionLimitRead(r)
  \/ SessionLimitEvict(r)
  \/ \E j \in Jti : IssueInsert(r, j) \/ RefreshRotate(r, j)

LEMMA QuietSteps ==
  ASSUME IInv, NEW r \in Req, Step(r), ~Counted(r)
  PROVE  Quiet
<1>0. TypeOK
  BY DEF IInv
<1>1. QuietTable
  BY <1>0, QuietTables
     DEF Step, Counted, RevokeDeviceSessions, RefreshCheck, RefreshFindUser,
         RefreshConflict, RevokeAllSelect, RevokeAllUpdate, KickUpdate, GuardCheck,
         GuardFindUser, ChangePassword, RevokeOthersSelect, RevokeOthersUpdate,
         Respond, tokenVars
<1> SUFFICES \A q \in Req : QuietRequest(q)
  BY <1>1 DEF Quiet
<1>2. ASSUME NEW at, NEW to \in PcState \ Steady, Goto(r, at, to), UNCHANGED <<usr, tok, keep>>
      PROVE  \A q \in Req : QuietRequest(q)
  BY <1>0, <1>2, QuietRequests
<1>3. ASSUME NEW at, End(r, at) PROVE \A q \in Req : QuietRequest(q)
  <2>1. "idle" \notin Steady
    BY DEF Steady
  <2>2. QED BY <1>0, <1>3, <2>1, QuietRequests
<1>4. ASSUME NEW at, NEW o, StartRevokeAll(r, at, o) PROVE \A q \in Req : QuietRequest(q)
  <2>1. "idle" \notin Steady
    BY DEF Steady
  <2>2. QED BY <1>0, <1>4, <2>1, QuietRequests
<1>5. CASE \/ RevokeDeviceSessions(r) \/ RevokeAllSelect(r) \/ RevokeAllUpdate(r)
           \/ KickUpdate(r) \/ RevokeOthersSelect(r) \/ RevokeOthersUpdate(r)
  BY <1>2, <1>5 DEF RevokeDeviceSessions, RevokeAllSelect, RevokeAllUpdate, KickUpdate,
                    RevokeOthersSelect, RevokeOthersUpdate, reqVars, PcState, Steady
<1>6. CASE RefreshConflict(r) \/ ChangePassword(r) \/ Respond(r)
  BY <1>3, <1>4, <1>6 DEF RefreshConflict, ChangePassword, Respond
<1>7. CASE RefreshCheck(r)
  <2>1. CASE Goto(r, "check", "user") /\ CheckResult(tok[r]) = "ok" /\ UNCHANGED reqVars
    <3>1. row[tok[r]].exp > now
      <4>1. tok[r] \in Jti
        BY <2>1 DEF Goto, IInv, Requests, RequestOK
      <4>2. Stored(tok[r]) /\ row[tok[r]].st = "live" /\ ~(row[tok[r]].exp <= now)
        BY <2>1, <4>1, <1>0 DEF CheckResult, Stored, TypeOK, Row
      <4>3. QED BY <4>1, <4>2, <1>0 DEF TypeOK, Row
    <3>2. QED BY <2>1, <3>1, <1>0 DEF Goto, reqVars, QuietRequest, Holding, TypeOK
  <2>2. QED BY <1>3, <1>4, <1>7, <2>1 DEF RefreshCheck
<1>8. CASE RefreshFindUser(r)
  <2>1. CASE Goto(r, "user", "rotate") /\ UNCHANGED <<op, usr, tok, dev, keep, doomed>>
    BY <2>1, <1>0 DEF Goto, QuietRequest, Holding, TypeOK
  <2>2. QED BY <1>4, <1>8, <2>1 DEF RefreshFindUser
<1>9. CASE GuardCheck(r)
  BY <1>2, <1>3, <1>9 DEF GuardCheck, reqVars, PcState, Steady
<1>10. CASE GuardFindUser(r)
  <2>1. CASE Goto(r, "guardUser", op[r]) /\ UNCHANGED <<op, usr, tok, dev, due, keep>>
    <3>1. op[r] \in PcState \ Steady
      BY <2>1 DEF Goto, IInv, Requests, RequestOK, PcState, Steady
    <3>2. QED BY <1>2, <2>1, <3>1
  <2>2. QED BY <1>3, <1>10, <2>1 DEF GuardFindUser
<1>11. QED BY <1>5, <1>6, <1>7, <1>8, <1>9, <1>10 DEF Step, Counted

(* A login that met the check: the tokens that are active are too few, the  *)
(* others in use are held by requests that are not inserting.               *)
LEMMA PassingTheCheck ==
  ASSUME IInv, LimitInv, NEW r \in Req, Goto(r, "limit", "insert"),
         Cardinality(Active(usr[r])) < MaxSessions,
         UNCHANGED <<tokenVars, usr, tok, keep>>
  PROVE  LimitInv'
<1> USE DEF Goto
<1>0. TypeOK
  BY DEF IInv
<1>1. \A q \in Req : /\ q # r => pc'[q] = pc[q]
                     /\ pc'[r] = "insert" /\ pc[r] = "limit"
  BY <1>0 DEF TypeOK
<1>2. \A q \in Req : Holding(q)' <=> Holding(q)
  BY <1>1 DEF Holding
<1>3. ASSUME NEW u \in User
      PROVE  Unrevoked(u)' = Unrevoked(u) /\ Usable(u)' = Usable(u)
  BY <1>2 DEF Unrevoked, Usable, tokenVars
<1>4. ASSUME NEW u \in User, u # usr[r] PROVE WithinLimit(u)'
  <2>1. Inserting(u)' \subseteq Inserting(u)
    BY <1>1, <1>4 DEF Inserting
  <2>2. QED BY <1>3, <2>1, ShrinkingWithin DEF LimitInv
<1>5. ASSUME NEW u \in User, u = usr[r] PROVE WithinLimit(u)'
  <2> DEFINE H == {q \in Req : Holding(q)}
             T == {tok[q] : q \in H}
  <2>1. WithinLimit(u)
    BY DEF LimitInv
  <2>2. Active(u) \subseteq Unrevoked(u)
    BY DEF Active
  <2>3. IsFiniteSet(Active(u)) /\ Cardinality(Active(u)) \in Nat
    BY <2>1, <2>2, SmallerSet DEF WithinLimit
  <2>4. IsFiniteSet(T) /\ Cardinality(T) <= Cardinality(H) /\ Cardinality(T) \in Nat
    BY TokensOf, FS_CardinalityType
  <2>5. Usable(u) \subseteq Active(u) \cup T
    BY DEF Usable, Active
  <2>6. Cardinality(Usable(u)) <= Cardinality(Active(u)) + Cardinality(T)
    <3>1. /\ IsFiniteSet(Active(u) \cup T)
          /\ Cardinality(Active(u) \cup T) <= Cardinality(Active(u)) + Cardinality(T)
      BY <2>3, <2>4, SmallUnion
    <3>2. /\ Cardinality(Usable(u)) <= Cardinality(Active(u) \cup T)
          /\ Cardinality(Usable(u)) \in Nat
          /\ Cardinality(Active(u) \cup T) \in Nat
      BY <2>5, <3>1, SmallerSet
    <3>3. QED BY <2>3, <2>4, <3>1, <3>2
  <2>7. Cardinality(H) + Cardinality(Inserting(u)') <= Cardinality(Req)
    <3>1. Inserting(u)' \in SUBSET Req /\ H \in SUBSET Req
      BY DEF Inserting
    <3>2. H \cap Inserting(u)' = {}
      BY <1>1 DEF Inserting, Holding
    <3>3. QED BY <3>1, <3>2, DisjointRequests
  <2>8. /\ Cardinality(H) \in Nat
        /\ Cardinality(Inserting(u)') \in Nat
        /\ Cardinality(Usable(u)) \in Nat
    <3>1. Inserting(u)' \in SUBSET Req /\ H \in SUBSET Req
      BY DEF Inserting
    <3>2. QED BY <3>1, <2>1, Counts, UsableFinite
  <2>9. Cardinality(Active(u)) < MaxSessions
    BY <1>5
  <2>10. Cardinality(Usable(u)) + Cardinality(Inserting(u)')
           <= MaxSessions - 1 + Cardinality(Req)
    BY <2>3, <2>4, <2>6, <2>7, <2>8, <2>9, Counts
  <2>11. QED BY <1>3, <2>1, <2>10 DEF WithinLimit
<1>6. \A q \in Req : Evicts(q)'
  BY <1>1 DEF LimitInv, Evicts
<1>7. QED BY <1>4, <1>5, <1>6 DEF LimitInv

LEMMA LimitReached ==
  ASSUME IInv, LimitInv, NEW r \in Req, Goto(r, "limit", "evict"),
         NEW K \in Newest(Active(usr[r])), keep' = [keep EXCEPT ![r] = K],
         UNCHANGED <<tokenVars, usr, tok>>
  PROVE  LimitInv'
<1> USE DEF Goto
<1>0. TypeOK
  BY DEF IInv
<1>1. \A q \in Req : /\ q # r => pc'[q] = pc[q] /\ keep'[q] = keep[q]
                     /\ pc'[r] = "evict" /\ pc[r] = "limit" /\ keep'[r] = K
  BY <1>0 DEF TypeOK
<1>2. \A q \in Req : Holding(q)' <=> Holding(q)
  BY <1>1 DEF Holding
<1>3. ASSUME NEW u \in User PROVE WithinLimit(u)'
  <2>1. Unrevoked(u)' = Unrevoked(u) /\ Usable(u)' = Usable(u)
    BY <1>2 DEF Unrevoked, Usable, tokenVars
  <2>2. Inserting(u)' \subseteq Inserting(u)
    BY <1>1 DEF Inserting
  <2>3. QED BY <2>1, <2>2, ShrinkingWithin DEF LimitInv
<1>4. IsFiniteSet(K) /\ Cardinality(K) = MaxSessions - 1
  <2>1. K \subseteq Unrevoked(usr[r]) /\ Cardinality(K) = MaxSessions - 1
    BY DEF Newest, Active
  <2>2. IsFiniteSet(Unrevoked(usr[r]))
    BY <1>0 DEF TypeOK, LimitInv, WithinLimit
  <2>3. QED BY <2>1, <2>2, SmallerSet
<1>5. \A q \in Req : Evicts(q)'
  BY <1>1, <1>4 DEF LimitInv, Evicts
<1>6. QED BY <1>3, <1>5 DEF LimitInv

(* after an eviction only the MaxSessions - 1 rows it kept are left         *)
LEMMA EvictKeepsLimit ==
  ASSUME IInv, LimitInv, NEW r \in Req, SessionLimitEvict(r)
  PROVE  LimitInv'
<1> USE DEF Goto
<1>0. TypeOK
  BY DEF IInv
<1>1. /\ pc[r] = "evict" /\ pc'[r] = "insert"
      /\ \A q \in Req : q # r => pc'[q] = pc[q]
      /\ UNCHANGED <<now, usr, tok, keep>>
  BY <1>0 DEF SessionLimitEvict, SetRevoked, reqVars, TypeOK
<1>2. \A j \in Jti : row'[j].st = "live" =>
        /\ row[j].st = "live" /\ row'[j] = row[j]
        /\ j \notin Unrevoked(usr[r]) \ keep[r]
  BY <1>0 DEF SessionLimitEvict, SetRevoked, TypeOK, Row
<1>3. \A q \in Req : Holding(q)' <=> Holding(q)
  BY <1>1 DEF Holding
<1>4. ASSUME NEW u \in User
      PROVE  Unrevoked(u)' \subseteq Unrevoked(u) /\ Usable(u)' \subseteq Usable(u)
  BY <1>1, <1>2, <1>3 DEF Unrevoked, Usable
<1>5. ASSUME NEW u \in User, u # usr[r] PROVE WithinLimit(u)'
  <2>1. Inserting(u)' \subseteq Inserting(u)
    BY <1>1, <1>5 DEF Inserting
  <2>2. QED BY <1>4, <2>1, ShrinkingWithin DEF LimitInv
<1>6. ASSUME NEW u \in User, u = usr[r] PROVE WithinLimit(u)'
  <2>1. IsFiniteSet(keep[r]) /\ Cardinality(keep[r]) = MaxSessions - 1
    BY <1>1 DEF LimitInv, Evicts
  <2>2. Unrevoked(u)' \subseteq keep[r]
    BY <1>2, <1>6 DEF Unrevoked
  <2>3. Usable(u)' \subseteq keep[r]
    BY <2>2 DEF Usable
  <2>4. IsFiniteSet(Unrevoked(u)')
    BY <2>1, <2>2, SmallerSet
  <2>5. Cardinality(Usable(u)') <= MaxSessions - 1 /\ Cardinality(Usable(u)') \in Nat
    BY <2>1, <2>3, SmallerSet
  <2>6. Inserting(u)' \in SUBSET Req
    BY DEF Inserting
  <2>7. Cardinality(Inserting(u)') <= Cardinality(Req) /\ Cardinality(Inserting(u)') \in Nat
    BY <2>6, Counts
  <2>8. QED BY <2>4, <2>5, <2>7, Counts DEF WithinLimit
<1>7. \A q \in Req : Evicts(q)'
  BY <1>1 DEF LimitInv, Evicts
<1>8. QED BY <1>5, <1>6, <1>7 DEF LimitInv

(* the request of an insert or a rotation ends with it *)
LEMMA EndedRequest ==
  ASSUME TypeOK, NEW r \in Req, NEW at, End(r, at)
  PROVE  /\ pc[r] = at /\ pc'[r] = "idle"
         /\ \A q \in Req : q # r =>
              pc'[q] = pc[q] /\ usr'[q] = usr[q] /\ tok'[q] = tok[q] /\ keep'[q] = keep[q]
BY DEF End, Goto, TypeOK

(* An insert turns a login that passed the check into a session.            *)
LEMMA InsertKeepsLimit ==
  ASSUME IInv, LimitInv, NEW r \in Req, NEW j \in Jti, IssueInsert(r, j)
  PROVE  LimitInv'
<1>0. TypeOK /\ usr[r] \in User
  BY DEF IInv, TypeOK
<1>1. /\ pc[r] = "insert" /\ pc'[r] = "idle" /\ now' = now
      /\ \A q \in Req : q # r =>
           pc'[q] = pc[q] /\ usr'[q] = usr[q] /\ tok'[q] = tok[q] /\ keep'[q] = keep[q]
  BY <1>0, EndedRequest DEF IssueInsert, InsertLogin
<1>2. /\ row'[j].user = usr[r]
      /\ \A i \in Jti : i # j => row'[i] = row[i]
  BY <1>0 DEF IssueInsert, InsertLogin, NewRow, TypeOK
<1>3. ASSUME NEW u \in User
      PROVE  /\ Unrevoked(u)' \subseteq Unrevoked(u) \cup (IF u = usr[r] THEN {j} ELSE {})
             /\ Usable(u)' \subseteq Usable(u) \cup (IF u = usr[r] THEN {j} ELSE {})
  BY <1>1, <1>2 DEF Unrevoked, Usable, Holding
<1>4. ASSUME NEW u \in User PROVE Inserting(u)' \subseteq Inserting(u) \ {r}
  BY <1>1 DEF Inserting
<1>5. ASSUME NEW u \in User, u # usr[r] PROVE WithinLimit(u)'
  BY <1>3, <1>4, <1>5, ShrinkingWithin DEF LimitInv
<1>6. ASSUME NEW u \in User, u = usr[r] PROVE WithinLimit(u)'
  <2>1. WithinLimit(u)
    BY DEF LimitInv
  <2>2. IsFiniteSet(Unrevoked(u)')
    <3>1. IsFiniteSet(Unrevoked(u) \cup {j})
      BY <2>1, FS_AddElement DEF WithinLimit
    <3>2. QED BY <1>3, <1>6, <3>1, SmallerSet
  <2>3. Cardinality(Usable(u)') <= Cardinality(Usable(u)) + 1 /\ Cardinality(Usable(u)') \in Nat
    <3>1. /\ IsFiniteSet(Usable(u) \cup {j})
          /\ Cardinality(Usable(u) \cup {j}) <= Cardinality(Usable(u)) + 1
      <4>1. IsFiniteSet(Usable(u)) /\ Cardinality(Usable(u)) \in Nat
        BY <2>1, UsableFinite
      <4>2. QED BY <4>1, FS_AddElement
    <3>2. Usable(u)' \subseteq Usable(u) \cup {j}
      BY <1>3, <1>6
    <3>3. QED BY <2>1, <3>1, <3>2, UsableFinite, SmallerSet
  <2>4. /\ Cardinality(Inserting(u)') <= Cardinality(Inserting(u)) - 1
        /\ Cardinality(Inserting(u)') \in Nat
    <3>1. r \in Inserting(u) /\ IsFiniteSet(Inserting(u))
      BY <1>1, <1>6, Counts DEF Inserting
    <3>2. /\ IsFiniteSet(Inserting(u) \ {r})
          /\ Cardinality(Inserting(u) \ {r}) = Cardinality(Inserting(u)) - 1
      BY <3>1, FS_RemoveElement
    <3>3. QED BY <1>4, <3>2, SmallerSet
  <2>5. QED BY <2>1, <2>2, <2>3, <2>4, UsableFinite, Counts DEF WithinLimit
<1>7. \A q \in Req : Evicts(q)'
  BY <1>1 DEF LimitInv, Evicts
<1>8. QED BY <1>5, <1>6, <1>7 DEF LimitInv

(* A rotation puts a token in the place of one that its request held.       *)
LEMMA RotateKeepsLimit ==
  ASSUME IInv, LimitInv, NEW r \in Req, NEW j \in Jti, RefreshRotate(r, j)
  PROVE  LimitInv'
<1> DEFINE o == tok[r]
<1>0. TypeOK /\ usr[r] \in User
  BY DEF IInv, TypeOK
<1>1. /\ pc[r] = "rotate" /\ pc'[r] = "idle" /\ now' = now
      /\ \A q \in Req : q # r =>
           pc'[q] = pc[q] /\ usr'[q] = usr[q] /\ tok'[q] = tok[q] /\ keep'[q] = keep[q]
  BY <1>0, EndedRequest DEF RefreshRotate, RotateRow
<1>2. o \in Jti /\ row[o].user = usr[r] /\ row[o].st = "live" /\ o # j
  BY <1>1 DEF IInv, Requests, RequestOK, RefreshRotate, RotateRow, Unused
<1>3. /\ row'[j].user = usr[r]
      /\ row'[o].st = "revoked"
      /\ \A i \in Jti : i # j /\ i # o => row'[i] = row[i]
  BY <1>0, <1>2 DEF RefreshRotate, RotateRow, NewRow, TypeOK, Row
<1>4. ASSUME NEW u \in User, u # usr[r]
      PROVE  Unrevoked(u)' \subseteq Unrevoked(u) /\ Usable(u)' \subseteq Usable(u)
  BY <1>1, <1>3, <1>4 DEF Unrevoked, Usable, Holding
<1>5. ASSUME NEW u \in User, u = usr[r]
      PROVE  /\ Unrevoked(u)' \subseteq Unrevoked(u) \cup {j}
             /\ Usable(u)' \subseteq (Usable(u) \ {o}) \cup {j}
             /\ o \in Usable(u)
  BY <1>1, <1>2, <1>3, <1>5 DEF Unrevoked, Usable, Holding
<1>6. ASSUME NEW u \in User PROVE Inserting(u)' \subseteq Inserting(u)
  BY <1>1 DEF Inserting
<1>7. ASSUME NEW u \in User, u # usr[r] PROVE WithinLimit(u)'
  BY <1>4, <1>6, <1>7, ShrinkingWithin DEF LimitInv
<1>8. ASSUME NEW u \in User, u = usr[r] PROVE WithinLimit(u)'
  <2>1. WithinLimit(u)
    BY DEF LimitInv
  <2>2. IsFiniteSet(Unrevoked(u)')
    <3>1. IsFiniteSet(Unrevoked(u) \cup {j})
      BY <2>1, FS_AddElement DEF WithinLimit
    <3>2. QED BY <1>5, <1>8, <3>1, SmallerSet
  <2>3. Cardinality(Usable(u)') <= Cardinality(Usable(u)) /\ Cardinality(Usable(u)') \in Nat
    <3>1. /\ IsFiniteSet(Usable(u) \ {o})
          /\ Cardinality(Usable(u) \ {o}) = Cardinality(Usable(u)) - 1
      BY <1>5, <1>8, <2>1, UsableFinite, FS_RemoveElement
    <3>2. /\ IsFiniteSet((Usable(u) \ {o}) \cup {j})
          /\ Cardinality((Usable(u) \ {o}) \cup {j}) <= Cardinality(Usable(u) \ {o}) + 1
      <4>1. Cardinality(Usable(u) \ {o}) \in Nat
        BY <3>1, FS_CardinalityType
      <4>2. QED BY <3>1, <4>1, FS_AddElement
    <3>3. /\ Cardinality(Usable(u)') <= Cardinality((Usable(u) \ {o}) \cup {j})
          /\ Cardinality(Usable(u)') \in Nat
          /\ Cardinality((Usable(u) \ {o}) \cup {j}) \in Nat
      BY <1>5, <1>8, <3>2, SmallerSet
    <3>4. QED BY <2>1, <3>1, <3>2, <3>3, UsableFinite
  <2>4. /\ Cardinality(Inserting(u)') <= Cardinality(Inserting(u))
        /\ Cardinality(Inserting(u)') \in Nat
    <3>1. IsFiniteSet(Inserting(u))
      BY Counts DEF Inserting
    <3>2. QED BY <1>6, <3>1, SmallerSet
  <2>5. QED BY <2>1, <2>2, <2>3, <2>4, UsableFinite, Counts DEF WithinLimit
<1>9. \A q \in Req : Evicts(q)'
  BY <1>1 DEF LimitInv, Evicts
<1>10. QED BY <1>7, <1>8, <1>9 DEF LimitInv

LEMMA LimitStep ==
  ASSUME IInv, LimitInv, [Next]_vars
  PROVE  LimitInv'
<1>0. TypeOK
  BY DEF IInv
<1>1. ASSUME NEW r \in Req, Arrive(r) \/ Abort(r) PROVE LimitInv'
  BY <1>0, <1>1, QuietArrivals, QuietKeepsLimit
<1>2. ASSUME NEW r \in Req, Step(r) PROVE LimitInv'
  <2>1. CASE SessionLimitRead(r)
    <3>1. CASE Goto(r, "limit", "insert") /\ Cardinality(Active(usr[r])) < MaxSessions
               /\ UNCHANGED keep
      BY <2>1, <3>1, PassingTheCheck DEF SessionLimitRead
    <3>2. CASE Goto(r, "limit", "evict")
               /\ \E K \in Newest(Active(usr[r])) : keep' = [keep EXCEPT ![r] = K]
      BY <2>1, <3>2, LimitReached DEF SessionLimitRead
    <3>3. QED BY <2>1, <3>1, <3>2 DEF SessionLimitRead
  <2>2. CASE Counted(r) /\ ~SessionLimitRead(r)
    BY <2>2, EvictKeepsLimit, InsertKeepsLimit, RotateKeepsLimit DEF Counted
  <2>3. CASE ~Counted(r)
    BY <1>0, <1>2, <2>3, QuietSteps, QuietKeepsLimit
  <2>4. QED BY <2>1, <2>2, <2>3
<1>3. CASE \/ \E u \in User : PurgeExpired(u) \/ Reactivate(u)
           \/ \E j \in Jti : Logout(j) \/ CleanUp(j)
           \/ Clock
           \/ UNCHANGED vars
  BY <1>0, <1>3, QuietOthers, QuietKeepsLimit
<1>4. QED BY <1>1, <1>2, <1>3 DEF Next

LEMMA InitLimit == Init => LimitInv
<1> SUFFICES ASSUME Init PROVE LimitInv
  OBVIOUS
<1>1. ASSUME NEW u \in User PROVE WithinLimit(u)
  <2>1. Unrevoked(u) = {} /\ Usable(u) = {} /\ Inserting(u) = {}
    BY DEF Init, TokensInit, Unrevoked, Usable, Inserting
  <2>2. Cardinality({}) = 0 /\ IsFiniteSet({})
    BY FS_EmptySet
  <2>3. QED BY <2>1, <2>2, Counts DEF WithinLimit
<1>2. \A r \in Req : Evicts(r)
  BY DEF Init, Evicts
<1>3. QED BY <1>1, <1>2 DEF LimitInv

(* However many logins and refreshes run at once, an account exceeds the    *)
(* session limit by less than their number: in particular not at all while  *)
(* its requests come one after the other.                                   *)
THEOREM LimitHolds == Spec => []LimitOvershoot
<1>1. IInv /\ LimitInv /\ [Next]_vars => LimitInv'
  BY LimitStep
<1>2. LimitInv => LimitOvershoot
  <2> SUFFICES ASSUME LimitInv, NEW u \in User
               PROVE  Cardinality(Active(u)) < MaxSessions + Cardinality(Req)
    BY DEF LimitOvershoot
  <2>1. WithinLimit(u)
    BY DEF LimitInv
  <2>2. Active(u) \subseteq Usable(u)
    BY DEF Active, Usable
  <2>3. Cardinality(Active(u)) <= Cardinality(Usable(u)) /\ Cardinality(Active(u)) \in Nat
    BY <2>1, <2>2, UsableFinite, SmallerSet
  <2>4. QED BY <2>1, <2>3, UsableFinite, Counts DEF WithinLimit
<1>3. QED BY InitLimit, <1>1, <1>2, InductiveInvariant, PTL DEF Spec
=============================================================================
