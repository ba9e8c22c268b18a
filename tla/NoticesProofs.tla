---------------------------- MODULE NoticesProofs ----------------------------
(***************************************************************************)
(* Proofs about Notices for any users, targets, forms and requests.        *)
(***************************************************************************)
EXTENDS Notices, TLAPS

USE KindAssumption, MembersAssumption, FormsAssumption

-----------------------------------------------------------------------------
(* Types                                                                    *)

LEMMA ReachType ==
  ASSUME NEW t \in Type, NEW S \in SUBSET Id PROVE Reach(t, S) \in SUBSET User
<1>1. CASE t = All
  BY <1>1 DEF Reach
<1>2. CASE t \in Kind
  <2>1. ASSUME NEW i \in S PROVE Members[t][i] \in SUBSET User
    BY <1>2
  <2>2. QED BY <1>2, <2>1 DEF Reach
<1>3. QED BY <1>1, <1>2 DEF Type

LEMMA InitType == Init => TypeOK
BY DEF Init, TypeOK, Type

LEMMA EndType ==
  ASSUME TypeOK, NEW r \in Req, End(r),
         status' \in {"none", "draft", "published", "withdrawn", "deleted"},
         text' \in Text, type' \in Type, targets' \in SUBSET (Kind \X Id),
         recipients' \in [User -> {"none", "unread", "read"}],
         unaware' \in SUBSET User, dropped' \in SUBSET User,
         crossed' \in BOOLEAN, late' \in BOOLEAN
  PROVE  TypeOK'
BY DEF TypeOK, End, Type

LEMMA RefuseType == ASSUME TypeOK, NEW r \in Req, Refuse(r) PROVE TypeOK'
BY EndType DEF TypeOK, Refuse, notice

LEMMA IdsType == TypeOK => TargetIds \in SUBSET Id
BY DEF TypeOK, TargetIds

LEMMA SetsType ==
  ASSUME TypeOK, NEW r \in Req, pc[r] = "edit", SetFields(r)
  PROVE  text' \in Text /\ type' \in Type /\ targets' \in SUBSET (Kind \X Id)
<1>1. type' \in Type
  BY DEF TypeOK, SetFields
<1>2. {kind[r]} \X ids[r] \in SUBSET (Kind \X Id)
  BY DEF TypeOK, Type
<1>3. QED BY <1>1, <1>2 DEF TypeOK, SetFields

LEMMA EditedType ==
  ASSUME TypeOK, NEW r \in Req, pc[r] = "edit", SetFields(r), Edited(r) PROVE TypeOK'
<1>1. text' \in Text /\ type' \in Type /\ targets' \in SUBSET (Kind \X Id)
  BY SetsType
<1>2. stale' \in SUBSET Req /\ crossed' \in BOOLEAN
  BY DEF TypeOK, Edited, Overtakes
<1>3. QED BY <1>1, <1>2 DEF TypeOK, Edited, Type

LEMMA DraftsType == ASSUME TypeOK, NEW r \in Req, Drafts(r) PROVE TypeOK'
<1> USE DEF Goto, notice, locals, history
<1>1. ASSUME NEW f \in Forms, Create(r, f[1], f[2]) PROVE TypeOK'
  <2>1. f[1] \in Type /\ f[2] \in SUBSET Id
    BY DEF Type
  <2>2. {f[1]} \X f[2] \in SUBSET (Kind \X Id)
    BY <1>1, <2>1 DEF Create, Fits, Type
  <2>3. QED BY <1>1, <2>1, <2>2 DEF Create, TypeOK
<1>2. ASSUME NEW f \in Forms, Edit(r, f[1], f[2]) PROVE TypeOK'
  <2>1. f[1] \in Type /\ f[2] \in SUBSET Id
    BY DEF Type
  <2>2. seen' \in [Req -> {"none", "draft", "withdrawn"}] /\ UNCHANGED <<notice, to, gone, history>>
    BY <1>2 DEF Edit, TypeOK
  <2>3. ASSUME NEW k \in Type, NEW I \in SUBSET Id, Fits(k, I),
               NEW s \in SUBSET {"type", "targets"}, Goto(r, "idle", "edit"),
               kind' = [kind EXCEPT ![r] = k], ids' = [ids EXCEPT ![r] = I],
               sets' = [sets EXCEPT ![r] = s]
        PROVE  TypeOK'
    BY <2>2, <2>3 DEF TypeOK, Fits
  <2>4. CASE Goto(r, "idle", "edit") /\ UNCHANGED <<kind, ids, sets>>
    BY <2>2, <2>4 DEF TypeOK
  <2>5. CASE /\ Goto(r, "idle", "editids")
             /\ kind' = [kind EXCEPT ![r] = f[1]]
             /\ sets' = [sets EXCEPT ![r] = {"type", "targets"}]
             /\ UNCHANGED ids
    BY <2>1, <2>2, <2>5 DEF TypeOK
  <2>6. CASE /\ Goto(r, "idle", "edit") /\ Fits(type, f[2])
             /\ kind' = [kind EXCEPT ![r] = type]
             /\ ids' = [ids EXCEPT ![r] = f[2]]
             /\ sets' = [sets EXCEPT ![r] = {"targets"}]
    <3>1. type \in Type
      BY DEF TypeOK
    <3>2. QED BY <2>1, <2>3, <2>6, <3>1
  <2>7. CASE /\ Goto(r, "idle", "edit") /\ Fits(f[1], f[2])
             /\ kind' = [kind EXCEPT ![r] = f[1]]
             /\ ids' = [ids EXCEPT ![r] = f[2]]
             /\ sets' = [sets EXCEPT ![r] = {"type", "targets"}]
    BY <2>1, <2>3, <2>7
  <2>8. QED
    <3>1. \/ Goto(r, "idle", "edit") /\ UNCHANGED <<kind, ids, sets>>
          \/ /\ Goto(r, "idle", "editids")
             /\ kind' = [kind EXCEPT ![r] = f[1]]
             /\ sets' = [sets EXCEPT ![r] = {"type", "targets"}]
             /\ UNCHANGED ids
          \/ /\ Goto(r, "idle", "edit") /\ Fits(type, f[2])
             /\ kind' = [kind EXCEPT ![r] = type]
             /\ ids' = [ids EXCEPT ![r] = f[2]]
             /\ sets' = [sets EXCEPT ![r] = {"targets"}]
          \/ /\ Goto(r, "idle", "edit") /\ Fits(f[1], f[2])
             /\ kind' = [kind EXCEPT ![r] = f[1]]
             /\ ids' = [ids EXCEPT ![r] = f[2]]
             /\ sets' = [sets EXCEPT ![r] = {"type", "targets"}]
      BY <1>2 DEF Edit
    <3>2. QED BY <2>4, <2>5, <2>6, <2>7, <3>1
<1>3. CASE ReadIds(r)
  <2>1. CASE Refuse(r)
    BY <2>1, RefuseType
  <2>2. CASE ~Refuse(r)
    BY <1>3, <2>2, IdsType, ZenonT(60) DEF ReadIds, TypeOK, Fits
  <2>3. QED BY <2>1, <2>2
<1>4. CASE WriteEdit(r)
  BY <1>4, RefuseType, EditedType DEF WriteEdit
<1>5. CASE Remove(r)
  BY <1>5 DEF Remove, TypeOK
<1>6. CASE WriteRemove(r)
  BY <1>6, RefuseType, EndType DEF WriteRemove, TypeOK
<1>7. QED BY <1>1, <1>2, <1>3, <1>4, <1>5, <1>6 DEF Drafts

LEMMA ReplacesType ==
  ASSUME TypeOK, NEW r \in Req, Goto(r, "publish", "announce"), Replaces(r),
         recipients' \in [User -> {"none", "unread", "read"}]
  PROVE  TypeOK'
<1>1. /\ gone' \in SUBSET Req /\ stale' \in SUBSET Req /\ crossed' \in BOOLEAN
      /\ unaware' \in SUBSET User
  BY DEF TypeOK, Replaces, Unsettle
<1>2. QED BY <1>1 DEF TypeOK, Replaces, Goto, locals

LEMMA PublicationsType == ASSUME TypeOK, NEW r \in Req, Publications(r) PROVE TypeOK'
<1> USE DEF Goto, notice, locals, history
<1>1. CASE Refuse(r)
  BY <1>1, RefuseType
<1>2. CASE Publish(r)
  BY <1>2 DEF Publish, TypeOK
<1>3. CASE ReadTargets(r) /\ ~Refuse(r)
  <2>1. Reach(kind[r], TargetIds) \in SUBSET User
    BY IdsType, ReachType DEF TypeOK
  <2>2. /\ pc[r] = "targets" /\ pc' = [pc EXCEPT ![r] = "publish"]
        /\ Reach(kind[r], TargetIds) # {}
        /\ to' = [to EXCEPT ![r] = Reach(kind[r], TargetIds)]
        /\ UNCHANGED <<notice, seen, kind, ids, sets, gone, history>>
    BY <1>3 DEF ReadTargets
  <2> DEFINE R == Reach(kind[r], TargetIds)
  <2>3. R \in SUBSET User /\ R # {} /\ to' = [to EXCEPT ![r] = R]
    BY <2>1, <2>2
  <2> HIDE DEF R
  <2>4. QED BY <2>2, <2>3 DEF TypeOK
<1>4. CASE WritePublish(r) /\ ~Refuse(r)
  <2>1. recipients' \in [User -> {"none", "unread", "read"}]
    BY <1>4 DEF WritePublish
  <2>2. QED BY <1>4, <2>1, ReplacesType DEF WritePublish
<1>5. CASE Withdraw(r)
  <2>1. Receivers \in SUBSET User
    BY DEF Receivers
  <2>2. QED BY <1>5, <2>1 DEF Withdraw, TypeOK
<1>6. CASE WriteWithdraw(r) /\ ~Refuse(r)
  BY <1>6, ZenonT(60) DEF WriteWithdraw, TypeOK, Unsettle
<1>7. QED BY <1>1, <1>2, <1>3, <1>4, <1>5, <1>6 DEF Publications

LEMMA MessagesType == ASSUME TypeOK, NEW r \in Req, Messages(r) PROVE TypeOK'
<1> USE DEF Goto, notice, locals, history
<1>1. ASSUME NEW u \in User, Mark(r, u) PROVE TypeOK'
  BY <1>1 DEF Mark, TypeOK
<1>2. ASSUME NEW u \in User, MarkAll(r, u) PROVE TypeOK'
  BY <1>2 DEF MarkAll, TypeOK, Unsettle
<1>3. CASE WriteMark(r)
  <2>1. PICK u \in to[r] :
          \/ Refuse(r)
          \/ /\ recipients' = [recipients EXCEPT ![u] = "read"]
             /\ Goto(r, "mark", "announce") /\ Unsettle
             /\ UNCHANGED <<status, text, type, targets, locals, gone, dropped, stale,
                            crossed, late>>
    BY <1>3 DEF WriteMark
  <2>2. CASE Refuse(r)
    BY <2>2, RefuseType
  <2>3. CASE ~Refuse(r)
    BY <2>1, <2>3, SMTT(30) DEF TypeOK, Unsettle
  <2>4. QED BY <2>2, <2>3
<1>4. CASE Announce(r)
  <2>1. unaware' \in SUBSET User /\ dropped' \in SUBSET User
    BY <1>4 DEF Announce, TypeOK
  <2>2. QED BY <1>4, <2>1, EndType DEF Announce, TypeOK
<1>5. CASE Drop(r)
  <2>1. dropped' \in SUBSET User
    BY <1>5 DEF Drop, TypeOK
  <2>2. QED BY <1>5, <2>1, EndType DEF Drop, TypeOK
<1>6. QED BY <1>1, <1>2, <1>3, <1>4, <1>5 DEF Messages

LEMMA NextType == TypeOK /\ [Next]_vars => TypeOK'
<1> SUFFICES ASSUME TypeOK, [Next]_vars PROVE TypeOK'
  OBVIOUS
<1>1. CASE UNCHANGED vars
  BY <1>1 DEF vars, notice, locals, history, TypeOK
<1>2. QED BY <1>1, DraftsType, PublicationsType, MessagesType DEF Next

(* Every variable keeps its type; in particular nothing is published to      *)
(* nobody, and no edit gives a notice for everybody targets.               *)
THEOREM TypeCorrect == Spec => []TypeOK
BY InitType, NextType, PTL DEF Spec
-----------------------------------------------------------------------------
(* What a step of one request leaves to the others.                         *)
Untouched(q) ==
  /\ pc'[q] = pc[q] /\ seen'[q] = seen[q] /\ kind'[q] = kind[q]
  /\ ids'[q] = ids[q] /\ sets'[q] = sets[q] /\ to'[q] = to[q]

LEMMA EndFrame ==
  ASSUME TypeOK, NEW r \in Req, End(r)
  PROVE  /\ pc'[r] = "idle" /\ stale' = stale \ {r}
         /\ \A q \in Req \ {r} : Untouched(q)
BY DEF TypeOK, End, Untouched

LEMMA RefuseFrame ==
  ASSUME TypeOK, NEW r \in Req, Refuse(r)
  PROVE  /\ pc'[r] = "idle" /\ stale' = stale \ {r}
         /\ \A q \in Req \ {r} : Untouched(q)
         /\ UNCHANGED <<status, text, type, targets, recipients, unaware, dropped, crossed, late>>
BY EndFrame DEF Refuse, notice


LEMMA DraftsFrame ==
  ASSUME TypeOK, NEW r \in Req, Drafts(r)
  PROVE  /\ \A q \in Req \ {r} : Untouched(q)
         /\ UNCHANGED <<recipients, unaware, dropped, late>>
         /\ pc'[r] \in {"idle", "editids", "edit", "remove"}
<1> USE DEF Goto, notice, locals, history, TypeOK
<1>1. CASE Refuse(r)
  BY <1>1, RefuseFrame
<1>2. ASSUME NEW f \in Forms, Create(r, f[1], f[2]) \/ Edit(r, f[1], f[2])
      PROVE  /\ \A q \in Req \ {r} : Untouched(q)
             /\ UNCHANGED <<recipients, unaware, dropped, late>>
             /\ pc'[r] \in {"idle", "editids", "edit"}
  BY <1>2 DEF Create, Edit, Untouched
<1>3. CASE ReadIds(r) /\ ~Refuse(r)
  BY <1>3 DEF ReadIds, Untouched
<1>4. CASE WriteEdit(r) /\ ~Refuse(r)
  BY <1>4 DEF WriteEdit, Edited, Untouched
<1>5. CASE Remove(r)
  BY <1>5 DEF Remove, Untouched
<1>6. CASE WriteRemove(r) /\ ~Refuse(r)
  BY <1>6, EndFrame DEF WriteRemove
<1>7. QED BY <1>1, <1>2, <1>3, <1>4, <1>5, <1>6 DEF Drafts

LEMMA PublicationsFrame ==
  ASSUME TypeOK, NEW r \in Req, Publications(r)
  PROVE  /\ \A q \in Req \ {r} : Untouched(q)
         /\ UNCHANGED <<text, type, targets, dropped>>
         /\ pc'[r] \in {"idle", "targets", "publish", "withdraw", "announce"}
<1> USE DEF Goto, notice, locals, history, TypeOK
<1>1. CASE Refuse(r)
  BY <1>1, RefuseFrame
<1>2. CASE Publish(r) \/ Withdraw(r)
  BY <1>2 DEF Publish, Withdraw, Untouched
<1>3. CASE ReadTargets(r) /\ ~Refuse(r)
  BY <1>3 DEF ReadTargets, Untouched
<1>4. CASE WritePublish(r) /\ ~Refuse(r)
  BY <1>4 DEF WritePublish, Replaces, Untouched
<1>5. CASE WriteWithdraw(r) /\ ~Refuse(r)
  BY <1>5 DEF WriteWithdraw, Untouched
<1>6. QED BY <1>1, <1>2, <1>3, <1>4, <1>5 DEF Publications

LEMMA MessagesFrame ==
  ASSUME TypeOK, NEW r \in Req, Messages(r)
  PROVE  /\ \A q \in Req \ {r} : Untouched(q)
         /\ UNCHANGED <<status, text, type, targets, crossed, late>> /\ Receivers' = Receivers
         /\ stale' = stale \/ stale' = stale \ {r}
         /\ pc'[r] \in {"idle", "mark", "announce"}
<1> USE DEF Goto, notice, locals, history, TypeOK, Receivers
<1>1. CASE Refuse(r)
  BY <1>1, RefuseFrame
<1>2. ASSUME NEW u \in User, Mark(r, u) \/ MarkAll(r, u)
      PROVE  /\ \A q \in Req \ {r} : Untouched(q)
             /\ UNCHANGED <<status, text, type, targets, crossed, late, stale>>
             /\ Receivers' = Receivers
             /\ pc'[r] \in {"mark", "announce"}
  BY <1>2 DEF Mark, MarkAll, Untouched
<1>3. CASE WriteMark(r) /\ ~Refuse(r)
  BY <1>3 DEF WriteMark, Untouched
<1>4. CASE Announce(r) \/ Drop(r)
  BY <1>4, EndFrame DEF Announce, Drop
<1>5. QED BY <1>1, <1>2, <1>3, <1>4 DEF Messages
-----------------------------------------------------------------------------
(* What users are shown                                                     *)

(* A request that may write has read a status that is not "published".      *)
SeenInv == \A r \in Req :
  pc[r] \in {"editids", "edit", "targets", "publish", "remove"} => seen[r] \in {"draft", "withdrawn"}

LEMMA SeenStep == TypeOK /\ SeenInv /\ [Next]_vars => SeenInv'
<1> SUFFICES ASSUME TypeOK, SeenInv, [Next]_vars PROVE SeenInv'
  OBVIOUS
<1> USE DEF SeenInv, TypeOK, Goto
<1>1. ASSUME NEW r \in Req, Drafts(r) PROVE SeenInv'
  <2>1. \A q \in Req \ {r} : Untouched(q)
    BY <1>1, DraftsFrame
  <2>2. CASE pc'[r] = "idle"
    BY <2>1, <2>2 DEF Untouched
  <2>3. CASE pc'[r] # "idle"
    <3>1. seen'[r] \in {"draft", "withdrawn"}
      BY <1>1, <2>3, EndFrame
      DEF Drafts, Create, Edit, ReadIds, WriteEdit, Edited, Remove, WriteRemove, Refuse
    <3>2. QED BY <2>1, <3>1 DEF Untouched
  <2>4. QED BY <2>2, <2>3
<1>2. ASSUME NEW r \in Req, Publications(r) PROVE SeenInv'
  <2>1. \A q \in Req \ {r} : Untouched(q)
    BY <1>2, PublicationsFrame
  <2>2. CASE pc'[r] \in {"idle", "withdraw", "announce"}
    BY <2>1, <2>2 DEF Untouched
  <2>3. CASE pc'[r] \in {"targets", "publish"}
    <3>1. CASE Publish(r)
      BY <2>1, <3>1 DEF Publish, Untouched
    <3>2. CASE ReadTargets(r)
      BY <2>1, <2>3, <3>2, RefuseFrame DEF ReadTargets, Untouched
    <3>3. QED BY <1>2, <2>3, <3>1, <3>2, RefuseFrame
              DEF Publications, Withdraw, WritePublish, WriteWithdraw
  <2>4. QED BY <1>2, <2>2, <2>3, PublicationsFrame
<1>3. ASSUME NEW r \in Req, Messages(r) PROVE SeenInv'
  BY <1>3, MessagesFrame DEF Untouched
<1>4. CASE UNCHANGED vars
  BY <1>4 DEF vars, locals
<1>5. QED BY <1>1, <1>2, <1>3, <1>4 DEF Next

LEMMA SeenHolds == Spec => []SeenInv
<1>1. Init => SeenInv
  BY DEF Init, SeenInv
<1>2. QED BY <1>1, SeenStep, TypeCorrect, PTL DEF Spec

(* What the steps of a request do to the status.                            *)
LEMMA DraftsStatus ==
  ASSUME TypeOK, SeenInv, NEW r \in Req, Drafts(r)
  PROVE  /\ \/ status' = status
            \/ status = "none" /\ status' = "draft"
            \/ status \in {"draft", "withdrawn"} /\ status' = "deleted"
         /\ status = "published" => UNCHANGED <<text, type, targets>>
<1> USE DEF SeenInv, TypeOK, Goto, notice
<1>1. CASE Refuse(r)
  BY <1>1, RefuseFrame
<1>2. CASE ~Refuse(r)
  BY <1>2 DEF Drafts, Create, Edit, ReadIds, WriteEdit, Edited, Remove, WriteRemove
<1>3. QED BY <1>1, <1>2

LEMMA PublicationsStatus ==
  ASSUME TypeOK, SeenInv, NEW r \in Req, Publications(r)
  PROVE  \/ UNCHANGED <<status, recipients>>
         \/ /\ status \in {"draft", "withdrawn"} /\ status' = "published"
            /\ recipients' = [u \in User |-> IF u \in to[r] THEN "unread" ELSE "none"]
            /\ to[r] \subseteq User /\ to[r] # {}
         \/ status = "published" /\ status' = "withdrawn" /\ UNCHANGED recipients
<1> USE DEF SeenInv, TypeOK, Goto, notice
<1>1. CASE Refuse(r)
  BY <1>1, RefuseFrame
<1>2. CASE ~Refuse(r)
  BY <1>2 DEF Publications, Publish, ReadTargets, WritePublish, Replaces, Withdraw, WriteWithdraw
<1>3. QED BY <1>1, <1>2

LEMMA MessagesRead ==
  ASSUME TypeOK, NEW r \in Req, Messages(r)
  PROVE  \/ UNCHANGED recipients
         \/ \E u \in User : /\ recipients[u] = "unread"
                            /\ recipients' = [recipients EXCEPT ![u] = "read"]
<1> USE DEF TypeOK, notice
<1>1. CASE Refuse(r)
  BY <1>1, RefuseFrame
<1>2. CASE ~Refuse(r)
  BY <1>2 DEF Messages, Mark, MarkAll, WriteMark, Announce, Drop
<1>3. QED BY <1>1, <1>2

(* A step that shows nothing to anybody.                                    *)
LEMMA SameBoxes ==
  ASSUME (status' = "published") <=> (status = "published"),
         (status' = "deleted") <=> (status = "deleted"),
         status = "published" => UNCHANGED <<text, type, targets>>,
         \A u \in User : Inbox(u)' = Inbox(u)
  PROVE  UNCHANGED Boxes!ivars
BY DEF Boxes!ivars

LEMMA BoxesStep == TypeOK /\ SeenInv /\ TypeOK' /\ [Next]_vars => [Boxes!INext]_(Boxes!ivars)
<1> SUFFICES ASSUME TypeOK, SeenInv, TypeOK', [Next]_vars
             PROVE  Boxes!INext \/ UNCHANGED Boxes!ivars
  OBVIOUS
<1>1. ASSUME NEW r \in Req, Drafts(r) PROVE Boxes!INext \/ UNCHANGED Boxes!ivars
  <2>1. UNCHANGED recipients
    BY <1>1, DraftsFrame
  <2>2. CASE status \in {"draft", "withdrawn"} /\ status' = "deleted"
    <3>1. Boxes!Discard
      BY <2>2 DEF Boxes!Discard, Inbox
    <3>2. QED BY <3>1 DEF Boxes!INext
  <2>3. CASE status' = status \/ (status = "none" /\ status' = "draft")
    BY <1>1, <2>1, <2>3, DraftsStatus, SameBoxes DEF Inbox
  <2>4. QED BY <1>1, <2>2, <2>3, DraftsStatus
<1>2. ASSUME NEW r \in Req, Publications(r) PROVE Boxes!INext \/ UNCHANGED Boxes!ivars
  <2>1. UNCHANGED <<text, type, targets>>
    BY <1>2, PublicationsFrame
  <2>2. CASE UNCHANGED <<status, recipients>>
    BY <2>1, <2>2, SameBoxes DEF Inbox
  <2>3. CASE /\ status \in {"draft", "withdrawn"} /\ status' = "published"
             /\ recipients' = [u \in User |-> IF u \in to[r] THEN "unread" ELSE "none"]
             /\ to[r] \subseteq User /\ to[r] # {}
    <3>1. <<text', type', targets'>> \in Text \X Type \X SUBSET (Kind \X Id)
      BY DEF TypeOK
    <3>2. \A u \in User : Inbox(u)' = (IF u \in to[r] THEN "unread" ELSE "none")
      BY <2>3 DEF Inbox
    <3>3. Boxes!Post
      BY <2>3, <3>1, <3>2 DEF Boxes!Post
    <3>4. QED BY <3>3 DEF Boxes!INext
  <2>4. CASE status = "published" /\ status' = "withdrawn"
    <3>1. Boxes!Retract
      BY <2>4 DEF Boxes!Retract, Inbox
    <3>2. QED BY <3>1 DEF Boxes!INext
  <2>5. QED BY <1>2, <2>2, <2>3, <2>4, PublicationsStatus
<1>3. ASSUME NEW r \in Req, Messages(r) PROVE Boxes!INext \/ UNCHANGED Boxes!ivars
  <2>1. UNCHANGED <<status, text, type, targets>>
    BY <1>3, MessagesFrame
  <2>2. CASE UNCHANGED recipients \/ status # "published"
    BY <2>1, <2>2, SameBoxes DEF Inbox
  <2>3. ASSUME NEW u \in User, status = "published", recipients[u] = "unread",
               recipients' = [recipients EXCEPT ![u] = "read"]
        PROVE  Boxes!INext
    <3>1. \A v \in User : Inbox(v) = recipients[v] /\ Inbox(v)' = recipients'[v]
      BY <2>1, <2>3 DEF Inbox
    <3>2. \A v \in User : recipients'[v] = (IF v = u THEN "read" ELSE recipients[v])
      BY <2>3 DEF TypeOK
    <3>3. Boxes!Read(u)
      BY <2>1, <2>3, <3>1, <3>2 DEF Boxes!Read
    <3>4. QED BY <3>3 DEF Boxes!INext
  <2>4. QED BY <1>3, <2>2, <2>3, MessagesRead
<1>4. CASE UNCHANGED vars
  BY <1>4, SameBoxes DEF vars, notice, Inbox
<1>5. QED BY <1>1, <1>2, <1>3, <1>4 DEF Next

(* The interleaved requests implement the abstract inboxes: what was         *)
(* published stays as it is until it is withdrawn, each message is read      *)
(* once, and what was removed is never shown; for any users and requests.   *)
THEOREM ImplementsInboxes == Spec => InboxesSpec
<1>1. Init => Boxes!IInit
  BY DEF Init, Boxes!IInit, Inbox
<1>2. QED
  BY <1>1, BoxesStep, TypeCorrect, SeenHolds, PTL DEF Spec, InboxesSpec, Boxes!ISpec
-----------------------------------------------------------------------------
(* Recipients and targets                                                   *)

(* What a request holds, and what of it is right as long as it is not stale. *)
Holds(r) ==
  /\ pc[r] = "edit" =>
       sets[r] \in {{}, {"targets"}, {"type", "targets"}}
  /\ pc[r] = "edit" /\ sets[r] # {} => Fits(kind[r], ids[r])
  /\ pc[r] = "editids" => sets[r] = {"type", "targets"}
  /\ r \notin stale =>
       /\ pc[r] = "edit" /\ sets[r] = {"targets"} => kind[r] = type
       /\ pc[r] = "targets" => kind[r] = type
       /\ pc[r] = "publish" => to[r] = Reach(type, TargetIds)

TargetsOK ==
  crossed \/ (Fits(type, TargetIds) /\ \A p \in targets : p[1] = type)
ReceiversOK ==
  crossed \/ (status = "published" => Receivers = Reach(type, TargetIds))

RaceInv ==
  /\ TargetsOK
  /\ ReceiversOK
  /\ \A r \in Req : Holds(r)

LEMMA ProductIds ==
  ASSUME NEW k, NEW S
  PROVE  {p[2] : p \in {k} \X S} = S /\ \A p \in {k} \X S : p[1] = k
<1>1. ASSUME NEW p \in {k} \X S PROVE p[1] = k /\ p[2] \in S
  OBVIOUS
<1>2. ASSUME NEW i \in S PROVE <<k, i>> \in {k} \X S /\ <<k, i>>[2] = i
  OBVIOUS
<1>3. QED BY <1>1, <1>2, ZenonT(60)

LEMMA QuietStep ==
  ASSUME TypeOK, RaceInv, NEW r \in Req, \A q \in Req \ {r} : Untouched(q),
         UNCHANGED <<type, targets, crossed>>, stale' = stale \/ stale' = stale \ {r},
         status' = "published" => status = "published" /\ Receivers' = Receivers,
         Holds(r)'
  PROVE  RaceInv'
<1>1. TargetIds' = TargetIds
  BY DEF TargetIds
<1>2. TargetsOK'
  BY <1>1 DEF RaceInv, TargetsOK
<1>3. ReceiversOK'
  BY <1>1 DEF RaceInv, ReceiversOK
<1>4. ASSUME NEW q \in Req \ {r} PROVE Holds(q)'
  <2>1. Untouched(q) /\ Holds(q) /\ (q \in stale' <=> q \in stale)
    BY DEF RaceInv
  <2>2. QED BY <1>1, <2>1 DEF Untouched, Holds
<1>5. QED BY <1>2, <1>3, <1>4 DEF RaceInv

LEMMA ElsewhereHolds ==
  ASSUME NEW r, pc'[r] \notin {"editids", "edit", "targets", "publish"} PROVE Holds(r)'
BY DEF Holds

LEMMA RefuseRace == ASSUME TypeOK, RaceInv, NEW r \in Req, Refuse(r) PROVE RaceInv'
<1>1. Holds(r)'
  BY RefuseFrame, ElsewhereHolds
<1>2. Receivers' = Receivers
  BY RefuseFrame DEF Receivers
<1>3. QED BY <1>1, <1>2, RefuseFrame, QuietStep

LEMMA EditedRace ==
  ASSUME TypeOK, SeenInv, RaceInv, NEW r \in Req, pc[r] = "edit", status = seen[r],
         SetFields(r), Edited(r)
  PROVE  RaceInv'
<1>1. \A q \in Req \ {r} : Untouched(q)
  BY DEF Edited, TypeOK, Untouched
<1>2. status' # "published" /\ pc'[r] = "idle"
  BY DEF SeenInv, Edited, TypeOK
<1>3. CASE sets[r] = {}
  <2>1. UNCHANGED <<type, targets, crossed>> /\ stale' = stale \ {r}
    BY <1>3 DEF SetFields, Edited, Overtakes, TypeOK
  <2>2. QED BY <1>1, <1>2, <2>1, ElsewhereHolds, QuietStep
<1>4. CASE sets[r] # {}
  <2>1. targets' = {kind[r]} \X ids[r] /\ Fits(kind[r], ids[r])
    BY <1>4 DEF SetFields, RaceInv, Holds
  <2>2. TargetIds' = ids[r] /\ \A p \in targets' : p[1] = kind[r]
    BY <2>1, ProductIds DEF TargetIds
  <2>3. crossed' \/ type' = kind[r]
    <3>1. CASE r \in stale
      BY <1>4, <3>1 DEF Edited, Overtakes
    <3>2. CASE r \notin stale /\ sets[r] = {"targets"}
      BY <3>2 DEF SetFields, RaceInv, Holds
    <3>3. CASE sets[r] = {"type", "targets"}
      BY <3>3 DEF SetFields
    <3>4. QED BY <1>4, <3>1, <3>2, <3>3 DEF RaceInv, Holds
  <2>4. TargetsOK'
    BY <2>1, <2>2, <2>3 DEF TargetsOK, Fits
  <2>5. ReceiversOK'
    BY <1>2 DEF ReceiversOK
  <2>6. ASSUME NEW q \in Req \ {r} PROVE Holds(q)'
    <3>1. Untouched(q) /\ Holds(q)
      BY <1>1 DEF RaceInv
    <3>2. pc[q] \in {"editids", "edit", "targets", "publish"} => q \in stale'
      BY <1>4 DEF Edited, Overtakes
    <3>3. QED BY <3>1, <3>2 DEF Untouched, Holds
  <2>7. QED BY <1>2, <2>4, <2>5, <2>6, ElsewhereHolds DEF RaceInv
<1>5. QED BY <1>3, <1>4

(* A notice that is not there yet has no requests and no recipients.        *)
NewInv ==
  status = "none" => (\A r \in Req : pc[r] = "idle") /\ \A u \in User : recipients[u] = "none"

LEMMA NewStep == TypeOK /\ NewInv /\ [Next]_vars => NewInv'
<1> SUFFICES ASSUME TypeOK, NewInv, [Next]_vars, status' = "none"
             PROVE  /\ \A r \in Req : pc'[r] = "idle"
                    /\ \A u \in User : recipients'[u] = "none"
  BY DEF NewInv
<1> USE DEF Goto, notice, Refuse
<1>1. ASSUME NEW r \in Req, Drafts(r) PROVE FALSE
  BY <1>1 DEF NewInv, Drafts, Create, Edit, ReadIds, WriteEdit, Edited, Remove, WriteRemove
<1>2. ASSUME NEW r \in Req, Publications(r) PROVE FALSE
  BY <1>2 DEF NewInv, Publications, Publish, ReadTargets, WritePublish, Replaces, Withdraw, WriteWithdraw
<1>3. ASSUME NEW r \in Req, Messages(r) PROVE FALSE
  <2>1. status = "none"
    BY <1>3, MessagesFrame
  <2>2. QED BY <1>3, <2>1 DEF NewInv, Messages, Mark, MarkAll, WriteMark, Announce, Drop, Inbox
<1>4. QED BY <1>1, <1>2, <1>3 DEF Next, vars, NewInv

LEMMA DraftsRace ==
  ASSUME TypeOK, SeenInv, NewInv, RaceInv, NEW r \in Req, Drafts(r) PROVE RaceInv'
<1>0. (\A q \in Req \ {r} : Untouched(q)) /\ Receivers' = Receivers
  BY DraftsFrame DEF Receivers
<1> USE DEF Goto, notice, locals, history
<1>1. CASE Refuse(r)
  BY <1>1, RefuseRace
<1>2. ASSUME NEW f \in Forms, Create(r, f[1], f[2]) PROVE RaceInv'
  <2>1. targets' = {f[1]} \X f[2] /\ type' = f[1] /\ Fits(f[1], f[2])
    BY <1>2 DEF Create
  <2>2. TargetIds' = f[2] /\ \A p \in targets' : p[1] = f[1]
    BY <2>1, ProductIds DEF TargetIds
  <2>3. TargetsOK'
    BY <2>1, <2>2 DEF TargetsOK, Fits
  <2>4. ReceiversOK'
    BY <1>2 DEF ReceiversOK, Create
  <2>5. ASSUME NEW q \in Req PROVE Holds(q)'
    BY <1>2 DEF Create, Holds, NewInv
  <2>6. QED BY <2>3, <2>4, <2>5 DEF RaceInv
<1>3. ASSUME NEW f \in Forms, Edit(r, f[1], f[2]) PROVE RaceInv'
  <2>1. Holds(r)'
    <3>1. CASE pc'[r] = "edit" /\ UNCHANGED <<kind, ids, sets>>
      BY <1>3, <3>1 DEF Edit, TypeOK, Holds
    <3>2. CASE pc'[r] = "editids"
      BY <1>3, <3>2 DEF Edit, TypeOK, Holds
    <3>3. CASE /\ Goto(r, "idle", "edit") /\ Fits(type, f[2])
               /\ kind' = [kind EXCEPT ![r] = type]
               /\ ids' = [ids EXCEPT ![r] = f[2]]
               /\ sets' = [sets EXCEPT ![r] = {"targets"}]
      <4>1. pc'[r] = "edit" /\ kind'[r] = type /\ ids'[r] = f[2] /\ sets'[r] = {"targets"}
        BY <3>3 DEF TypeOK
      <4>2. type' = type
        BY <1>3 DEF Edit
      <4>3. QED BY <3>3, <4>1, <4>2 DEF Holds, Fits
    <3>4. CASE /\ Goto(r, "idle", "edit") /\ Fits(f[1], f[2])
               /\ kind' = [kind EXCEPT ![r] = f[1]]
               /\ ids' = [ids EXCEPT ![r] = f[2]]
               /\ sets' = [sets EXCEPT ![r] = {"type", "targets"}]
      <4>1. /\ pc'[r] = "edit" /\ kind'[r] = f[1] /\ ids'[r] = f[2]
            /\ sets'[r] = {"type", "targets"}
        BY <3>4 DEF TypeOK
      <4>2. {"type", "targets"} # {"targets"}
        BY "type" \in {"type", "targets"} /\ "type" \notin {"targets"}
      <4>3. QED BY <3>4, <4>1, <4>2 DEF Holds, Fits
    <3>5. QED BY <1>3, <3>1, <3>2, <3>3, <3>4 DEF Edit, TypeOK
  <2>2. QED BY <1>0, <1>3, <2>1, QuietStep DEF Edit
<1>4. CASE ReadIds(r) /\ ~Refuse(r)
  <2>1. /\ pc'[r] = "edit" /\ sets'[r] = {"type", "targets"}
        /\ kind'[r] = kind[r] /\ ids'[r] = TargetIds /\ Fits(kind[r], TargetIds)
    BY <1>4 DEF ReadIds, Holds, RaceInv, TypeOK
  <2> HIDE DEF Goto, notice, locals, history
  <2>2. {"type", "targets"} # {"targets"}
    BY "type" \in {"type", "targets"} /\ "type" \notin {"targets"}
  <2>3. Holds(r)'
    BY <2>1, <2>2 DEF Holds, Fits
  <2>4. QED BY <1>0, <1>4, <2>3, QuietStep DEF ReadIds, notice, history
<1>5. CASE WriteEdit(r) /\ ~Refuse(r)
  BY <1>5, EditedRace DEF WriteEdit
<1>6. CASE Remove(r) \/ (WriteRemove(r) /\ ~Refuse(r))
  <2>1. pc'[r] \in {"idle", "remove"}
    BY <1>6, EndFrame DEF Remove, WriteRemove, TypeOK
  <2>2. UNCHANGED <<type, targets, crossed>> /\ (stale' = stale \/ stale' = stale \ {r})
    BY <1>6, EndFrame DEF Remove, WriteRemove
  <2>3. status' = "published" => status = "published"
    BY <1>6 DEF Remove, WriteRemove
  <2>4. QED BY <1>0, <2>1, <2>2, <2>3, ElsewhereHolds, QuietStep
<1>7. QED BY <1>1, <1>2, <1>3, <1>4, <1>5, <1>6 DEF Drafts

LEMMA PublishRace ==
  ASSUME TypeOK, RaceInv, NEW r \in Req, WritePublish(r), ~Refuse(r) PROVE RaceInv'
<1>1. /\ \A q \in Req \ {r} : Untouched(q)
      /\ UNCHANGED <<type, targets>> /\ pc'[r] = "announce" /\ pc[r] = "publish"
      /\ crossed' = (crossed \/ r \in stale)
      /\ recipients' = [u \in User |-> IF u \in to[r] THEN "unread" ELSE "none"]
      /\ \A q \in Req \ {r} : q \in stale => q \in stale'
  BY PublicationsFrame, ZenonT(60) DEF Publications, WritePublish, Replaces, Goto, TypeOK
<1>2. TargetIds' = TargetIds
  BY <1>1 DEF TargetIds
<1>3. TargetsOK'
  BY <1>1, <1>2 DEF RaceInv, TargetsOK
<1>4. ReceiversOK'
  <2>1. Receivers' = to[r]
    BY <1>1 DEF Receivers, TypeOK
  <2>2. crossed' \/ to[r] = Reach(type, TargetIds)
    BY <1>1 DEF RaceInv, Holds
  <2>3. QED BY <1>1, <1>2, <2>1, <2>2 DEF ReceiversOK
<1>5. ASSUME NEW q \in Req \ {r} PROVE Holds(q)'
  <2>1. Untouched(q) /\ Holds(q) /\ (q \in stale => q \in stale')
    BY <1>1 DEF RaceInv
  <2>2. QED BY <1>1, <1>2, <2>1 DEF Untouched, Holds
<1>6. QED BY <1>1, <1>3, <1>4, <1>5, ElsewhereHolds DEF RaceInv

LEMMA PublicationsRace ==
  ASSUME TypeOK, SeenInv, RaceInv, NEW r \in Req, Publications(r) PROVE RaceInv'
<1>0. (\A q \in Req \ {r} : Untouched(q)) /\ UNCHANGED <<type, targets>>
  BY PublicationsFrame
<1> USE DEF Goto, notice, locals, history
<1>1. CASE Refuse(r)
  BY <1>1, RefuseRace
<1>2. CASE Publish(r)
  <2>1. Holds(r)'
    BY <1>2 DEF Publish, Holds, TypeOK
  <2>2. QED BY <1>0, <1>2, <2>1, QuietStep DEF Publish, Receivers
<1>3. CASE ReadTargets(r) /\ ~Refuse(r)
  <2>1. /\ pc'[r] = "publish" /\ pc[r] = "targets" /\ to'[r] = Reach(kind[r], TargetIds)
        /\ UNCHANGED <<notice, kind, stale>>
    BY <1>3 DEF ReadTargets, TypeOK
  <2>2. TargetIds' = TargetIds
    BY <2>1 DEF TargetIds
  <2>3. r \notin stale => kind[r] = type
    BY <2>1 DEF RaceInv, Holds
  <2>4. Holds(r)'
    BY <2>1, <2>2, <2>3 DEF Holds
  <2>5. QED BY <1>0, <1>3, <2>4, QuietStep DEF ReadTargets, Receivers
<1>4. CASE WritePublish(r) /\ ~Refuse(r)
  BY <1>4, PublishRace
<1>5. CASE Withdraw(r) \/ (WriteWithdraw(r) /\ ~Refuse(r))
  <2>1. pc'[r] \in {"withdraw", "announce"} /\ UNCHANGED crossed
    BY <1>5 DEF Withdraw, WriteWithdraw, TypeOK
  <2>2. stale' = stale \/ stale' = stale \ {r}
    BY <1>5 DEF Withdraw, WriteWithdraw
  <2>3. status' = "published" => status = "published" /\ Receivers' = Receivers
    BY <1>5 DEF Withdraw, WriteWithdraw, Receivers
  <2>4. QED BY <1>0, <2>1, <2>2, <2>3, ElsewhereHolds, QuietStep
<1>6. QED BY <1>1, <1>2, <1>3, <1>4, <1>5 DEF Publications

LEMMA RaceStep == TypeOK /\ SeenInv /\ NewInv /\ RaceInv /\ [Next]_vars => RaceInv'
<1> SUFFICES ASSUME TypeOK, SeenInv, NewInv, RaceInv, [Next]_vars PROVE RaceInv'
  OBVIOUS
<1>1. ASSUME NEW r \in Req, Messages(r) PROVE RaceInv'
  <2>1. Holds(r)'
    BY <1>1, MessagesFrame, ElsewhereHolds
  <2>2. QED BY <1>1, <2>1, MessagesFrame, QuietStep
<1>2. CASE UNCHANGED vars
  BY <1>2 DEF vars, notice, locals, history, RaceInv, TargetsOK, ReceiversOK,
              TargetIds, Receivers, Holds
<1>3. QED BY <1>1, <1>2, DraftsRace, PublicationsRace DEF Next

LEMMA RaceHolds == Spec => []RaceInv
<1>1. Init => RaceInv /\ NewInv
  <2> SUFFICES ASSUME Init PROVE RaceInv /\ NewInv
    OBVIOUS
  <2>1. TargetIds = {}
    BY DEF Init, TargetIds
  <2>2. QED BY <2>1 DEF Init, RaceInv, NewInv, TargetsOK, ReceiversOK, Fits, Holds
<1>2. QED BY <1>1, RaceStep, NewStep, TypeCorrect, SeenHolds, PTL DEF Spec

(* Only a race gives a notice targets of another type than its own, or a      *)
(* published notice other recipients than its targets stand for; for any    *)
(* users, targets and requests.                                             *)
THEOREM RecipientsAreRight == Spec => []RecipientsNeedARace
<1>1. RaceInv => RecipientsNeedARace
  BY DEF RaceInv, TargetsOK, ReceiversOK, RecipientsNeedARace
<1>2. QED BY <1>1, RaceHolds, PTL
-----------------------------------------------------------------------------
(* Announcements                                                            *)

(* A withdrawal goes by the recipients there are, unless it is stale.       *)
AnnounceInv ==
  /\ EveryChangeIsAnnounced
  /\ \A r \in Req : pc[r] = "withdraw" /\ r \notin stale => to[r] = Receivers

(* A step after which r tells whoever it disturbed, and no other less.      *)
LEMMA TellStep ==
  ASSUME AnnounceInv, NEW r \in Req, \A q \in Req \ {r} : Untouched(q),
         late' = late, dropped' = dropped,
         pc[r] # "announce",
         unaware' = unaware \/ (pc'[r] = "announce" /\ unaware' \subseteq unaware \cup to'[r])
  PROVE  EveryChangeIsAnnounced'
BY DEF AnnounceInv, EveryChangeIsAnnounced, Untouched

LEMMA DraftsAnnounce ==
  ASSUME TypeOK, AnnounceInv, NEW r \in Req, Drafts(r) PROVE AnnounceInv'
<1>1. /\ \A q \in Req \ {r} : Untouched(q)
      /\ UNCHANGED <<recipients, unaware, dropped, late>>
      /\ pc'[r] # "withdraw"
  BY DraftsFrame
<1>2. pc[r] # "announce"
  BY DEF Drafts, Create, Edit, ReadIds, WriteEdit, Remove, WriteRemove, Goto
<1>3. \A q \in Req \ {r} : pc[q] = "withdraw" /\ q \in stale => q \in stale'
  BY EndFrame DEF Drafts, Create, Edit, ReadIds, WriteEdit, Edited, Overtakes, Remove, WriteRemove,
                  Refuse, history
<1>4. QED BY <1>1, <1>2, <1>3, TellStep DEF AnnounceInv, Untouched, Receivers

LEMMA PublicationsAnnounce ==
  ASSUME TypeOK, SeenInv, AnnounceInv, NEW r \in Req, Publications(r) PROVE AnnounceInv'
<1>0. \A q \in Req \ {r} : Untouched(q)
  BY PublicationsFrame
<1> USE DEF Goto, notice, locals, history
<1>1. CASE Refuse(r)
  <2>1. pc[r] # "announce"
    BY DEF Publications, Publish, ReadTargets, WritePublish, Withdraw, WriteWithdraw
  <2>2. EveryChangeIsAnnounced'
    BY <1>0, <1>1, <2>1, RefuseFrame, TellStep
  <2>3. QED BY <1>0, <1>1, <2>2, RefuseFrame DEF AnnounceInv, Untouched, Receivers
<1>2. CASE Publish(r) \/ (ReadTargets(r) /\ ~Refuse(r))
  <2>1. /\ pc[r] # "announce" /\ pc'[r] # "withdraw"
        /\ UNCHANGED <<recipients, unaware, dropped, late, stale>>
    BY <1>2 DEF Publish, ReadTargets, TypeOK
  <2>2. QED BY <1>0, <2>1, TellStep DEF AnnounceInv, Untouched, Receivers
<1>3. CASE WritePublish(r) /\ ~Refuse(r)
  <2>1. /\ pc[r] = "publish" /\ pc'[r] = "announce" /\ to' = to
        /\ status # "published"
        /\ recipients' = [u \in User |-> IF u \in to[r] THEN "unread" ELSE "none"]
        /\ UNCHANGED <<dropped, late>> /\ Unsettle
        /\ \A q \in Req \ {r} : pc[q] = "withdraw" => q \in stale'
    BY <1>3 DEF WritePublish, Replaces, TypeOK, SeenInv
  <2>2. unaware' \subseteq unaware \cup to[r]
    BY <2>1 DEF Unsettle, Inbox
  <2>3. EveryChangeIsAnnounced'
    BY <1>0, <2>1, <2>2, TellStep
  <2>4. QED BY <1>0, <2>1, <2>3 DEF AnnounceInv, Untouched
<1>4. CASE Withdraw(r)
  <2>1. /\ pc[r] # "announce" /\ pc'[r] = "withdraw" /\ to'[r] = Receivers
        /\ UNCHANGED <<recipients, unaware, dropped, late, stale>>
    BY <1>4 DEF Withdraw, TypeOK, Receivers
  <2>2. QED BY <1>0, <2>1, TellStep DEF AnnounceInv, Untouched, Receivers
<1>5. CASE WriteWithdraw(r) /\ ~Refuse(r)
  <2>1. /\ pc[r] = "withdraw" /\ pc'[r] = "announce" /\ to' = to
        /\ status = "published" /\ status' = "withdrawn"
        /\ late' = (late \/ r \in stale) /\ stale' = stale \ {r}
        /\ UNCHANGED <<recipients, dropped>> /\ Unsettle
    BY <1>5 DEF WriteWithdraw, TypeOK
  <2>2. unaware' \subseteq unaware \cup Receivers
    BY <2>1 DEF Unsettle, Inbox, Receivers
  <2>3. late' \/ (late' = late /\ to[r] = Receivers)
    BY <2>1 DEF AnnounceInv, TypeOK
  <2>4. EveryChangeIsAnnounced'
    BY <1>0, <2>1, <2>2, <2>3, TellStep DEF EveryChangeIsAnnounced
  <2>5. QED BY <1>0, <2>1, <2>4 DEF AnnounceInv, Untouched, Receivers
<1>6. QED BY <1>1, <1>2, <1>3, <1>4, <1>5 DEF Publications

LEMMA MessagesAnnounce ==
  ASSUME TypeOK, AnnounceInv, NEW r \in Req, Messages(r) PROVE AnnounceInv'
<1>0. /\ \A q \in Req \ {r} : Untouched(q)
      /\ late' = late /\ Receivers' = Receivers /\ pc'[r] # "withdraw"
      /\ \A q \in Req \ {r} : q \in stale => q \in stale'
  BY MessagesFrame
<1> USE DEF Goto, notice, locals, history
<1>1. EveryChangeIsAnnounced'
  <2>1. CASE Refuse(r) /\ WriteMark(r)
    BY <1>0, <2>1, RefuseFrame, TellStep DEF WriteMark
  <2>2. ASSUME NEW u \in User, Mark(r, u) PROVE EveryChangeIsAnnounced'
    BY <1>0, <2>2, TellStep DEF Mark
  <2>3. ASSUME NEW u \in User, MarkAll(r, u) PROVE EveryChangeIsAnnounced'
    <3>1. /\ pc[r] # "announce" /\ pc'[r] = "announce" /\ to'[r] = {u} /\ dropped' = dropped
          /\ recipients' = [recipients EXCEPT ![u] = "read"] /\ status' = status /\ Unsettle
      BY <2>3 DEF MarkAll, TypeOK
    <3>2. unaware' \subseteq unaware \cup {u}
      BY <3>1 DEF Unsettle, Inbox, TypeOK
    <3>3. QED BY <1>0, <3>1, <3>2, TellStep
  <2>4. CASE WriteMark(r) /\ ~Refuse(r)
    <3>1. PICK u \in to[r] :
            /\ pc[r] # "announce" /\ pc'[r] = "announce" /\ to' = to /\ dropped' = dropped
            /\ recipients' = [recipients EXCEPT ![u] = "read"] /\ status' = status /\ Unsettle
      BY <2>4 DEF WriteMark, TypeOK
    <3>2. unaware' \subseteq unaware \cup to[r]
      BY <3>1 DEF Unsettle, Inbox, TypeOK
    <3>3. QED BY <1>0, <3>1, <3>2, TellStep
  <2>5. CASE Announce(r)
    BY <1>0, <2>5 DEF Announce, AnnounceInv, EveryChangeIsAnnounced, Untouched
  <2>6. CASE Drop(r)
    BY <1>0, <2>6 DEF Drop, AnnounceInv, EveryChangeIsAnnounced, Untouched
  <2>7. QED BY <2>1, <2>2, <2>3, <2>4, <2>5, <2>6 DEF Messages
<1>2. QED BY <1>0, <1>1 DEF AnnounceInv, Untouched

LEMMA AnnounceStep == TypeOK /\ SeenInv /\ AnnounceInv /\ [Next]_vars => AnnounceInv'
<1>1. AnnounceInv /\ UNCHANGED vars => AnnounceInv'
  BY DEF vars, notice, locals, history, AnnounceInv, EveryChangeIsAnnounced, Receivers
<1>2. QED BY <1>1, DraftsAnnounce, PublicationsAnnounce, MessagesAnnounce DEF Next

(* Whoever has not heard of a change of his messages will be told, unless   *)
(* a process died or a withdrawal went by recipients that had changed.     *)
THEOREM ChangesAreAnnounced == Spec => []EveryChangeIsAnnounced
<1>1. Init => AnnounceInv
  BY DEF Init, AnnounceInv, EveryChangeIsAnnounced
<1>2. AnnounceInv => EveryChangeIsAnnounced
  BY DEF AnnounceInv
<1>3. QED BY <1>1, <1>2, AnnounceStep, TypeCorrect, SeenHolds, PTL DEF Spec
=============================================================================
