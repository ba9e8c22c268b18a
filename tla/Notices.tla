------------------------------- MODULE Notices -------------------------------
(***************************************************************************)
(* One notice of apps/api: NoticeService drafts, edits, publishes,         *)
(* withdraws and removes it, MessageService lets its recipients read it,   *)
(* and every change of somebody's messages is announced to that user.      *)
(*                                                                         *)
(* A request reads the notice, then its targets, then writes: each action  *)
(* is one statement or one transaction.  The writes compare the status     *)
(* with the one read, and nothing else: what was read of the targets or    *)
(* the recipients may be out of date.                                      *)
(*                                                                         *)
(* Left out: expires_at, which hides a message by no statement and tells   *)
(* nobody; and changes of what a target stands for, which no publication   *)
(* looks at again.                                                         *)
(***************************************************************************)
CONSTANTS
  User, Req,
  Id,        \* target_id, which names another thing under every kind
  Kind, All, \* target_type: department, role or user; and everybody
  Members,   \* the users a target stands for
  Text,      \* title, content and what else no check reads
  Forms      \* bound: the selections of targets forms are sent with

ASSUME KindAssumption == All \notin Kind
ASSUME MembersAssumption == Members \in [Kind -> [Id -> SUBSET User]]
ASSUME FormsAssumption == Forms \subseteq (Kind \cup {All}) \X SUBSET Id

VARIABLES
  status, text, type,
  targets,    \* sys_notice_target: kind and id
  recipients, \* sys_notice_recipient: who has a row, and read_at
  pc,
  seen,       \* the status the request read
  kind, ids,  \* the target type and ids it goes by
  sets,       \* which columns of the targets an edit sets
  to,         \* the users it will announce its change to
  gone,       \* requests whose row of sys_notice_recipient was replaced
  unaware,    \* history: users whose messages changed, with no event since
  dropped,    \* history: users whose announcement died with its process
  stale,      \* history: requests that read what was changed since
  crossed,    \* history: such an edit or publication was written
  late        \* history: such a withdrawal was written

notice == <<status, text, type, targets, recipients>>
locals == <<seen, kind, ids, sets, to>>
history == <<unaware, dropped, stale, crossed, late>>
vars == <<notice, pc, locals, gone, history>>

Type == Kind \cup {All}

TypeOK ==
  /\ status \in {"none", "draft", "published", "withdrawn", "deleted"}
  /\ text \in Text
  /\ type \in Type
  /\ targets \in SUBSET (Kind \X Id)
  /\ recipients \in [User -> {"none", "unread", "read"}]
  /\ pc \in [Req -> {"idle", "editids", "edit", "targets", "publish", "withdraw", "remove",
                     "mark", "announce"}]
  /\ seen \in [Req -> {"none", "draft", "withdrawn"}]
  /\ kind \in [Req -> Type]
  /\ ids \in [Req -> SUBSET Id]
  /\ sets \in [Req -> SUBSET {"type", "targets"}]
  /\ to \in [Req -> SUBSET User]
  /\ gone \in SUBSET Req
  /\ unaware \in SUBSET User
  /\ dropped \in SUBSET User
  /\ stale \in SUBSET Req
  /\ crossed \in BOOLEAN
  /\ late \in BOOLEAN
  /\ \A r \in Req : pc[r] = "publish" => to[r] # {}
  /\ \A r \in Req : pc[r] = "idle" => kind[r] = All /\ ids[r] = {} /\ sets[r] = {}
  /\ \A r \in Req : pc[r] = "edit" /\ kind[r] = All => ids[r] = {}

Init ==
  /\ status = "none"
  /\ text \in Text
  /\ type = All
  /\ targets = {}
  /\ recipients = [u \in User |-> "none"]
  /\ pc = [r \in Req |-> "idle"]
  /\ seen = [r \in Req |-> "none"]
  /\ kind = [r \in Req |-> All]
  /\ ids = [r \in Req |-> {}]
  /\ sets = [r \in Req |-> {}]
  /\ to = [r \in Req |-> {}]
  /\ gone = {}
  /\ unaware = {}
  /\ dropped = {}
  /\ stale = {}
  /\ crossed = FALSE
  /\ late = FALSE

Goto(r, at, next) == pc[r] = at /\ pc' = [pc EXCEPT ![r] = next]

(* the locals of a request do not outlive it *)
End(r) ==
  /\ pc' = [pc EXCEPT ![r] = "idle"]
  /\ seen' = [seen EXCEPT ![r] = "none"]
  /\ kind' = [kind EXCEPT ![r] = All]
  /\ ids' = [ids EXCEPT ![r] = {}]
  /\ sets' = [sets EXCEPT ![r] = {}]
  /\ to' = [to EXCEPT ![r] = {}]
  /\ gone' = gone \ {r}
  /\ stale' = stale \ {r}

(* a request that is refused *)
Refuse(r) == End(r) /\ UNCHANGED <<notice, unaware, dropped, crossed, late>>

(* validateTargetSelection *)
Fits(t, S) == (t = All) <=> (S = {})

TargetIds == {p[2] : p \in targets}

(* resolveRecipientIds *)
Reach(t, S) == IF t = All THEN User ELSE UNION {Members[t][i] : i \in S}

Receivers == {u \in User : recipients[u] # "none"}

(* availableMessage: what u sees of the notice *)
Inbox(u) == IF status = "published" THEN recipients[u] ELSE "none"

Unsettle == unaware' = unaware \cup {u \in User : Inbox(u)' # Inbox(u)}
-----------------------------------------------------------------------------
(* NoticeService                                                            *)

Create(r, t, S) ==
  /\ pc[r] = "idle" /\ status = "none" /\ Fits(t, S)
  /\ status' = "draft"
  /\ type' = t
  /\ targets' = {t} \X S
  /\ UNCHANGED <<text, recipients, pc, locals, gone, history>>

(* update: findNoticeOrFail, and a form that sets t, S, both or neither.  Of *)
(* a form that sets the type it has and no ids, findTargetIds follows; one *)
(* that sets another and no ids is as one with none.                       *)
Edit(r, t, S) ==
  /\ status \in {"draft", "withdrawn"}
  /\ seen' = [seen EXCEPT ![r] = status]
  /\ \/ /\ Goto(r, "idle", "edit")
        /\ UNCHANGED <<kind, ids, sets>>
     \/ /\ Goto(r, "idle", "editids") /\ t = type
        /\ kind' = [kind EXCEPT ![r] = t]
        /\ sets' = [sets EXCEPT ![r] = {"type", "targets"}]
        /\ UNCHANGED ids
     \/ /\ Goto(r, "idle", "edit") /\ Fits(type, S)
        /\ kind' = [kind EXCEPT ![r] = type]
        /\ ids' = [ids EXCEPT ![r] = S]
        /\ sets' = [sets EXCEPT ![r] = {"targets"}]
     \/ /\ Goto(r, "idle", "edit") /\ Fits(t, S)
        /\ kind' = [kind EXCEPT ![r] = t]
        /\ ids' = [ids EXCEPT ![r] = S]
        /\ sets' = [sets EXCEPT ![r] = {"type", "targets"}]
  /\ UNCHANGED <<notice, to, gone, history>>

(* update: findTargetIds *)
ReadIds(r) ==
  /\ pc[r] = "editids"
  /\ \/ ~Fits(kind[r], TargetIds) /\ Refuse(r)
     \/ /\ Fits(kind[r], TargetIds)
        /\ Goto(r, "editids", "edit")
        /\ ids' = [ids EXCEPT ![r] = TargetIds]
        /\ UNCHANGED <<notice, seen, kind, sets, to, gone, history>>

(* r sets the targets: what the others read of them is stale                *)
Overtakes(r) ==
  /\ crossed' = (crossed \/ (sets[r] # {} /\ r \in stale))
  /\ stale' = (IF sets[r] = {} THEN stale
               ELSE stale \cup {q \in Req : pc[q] \in {"editids", "edit", "targets", "publish"}})
              \ {r}

(* the UPDATE of an edit, and the targets that replace the old ones         *)
SetFields(r) ==
  /\ text' \in Text
  /\ type' = IF "type" \in sets[r] THEN kind[r] ELSE type
  /\ targets' = IF "targets" \in sets[r] THEN {kind[r]} \X ids[r] ELSE targets

(* the request that edited is done *)
Edited(r) ==
  /\ Overtakes(r)
  /\ pc' = [pc EXCEPT ![r] = "idle"]
  /\ seen' = [seen EXCEPT ![r] = "none"]
  /\ kind' = [kind EXCEPT ![r] = All]
  /\ ids' = [ids EXCEPT ![r] = {}]
  /\ sets' = [sets EXCEPT ![r] = {}]
  /\ UNCHANGED <<status, recipients, to, gone, unaware, dropped, late>>

(* mutation: the UPDATE takes the notice in any status *)
WriteEditAnyStatus(r) ==
  pc[r] = "edit" /\ status # "deleted" /\ SetFields(r) /\ Edited(r)

(* update: the transaction, with the status compared *)
WriteEdit(r) ==
  /\ pc[r] = "edit"
  /\ \/ status # seen[r] /\ Refuse(r)
     \/ status = seen[r] /\ SetFields(r) /\ Edited(r)

(* publish: findNoticeOrFail; one that has expired is refused *)
Publish(r) ==
  /\ status \in {"draft", "withdrawn"}
  /\ Goto(r, "idle", "targets")
  /\ seen' = [seen EXCEPT ![r] = status]
  /\ kind' = [kind EXCEPT ![r] = type]
  /\ UNCHANGED <<notice, ids, sets, to, gone, history>>

(* mutation: a notice for nobody is published *)
ReadTargetsUnchecked(r) ==
  /\ Goto(r, "targets", "publish")
  /\ Fits(kind[r], TargetIds)
  /\ to' = [to EXCEPT ![r] = Reach(kind[r], TargetIds)]
  /\ UNCHANGED <<notice, seen, kind, ids, sets, gone, history>>

(* publish: findTargetIds, whatever their kind, and resolveRecipientIds *)
ReadTargets(r) ==
  LET R == Reach(kind[r], TargetIds) IN
  /\ pc[r] = "targets"
  /\ \/ (~Fits(kind[r], TargetIds) \/ R = {}) /\ Refuse(r)
     \/ /\ Fits(kind[r], TargetIds) /\ R # {}
        /\ Goto(r, "targets", "publish")
        /\ to' = [to EXCEPT ![r] = R]
        /\ UNCHANGED <<notice, seen, kind, ids, sets, gone, history>>

(* what a publication does beside the new recipients: the messages others   *)
(* have read are gone, and the recipients they have read are stale         *)
Replaces(r) ==
  /\ gone' = gone \cup {q \in Req : pc[q] = "mark"}
  /\ crossed' = (crossed \/ r \in stale)
  /\ stale' = (stale \cup {q \in Req : pc[q] = "withdraw"}) \ {r}
  /\ status' = "published"
  /\ UNCHANGED <<text, type, targets, locals, dropped, late>>
  /\ Unsettle

(* mutation: who has a message keeps it *)
WritePublishKeepingRecipients(r) ==
  /\ Goto(r, "publish", "announce") /\ status = seen[r]
  /\ recipients' = [u \in User |-> IF u \in to[r] THEN "unread" ELSE recipients[u]]
  /\ Replaces(r)

(* publish: the transaction, with the status compared *)
WritePublish(r) ==
  /\ pc[r] = "publish"
  /\ \/ status # seen[r] /\ Refuse(r)
     \/ /\ status = seen[r]
        /\ Goto(r, "publish", "announce")
        /\ recipients' = [u \in User |-> IF u \in to[r] THEN "unread" ELSE "none"]
        /\ Replaces(r)

(* mutation: only those who have not read it are told of the withdrawal *)
WithdrawFromUnread(r) ==
  /\ status \in {"draft", "published", "withdrawn"}
  /\ Goto(r, "idle", "withdraw")
  /\ to' = [to EXCEPT ![r] = {u \in User : recipients[u] = "unread"}]
  /\ UNCHANGED <<notice, seen, kind, ids, sets, gone, history>>

(* withdraw: findNoticeOrFail and findRecipientIds *)
Withdraw(r) ==
  /\ status \in {"draft", "published", "withdrawn"}
  /\ Goto(r, "idle", "withdraw")
  /\ to' = [to EXCEPT ![r] = Receivers]
  /\ UNCHANGED <<notice, seen, kind, ids, sets, gone, history>>

(* withdraw: the UPDATE of a published notice *)
WriteWithdraw(r) ==
  /\ pc[r] = "withdraw"
  /\ \/ status # "published" /\ Refuse(r)
     \/ /\ status = "published"
        /\ Goto(r, "withdraw", "announce")
        /\ status' = "withdrawn"
        /\ late' = (late \/ r \in stale)
        /\ stale' = stale \ {r}
        /\ UNCHANGED <<text, type, targets, recipients, locals, gone, dropped, crossed>>
        /\ Unsettle

(* remove: findNoticeOrFail *)
Remove(r) ==
  /\ status \in {"draft", "withdrawn"}
  /\ Goto(r, "idle", "remove")
  /\ seen' = [seen EXCEPT ![r] = status]
  /\ UNCHANGED <<notice, kind, ids, sets, to, gone, history>>

(* remove: the UPDATE of deleted_at, with the status compared *)
WriteRemove(r) ==
  /\ pc[r] = "remove"
  /\ \/ status # seen[r] /\ Refuse(r)
     \/ /\ status = seen[r]
        /\ status' = "deleted"
        /\ End(r)
        /\ UNCHANGED <<text, type, targets, recipients, unaware, dropped, crossed, late>>
-----------------------------------------------------------------------------
(* MessageService, for user u                                               *)

(* markRead: findDetail *)
Mark(r, u) ==
  /\ Inbox(u) # "none"
  /\ Goto(r, "idle", "mark")
  /\ to' = [to EXCEPT ![r] = {u}]
  /\ UNCHANGED <<notice, seen, kind, ids, sets, gone, history>>

(* markRead: the UPDATE of the row that was found, if it is still there     *)
WriteMark(r) ==
  /\ pc[r] = "mark"
  /\ \E u \in to[r] :
       \/ (r \in gone \/ recipients[u] # "unread") /\ Refuse(r)
       \/ /\ r \notin gone /\ recipients[u] = "unread"
          /\ Goto(r, "mark", "announce")
          /\ recipients' = [recipients EXCEPT ![u] = "read"]
          /\ UNCHANGED <<status, text, type, targets, locals, gone, dropped, stale, crossed, late>>
          /\ Unsettle

(* markAllRead, with the messages the user does not see *)
MarkAll(r, u) ==
  /\ recipients[u] = "unread"
  /\ Goto(r, "idle", "announce")
  /\ recipients' = [recipients EXCEPT ![u] = "read"]
  /\ to' = [to EXCEPT ![r] = {u}]
  /\ UNCHANGED <<status, text, type, targets, seen, kind, ids, sets, gone, dropped, stale,
                 crossed, late>>
  /\ Unsettle
-----------------------------------------------------------------------------
(* NoticeEventService.publishToUsers; every event makes its user ask again  *)
Announce(r) ==
  /\ pc[r] = "announce"
  /\ unaware' = unaware \ to[r]
  /\ dropped' = dropped \ to[r]
  /\ End(r)
  /\ UNCHANGED <<notice, crossed, late>>

(* a statement fails, or the process of the request dies *)
Drop(r) ==
  /\ pc[r] # "idle"
  /\ dropped' = IF pc[r] = "announce" THEN dropped \cup to[r] ELSE dropped
  /\ End(r)
  /\ UNCHANGED <<notice, unaware, crossed, late>>

Drafts(r) ==
  \/ \E f \in Forms : Create(r, f[1], f[2]) \/ Edit(r, f[1], f[2])
  \/ ReadIds(r) \/ WriteEdit(r)
  \/ Remove(r) \/ WriteRemove(r)

Publications(r) ==
  \/ Publish(r) \/ ReadTargets(r) \/ WritePublish(r)
  \/ Withdraw(r) \/ WriteWithdraw(r)

Messages(r) ==
  \/ \E u \in User : Mark(r, u) \/ MarkAll(r, u)
  \/ WriteMark(r)
  \/ Announce(r) \/ Drop(r)

Next == \E r \in Req : Drafts(r) \/ Publications(r) \/ Messages(r)

Spec == Init /\ [][Next]_vars
-----------------------------------------------------------------------------
(* Unless an edit or a publication was written on the strength of targets     *)
(* another edit had replaced - the status is compared, the targets are not  *)
(* (notice.service.ts:302, 352) - the targets of a notice are of its type,  *)
(* and there are some unless it is for everybody; and the messages of a     *)
(* published notice are those of the users its targets stand for.           *)
RecipientsNeedARace ==
  crossed \/ /\ Fits(type, TargetIds)
             /\ \A p \in targets : p[1] = type
             /\ status = "published" => Receivers = Reach(type, TargetIds)

(* Who does not know of a change of his messages will be told by a request  *)
(* under way, unless the process that had to tell died, or a withdrawal     *)
(* went by recipients a publication had replaced (notice.service.ts:386).  *)
EveryChangeIsAnnounced ==
  late \/ \A u \in unaware :
    u \in dropped \/ \E r \in Req : pc[r] = "announce" /\ u \in to[r]

(* The requests above, in any interleaving, implement Inboxes: what a user   *)
(* was sent stays as it was sent until it is withdrawn, a message is read   *)
(* once, a withdrawn notice is sent anew as unread to whom its new          *)
(* publication names, and a removed one never; although edits, publications *)
(* and removals have checked its status in an earlier statement than the    *)
(* one that writes (notice.service.ts:286, 352, 429).                       *)
Boxes == INSTANCE Inboxes WITH
  Content <- Text \X Type \X SUBSET (Kind \X Id),
  Nothing <- <<>>,
  stage <- IF status = "published" THEN "shown"
           ELSE IF status = "deleted" THEN "removed" ELSE "hidden",
  content <- IF status = "published" THEN <<text, type, targets>> ELSE <<>>,
  inbox <- [u \in User |-> Inbox(u)]
InboxesSpec == Boxes!ISpec
=============================================================================
