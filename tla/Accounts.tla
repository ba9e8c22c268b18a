------------------------------ MODULE Accounts ------------------------------
(***************************************************************************)
(* One account of apps/api, from its creation to its end, and the sessions *)
(* opened for it: UserService, AuthService.login and register, and         *)
(* OAuthService.  The account is either local, created by registration or  *)
(* by an administrator and used with a password, or the one OAuth derives  *)
(* from a subject at the provider; neither is ever turned into the other.  *)
(*                                                                         *)
(* AuthSessions has the sessions in detail.  Here a session is the epoch   *)
(* of the account its login read, and what ends single sessions (logout,   *)
(* eviction, expiry) is one action; a refresh keeps the epoch.  Request r  *)
(* is a call or, with OAuth, the calls of one browser: the state and the   *)
(* ticket in Redis are phases of it, since GETDEL gives each to one call.  *)
(***************************************************************************)
EXTENDS Naturals

CONSTANTS
  Req,       \* bound: requests at once
  MaxEpoch   \* bound on how often the account is withdrawn

ASSUME MaxEpochAssumption == MaxEpoch \in Nat

VARIABLES
  local,        \* the account has a password its user knows
  account,      \* its row of sys_user
  bound,        \* sys_oauth_identity binds the subject to it
  provider,     \* sys_oauth_provider: "closed" does not register new users
  epoch,        \* how often it was disabled or deleted, or its password changed
  sessions,     \* the epochs of its sessions
  pc, op,       \* the statement request r sends next, and what r is for
  tag,          \* the epoch r read
  open,         \* autoRegister, as r read it
  gone,         \* the requests whose account was taken back for good
  late,         \* history: epochs of sessions opened after they had ended
  interrupted,  \* history: sessions were to be revoked and it was not done
  stranded      \* history: an OAuth registration was given up half way

request == <<pc, op, tag, open, gone>>
vars == <<local, account, bound, provider, epoch, sessions, request, late,
          interrupted, stranded>>

Creations == {"create", "register", "oauth"}
Edits == {"disable", "enable", "remove", "password"}

(* states of r: an OAuth browser's, UserService.create, then the identity, *)
(* a login's last, and those of UserService.update, remove, changePassword *)
PcState == {"idle", "state", "identity", "find", "ticket",
            "name", "insert", "read", "bind", "cleanup",
            "issue", "write", "select", "revoke"}

Alive == account \in {"active", "disabled"}

(* r knows the account by its id                                           *)
Holds(r) == pc[r] \in {"find", "issue", "write", "select", "revoke"}

(* r has inserted the account of the subject, and not yet its identity     *)
Registering(r) == op[r] = "oauth" /\ pc[r] \in {"read", "bind", "cleanup"}

TypeOK ==
  /\ local \in BOOLEAN
  /\ account \in {"none", "active", "disabled", "deleted"}
  /\ bound \in BOOLEAN
  /\ provider \in {"off", "closed", "open"}
  /\ epoch \in Nat
  /\ sessions \in SUBSET (0 .. epoch)
  /\ late \in SUBSET (0 .. epoch)
  /\ pc \in [Req -> PcState]
  /\ op \in [Req -> {"none", "login"} \cup Creations \cup Edits]
  /\ tag \in [Req -> 0 .. epoch]
  /\ open \in [Req -> BOOLEAN]
  /\ gone \in SUBSET {r \in Req : Holds(r)}
  /\ interrupted \in BOOLEAN
  /\ stranded \in BOOLEAN
  /\ bound => ~local /\ account # "none"
  /\ sessions # {} => local \/ bound
  /\ \A r \in Req : op[r] = "oauth" => ~local

Init ==
  /\ local \in BOOLEAN
  /\ account = "none"
  /\ bound = FALSE
  /\ provider = "off"
  /\ epoch = 0
  /\ sessions = {}
  /\ pc = [r \in Req |-> "idle"]
  /\ op = [r \in Req |-> "none"]
  /\ tag = [r \in Req |-> 0]
  /\ open = [r \in Req |-> FALSE]
  /\ gone = {}
  /\ late = {}
  /\ interrupted = FALSE
  /\ stranded = FALSE

At(r, at) == pc[r] = at

Goto(r, to) == pc' = [pc EXCEPT ![r] = to] /\ UNCHANGED <<op, tag, open, gone>>

Begin(r, o, to) ==
  /\ At(r, "idle")
  /\ op' = [op EXCEPT ![r] = o]
  /\ pc' = [pc EXCEPT ![r] = to]
  /\ UNCHANGED <<open, gone>>

Leave(r) ==
  /\ pc' = [pc EXCEPT ![r] = "idle"]
  /\ op' = [op EXCEPT ![r] = "none"]
  /\ tag' = [tag EXCEPT ![r] = 0]
  /\ open' = [open EXCEPT ![r] = FALSE]

(* r is answered, or refused *)
End(r) == Leave(r) /\ gone' = gone \ {r}

histories == <<late, interrupted, stranded>>
-----------------------------------------------------------------------------
(* Creation: UserService.create                                             *)

(* of a local account, by an administrator or by AuthService.register       *)
Create(r, o) ==
  /\ local /\ o \in {"create", "register"}
  /\ Begin(r, o, "name") /\ UNCHANGED tag
  /\ UNCHANGED <<local, account, bound, provider, epoch, sessions, histories>>

(* is there a row of that name, deleted ones included?                      *)
FindName(r) ==
  /\ At(r, "name")
  /\ IF account = "none" THEN Goto(r, "insert") ELSE End(r)
  /\ UNCHANGED <<local, account, bound, provider, epoch, sessions, histories>>

(* INSERT; the unique index refuses the second of two. An administrator may *)
(* create the account disabled.                                             *)
InsertUser(r) ==
  /\ At(r, "insert")
  /\ IF account = "none"
     THEN /\ account' \in {"active"} \cup IF op[r] = "create" THEN {"disabled"} ELSE {}
          /\ Goto(r, "read")
     ELSE UNCHANGED account /\ End(r)
  /\ UNCHANGED <<local, bound, provider, epoch, sessions, histories>>

(* findById of the new row, whatever its status; it may be deleted by now   *)
ReadUser(r) ==
  /\ At(r, "read")
  /\ IF Alive /\ op[r] # "create"
     THEN /\ pc' = [pc EXCEPT ![r] = IF op[r] = "oauth" THEN "bind" ELSE "issue"]
          /\ tag' = [tag EXCEPT ![r] = epoch]
          /\ UNCHANGED <<op, open, gone>>
     ELSE End(r)
  /\ stranded' = (stranded \/ (op[r] = "oauth" /\ ~Alive))
  /\ UNCHANGED <<local, account, bound, provider, epoch, sessions, late, interrupted>>
-----------------------------------------------------------------------------
(* OAuthService                                                             *)

(* create, update and remove of the provider                                *)
Configure(p) ==
  /\ provider' = p
  /\ UNCHANGED <<local, account, bound, epoch, sessions, request, histories>>

(* authorize: SET of the state *)
Authorize(r) ==
  /\ ~local /\ provider # "off"
  /\ Begin(r, "oauth", "state") /\ UNCHANGED tag
  /\ UNCHANGED <<local, account, bound, provider, epoch, sessions, histories>>

(* callback: GETDEL of the state, findEnabled                               *)
Callback(r) ==
  /\ At(r, "state")
  /\ IF provider = "off" THEN End(r)
     ELSE /\ pc' = [pc EXCEPT ![r] = "identity"]
          /\ open' = [open EXCEPT ![r] = provider = "open"]
          /\ UNCHANGED <<op, tag, gone>>
  /\ UNCHANGED <<local, account, bound, provider, epoch, sessions, histories>>

(* resolveUser: SELECT of the identity, after the provider has answered     *)
FindIdentity(r) ==
  /\ At(r, "identity")
  /\ IF bound THEN Goto(r, "find")
     ELSE IF open[r] THEN Goto(r, "name")
     ELSE End(r)
  /\ UNCHANGED <<local, account, bound, provider, epoch, sessions, histories>>

(* resolveUser: findById, status, profile of the identity                   *)
FindUser(r) ==
  /\ At(r, "find")
  /\ IF account = "active" /\ r \notin gone
     THEN /\ pc' = [pc EXCEPT ![r] = "issue"]
          /\ tag' = [tag EXCEPT ![r] = epoch]
          /\ UNCHANGED <<op, open, gone>>
     ELSE End(r)
  /\ UNCHANGED <<local, account, bound, provider, epoch, sessions, histories>>

(* mutation: the error is logged and the login goes on *)
BindIdentityAnyway(r) ==
  /\ At(r, "bind")
  /\ bound' \in {TRUE, bound}
  /\ Goto(r, "issue")
  /\ UNCHANGED <<local, account, provider, epoch, sessions, histories>>

(* resolveUser: INSERT of the identity, which has a unique index; it may     *)
(* take effect although it fails, for want of an answer                    *)
BindIdentity(r) ==
  /\ At(r, "bind")
  /\ \/ ~bound /\ bound' = TRUE /\ \E to \in {"issue", "cleanup"} : Goto(r, to)
     \/ UNCHANGED bound /\ Goto(r, "cleanup")
  /\ UNCHANGED <<local, account, provider, epoch, sessions, histories>>

(* mutation: the account is deleted the way accounts are *)
CleanUpSoftly(r) ==
  /\ At(r, "cleanup")
  /\ account' = "deleted"
  /\ End(r)
  /\ UNCHANGED <<local, bound, provider, epoch, sessions, histories>>

(* resolveUser: DELETE of the account, with what references it; the subject  *)
(* may register again, with another account                                *)
CleanUp(r) ==
  /\ At(r, "cleanup")
  /\ account' = "none" /\ bound' = FALSE /\ sessions' = {}
  /\ gone' = {s \in Req : Holds(s)}
  /\ late' = {} /\ interrupted' = FALSE
  /\ Leave(r)
  /\ UNCHANGED <<local, provider, epoch, stranded>>

(* exchange: GETDEL of the ticket *)
Exchange(r) ==
  /\ At(r, "ticket")
  /\ End(r)
  /\ UNCHANGED <<local, account, bound, provider, epoch, sessions, histories>>
-----------------------------------------------------------------------------
(* Sessions                                                                 *)

(* AuthService.login: findCredentialsByUsername, verifyPassword, status     *)
Login(r) ==
  /\ local /\ account = "active"
  /\ Begin(r, "login", "issue")
  /\ tag' = [tag EXCEPT ![r] = epoch]
  /\ UNCHANGED <<local, account, bound, provider, epoch, sessions, histories>>

(* issueAuthResult: the session, if its account is there; a callback goes on *)
(* to SET its ticket                                                       *)
Issue(r) ==
  /\ At(r, "issue")
  /\ IF r \in gone
     THEN End(r) /\ UNCHANGED <<sessions, late>>
     ELSE /\ sessions' = sessions \cup {tag[r]}
          /\ late' = IF tag[r] = epoch /\ account = "active" THEN late ELSE late \cup {tag[r]}
          /\ IF op[r] = "oauth" THEN Goto(r, "ticket") ELSE End(r)
  /\ UNCHANGED <<local, account, bound, provider, epoch, interrupted, stranded>>

(* logout, kick, eviction or expiry of the last session of epoch e          *)
EndSession(e) ==
  /\ e \in sessions
  /\ sessions' = sessions \ {e}
  /\ UNCHANGED <<local, account, bound, provider, epoch, request, histories>>
-----------------------------------------------------------------------------
(* Withdrawal: update with a status, remove, changePassword                 *)

(* the account is found; a new password needs a session and the old one     *)
Edit(r, o) ==
  /\ IF o = "password" THEN local /\ account = "active" /\ sessions # {} ELSE Alive
  /\ o \in Edits
  /\ Begin(r, o, "write") /\ UNCHANGED tag
  /\ UNCHANGED <<local, account, bound, provider, epoch, sessions, histories>>

AfterEdit(o) ==
  CASE o = "enable" -> "active"
    [] o = "disable" -> "disabled"
    [] o = "remove" -> "deleted"
    [] o = "password" -> account

(* UPDATE of the account unless it is deleted by now, COMMIT                *)
Update(r) ==
  /\ At(r, "write") /\ (op[r] # "enable" => epoch < MaxEpoch)
  /\ IF Alive /\ r \notin gone
     THEN /\ account' = AfterEdit(op[r])
          /\ epoch' = IF op[r] = "enable" THEN epoch ELSE epoch + 1
     ELSE UNCHANGED <<account, epoch>>
  /\ UNCHANGED <<local, bound, provider, sessions, histories>>

(* mutation: the sessions of a disabled account are left to the guard *)
WriteOnly(r) ==
  Update(r) /\ IF op[r] \in {"enable", "disable"} THEN End(r) ELSE Goto(r, "select")

(* the transaction, and what is left to do after it                         *)
Write(r) ==
  Update(r) /\ IF op[r] = "enable" THEN End(r) ELSE Goto(r, "select")

(* revokeAllForUser: SELECT *)
SelectSessions(r) ==
  /\ At(r, "select")
  /\ IF sessions = {} \/ r \in gone THEN End(r) ELSE Goto(r, "revoke")
  /\ UNCHANGED <<local, account, bound, provider, epoch, sessions, histories>>

(* revokeAllForUser: UPDATE *)
RevokeSessions(r) ==
  /\ At(r, "revoke")
  /\ IF r \in gone
     THEN UNCHANGED <<sessions, late, interrupted>>
     ELSE sessions' = {} /\ late' = {} /\ interrupted' = FALSE
  /\ End(r)
  /\ UNCHANGED <<local, account, bound, provider, epoch, stranded>>
-----------------------------------------------------------------------------
(* A statement of r fails, its process dies, or its state or ticket expires *)
Drop(r) ==
  /\ ~At(r, "idle")
  /\ stranded' = (stranded \/ (Registering(r) /\ ~bound))
  /\ interrupted' = (interrupted \/ (r \notin gone /\ pc[r] \in {"select", "revoke"}))
  /\ End(r)
  /\ UNCHANGED <<local, account, bound, provider, epoch, sessions, late>>

Creating(r) ==
  \/ \E o \in Creations : Create(r, o)
  \/ FindName(r) \/ InsertUser(r) \/ ReadUser(r)

OAuth(r) ==
  \/ Authorize(r) \/ Callback(r) \/ FindIdentity(r) \/ FindUser(r)
  \/ BindIdentity(r) \/ CleanUp(r) \/ Exchange(r)

Withdrawing(r) ==
  \/ \E o \in Edits : Edit(r, o)
  \/ Write(r) \/ SelectSessions(r) \/ RevokeSessions(r)

Next ==
  \/ \E r \in Req :
       Creating(r) \/ OAuth(r) \/ Login(r) \/ Issue(r) \/ Withdrawing(r) \/ Drop(r)
  \/ \E p \in {"off", "closed", "open"} : Configure(p)
  \/ \E e \in sessions : EndSession(e)

Spec == Init /\ [][Next]_vars
-----------------------------------------------------------------------------
(* the subject's account is bound, or one will bind it, or that was given up *)
Claimed ==
  ~local /\ account # "none" /\ ~bound => stranded \/ \E r \in Req : Registering(r)

OneRegisters ==
  \A r \in Req : Registering(r) =>
    /\ account # "none" /\ (bound => pc[r] = "cleanup")
    /\ \A s \in Req : Registering(s) => s = r

(* A subject that has an account can log in to it: it is bound, or one      *)
(* callback is about to bind it, or a process died in between, the cleanup  *)
(* failed or an administrator deleted the account before it was read        *)
(* (oauth.service.ts:335-371), also when an account is taken back whose     *)
(* identity was there after all.  Callbacks of the same subject never both  *)
(* get there: INSERT of the identity fails of no race.                      *)
NobodyIsStranded == Claimed /\ OneRegisters

(* Who was disabled or deleted, or changed his password, has no session     *)
(* from before (user.service.ts:267-269, 312-314) once the revocation is    *)
(* done, whether he is enabled again or not, unless it was interrupted or a *)
(* login that had read the account before was completed after.              *)
StaleSessionsNeedARace ==
  \A e \in sessions :
    \/ e = epoch /\ account = "active"
    \/ e \in late
    \/ interrupted \/ \E r \in Req \ gone : pc[r] \in {"select", "revoke"}
=============================================================================
