---------------------------- MODULE AuthSessions ----------------------------
(***************************************************************************)
(* The session life cycle of apps/api: the requests of AuthService,        *)
(* UserService and JwtStrategy over the refresh_tokens table.              *)
(*                                                                         *)
(* A request r runs one operation at a time.  Each action is the code      *)
(* between two awaits, with the one statement it sends; pc[r] names the    *)
(* statement to come.  Any number of requests interleave, in one process   *)
(* or in several behind a balancer.  An await may also reject (database    *)
(* error, process death): Abort drops the request where it stands.         *)
(***************************************************************************)
EXTENDS RefreshTokens

CONSTANTS
  Req,      \* request slots: the bound on how many run at once
  Ops,      \* bound: the operations clients start
  MaxNow,   \* bound on the clock
  Aborts    \* BOOLEAN: whether an await may reject half way

ASSUME ReqAssumption == IsFiniteSet(Req)
ASSUME OpsAssumption == Ops \subseteq {"login", "refresh", "logout", "force",
                                      "status", "kick", "password", "others",
                                      "cleanup"}
ASSUME MaxNowAssumption == MaxNow \in Nat
ASSUME AbortsAssumption == Aborts \in BOOLEAN

VARIABLES
  status,   \* status[u] of the users table, "deleted" for a soft-deleted row
  pc,       \* the statement request r sends next
  op,       \* why r is running, where two operations share statements
  usr,      \* the account r acts on
  tok,      \* the jti r presented, as refresh token or as sid of its access token
  dev,      \* the client r came from
  due,      \* the expires_at r computed for the token it is to insert
  keep,     \* ids enforceSessionLimit() read and will keep
  doomed,   \* history: sessions a revocation found when it began
  purging   \* rows matched by a purgeExpired() that was issued and not awaited

reqVars == <<op, usr, tok, dev, due, keep, doomed>>
vars == <<now, row, root, from, status, pc, op, usr, tok, dev, due, keep,
          doomed, purging>>

PcState == {"idle",
            "device", "limit", "evict", "insert",         \* login
            "check", "user", "rotate",                    \* refresh
            "raSelect", "raUpdate", "raDone",             \* revokeAllForUser
            "kickUpdate", "kickDone",                     \* revokeOwned
            "guard", "guardUser", "password",             \* JwtStrategy, then
            "others", "othersUpdate", "othersDone"}       \* revokeOthers

OpName == {"none", "login", "refresh", "reuse", "status", "force", "kick",
           "password", "others"}

TypeOK ==
  /\ now \in Nat
  /\ row \in [Jti -> Row]
  /\ root \in [Jti -> Jti \cup {NoJti}]
  /\ from \in [Jti -> Jti \cup {NoJti}]
  /\ status \in [User -> {"active", "disabled", "deleted"}]
  /\ pc \in [Req -> PcState]
  /\ op \in [Req -> OpName]
  /\ usr \in [Req -> User]
  /\ tok \in [Req -> Jti \cup {NoJti}]
  /\ dev \in [Req -> Device \cup {NoDevice}]
  /\ due \in [Req -> Nat]
  /\ keep \in [Req -> SUBSET Jti]
  /\ doomed \in [Req -> SUBSET Jti]
  /\ purging \in SUBSET Jti

AnyUser == CHOOSE u \in User : TRUE

Init ==
  /\ TokensInit
  /\ status = [u \in User |-> "active"]
  /\ pc = [r \in Req |-> "idle"]
  /\ op = [r \in Req |-> "none"]
  /\ usr = [r \in Req |-> AnyUser]
  /\ tok = [r \in Req |-> NoJti]
  /\ dev = [r \in Req |-> NoDevice]
  /\ due = [r \in Req |-> 0]
  /\ keep = [r \in Req |-> {}]
  /\ doomed = [r \in Req |-> {}]
  /\ purging = {}

Goto(r, at, to) == pc[r] = at /\ pc' = [pc EXCEPT ![r] = to]

(* a request arrives and is answered; its locals do not outlive it *)
Begin(r, o, u, j, d, to) ==
  /\ o \in Ops
  /\ Goto(r, "idle", to)
  /\ op' = [op EXCEPT ![r] = o]
  /\ usr' = [usr EXCEPT ![r] = u]
  /\ tok' = [tok EXCEPT ![r] = j]
  /\ dev' = [dev EXCEPT ![r] = d]
  /\ UNCHANGED keep

End(r, at) ==
  /\ Goto(r, at, "idle")
  /\ op' = [op EXCEPT ![r] = "none"]
  /\ usr' = [usr EXCEPT ![r] = AnyUser]
  /\ tok' = [tok EXCEPT ![r] = NoJti]
  /\ dev' = [dev EXCEPT ![r] = NoDevice]
  /\ due' = [due EXCEPT ![r] = 0]
  /\ keep' = [keep EXCEPT ![r] = {}]
  /\ doomed' = [doomed EXCEPT ![r] = {}]

(* mutation: the lifetime is subtracted *)
RefreshExpiryBackwards == now - Ttl

(* expires_at, computed before the statements that lead to the INSERT *)
RefreshExpiry == now + Ttl

(* the sessions of u that exist, dead ones included *)
SessionsOf(u) == {root[j] : j \in {i \in Jti \ Unused : row[i].user = u}}

(* a refresh token whose JWT still verifies: its exp is that of its row *)
Presentable(j) == row[j].st # "unborn" /\ now < row[j].exp

(***************************************************************************)
(* login: AuthService.login, then RefreshTokenService.issue                *)
(***************************************************************************)

(* findCredentialsByUsername, password check and the status test on the     *)
(* account read; a refused login changes no session (see LoginLockout)      *)
LoginVerified(r, u, d) ==
  /\ status[u] = "active"
  /\ Begin(r, "login", u, NoJti, d, "device")
  /\ due' = [due EXCEPT ![r] = RefreshExpiry]
  /\ UNCHANGED <<tokenVars, status, doomed, purging>>

RevokeDeviceSessions(r) ==
  /\ Goto(r, "device", "limit")
  /\ SetRevoked(DeviceSessions(usr[r], dev[r]))
  /\ UNCHANGED <<reqVars, status, purging>>

(* mutation: the comparison lets one more session pass *)
SessionLimitReadLate(r) ==
  LET active == Active(usr[r]) IN
  /\ \/ /\ Cardinality(active) <= MaxSessions
        /\ Goto(r, "limit", "insert")
        /\ UNCHANGED keep
     \/ /\ Cardinality(active) > MaxSessions
        /\ Goto(r, "limit", "evict")
        /\ \E K \in Newest(active) : keep' = [keep EXCEPT ![r] = K]
  /\ UNCHANGED <<tokenVars, op, usr, tok, dev, due, doomed, status, purging>>

SessionLimitRead(r) ==
  LET active == Active(usr[r]) IN
  /\ \/ /\ Cardinality(active) < MaxSessions
        /\ Goto(r, "limit", "insert")
        /\ UNCHANGED keep
     \/ /\ Cardinality(active) >= MaxSessions
        /\ Goto(r, "limit", "evict")
        /\ \E K \in Newest(active) : keep' = [keep EXCEPT ![r] = K]
  /\ UNCHANGED <<tokenVars, op, usr, tok, dev, due, doomed, status, purging>>

SessionLimitEvict(r) ==
  /\ Goto(r, "evict", "insert")
  /\ SetRevoked(Unrevoked(usr[r]) \ keep[r])
  /\ UNCHANGED <<reqVars, status, purging>>

(* the INSERT; the purge it starts is not awaited.  Its cutoff is the time   *)
(* of the call and expires_at never changes, so its rows are fixed here     *)
IssueInsert(r, j) ==
  /\ End(r, "insert")
  /\ InsertLogin(j, usr[r], dev[r], due[r])
  /\ purging' = purging \cup Expired(usr[r])
  /\ UNCHANGED status

(* its failure is swallowed *)
PurgeExpired(u) ==
  LET old == {j \in purging : row[j].user = u} IN
  /\ old # {}
  /\ purging' = purging \ old
  /\ \/ DeleteRows({j \in old : Stored(j)})
     \/ UNCHANGED tokenVars
  /\ UNCHANGED <<status, pc, reqVars>>

(***************************************************************************)
(* refresh: AuthService.refresh                                            *)
(***************************************************************************)

(* every path into revokeAllForUser starts here *)
StartRevokeAll(r, at, o) ==
  /\ Goto(r, at, "raSelect")
  /\ op' = [op EXCEPT ![r] = o]
  /\ doomed' = [doomed EXCEPT ![r] = SessionsOf(usr[r])]
  /\ UNCHANGED <<usr, tok, dev, due, keep>>

RefreshBegin(r, j, d) ==
  /\ Presentable(j)
  /\ Begin(r, "refresh", row[j].user, j, d, "check")
  /\ UNCHANGED <<tokenVars, status, due, doomed, purging>>

RefreshCheck(r) ==
  /\ \/ /\ Goto(r, "check", "user")
        /\ CheckResult(tok[r]) = "ok"
        /\ UNCHANGED reqVars
     \/ /\ StartRevokeAll(r, "check", "reuse")
        /\ CheckResult(tok[r]) = "reused"
     \/ /\ End(r, "check")
        /\ CheckResult(tok[r]) \in {"unknown", "revoked", "expired"}
  /\ UNCHANGED <<tokenVars, status, purging>>

(* a lookup that fails counts as a user that is not there *)
RefreshFindUser(r) ==
  /\ \/ /\ status[usr[r]] = "active"
        /\ Goto(r, "user", "rotate")
        /\ due' = [due EXCEPT ![r] = RefreshExpiry]
        /\ UNCHANGED <<op, usr, tok, dev, keep, doomed>>
     \/ /\ Aborts \/ status[usr[r]] # "active"
        /\ StartRevokeAll(r, "user", "status")
  /\ UNCHANGED <<tokenVars, status, purging>>

RefreshRotate(r, j) ==
  /\ End(r, "rotate")
  /\ RotateRow(tok[r], j, usr[r], dev[r], due[r])
  /\ UNCHANGED <<status, purging>>

(* RefreshTokenRotationConflictError: handled as reuse *)
RefreshConflict(r) ==
  /\ StartRevokeAll(r, "rotate", "reuse")
  /\ RotateConflicts(tok[r])
  /\ UNCHANGED <<tokenVars, status, purging>>

(***************************************************************************)
(* revokeAllForUser: a SELECT, and an UPDATE unless it found nothing       *)
(***************************************************************************)

RevokeAllSelect(r) ==
  /\ \/ Unrevoked(usr[r]) = {} /\ Goto(r, "raSelect", "raDone")
     \/ Unrevoked(usr[r]) # {} /\ Goto(r, "raSelect", "raUpdate")
  /\ UNCHANGED <<tokenVars, reqVars, status, purging>>

(* mutation: the session that asked is spared *)
RevokeAllUpdateSparesCaller(r) ==
  /\ Goto(r, "raUpdate", "raDone")
  /\ SetRevoked(Unrevoked(usr[r]) \ {tok[r]})
  /\ UNCHANGED <<reqVars, status, purging>>

RevokeAllUpdate(r) ==
  /\ Goto(r, "raUpdate", "raDone")
  /\ SetRevoked(Unrevoked(usr[r]))
  /\ UNCHANGED <<reqVars, status, purging>>

(***************************************************************************)
(* The other operations                                                    *)
(***************************************************************************)

(* AuthService.logout: one DELETE, so the request needs no slot *)
Logout(j) ==
  /\ "logout" \in Ops
  /\ Presentable(j)
  /\ DeleteRows({j} \cap Unrevoked(row[j].user))
  /\ UNCHANGED <<status, pc, reqVars, purging>>

(* LogCleanupService: the rows of dead sessions, batch by batch.  How long   *)
(* ago a row was revoked is not kept, so any retention period is allowed    *)
CleanUp(j) ==
  /\ "cleanup" \in Ops
  /\ Stored(j) /\ (row[j].exp < now \/ row[j].st = "revoked")
  /\ DeleteRows({j})
  /\ UNCHANGED <<status, pc, reqVars, purging>>

(* UserService.forceLogout *)
ForceLogout(r, u) ==
  /\ Begin(r, "force", u, NoJti, NoDevice, "raSelect")
  /\ doomed' = [doomed EXCEPT ![r] = SessionsOf(u)]
  /\ UNCHANGED <<tokenVars, status, due, purging>>

(* mutation: the status changes and the sessions are left alone *)
DeactivateOnly(r, u, s) ==
  /\ status[u] # "deleted"
  /\ status' = [status EXCEPT ![u] = s]
  /\ UNCHANGED <<tokenVars, pc, reqVars, purging>>

(* UserService.update with status 'disabled', and UserService.remove: the   *)
(* transaction on users and departments, then revokeAllForUser              *)
Deactivate(r, u, s) ==
  /\ status[u] # "deleted"
  /\ status' = [status EXCEPT ![u] = s]
  /\ Begin(r, "status", u, NoJti, NoDevice, "raSelect")
  /\ doomed' = [doomed EXCEPT ![r] = SessionsOf(u)]
  /\ UNCHANGED <<tokenVars, due, purging>>

(* UserService.update with status 'active' *)
Reactivate(u) ==
  /\ status[u] = "disabled"
  /\ status' = [status EXCEPT ![u] = "active"]
  /\ UNCHANGED <<tokenVars, pc, reqVars, purging>>

(* RefreshTokenService.revokeOwned on the row a session list showed: its    *)
(* SELECT, then an UPDATE by primary key alone                              *)
KickSelect(r, j) ==
  /\ row[j].st = "live"
  /\ Begin(r, "kick", row[j].user, j, NoDevice, "kickUpdate")
  /\ UNCHANGED <<tokenVars, status, due, doomed, purging>>

KickUpdate(r) ==
  /\ Goto(r, "kickUpdate", "kickDone")
  /\ SetRevoked({j \in {tok[r]} : Stored(j)})
  /\ UNCHANGED <<reqVars, status, purging>>

(* JwtStrategy.validate before a handler that uses the session: the sid of  *)
(* the access token is checked, then the account                            *)
GuardBegin(r, o, j) ==
  /\ o \in {"others", "password"}
  /\ Presentable(j)
  /\ Begin(r, o, row[j].user, j, NoDevice, "guard")
  /\ UNCHANGED <<tokenVars, status, due, doomed, purging>>

GuardCheck(r) ==
  /\ \/ /\ Goto(r, "guard", "guardUser")
        /\ CheckResult(tok[r]) = "ok"
        /\ UNCHANGED reqVars
     \/ /\ End(r, "guard")
        /\ CheckResult(tok[r]) # "ok"
  /\ UNCHANGED <<tokenVars, status, purging>>

GuardFindUser(r) ==
  /\ \/ /\ status[usr[r]] = "active"
        /\ Goto(r, "guardUser", op[r])
        /\ doomed' = [doomed EXCEPT ![r] =
                        IF op[r] = "others"
                        THEN SessionsOf(usr[r]) \ {root[tok[r]]} ELSE {}]
        /\ UNCHANGED <<op, usr, tok, dev, due, keep>>
     \/ /\ status[usr[r]] # "active"
        /\ End(r, "guardUser")
  /\ UNCHANGED <<tokenVars, status, purging>>

(* UserService.changePassword: compare, UPDATE users, revokeAllForUser.     *)
(* A wrong old password, or a new one the policy refuses, ends the request  *)
ChangePassword(r) ==
  /\ \/ StartRevokeAll(r, "password", "password")
     \/ End(r, "password")
  /\ UNCHANGED <<tokenVars, status, purging>>

(* RefreshTokenService.revokeOthers *)
Others(r) == Unrevoked(usr[r]) \ {tok[r]}

RevokeOthersSelect(r) ==
  /\ \/ Others(r) = {} /\ Goto(r, "others", "othersDone")
     \/ Others(r) # {} /\ Goto(r, "others", "othersUpdate")
  /\ UNCHANGED <<tokenVars, reqVars, status, purging>>

RevokeOthersUpdate(r) ==
  /\ Goto(r, "othersUpdate", "othersDone")
  /\ SetRevoked(Others(r))
  /\ UNCHANGED <<reqVars, status, purging>>

(* the response of an operation that reports what it revoked *)
Respond(r) ==
  /\ pc[r] \in {"raDone", "kickDone", "othersDone"}
  /\ End(r, pc[r])
  /\ UNCHANGED <<tokenVars, status, purging>>

(* where Jti bounds the ids, a request left without a fresh one is dropped *)
Abort(r) ==
  /\ Aborts \/ (pc[r] \in {"insert", "rotate"} /\ Unused = {})
  /\ pc[r] # "idle"
  /\ End(r, pc[r])
  /\ UNCHANGED <<tokenVars, status, purging>>

Clock ==
  /\ now < MaxNow
  /\ Tick
  /\ UNCHANGED <<status, pc, reqVars, purging>>
-----------------------------------------------------------------------------
(* a request that has arrived, up to its response *)
Step(r) ==
  \/ RevokeDeviceSessions(r)
  \/ SessionLimitRead(r)
  \/ SessionLimitEvict(r)
  \/ \E j \in Jti : IssueInsert(r, j)
  \/ RefreshCheck(r)
  \/ RefreshFindUser(r)
  \/ \E j \in Jti : RefreshRotate(r, j)
  \/ RefreshConflict(r)
  \/ RevokeAllSelect(r)
  \/ RevokeAllUpdate(r)
  \/ KickUpdate(r)
  \/ GuardCheck(r)
  \/ GuardFindUser(r)
  \/ ChangePassword(r)
  \/ RevokeOthersSelect(r)
  \/ RevokeOthersUpdate(r)
  \/ Respond(r)

Arrive(r) ==
  \/ \E u \in User, d \in Device \cup {NoDevice} : LoginVerified(r, u, d)
  \/ \E j \in Jti, d \in Device \cup {NoDevice} : RefreshBegin(r, j, d)
  \/ \E u \in User : ForceLogout(r, u)
  \/ \E u \in User, s \in {"disabled", "deleted"} : Deactivate(r, u, s)
  \/ \E j \in Jti : KickSelect(r, j)
  \/ \E j \in Jti, o \in {"others", "password"} : GuardBegin(r, o, j)

Next ==
  \/ \E r \in Req : Arrive(r) \/ Step(r) \/ Abort(r)
  \/ \E u \in User : PurgeExpired(u) \/ Reactivate(u)
  \/ \E j \in Jti : Logout(j) \/ CleanUp(j)
  \/ Clock

Spec == Init /\ [][Next]_vars

(* Node runs a request to its response as long as the process lives and its *)
(* statements return: no statement here waits for another request           *)
FairSpec == Spec /\ \A r \in Req : WF_vars(Step(r))
-----------------------------------------------------------------------------
(***************************************************************************)
(* Properties                                                              *)
(***************************************************************************)

(* A refresh token is exchanged at most once, ever: no two tokens come from *)
(* the same one (rotate's conditional UPDATE, refresh-token.service.ts).    *)
SingleUse ==
  \A i, j \in Jti : from[i] = from[j] /\ from[i] # NoJti => i = j

(* A session never has two usable tokens, whatever refreshes, logouts and   *)
(* revocations interleave: a copied token never runs beside the original.   *)
OneLiveToken ==
  \A i, j \in Jti :
    row[i].st = "live" /\ row[j].st = "live" /\ root[i] = root[j] => i = j

(* replaced_by_jti tells reuse from plain revocation: a row carries it iff  *)
(* a successor of the same account and session was really inserted, and     *)
(* never while the row is still usable.                                     *)
ReuseEvidence ==
  /\ \A i, j \in Jti : row[i].next = j <=> from[j] = i
  /\ \A i \in Jti, j \in Jti : from[j] = i =>
       /\ row[i].st # "live"
       /\ row[j].st # "unborn"
       /\ row[i].user = row[j].user
       /\ root[i] = root[j]

(* When revokeAllForUser or revokeOthers has returned, no session it found  *)
(* at its start is usable again, under whichever token a refresh that ran   *)
(* at the same time gave it.  When revokeOwned has returned, the session it *)
(* kicked is over, unless a refresh had exchanged the kicked token between  *)
(* its SELECT and its UPDATE: the UPDATE then meets the exchanged row only. *)
RevocationComplete ==
  /\ \A r \in Req : pc[r] \in {"raDone", "othersDone"} =>
       \A j \in Jti : row[j].st = "live" => root[j] \notin doomed[r]
  /\ \A r \in Req : pc[r] = "kickDone" /\ row[tok[r]].next = NoJti =>
       \A j \in Jti : row[j].st = "live" => root[j] # root[tok[r]]

(* The session limit is read before the INSERT it protects, so logins that  *)
(* run at once can pass it together; they exceed it by no more than their   *)
(* number, less one.                                                        *)
LimitOvershoot ==
  \A u \in User : Cardinality(Active(u)) < MaxSessions + Cardinality(Req)

(* An account being deactivated cannot slip a refresh past it: a refresh    *)
(* that read the account as active can only still succeed while the         *)
(* deactivation has yet to revoke the sessions.                             *)
NoRenewalAfterDeactivation ==
  \A r \in Req :
    pc[r] = "rotate" /\ status[usr[r]] # "active" /\ row[tok[r]].st = "live" =>
      \E q \in Req : /\ op[q] = "status"
                     /\ usr[q] = usr[r]
                     /\ pc[q] \in {"raSelect", "raUpdate"}

(* Once a revocation of all sessions has begun, every token its account     *)
(* then has stops being usable.                                             *)
RevocationTakesEffect ==
  \A r \in Req, j \in Jti :
    pc[r] = "raSelect" /\ row[j].st = "live" /\ row[j].user = usr[r]
      ~> row[j].st # "live"

(* The requests above, in any interleaving, implement SessionFamilies: every *)
(* statement opens a session, passes one on to a fresh token, ends some, or  *)
(* changes none.                                                             *)
LiveOf(f) == {j \in Jti : row[j].st = "live" /\ root[j] = f}

Families == INSTANCE SessionFamilies WITH
  holder <- [f \in Jti |-> IF LiveOf(f) = {} THEN NoJti
                           ELSE CHOOSE j \in LiveOf(f) : TRUE],
  issued <- Jti \ Unused

FamiliesSpec == Families!FSpec

(* What check()'s comment promises: a token that was logged out or kicked   *)
(* fails alone; all sessions are revoked for reuse only.                    *)
OnlyReuseCascades ==
  \A r \in Req : pc[r] = "raSelect" /\ op[r] = "reuse" =>
    row[tok[r]].next # NoJti
=============================================================================
