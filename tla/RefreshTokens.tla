--------------------------- MODULE RefreshTokens ---------------------------
(***************************************************************************)
(* The refresh_tokens table and the SQL statements of RefreshTokenService  *)
(* (apps/api/src/modules/auth/refresh-token.service.ts).  Each operator    *)
(* below is one statement, or one transaction, as MySQL executes it: they  *)
(* are the atomic steps that AuthSessions interleaves.                     *)
(*                                                                         *)
(* A jti is a random UUID, so an INSERT takes any jti never used before.   *)
(* A row that was deleted keeps its last columns with st = "gone", as      *)
(* history: no statement reads the columns of an absent row.               *)
(***************************************************************************)
EXTENDS Naturals, FiniteSets

CONSTANTS
  User,         \* accounts
  Jti,          \* token identifiers (the bound on how many are ever issued)
  Device,       \* (ip, user agent) pairs of clients
  NoDevice,     \* a client that sent no ip or no user agent
  NoJti,        \* SQL NULL in replaced_by_jti
  MaxSessions,  \* MAX_SESSIONS_PER_USER
  Ttl           \* JWT_REFRESH_EXPIRES_IN, in clock ticks

ASSUME UserAssumption == User # {}
ASSUME NoJtiAssumption == NoJti \notin Jti
ASSUME MaxSessionsAssumption == MaxSessions \in Nat /\ MaxSessions > 1
ASSUME TtlAssumption == Ttl \in Nat /\ Ttl > 0

VARIABLES
  now,    \* the clock that created_at, expires_at and the queries compare with
  row,    \* row[j]: the row whose jti is j
  root,   \* history: root[j] is the login that opened j's session
  from    \* history: from[j] is the token exchanged for j, NoJti for a login

tokenVars == <<now, row, root, from>>

(* revoked_at is kept as the fact that it is set: "live" is revoked_at NULL *)
Row == [st: {"unborn", "live", "revoked", "gone"}, user: User,
        dev: Device \cup {NoDevice}, born: Nat, exp: Nat,
        next: Jti \cup {NoJti}]

Stored(j) == row[j].st \in {"live", "revoked"}
Unused == {j \in Jti : row[j].st = "unborn"}

(* WHERE user_id = u AND revoked_at IS NULL *)
Unrevoked(u) == {j \in Jti : row[j].st = "live" /\ row[j].user = u}

(* ... AND expires_at > now *)
Active(u) == {j \in Unrevoked(u) : row[j].exp > now}

NewRow(u, d, e) == [st |-> "live", user |-> u, dev |-> d, born |-> now,
                    exp |-> e, next |-> NoJti]

TokensInit ==
  /\ now = 0
  /\ row = [j \in Jti |-> [st |-> "unborn", user |-> CHOOSE u \in User : TRUE,
                           dev |-> NoDevice, born |-> 0, exp |-> 0,
                           next |-> NoJti]]
  /\ root = [j \in Jti |-> NoJti]
  /\ from = [j \in Jti |-> NoJti]

(***************************************************************************)
(* Statements                                                              *)
(***************************************************************************)

(* UPDATE ... SET revoked_at = CURRENT_TIMESTAMP WHERE jti IN S *)
SetRevoked(S) ==
  /\ row' = [j \in Jti |-> IF j \in S THEN [row[j] EXCEPT !.st = "revoked"]
                                      ELSE row[j]]
  /\ UNCHANGED <<now, root, from>>

(* DELETE ... WHERE jti IN S *)
DeleteRows(S) ==
  /\ row' = [j \in Jti |-> IF j \in S THEN [row[j] EXCEPT !.st = "gone"]
                                      ELSE row[j]]
  /\ UNCHANGED <<now, root, from>>

(* issue(): INSERT of the first token of a session *)
InsertLogin(j, u, d, e) ==
  /\ j \in Unused
  /\ row' = [row EXCEPT ![j] = NewRow(u, d, e)]
  /\ root' = [root EXCEPT ![j] = j]
  /\ UNCHANGED <<now, from>>

(* revokeDeviceSessions(): rows of the same device, none without device data *)
DeviceSessions(u, d) ==
  {j \in Active(u) : d # NoDevice /\ row[j].dev = d}

(* enforceSessionLimit(): the newest MaxSessions - 1 of the SELECT's rows.   *)
(* Rows of one second have no order among them, so any such set may result. *)
Newest(S) ==
  {K \in SUBSET S :
     /\ Cardinality(K) = MaxSessions - 1
     /\ \A k \in K, j \in S \ K : row[k].born >= row[j].born}

(* check(): what the row of a presented jti says *)
CheckResult(j) ==
  CASE ~Stored(j) -> "unknown"
    [] row[j].st = "revoked" /\ row[j].next # NoJti -> "reused"
    [] row[j].st = "revoked" /\ row[j].next = NoJti -> "revoked"
    [] row[j].st = "live" /\ row[j].exp <= now -> "expired"
    [] OTHER -> "ok"

(* mutation: the UPDATE has no condition *)
RotateAnyRow(old, new, u, d, e) ==
  /\ new \in Unused
  /\ row' = [row EXCEPT ![new] = NewRow(u, d, e),
                        ![old] = [@ EXCEPT !.st = "revoked", !.next = new]]
  /\ root' = [root EXCEPT ![new] = root[old]]
  /\ from' = [from EXCEPT ![new] = old]
  /\ UNCHANGED now

(* mutation: the condition tests replaced_by_jti instead of revoked_at *)
RotateUnreplacedRow(old, new, u, d, e) == row[old].next = NoJti
                                       /\ RotateAnyRow(old, new, u, d, e)

(* mutation: the old row is linked to its successor but stays usable *)
RotateKeepsOldRow(old, new, u, d, e) ==
  /\ row[old].st = "live"
  /\ new \in Unused
  /\ row' = [row EXCEPT ![new] = NewRow(u, d, e), ![old].next = new]
  /\ root' = [root EXCEPT ![new] = root[old]]
  /\ from' = [from EXCEPT ![new] = old]
  /\ UNCHANGED now

(* mutation: no transaction, and the INSERT is lost *)
RotateLosesInsert(old, new, u, d, e) ==
  /\ row[old].st = "live"
  /\ new \in Unused
  /\ row' = [row EXCEPT ![old] = [@ EXCEPT !.st = "revoked", !.next = new]]
  /\ UNCHANGED <<now, root, from>>

(* rotate(): one transaction, INSERT new and conditional UPDATE of old *)
RotateRow(old, new, u, d, e) ==
  /\ row[old].st = "live"
  /\ new \in Unused
  /\ row' = [row EXCEPT ![new] = NewRow(u, d, e),
                        ![old] = [@ EXCEPT !.st = "revoked", !.next = new]]
  /\ root' = [root EXCEPT ![new] = root[old]]
  /\ from' = [from EXCEPT ![new] = old]
  /\ UNCHANGED now

(* ... whose UPDATE affects no row: the transaction rolls back *)
RotateConflicts(old) == row[old].st # "live"

(* purgeExpired(): DELETE WHERE user_id = u AND expires_at < now *)
Expired(u) == {j \in Jti : Stored(j) /\ row[j].user = u /\ row[j].exp < now}

(* the clock of the database and of the API process *)
Tick ==
  /\ now' = now + 1
  /\ UNCHANGED <<row, root, from>>
=============================================================================
