---------------------------- MODULE LoginLockout ----------------------------
(***************************************************************************)
(* Failure counting and lock of apps/api/src/common/login-lockout, with    *)
(* the login that calls it (AuthService.login) and the administrator's     *)
(* unlock.  The counter and the lock are Redis keys that expire; the lock  *)
(* of a known account is to be copied to users.locked_until.               *)
(*                                                                         *)
(* The keys of a failure and of a check are those of the username as typed *)
(* (auth.service.ts:81, 98); the users table is compared without regard to *)
(* case (utf8mb4_unicode_ci), so one account has many spellings, and a     *)
(* success clears the keys of the stored one alone (auth.service.ts:116).  *)
(*                                                                         *)
(* Each action is one call to Redis or MySQL.  A Redis call may fail, with *)
(* or without effect on the server, and every failure is swallowed: a      *)
(* deployment without Redis is one whose every call fails.  A call whose   *)
(* answer was lost with the connection may be sent again by ioredis.       *)
(***************************************************************************)
EXTENDS Naturals, FiniteSets

CONSTANTS
  Name,         \* usernames as they are typed
  Stored,       \* Stored[n]: the username of the account MySQL finds for n
  NoName,       \* of an account that is not found
  Req,          \* request slots
  MaxFailures, Window, Duration,   \* the policy, in failures and ticks
  Faults,       \* BOOLEAN: whether a call may fail
  MaxNow,       \* bound on the clock
  MaxCount      \* bound on the passwords tested while no call has failed

ASSUME NameAssumption ==
  /\ NoName \notin Name
  /\ Stored \in [Name -> Name \cup {NoName}]
  /\ \A n \in Name : Stored[n] \in Name => Stored[Stored[n]] = Stored[n]
ASSUME PolicyAssumption ==
  /\ MaxFailures \in Nat \ {0}
  /\ Window \in Nat \ {0}
  /\ Duration \in Nat \ {0}
ASSUME FaultsAssumption == Faults \in BOOLEAN
ASSUME BoundAssumption == MaxNow \in Nat /\ MaxCount \in Nat
ASSUME ReqAssumption == IsFiniteSet(Req)

(* the usernames of the accounts *)
Known == {n \in Name : Stored[n] = n}

VARIABLES
  now,      \* the clock of Redis, MySQL and Node
  count,    \* count[n]: the value of the counter key of n
  countExp, \* when it expires; the key exists while this is in the future
  lockExp,  \* when the lock key of n expires
  dbLock,   \* users.locked_until of an account, 0 for NULL
  pc,       \* the call request r makes next
  name,     \* the username of request r, as typed
  blind,    \* history: r could not read the lock key
  stale,    \* history: n was locked after r looked
  tested,   \* history: passwords found wrong since the counter was last absent
            \* or the lock last expired
  told,     \* history: until when the last lock reported for n was to hold
  faulty    \* history: a Redis call, or the reading of the policy, has failed

vars == <<now, count, countExp, lockExp, dbLock, pc, name, blind, stale, tested,
          told, faulty>>
keyVars == <<count, countExp, lockExp>>

Never == MaxNow + Window + Duration   \* a key without time to live

TypeOK ==
  /\ now \in Nat
  /\ count \in [Name -> Nat]
  /\ countExp \in [Name -> Nat]
  /\ lockExp \in [Name -> Nat]
  /\ dbLock \in [Known -> Nat]
  /\ pc \in [Req -> {"idle", "pttl", "compare", "incr", "setLock", "dbLock",
                     "del", "dbClear"}]
  /\ name \in [Req -> Name \cup {NoName}]
  /\ blind \in [Req -> BOOLEAN]
  /\ stale \in [Req -> BOOLEAN]
  /\ tested \in [Name -> Nat]
  /\ told \in [Name -> Nat]
  /\ faulty \in BOOLEAN
  /\ \A r \in Req : pc[r] # "idle" => name[r] \in Name
  /\ \A r \in Req : pc[r] \in {"dbLock", "del", "dbClear"} => Stored[name[r]] \in Known

Init ==
  /\ now = 0
  /\ count = [n \in Name |-> 0]
  /\ countExp = [n \in Name |-> 0]
  /\ lockExp = [n \in Name |-> 0]
  /\ dbLock = [n \in Known |-> 0]
  /\ pc = [r \in Req |-> "idle"]
  /\ name = [r \in Req |-> NoName]
  /\ blind = [r \in Req |-> FALSE]
  /\ stale = [r \in Req |-> FALSE]
  /\ tested = [n \in Name |-> 0]
  /\ told = [n \in Name |-> 0]
  /\ faulty = FALSE

Held(n) == lockExp[n] > now
Counted(n) == IF countExp[n] > now THEN count[n] ELSE 0

Goto(r, at, to) == pc[r] = at /\ pc' = [pc EXCEPT ![r] = to]
Stay == UNCHANGED <<name, blind, stale>>
End(r, at) ==
  /\ Goto(r, at, "idle")
  /\ name' = [name EXCEPT ![r] = NoName]
  /\ blind' = [blind EXCEPT ![r] = FALSE]
  /\ stale' = [stale EXCEPT ![r] = FALSE]

(* a call that answers, and one that fails *)
Answers == UNCHANGED faulty
Fails == Faults /\ faulty' = TRUE

(***************************************************************************)
(* AuthService.login                                                       *)
(***************************************************************************)

(* the credentials are read, and their locked_until tested; a login that   *)
(* locked_until refuses changes nothing                                    *)
LoginBegin(r, n) ==
  /\ faulty \/ tested[n] < MaxCount
  /\ Stored[n] \in Known => dbLock[Stored[n]] <= now
  /\ Goto(r, "idle", "pttl")
  /\ name' = [name EXCEPT ![r] = n]
  /\ UNCHANGED <<now, keyVars, dbLock, blind, stale, tested, told, faulty>>

(* mutation: the remaining time is rounded down, to "not locked" *)
CheckLockedRoundsDown(r) ==
  /\ pc[r] = "pttl"
  /\ \/ lockExp[name[r]] > now + 1 /\ End(r, "pttl") /\ Answers
     \/ lockExp[name[r]] <= now + 1 /\ Goto(r, "pttl", "compare") /\ Answers /\ Stay
     \/ /\ Goto(r, "pttl", "compare") /\ Fails
        /\ blind' = [blind EXCEPT ![r] = TRUE]
        /\ UNCHANGED <<name, stale>>
  /\ UNCHANGED <<now, keyVars, dbLock, tested, told>>

(* checkLocked(): PTTL of the lock key *)
CheckLocked(r) ==
  /\ pc[r] = "pttl"
  /\ \/ Held(name[r]) /\ End(r, "pttl") /\ Answers
     \/ ~Held(name[r]) /\ Goto(r, "pttl", "compare") /\ Answers /\ Stay
     \/ /\ Goto(r, "pttl", "compare") /\ Fails
        /\ blind' = [blind EXCEPT ![r] = TRUE]
        /\ UNCHANGED <<name, stale>>
  /\ UNCHANGED <<now, keyVars, dbLock, tested, told>>

(* mutation: an unknown name is no longer told from an account *)
VerifyPasswordUnknown(r) ==
  /\ \/ /\ Goto(r, "compare", "incr") /\ Stay
        /\ tested' = [tested EXCEPT ![name[r]] = @ + 1]
     \/ /\ Goto(r, "compare", "del") /\ Stay
        /\ UNCHANGED tested
  /\ UNCHANGED <<now, keyVars, dbLock, told, faulty>>

(* wrong password or unknown name; disabled account, or a last login that  *)
(* could not be written; right password                                    *)
VerifyPassword(r) ==
  /\ pc[r] = "compare"
  /\ \/ /\ Goto(r, "compare", "incr") /\ Stay
        /\ tested' = [tested EXCEPT ![name[r]] = @ + 1]
     \/ /\ Stored[name[r]] \in Known
        /\ End(r, "compare")
        /\ UNCHANGED tested
     \/ /\ Stored[name[r]] \in Known
        /\ Goto(r, "compare", "del") /\ Stay
        /\ UNCHANGED tested
  /\ UNCHANGED <<now, keyVars, dbLock, told, faulty>>

(***************************************************************************)
(* LoginLockoutService.recordFailure                                       *)
(***************************************************************************)

Incr(n) == count' = [count EXCEPT ![n] = Counted(n) + 1]
Pexpire(n, t) == countExp' = [countExp EXCEPT ![n] = t]

(* mutation: the threshold is passed only by the failure after it *)
TallyLate(r, n) ==
  \/ Counted(n) + 1 <= MaxFailures /\ End(r, "incr")
  \/ Counted(n) + 1 > MaxFailures /\ Goto(r, "incr", "setLock") /\ Stay

(* the answer of INCR against the threshold *)
Tally(r, n) ==
  \/ Counted(n) + 1 < MaxFailures /\ End(r, "incr")
  \/ Counted(n) + 1 >= MaxFailures /\ Goto(r, "incr", "setLock") /\ Stay

(* the pipeline INCR, PEXPIRE is not a transaction: when it fails, the      *)
(* server has executed none of it, the INCR alone, or both, and the answer  *)
(* of the INCR may have arrived; or it is sent again.  Before it the policy *)
(* is read, and an error of that leaves the failure uncounted.              *)
RecordFailure(r) ==
  LET n == name[r] IN
  /\ pc[r] = "incr"
  /\ \/ Incr(n) /\ Pexpire(n, now + Window) /\ Answers /\ Tally(r, n)
     \/ UNCHANGED <<count, countExp>> /\ Fails /\ End(r, "incr")
     \/ /\ Incr(n)
        /\ \/ Pexpire(n, now + Window)
           \/ Pexpire(n, IF Counted(n) = 0 THEN Never ELSE countExp[n])
        /\ Fails
        /\ \/ Tally(r, n)
           \/ End(r, "incr")
           \/ UNCHANGED pc /\ Stay
  /\ UNCHANGED <<now, lockExp, dbLock, tested, told>>

(* the answer reports the lock whether or not it was written *)
Report(r) ==
  /\ told' = [told EXCEPT ![name[r]] = now + Duration]
  /\ End(r, pc[r])

Looked(n) == {q \in Req : name[q] = n /\ pc[q] \in {"compare", "del"}}

(* SET of the lock key *)
SetKey(r) ==
  /\ lockExp' = [lockExp EXCEPT ![name[r]] = now + Duration]
  /\ stale' = [q \in Req |-> q # r /\ (stale[q] \/ q \in Looked(name[r]))]

(* with or without a key the failure of an account goes on to the users    *)
(* table, that of an unknown name is reported                              *)
Locked(r) ==
  \/ /\ Stored[name[r]] \in Known
     /\ pc' = [pc EXCEPT ![r] = "dbLock"]
     /\ UNCHANGED <<name, blind, told>>
  \/ /\ Stored[name[r]] \notin Known
     /\ told' = [told EXCEPT ![name[r]] = now + Duration]
     /\ pc' = [pc EXCEPT ![r] = "idle"]
     /\ name' = [name EXCEPT ![r] = NoName]
     /\ blind' = [blind EXCEPT ![r] = FALSE]

SetLock(r) ==
  /\ pc[r] = "setLock"
  /\ \/ SetKey(r) /\ (Answers \/ Fails) /\ Locked(r)
     \/ /\ stale' = [stale EXCEPT ![r] = FALSE]
        /\ UNCHANGED lockExp
        /\ Fails /\ Locked(r)
     \/ SetKey(r) /\ Fails /\ UNCHANGED <<pc, name, blind, told>>
  /\ UNCHANGED <<now, count, countExp, dbLock, tested>>

(* UPDATE users SET locked_until = DATE_ADD(NOW(), INTERVAL ? SECOND): the  *)
(* statement has one placeholder more than values, so MySQL refuses it, and *)
(* the error is logged                                                      *)
WriteLockedUntil(r) ==
  /\ pc[r] = "dbLock"
  /\ Report(r)
  /\ UNCHANGED <<now, keyVars, dbLock, tested, faulty>>

(***************************************************************************)
(* clearOnSuccess, clearLock                                               *)
(***************************************************************************)

(* DEL of both keys *)
DeleteKeys(n) ==
  /\ count' = [count EXCEPT ![n] = 0]
  /\ countExp' = [countExp EXCEPT ![n] = 0]
  /\ lockExp' = [lockExp EXCEPT ![n] = 0]
  /\ tested' = [tested EXCEPT ![n] = 0]
  /\ told' = [told EXCEPT ![n] = 0]

Clear(r) ==
  LET n == Stored[name[r]] IN
  /\ pc[r] = "del" /\ Stay
  /\ \/ DeleteKeys(n) /\ (Answers \/ Fails) /\ Goto(r, "del", "dbClear")
     \/ UNCHANGED <<keyVars, tested, told>> /\ Fails /\ Goto(r, "del", "dbClear")
     \/ DeleteKeys(n) /\ Fails /\ UNCHANGED pc
  /\ UNCHANGED <<now, dbLock>>

(* UserService.unlock reads the account, then the same two calls; a DEL     *)
(* sent again is as good as an unlock begun again                           *)
Unlock(r, n) ==
  /\ Goto(r, "idle", "dbClear")
  /\ name' = [name EXCEPT ![r] = n]
  /\ \/ DeleteKeys(n) /\ (Answers \/ Fails)
     \/ UNCHANGED <<keyVars, tested, told>> /\ Fails
  /\ UNCHANGED <<now, dbLock, blind, stale>>

ClearLockedUntil(r) ==
  /\ End(r, "dbClear")
  /\ \/ dbLock' = [dbLock EXCEPT ![Stored[name[r]]] = 0] /\ (Answers \/ Fails)
     \/ UNCHANGED dbLock /\ Fails
  /\ UNCHANGED <<now, keyVars, tested, told>>

(* a key that expires with this tick is gone after it *)
Clock ==
  LET Expires(e) == now < e /\ e <= now + 1 IN
  /\ now < MaxNow
  /\ now' = now + 1
  /\ tested' = [n \in Name |-> IF Expires(countExp[n]) \/ Expires(lockExp[n])
                               THEN 0 ELSE tested[n]]
  /\ UNCHANGED <<keyVars, dbLock, pc, name, blind, stale, told, faulty>>
-----------------------------------------------------------------------------
Step(r) ==
  \/ \E n \in Name : LoginBegin(r, n)
  \/ CheckLocked(r)
  \/ VerifyPassword(r)
  \/ RecordFailure(r)
  \/ SetLock(r)
  \/ WriteLockedUntil(r)
  \/ Clear(r)
  \/ \E n \in Known : Unlock(r, n)
  \/ ClearLockedUntil(r)

Next == Clock \/ \E r \in Req : Step(r)

Spec == Init /\ [][Next]_vars
-----------------------------------------------------------------------------
(* However logins interleave, the passwords tested under one spelling of a  *)
(* name before it is locked, or between two locks, exceed the threshold by  *)
(* at most the requests that were past the check when the lock was set,     *)
(* unless Redis or the policy's reading failed.  An account has such a      *)
(* bound for each of its spellings, not one of its own.                     *)
GuessBound ==
  ~faulty => \A n \in Name : tested[n] < MaxFailures + Cardinality(Req)

(* A lock ends before its time only by an administrator who unlocks the     *)
(* account stored under that name, or by a right password for it: of a      *)
(* login that was past the check when the lock was set, that could not read *)
(* the lock at all, or that checked the lock of another spelling.  The lock *)
(* of a name that is nobody's stored one never ends before its time.        *)
EndsEarly(n) == Held(n) /\ now' = now /\ ~Held(n)'

LockEndsForACause ==
  [][\A n \in Name : EndsEarly(n) =>
       \E r \in Req :
         \/ pc[r] = "idle" /\ pc'[r] = "dbClear" /\ name'[r] = n /\ n \in Known
         \/ /\ pc[r] = "del" /\ Stored[name[r]] = n
            /\ stale[r] \/ blind[r] \/ name[r] # n]_vars

(* What the service's comment promises: a lock that was reported for an     *)
(* account is in the database as well, so that it holds without Redis.      *)
ReportedLockIsPersisted ==
  \A n \in Name :
    Stored[n] \in Known /\ told[n] > now => dbLock[Stored[n]] > now
=============================================================================
