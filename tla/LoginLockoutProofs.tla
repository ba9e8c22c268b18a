------------------------- MODULE LoginLockoutProofs -------------------------
(***************************************************************************)
(* Proofs about LoginLockout for any names, requests, policy and clock.    *)
(***************************************************************************)
EXTENDS LoginLockout, TLAPS, FiniteSetTheorems

(* A request that is past the check of a name that is now locked was locked *)
(* out after it looked, or could not look.                                  *)
PastCheck ==
  \A r \in Req : pc[r] \in {"compare", "del"} /\ Held(name[r]) =>
    stale[r] \/ blind[r]

IInv == TypeOK /\ PastCheck

(* the two halves of TypeOK: the keys and columns, and the requests *)
StoreOK ==
  /\ now \in Nat
  /\ count \in [Name -> Nat] /\ countExp \in [Name -> Nat]
  /\ lockExp \in [Name -> Nat] /\ dbLock \in [Known -> Nat]
  /\ tested \in [Name -> Nat] /\ told \in [Name -> Nat]
  /\ faulty \in BOOLEAN

RequestsOK ==
  /\ pc \in [Req -> {"idle", "pttl", "compare", "incr", "setLock", "dbLock",
                     "del", "dbClear"}]
  /\ name \in [Req -> Name \cup {NoName}]
  /\ blind \in [Req -> BOOLEAN] /\ stale \in [Req -> BOOLEAN]
  /\ \A r \in Req : pc[r] # "idle" => name[r] \in Name
  /\ \A r \in Req : pc[r] \in {"dbLock", "del", "dbClear"} => Stored[name[r]] \in Known

LEMMA Halves == (TypeOK <=> StoreOK /\ RequestsOK) /\ (TypeOK' <=> StoreOK' /\ RequestsOK')
BY DEF TypeOK, StoreOK, RequestsOK

LEMMA KnownNames == Known \subseteq Name
BY DEF Known

USE KnownNames, NameAssumption, PolicyAssumption, BoundAssumption, FaultsAssumption

LEMMA InitInv == Init => IInv
<1> SUFFICES ASSUME Init PROVE IInv
  OBVIOUS
<1>1. TypeOK
  BY DEF Init, TypeOK
<1>2. PastCheck
  BY DEF Init, PastCheck
<1>3. QED BY <1>1, <1>2 DEF IInv

(* requests other than r keep what PastCheck reads, unless r locks          *)
LEMMA LoginInv ==
  ASSUME IInv, NEW r \in Req
  PROVE  /\ \A n \in Name : LoginBegin(r, n) => IInv'
         /\ CheckLocked(r) => IInv'
         /\ VerifyPassword(r) => IInv'
<1> USE DEF IInv, TypeOK, Held, Goto, Stay, End, Answers, Fails, keyVars
<1>1. ASSUME NEW n \in Name, LoginBegin(r, n) PROVE IInv'
  <2>1. TypeOK'
    BY <1>1 DEF LoginBegin
  <2>2. PastCheck'
    BY <1>1 DEF LoginBegin, PastCheck
  <2>3. QED BY <2>1, <2>2
<1>2. ASSUME CheckLocked(r) PROVE IInv'
  <2>1. TypeOK'
    BY <1>2, FaultsAssumption, ZenonT(60) DEF CheckLocked
  <2>2. PastCheck'
    BY <1>2 DEF CheckLocked, PastCheck
  <2>3. QED BY <2>1, <2>2
<1>3. ASSUME VerifyPassword(r) PROVE IInv'
  <2>1. TypeOK'
    <3>1. name[r] \in Name
      BY <1>3 DEF VerifyPassword
    <3>2. StoreOK'
      BY <1>3, <3>1 DEF VerifyPassword, StoreOK
    <3>3. RequestsOK'
      BY <1>3, ZenonT(60) DEF VerifyPassword, RequestsOK
    <3>4. QED BY <3>2, <3>3, Halves
  <2>2. PastCheck'
    BY <1>3 DEF VerifyPassword, PastCheck
  <2>3. QED BY <2>1, <2>2
<1>4. QED BY <1>1, <1>2, <1>3

LEMMA FailureInv ==
  ASSUME IInv, NEW r \in Req
  PROVE  /\ RecordFailure(r) => IInv'
         /\ SetLock(r) => IInv'
         /\ WriteLockedUntil(r) => IInv'
<1> USE DEF IInv, TypeOK, Held, Goto, Stay, End, Answers, Fails, keyVars
<1>1. ASSUME RecordFailure(r) PROVE IInv'
  <2>1. name[r] \in Name /\ Counted(name[r]) \in Nat /\ Never \in Nat
    BY <1>1 DEF RecordFailure, Counted, Never
  <2>2. TypeOK'
    <3>1. StoreOK'
      <4>1. faulty' \in BOOLEAN
        BY <1>1, <2>1, Zenon DEF RecordFailure
      <4>2. /\ now' = now /\ UNCHANGED dbLock
            /\ count' \in [Name -> Nat] /\ countExp' \in [Name -> Nat]
            /\ lockExp' \in [Name -> Nat]
            /\ tested' \in [Name -> Nat] /\ told' \in [Name -> Nat]
        BY <1>1, <2>1 DEF RecordFailure, Incr, Pexpire
      <4>3. QED BY <4>1, <4>2 DEF StoreOK
    <3>2. RequestsOK'
      BY <1>1, <2>1, ZenonT(60) DEF RecordFailure, Tally, RequestsOK
    <3>3. QED BY <3>1, <3>2, Halves
  <2>3. PastCheck'
    BY <1>1 DEF RecordFailure, Tally, PastCheck
  <2>4. QED BY <2>2, <2>3
<1>2. ASSUME SetLock(r) PROVE IInv'
  <2>1. name[r] \in Name /\ pc[r] = "setLock"
    BY <1>2 DEF SetLock, SetKey, Locked
  <2>2. TypeOK'
    <3>1. StoreOK'
      <4>1. faulty' \in BOOLEAN
        BY <1>2, <2>1, Zenon DEF SetLock, SetKey, Locked
      <4>2. /\ now' = now /\ UNCHANGED dbLock
            /\ count' \in [Name -> Nat] /\ countExp' \in [Name -> Nat]
            /\ lockExp' \in [Name -> Nat]
            /\ tested' \in [Name -> Nat] /\ told' \in [Name -> Nat]
        BY <1>2, <2>1 DEF SetLock, SetKey, Locked
      <4>3. QED BY <4>1, <4>2 DEF StoreOK
    <3>2. RequestsOK'
      <4>1. stale' \in [Req -> BOOLEAN]
        BY <1>2, <2>1 DEF SetLock, SetKey
      <4>2. CASE Locked(r)
        <5>1. /\ pc' \in [Req -> {"idle", "pttl", "compare", "incr", "setLock", "dbLock",
                                "del", "dbClear"}]
              /\ name' \in [Req -> Name \cup {NoName}]
              /\ blind' \in [Req -> BOOLEAN]
          BY <1>2, <4>2 DEF SetLock, Locked
        <5>2. \A q \in Req : q # r => pc'[q] = pc[q] /\ name'[q] = name[q]
          BY <4>2 DEF Locked
        <5>3. \/ pc'[r] = "dbLock" /\ name'[r] = name[r] /\ Stored[name[r]] \in Known
              \/ pc'[r] = "idle"
          BY <4>2 DEF Locked
        <5>4. QED BY <2>1, <4>1, <5>1, <5>2, <5>3, ZenonT(60) DEF RequestsOK
      <4>3. CASE UNCHANGED <<pc, name, blind>>
        BY <4>1, <4>3 DEF RequestsOK
      <4>4. QED BY <1>2, <4>2, <4>3, Zenon DEF SetLock
    <3>3. QED BY <3>1, <3>2, Halves
  <2>3. PastCheck'
    <3> SUFFICES ASSUME NEW q \in Req, pc'[q] \in {"compare", "del"},
                        name'[q] \in Name, lockExp'[name'[q]] > now'
                 PROVE  stale'[q] \/ blind'[q]
      BY <2>2 DEF PastCheck
    <3>1. /\ q # r /\ pc[q] = pc'[q] /\ name[q] = name'[q]
          /\ blind[q] = blind'[q] /\ now' = now
      BY <1>2, <2>1 DEF SetLock, SetKey, Locked
    <3>2. CASE lockExp' = lockExp
      <4>1. stale[q] \/ blind[q]
        BY <3>1, <3>2 DEF PastCheck
      <4>2. stale[q] => stale'[q]
        BY <1>2, <3>1 DEF SetLock, SetKey, Locked
      <4>3. QED BY <4>1, <4>2, <3>1
    <3>3. CASE /\ lockExp' = [lockExp EXCEPT ![name[r]] = now + Duration]
               /\ stale' = [p \in Req |-> p # r /\ (stale[p] \/ p \in Looked(name[r]))]
      <4>1. CASE name[q] = name[r]
        BY <3>1, <3>3, <4>1 DEF Looked
      <4>2. CASE name[q] # name[r]
        <5>1. lockExp'[name[q]] = lockExp[name[q]]
          BY <3>1, <3>3, <4>2
        <5>2. stale[q] \/ blind[q]
          BY <3>1, <5>1 DEF PastCheck
        <5>3. QED BY <3>1, <3>3, <5>2
      <4>3. QED BY <4>1, <4>2
    <3>4. QED BY <1>2, <3>2, <3>3 DEF SetLock, SetKey, Locked
  <2>4. QED BY <2>2, <2>3
<1>3. ASSUME WriteLockedUntil(r) PROVE IInv'
  <2>1. TypeOK'
    BY <1>3 DEF WriteLockedUntil, Report
  <2>2. PastCheck'
    BY <1>3 DEF WriteLockedUntil, Report, PastCheck
  <2>3. QED BY <2>1, <2>2
<1>4. QED BY <1>1, <1>2, <1>3

LEMMA ClearInv ==
  ASSUME IInv, NEW r \in Req
  PROVE  /\ Clear(r) => IInv'
         /\ \A n \in Known : Unlock(r, n) => IInv'
         /\ ClearLockedUntil(r) => IInv'
<1> USE DEF IInv, TypeOK, Held, Goto, Stay, End, Answers, Fails, keyVars, DeleteKeys
<1>1. ASSUME Clear(r) PROVE IInv'
  <2>1. TypeOK'
    <3>1. name[r] \in Name
      BY <1>1 DEF Clear
    <3>2. StoreOK'
      <4>1. faulty' \in BOOLEAN
        BY <1>1, <3>1, Zenon DEF Clear
      <4>2. /\ now' = now /\ UNCHANGED dbLock
            /\ count' \in [Name -> Nat] /\ countExp' \in [Name -> Nat]
            /\ lockExp' \in [Name -> Nat]
            /\ tested' \in [Name -> Nat] /\ told' \in [Name -> Nat]
        BY <1>1, <3>1 DEF Clear
      <4>3. QED BY <4>1, <4>2 DEF StoreOK
    <3>3. RequestsOK'
      BY <1>1 DEF Clear, RequestsOK
    <3>4. QED BY <3>2, <3>3, Halves
  <2>2. PastCheck'
    BY <1>1 DEF Clear, PastCheck
  <2>3. QED BY <2>1, <2>2
<1>2. ASSUME NEW n \in Known, Unlock(r, n) PROVE IInv'
  <2>1. TypeOK'
    <3>1. StoreOK'
      <4>1. faulty' \in BOOLEAN
        BY <1>2, Zenon DEF Unlock
      <4>2. /\ now' = now /\ UNCHANGED dbLock
            /\ count' \in [Name -> Nat] /\ countExp' \in [Name -> Nat]
            /\ lockExp' \in [Name -> Nat]
            /\ tested' \in [Name -> Nat] /\ told' \in [Name -> Nat]
        BY <1>2 DEF Unlock
      <4>3. QED BY <4>1, <4>2 DEF StoreOK
    <3>2. RequestsOK'
      <4>1. Stored[n] \in Known
        BY DEF Known
      <4>2. QED BY <1>2, <4>1 DEF Unlock, RequestsOK
    <3>3. QED BY <3>1, <3>2, Halves
  <2>2. PastCheck'
    BY <1>2 DEF Unlock, PastCheck
  <2>3. QED BY <2>1, <2>2
<1>3. ASSUME ClearLockedUntil(r) PROVE IInv'
  <2>1. TypeOK'
    <3>1. faulty' \in BOOLEAN
      BY <1>3, Zenon DEF ClearLockedUntil
    <3>2. dbLock' \in [Known -> Nat]
      BY <1>3 DEF ClearLockedUntil
    <3>3. StoreOK'
      BY <1>3, <3>1, <3>2 DEF ClearLockedUntil, StoreOK
    <3>4. RequestsOK'
      BY <1>3 DEF ClearLockedUntil, RequestsOK
    <3>5. QED BY <3>3, <3>4, Halves
  <2>2. PastCheck'
    BY <1>3 DEF ClearLockedUntil, PastCheck
  <2>3. QED BY <2>1, <2>2
<1>4. QED BY <1>1, <1>2, <1>3

LEMMA NextInv == IInv /\ [Next]_vars => IInv'
<1> SUFFICES ASSUME IInv, [Next]_vars PROVE IInv'
  OBVIOUS
<1>1. ASSUME NEW r \in Req, Step(r) PROVE IInv'
  BY <1>1, LoginInv, FailureInv, ClearInv DEF Step
<1>2. CASE Clock
  <2>1. TypeOK'
    BY <1>2 DEF Clock, IInv, TypeOK, keyVars
  <2>2. PastCheck'
    BY <1>2 DEF Clock, IInv, TypeOK, PastCheck, Held, keyVars
  <2>3. QED BY <2>1, <2>2 DEF IInv
<1>3. CASE UNCHANGED vars
  BY <1>3 DEF vars, IInv, TypeOK, PastCheck, Held
<1>4. QED BY <1>1, <1>2, <1>3 DEF Next

(* Every variable keeps its type; only accounts reach the statements on the *)
(* users table.                                                             *)
THEOREM TypeCorrect == Spec => []TypeOK
<1>1. IInv => TypeOK
  BY DEF IInv
<1>2. QED BY InitInv, NextInv, <1>1, PTL DEF Spec

(* Whatever Redis does and however requests interleave, a lock that ends    *)
(* early is that of an account's stored name, and was ended by an           *)
(* administrator, or by a right password whose check was overtaken by the   *)
(* lock, could not be made, or was one of another spelling's lock.          *)
THEOREM LocksEndForACause == Spec => LockEndsForACause
<1> DEFINE Cause(n) ==
      \E r \in Req :
        \/ pc[r] = "idle" /\ pc'[r] = "dbClear" /\ name'[r] = n /\ n \in Known
        \/ /\ pc[r] = "del" /\ Stored[name[r]] = n
           /\ stale[r] \/ blind[r] \/ name[r] # n
<1>1. ASSUME IInv, Next, NEW n \in Name, EndsEarly(n) PROVE Cause(n)
  <2> USE DEF IInv, TypeOK, EndsEarly, Held
  <2>1. CASE Clock
    BY <1>1, <2>1 DEF Clock
  <2>2. ASSUME NEW r \in Req, Step(r) PROVE Cause(n)
    <3>1. CASE Clear(r)
      <4>1. pc[r] = "del"
        BY <3>1 DEF Clear
      <4>2. Stored[name[r]] = n
        BY <1>1, <3>1 DEF Clear, DeleteKeys, keyVars
      <4>3. name[r] = n => stale[r] \/ blind[r]
        BY <1>1, <4>1 DEF PastCheck
      <4>4. QED BY <4>1, <4>2, <4>3
    <3>2. ASSUME NEW m \in Known, Unlock(r, m) PROVE Cause(n)
      <4>1. pc[r] = "idle" /\ pc'[r] = "dbClear" /\ name'[r] = m
        BY <1>1, <3>2 DEF Unlock, Goto
      <4>2. m = n
        BY <1>1, <3>2 DEF Unlock, DeleteKeys, keyVars
      <4>3. QED BY <4>1, <4>2
    <3>3. CASE SetLock(r)
      BY <1>1, <3>3 DEF SetLock, SetKey
    <3>4. CASE \/ \E m \in Name : LoginBegin(r, m)
               \/ CheckLocked(r) \/ VerifyPassword(r) \/ RecordFailure(r)
               \/ WriteLockedUntil(r) \/ ClearLockedUntil(r)
      <4>1. lockExp' = lockExp
        BY <3>4 DEF LoginBegin, CheckLocked, VerifyPassword, RecordFailure,
                    WriteLockedUntil, ClearLockedUntil, keyVars
      <4>2. QED BY <1>1, <4>1
    <3>5. QED BY <2>2, <3>1, <3>2, <3>3, <3>4 DEF Step
  <2>3. QED BY <1>1, <2>1, <2>2 DEF Next
<1>2. IInv /\ [Next]_vars => [\A n \in Name : EndsEarly(n) => Cause(n)]_vars
  BY <1>1
<1>3. QED BY InitInv, NextInv, <1>2, PTL DEF Spec, LockEndsForACause
-----------------------------------------------------------------------------
(* GuessBound.  While a spelling is not locked, every password tested beyond *)
(* the threshold belongs to a request that is still on its way to count it  *)
(* or to set the lock; once it is locked, only requests already past the    *)
(* check can test another.                                                  *)
Testing(n) == {r \in Req : name[r] = n /\ pc[r] = "compare"}
Uncounted(n) == {r \in Req : name[r] = n /\ pc[r] = "incr"}
Failing(n) == {r \in Req : name[r] = n /\ pc[r] \in {"incr", "setLock"}}

Guesses(n) ==
  /\ tested[n] <= Counted(n) + Cardinality(Uncounted(n))
  /\ ~Held(n) => tested[n] < MaxFailures + Cardinality(Failing(n))
  /\ Held(n) => tested[n] + Cardinality(Testing(n)) < MaxFailures + Cardinality(Req)

GInv == ~faulty => \A n \in Name : Guesses(n)

USE ReqAssumption

SizesOK(n) ==
  /\ IsFiniteSet(Testing(n)) /\ IsFiniteSet(Uncounted(n)) /\ IsFiniteSet(Failing(n))
  /\ Cardinality(Testing(n)) \in Nat /\ Cardinality(Uncounted(n)) \in Nat
  /\ Cardinality(Failing(n)) \in Nat /\ Cardinality(Req) \in Nat
  /\ Cardinality(Uncounted(n)) <= Cardinality(Failing(n))
  /\ Cardinality(Testing(n)) + Cardinality(Failing(n)) <= Cardinality(Req)

AllSizesOK == \A n \in Name : SizesOK(n)

(* The sets of requests are finite, and disjoint where it matters.          *)
LEMMA Sizes == AllSizesOK
<1> SUFFICES ASSUME NEW n \in Name PROVE SizesOK(n)
  BY DEF AllSizesOK
<1>1. IsFiniteSet(Testing(n)) /\ IsFiniteSet(Uncounted(n)) /\ IsFiniteSet(Failing(n))
  BY FS_Subset DEF Testing, Uncounted, Failing
<1>2. /\ Cardinality(Testing(n)) \in Nat /\ Cardinality(Uncounted(n)) \in Nat
      /\ Cardinality(Failing(n)) \in Nat /\ Cardinality(Req) \in Nat
  BY <1>1, FS_CardinalityType
<1>3. Cardinality(Uncounted(n)) <= Cardinality(Failing(n))
  <2>1. Uncounted(n) \subseteq Failing(n)
    BY DEF Uncounted, Failing
  <2>2. QED BY <1>1, <2>1, FS_Subset
<1>4. Cardinality(Testing(n)) + Cardinality(Failing(n)) <= Cardinality(Req)
  <2>1. Testing(n) \cap Failing(n) = {} /\ Testing(n) \cup Failing(n) \subseteq Req
    BY DEF Testing, Failing
  <2>2. Cardinality(Testing(n) \cup Failing(n)) = Cardinality(Testing(n)) + Cardinality(Failing(n)) - Cardinality(Testing(n) \cap Failing(n))
    BY <1>1, FS_Union
  <2>3. Cardinality(Testing(n) \cap Failing(n)) = 0
    BY <2>1, FS_EmptySet
  <2>4. Cardinality(Testing(n) \cup Failing(n)) <= Cardinality(Req)
    BY <2>1, FS_Subset
  <2>5. QED BY <1>2, <2>2, <2>3, <2>4
<1>5. QED BY <1>1, <1>2, <1>3, <1>4 DEF SizesOK

(* A step of r moves r alone into or out of the sets of a name.             *)
LEMMA Moves ==
  ASSUME NEW r \in Req, NEW n \in Name,
         \A q \in Req \ {r} : pc'[q] = pc[q] /\ name'[q] = name[q]
  PROVE  /\ Testing(n)' = IF name'[r] = n /\ pc'[r] = "compare"
                          THEN Testing(n) \cup {r} ELSE Testing(n) \ {r}
         /\ Uncounted(n)' = IF name'[r] = n /\ pc'[r] = "incr"
                            THEN Uncounted(n) \cup {r} ELSE Uncounted(n) \ {r}
         /\ Failing(n)' = IF name'[r] = n /\ pc'[r] \in {"incr", "setLock"}
                          THEN Failing(n) \cup {r} ELSE Failing(n) \ {r}
BY DEF Testing, Uncounted, Failing

(* A step that changes neither the keys nor the sets of a name keeps its    *)
(* bounds.                                                                  *)
LEMMA Keeps ==
  ASSUME NEW n \in Name, Guesses(n),
         Testing(n)' = Testing(n), Uncounted(n)' = Uncounted(n), Failing(n)' = Failing(n),
         Counted(n)' = Counted(n), Held(n)' <=> Held(n), tested'[n] = tested[n]
  PROVE  Guesses(n)'
BY DEF Guesses

(* So does one that forgets what was tested.                                *)
LEMMA Forgets ==
  ASSUME IInv', NEW n \in Name, tested'[n] = 0
  PROVE  Guesses(n)'
<1>1. Counted(n)' \in Nat
  BY DEF Counted, IInv, TypeOK
<1>2. AllSizesOK'
  BY Sizes, PTL
<1>3. SizesOK(n)'
  BY <1>2 DEF AllSizesOK
<1>4. QED
  BY <1>1, <1>3 DEF Guesses, SizesOK

(* Steps that bring a request to the check or past its last count.          *)
LEMMA QuietGuesses ==
  ASSUME IInv, NEW r \in Req, NEW n \in Name, Guesses(n),
         \/ \E m \in Name : LoginBegin(r, m)
         \/ WriteLockedUntil(r)
         \/ ClearLockedUntil(r)
  PROVE  Guesses(n)'
<1>1. /\ \A q \in Req \ {r} : pc'[q] = pc[q] /\ name'[q] = name[q]
      /\ pc[r] \in {"idle", "dbLock", "dbClear"} /\ pc'[r] \in {"pttl", "idle"}
  BY DEF IInv, TypeOK, LoginBegin, WriteLockedUntil, ClearLockedUntil, Report, End, Goto
<1>2. UNCHANGED <<now, count, countExp, lockExp, tested>>
  BY DEF LoginBegin, WriteLockedUntil, ClearLockedUntil, keyVars
<1>3. /\ Testing(n)' = Testing(n) /\ Uncounted(n)' = Uncounted(n)
      /\ Failing(n)' = Failing(n)
  BY <1>1 DEF Testing, Uncounted, Failing
<1>4. Counted(n)' = Counted(n) /\ (Held(n)' <=> Held(n)) /\ tested'[n] = tested[n]
  BY <1>2 DEF Counted, Held
<1>5. QED BY <1>3, <1>4, Keeps

(* A request that looked may test a password only where there is no lock.   *)
LEMMA CheckGuesses ==
  ASSUME IInv, NEW r \in Req, NEW n \in Name, Guesses(n), CheckLocked(r), ~faulty, ~faulty'
  PROVE  Guesses(n)'
<1>1. /\ \A q \in Req \ {r} : pc'[q] = pc[q] /\ name'[q] = name[q]
      /\ pc[r] = "pttl" /\ pc'[r] \in {"compare", "idle"}
  BY DEF IInv, TypeOK, CheckLocked, End, Goto, Stay
<1>2. UNCHANGED <<now, count, countExp, lockExp, tested>>
  BY DEF CheckLocked, keyVars
<1>3. Uncounted(n)' = Uncounted(n) /\ Failing(n)' = Failing(n)
  BY <1>1 DEF Uncounted, Failing
<1>4. Counted(n)' = Counted(n) /\ (Held(n)' <=> Held(n)) /\ tested'[n] = tested[n]
  BY <1>2 DEF Counted, Held
<1>5. CASE Held(n)
  <2>1. name'[r] = n => pc'[r] # "compare"
    BY <1>5 DEF IInv, TypeOK, CheckLocked, End, Goto, Stay, Fails, Held
  <2>2. Testing(n)' = Testing(n)
    BY <1>1, <2>1 DEF Testing
  <2>3. QED BY <1>3, <1>4, <2>2, Keeps
<1>6. CASE ~Held(n)
  BY <1>3, <1>4, <1>6 DEF Guesses
<1>7. QED BY <1>5, <1>6

(* A wrong password leaves its request on the way to count it.              *)
LEMMA VerifyGuesses ==
  ASSUME IInv, NEW r \in Req, NEW n \in Name, Guesses(n), VerifyPassword(r)
  PROVE  Guesses(n)'
<1>1. /\ \A q \in Req \ {r} : pc'[q] = pc[q] /\ name'[q] = name[q]
      /\ pc[r] = "compare" /\ pc'[r] # "compare" /\ name[r] \in Name
  BY DEF IInv, TypeOK, VerifyPassword, End, Goto, Stay
<1>2. UNCHANGED <<now, count, countExp, lockExp>>
  BY DEF VerifyPassword, keyVars
<1>3. Counted(n)' = Counted(n) /\ (Held(n)' <=> Held(n)) /\ Counted(n) \in Nat
      /\ tested[n] \in Nat
  BY <1>2 DEF Counted, Held, IInv, TypeOK
<1>4. SizesOK(n)
  BY Sizes DEF AllSizesOK
<1>5. CASE name[r] # n \/ pc'[r] # "incr"
  <2>1. tested'[n] = tested[n] /\ Uncounted(n)' = Uncounted(n) /\ Failing(n)' = Failing(n)
    BY <1>1, <1>5 DEF VerifyPassword, IInv, TypeOK, Goto, Stay, End, Uncounted, Failing
  <2>2. Testing(n)' = Testing(n) \ {r}
    BY <1>1 DEF Testing
  <2>3. /\ Cardinality(Testing(n)') \in Nat
        /\ Cardinality(Testing(n)') <= Cardinality(Testing(n))
    BY <1>4, <2>2, FS_RemoveElement, FS_CardinalityType, FS_Subset DEF SizesOK
  <2>4. QED BY <1>3, <1>4, <2>1, <2>3 DEF Guesses, SizesOK
<1>6. CASE name[r] = n /\ pc'[r] = "incr"
  <2>1. tested'[n] = tested[n] + 1 /\ name'[r] = n
    BY <1>1, <1>6 DEF VerifyPassword, IInv, TypeOK, Goto, Stay, End
  <2>2. /\ Testing(n)' = Testing(n) \ {r} /\ Uncounted(n)' = Uncounted(n) \cup {r}
        /\ Failing(n)' = Failing(n) \cup {r}
        /\ r \in Testing(n) /\ r \notin Uncounted(n) /\ r \notin Failing(n)
    BY <1>1, <1>6, <2>1, Moves DEF Testing, Uncounted, Failing
  <2>3. /\ Cardinality(Testing(n)') = Cardinality(Testing(n)) - 1
        /\ Cardinality(Uncounted(n)') = Cardinality(Uncounted(n)) + 1
        /\ Cardinality(Failing(n)') = Cardinality(Failing(n)) + 1
    <3>1. IsFiniteSet(Testing(n)) /\ IsFiniteSet(Uncounted(n)) /\ IsFiniteSet(Failing(n))
      BY <1>4 DEF SizesOK
    <3>2. Cardinality(Testing(n) \ {r}) = Cardinality(Testing(n)) - 1
      BY <2>2, <3>1, FS_RemoveElement
    <3>3. Cardinality(Uncounted(n) \cup {r}) = Cardinality(Uncounted(n)) + 1
      BY <2>2, <3>1, FS_AddElement
    <3>4. Cardinality(Failing(n) \cup {r}) = Cardinality(Failing(n)) + 1
      BY <2>2, <3>1, FS_AddElement
    <3>5. QED BY <2>2, <3>2, <3>3, <3>4
  <2>4. QED BY <1>3, <1>4, <2>1, <2>3 DEF Guesses, SizesOK
<1>7. QED BY <1>5, <1>6

(* A counted failure under the threshold leaves the count below it; one     *)
(* that reaches it sends its request to set the lock.                       *)
LEMMA RecordGuesses ==
  ASSUME IInv, NEW r \in Req, NEW n \in Name, Guesses(n), RecordFailure(r), ~faulty, ~faulty'
  PROVE  Guesses(n)'
<1> USE DEF IInv, TypeOK
<1>1. /\ \A q \in Req \ {r} : pc'[q] = pc[q] /\ name'[q] = name[q]
      /\ pc[r] = "incr" /\ pc'[r] \in {"idle", "setLock"}
      /\ name[r] \in Name /\ name'[r] \in {NoName, name[r]}
  BY DEF RecordFailure, Tally, End, Goto, Stay, Fails
<1>2. /\ UNCHANGED <<now, lockExp, tested>>
      /\ Incr(name[r]) /\ Pexpire(name[r], now + Window) /\ Tally(r, name[r])
  BY DEF RecordFailure, Fails
<1>3. /\ (Held(n)' <=> Held(n)) /\ tested'[n] = tested[n] /\ tested[n] \in Nat
      /\ Counted(n) \in Nat
  BY <1>2 DEF Held, Counted
<1>4. Testing(n)' = Testing(n)
  BY <1>1 DEF Testing
<1>5. SizesOK(n)
  BY Sizes DEF AllSizesOK
<1>6. CASE name[r] # n
  <2>1. Uncounted(n)' = Uncounted(n) /\ Failing(n)' = Failing(n)
    BY <1>1, <1>6, NameAssumption DEF Uncounted, Failing
  <2>2. Counted(n)' = Counted(n)
    BY <1>1, <1>2, <1>6 DEF Counted, Incr, Pexpire
  <2>3. QED BY <1>3, <1>4, <2>1, <2>2, Keeps
<1>7. CASE name[r] = n
  <2>1. Counted(n)' = Counted(n) + 1
    BY <1>1, <1>2, <1>7 DEF Counted, Incr, Pexpire
  <2>2. Uncounted(n)' = Uncounted(n) \ {r} /\ r \in Uncounted(n)
    BY <1>1, <1>7 DEF Uncounted
  <2>3. /\ Cardinality(Uncounted(n)') = Cardinality(Uncounted(n)) - 1
        /\ Cardinality(Uncounted(n)') \in Nat
    BY <1>5, <2>2, FS_RemoveElement, FS_CardinalityType DEF SizesOK
  <2>4. CASE Counted(n) + 1 < MaxFailures
    <3>1. AllSizesOK'
      BY Sizes, PTL
    <3>2. SizesOK(n)'
      BY <3>1 DEF AllSizesOK
    <3>3. QED BY <1>3, <1>4, <1>5, <2>1, <2>3, <2>4, <3>2 DEF Guesses, SizesOK
  <2>5. CASE Counted(n) + 1 >= MaxFailures
    <3>1. pc'[r] = "setLock" /\ name'[r] = n
      BY <1>1, <1>2, <1>3, <1>7, <2>5 DEF Tally, Goto, Stay, End
    <3>2. Failing(n)' = Failing(n)
      BY <1>1, <1>7, <3>1 DEF Failing
    <3>3. QED BY <1>3, <1>4, <1>5, <2>1, <2>3, <3>2 DEF Guesses, SizesOK
  <2>6. QED BY <1>3, <2>4, <2>5
<1>8. QED BY <1>6, <1>7

(* The lock comes while r is the only one that stops failing.               *)
LEMMA SetLockGuesses ==
  ASSUME IInv, NEW r \in Req, NEW n \in Name, Guesses(n), SetLock(r), ~faulty, ~faulty'
  PROVE  Guesses(n)'
<1> USE DEF IInv, TypeOK
<1>1. /\ \A q \in Req \ {r} : pc'[q] = pc[q] /\ name'[q] = name[q]
      /\ pc[r] = "setLock" /\ pc'[r] \in {"idle", "dbLock"} /\ name[r] \in Name
  BY DEF SetLock, Locked, Fails
<1>2. /\ UNCHANGED <<now, count, countExp, tested>>
      /\ lockExp' = [lockExp EXCEPT ![name[r]] = now + Duration]
  BY DEF SetLock, SetKey, Locked, Fails
<1>3. /\ Counted(n)' = Counted(n) /\ tested'[n] = tested[n]
      /\ Counted(n) \in Nat /\ tested[n] \in Nat
  BY <1>2 DEF Counted
<1>4. Testing(n)' = Testing(n) /\ Uncounted(n)' = Uncounted(n)
  BY <1>1 DEF Testing, Uncounted
<1>5. CASE name[r] # n
  <2>1. Failing(n)' = Failing(n)
    BY <1>1, <1>5 DEF SetLock, SetKey, Locked, Failing
  <2>2. Held(n)' <=> Held(n)
    BY <1>1, <1>2, <1>5 DEF Held
  <2>3. QED BY <1>3, <1>4, <2>1, <2>2, Keeps
<1>6. CASE name[r] = n
  <2>1. Held(n)'
    BY <1>1, <1>2, <1>6 DEF Held
  <2>2. tested[n] + Cardinality(Testing(n)) < MaxFailures + Cardinality(Req)
    BY <1>3, Sizes DEF Guesses, AllSizesOK, SizesOK
  <2>3. QED BY <1>3, <1>4, <2>1, <2>2 DEF Guesses
<1>7. QED BY <1>5, <1>6

(* DEL forgets what was tested with the count.                              *)
LEMMA DeleteGuesses ==
  ASSUME IInv, IInv', NEW r \in Req, NEW n \in Name, Guesses(n), ~faulty, ~faulty',
         Clear(r) \/ \E m \in Known : Unlock(r, m)
  PROVE  Guesses(n)'
<1> USE DEF IInv, TypeOK
<1>1. PICK m \in Name : DeleteKeys(m) /\ now' = now
  <2>1. CASE Clear(r)
    <3>1. Stored[name[r]] \in Name
      BY <2>1, KnownNames DEF Clear
    <3>2. DeleteKeys(Stored[name[r]]) /\ now' = now
      BY <2>1 DEF Clear, Fails
    <3>3. QED BY <3>1, <3>2
  <2>2. ASSUME NEW m \in Known, Unlock(r, m) PROVE m \in Name /\ DeleteKeys(m) /\ now' = now
    BY <2>2, NameAssumption DEF Unlock, Fails
  <2>3. QED BY <2>1, <2>2
<1>2. CASE m = n
  BY <1>1, <1>2, Forgets DEF DeleteKeys
<1>3. CASE m # n
  <2>1. Counted(n)' = Counted(n) /\ (Held(n)' <=> Held(n)) /\ tested'[n] = tested[n]
    BY <1>1, <1>3 DEF DeleteKeys, Counted, Held
  <2>2. /\ Testing(n)' = Testing(n) /\ Uncounted(n)' = Uncounted(n)
        /\ Failing(n)' = Failing(n)
    <3>1. /\ \A q \in Req \ {r} : pc'[q] = pc[q] /\ name'[q] = name[q]
          /\ \/ pc[r] = "del" /\ pc'[r] = "dbClear"
             \/ pc[r] = "idle" /\ pc'[r] = "dbClear"
      BY DEF Clear, Unlock, Goto, Stay, Fails
    <3>2. QED BY <3>1, Moves DEF Testing, Uncounted, Failing
  <2>3. QED BY <2>1, <2>2, Keeps
<1>4. QED BY <1>2, <1>3

(* So does the end of a key.                                                *)
LEMMA ClockGuesses ==
  ASSUME IInv, IInv', NEW n \in Name, Guesses(n), Clock
  PROVE  Guesses(n)'
<1> USE DEF IInv, TypeOK
<1> DEFINE Expires(e) == now < e /\ e <= now + 1
<1>1. CASE Expires(countExp[n]) \/ Expires(lockExp[n])
  <2>1. tested'[n] = 0
    BY <1>1 DEF Clock
  <2>2. QED BY <2>1, Forgets
<1>2. CASE ~(Expires(countExp[n]) \/ Expires(lockExp[n]))
  <2>1. tested'[n] = tested[n]
    BY <1>2 DEF Clock
  <2>2. Counted(n)' = Counted(n) /\ (Held(n)' <=> Held(n))
    BY <1>2 DEF Clock, Counted, Held, keyVars
  <2>3. /\ Testing(n)' = Testing(n) /\ Uncounted(n)' = Uncounted(n)
        /\ Failing(n)' = Failing(n)
    BY DEF Clock, Testing, Uncounted, Failing
  <2>4. QED BY <2>1, <2>2, <2>3, Keeps
<1>3. QED BY <1>1, <1>2

LEMMA GuessesNext == IInv /\ IInv' /\ GInv /\ [Next]_vars => GInv'
<1> SUFFICES ASSUME IInv, IInv', GInv, [Next]_vars, ~faulty', NEW n \in Name
             PROVE  Guesses(n)'
  BY DEF GInv
<1>1. ASSUME faulty PROVE FALSE
  <2>1. faulty' = TRUE \/ faulty' = faulty
    BY DEF Next, Step, Clock, LoginBegin, CheckLocked, VerifyPassword, RecordFailure,
           SetLock, WriteLockedUntil, Clear, Unlock, ClearLockedUntil, Answers, Fails, vars
  <2>2. QED BY <1>1, <2>1
<1>2. ~faulty /\ Guesses(n)
  BY <1>1 DEF GInv
<1>3. ASSUME NEW r \in Req, Step(r) PROVE Guesses(n)'
  BY <1>2, <1>3, QuietGuesses, CheckGuesses, VerifyGuesses, RecordGuesses,
     SetLockGuesses, DeleteGuesses DEF Step
<1>4. CASE Clock
  BY <1>2, <1>4, ClockGuesses
<1>5. CASE UNCHANGED vars
  BY <1>2, <1>5 DEF vars, Guesses, Testing, Uncounted, Failing, Counted, Held
<1>6. QED BY <1>3, <1>4, <1>5 DEF Next

(* While no call fails, the passwords tested under one spelling of a name    *)
(* before its lock exceed the threshold by less than the number of          *)
(* concurrent requests, however many there are and however they interleave. *)
THEOREM GuessesAreBounded == Spec => []GuessBound
<1>1. Init => GInv
  <2> SUFFICES ASSUME Init, NEW n \in Name PROVE Guesses(n)
    BY DEF GInv
  <2>1. tested[n] = 0 /\ Counted(n) = 0 /\ ~Held(n)
    BY DEF Init, Counted, Held
  <2>2. SizesOK(n)
    BY Sizes DEF AllSizesOK
  <2>3. QED BY <2>1, <2>2 DEF Guesses, SizesOK
<1>2. IInv /\ GInv => GuessBound
  <2> SUFFICES ASSUME IInv, GInv, ~faulty, NEW n \in Name
               PROVE  tested[n] < MaxFailures + Cardinality(Req)
    BY DEF GuessBound
  <2>1. Guesses(n) /\ SizesOK(n) /\ tested[n] \in Nat
    BY Sizes DEF GInv, AllSizesOK, IInv, TypeOK
  <2>2. QED BY <2>1 DEF Guesses, SizesOK
<1>3. QED BY InitInv, NextInv, GuessesNext, <1>1, <1>2, PTL DEF Spec
=============================================================================
