--------------------------- MODULE RbacCacheProofs ---------------------------
(***************************************************************************)
(* Proofs about RbacCache for any users, roles, permissions and requests.  *)
(***************************************************************************)
EXTENDS RbacCache, TLAPS

USE NamesAssumption, FaultsAssumption

-----------------------------------------------------------------------------
(* Types                                                                    *)

LEMMA InitType == Init => TypeOK
<1> SUFFICES ASSUME Init PROVE TypeOK
  OBVIOUS
<1>1. \A u \in User : Granted(u) \cap Cached \in SUBSET Role
  BY DEF Cached
<1>2. PermissionsOf(Cached) \in SUBSET (Role \X Data)
  BY DEF Init, PermissionsOf, Cached
<1>3. held \in [User -> SUBSET Role] /\ had \in [User -> SUBSET (Role \X Data)]
  BY <1>1, <1>2 DEF Init
<1>4. QED BY <1>3 DEF Init, TypeOK

LEMMA EndType ==
  ASSUME TypeOK, NEW q \in Req, End(q), roles' \in [User -> SUBSET Role],
         state' = state, perms' = perms, urev' \in [User -> Nat],
         cache' \in SUBSET Entry, lost' \in SUBSET User,
         held' \in [User -> SUBSET Role], had' \in [User -> SUBSET (Role \X Data)]
  PROVE  TypeOK'
BY DEF TypeOK, End

LEMMA ObserveType ==
  ASSUME TypeOK, Observe, roles' \in [User -> SUBSET Role],
         perms' \in [Role -> Data]
  PROVE  /\ held' \in [User -> SUBSET Role] /\ had' \in [User -> SUBSET (Role \X Data)]
         /\ lost' = lost
<1>1. \A u \in User : (Granted(u) \cap Cached)' \subseteq Role
  BY DEF Granted, Cached
<1>2. PermissionsOf(Cached)' \subseteq Role \X Data
  BY DEF PermissionsOf, Cached
<1>3. QED BY <1>1, <1>2 DEF Observe, TypeOK

LEMMA LookupType == ASSUME TypeOK, NEW q \in Req, Lookup(q) PROVE TypeOK'
<1> USE DEF TypeOK, db, redis, history, Goto
<1>1. ASSUME NEW u \in User, Find(q, u) PROVE TypeOK'
  BY <1>1 DEF Find
<1>2. CASE ReadRevision(q)
  BY <1>2 DEF ReadRevision
<1>3. CASE GetCached(q)
  <2>1. CASE End(q)
    BY <1>3, <2>1, EndType DEF GetCached
  <2>2. CASE ~End(q)
    BY <1>3, <2>2 DEF GetCached
  <2>3. QED BY <2>1, <2>2
<1>4. CASE SelectRoles(q)
  <2>1. Granted(usr[q]) \subseteq Role
    BY <1>4 DEF SelectRoles, Granted
  <2>2. CASE End(q)
    BY <1>4, <2>2, EndType DEF SelectRoles
  <2>3. CASE ~End(q)
    BY <1>4, <2>1, <2>3 DEF SelectRoles
  <2>4. QED BY <2>2, <2>3
<1>5. CASE SelectPermissions(q)
  <2>1. PermissionsOf(seen[q]) \in SUBSET (Role \X Data)
    BY DEF PermissionsOf
  <2>2. QED BY <1>5, <2>1 DEF SelectPermissions
<1>6. CASE Store(q)
  <2>1. usr[q] \in User /\ key[q] \in Nat \cup {NoKey}
    BY <1>6 DEF Store
  <2>2. cache' \in SUBSET Entry
    BY <1>6, <2>1 DEF Store, File, Filed, Entry
  <2>3. QED BY <1>6, <2>2, EndType DEF Store
<1>7. QED BY <1>1, <1>2, <1>3, <1>4, <1>5, <1>6 DEF Lookup

LEMMA WriteType == ASSUME TypeOK, NEW q \in Req, Write(q) PROVE TypeOK'
<1> USE DEF TypeOK, db, redis, history, Goto
<1>1. ASSUME NEW r \in Role, NEW o \in {"status", "remove", "perms"}, ChangeRole(q, r, o)
      PROVE  TypeOK'
  BY <1>1 DEF ChangeRole
<1>2. CASE CommitRole(q)
  <2>1. rol[q] \in Role
    BY <1>2 DEF CommitRole
  <2>2. /\ state' \in [Role -> {"active", "disabled", "deleted"}]
        /\ perms' \in [Role -> Data]
    BY <1>2, <2>1 DEF CommitRole
  <2>3. /\ held' \in [User -> SUBSET Role] /\ had' \in [User -> SUBSET (Role \X Data)]
        /\ lost' = lost
    BY <1>2, <2>2, ObserveType DEF CommitRole
  <2>4. QED BY <1>2, <2>1, <2>2, <2>3 DEF CommitRole
<1>3. CASE SelectMembers(q)
  <2>1. CASE End(q)
    BY <1>3, <2>1, EndType DEF SelectMembers
  <2>2. CASE ~End(q)
    BY <1>3, <2>2 DEF SelectMembers
  <2>3. QED BY <2>1, <2>2
<1>4. ASSUME NEW u \in User, AssignRoles(q, u) PROVE TypeOK'
  BY <1>4 DEF AssignRoles
<1>5. CASE CommitAssignment(q)
  <2>1. roles' \in [User -> SUBSET Role]
    BY <1>5 DEF CommitAssignment
  <2>2. /\ held' \in [User -> SUBSET Role] /\ had' \in [User -> SUBSET (Role \X Data)]
        /\ lost' = lost
    BY <1>5, <2>1, ObserveType DEF CommitAssignment
  <2>3. QED BY <1>5, <2>1, <2>2 DEF CommitAssignment
<1>6. ASSUME NEW u \in User, Increment(q, u) PROVE TypeOK'
  <2>1. urev' \in [User -> Nat] /\ lost' \in SUBSET User /\ UNCHANGED <<db, cache>>
    BY <1>6 DEF Increment
  <2>2. /\ Granted(u) \cap Cached \in SUBSET Role
        /\ PermissionsOf(Cached) \in SUBSET (Role \X Data)
    BY DEF Granted, PermissionsOf, Cached
  <2>3. held' \in [User -> SUBSET Role] /\ had' \in [User -> SUBSET (Role \X Data)]
    BY <1>6, <2>2 DEF Increment
  <2>4. CASE End(q)
    BY <2>1, <2>3, <2>4, EndType
  <2>5. CASE ~End(q)
    BY <1>6, <2>1, <2>3, <2>5 DEF Increment
  <2>6. QED BY <2>4, <2>5
<1>7. CASE Die(q)
  <2>1. lost' \in SUBSET User /\ End(q) /\ UNCHANGED <<db, redis, held, had>>
    BY <1>7 DEF Die
  <2>2. QED BY <2>1, EndType
<1>8. QED BY <1>1, <1>2, <1>3, <1>4, <1>5, <1>6, <1>7 DEF Write

LEMMA NextType == TypeOK /\ [Next]_vars => TypeOK'
<1> SUFFICES ASSUME TypeOK, [Next]_vars PROVE TypeOK'
  OBVIOUS
<1>1. ASSUME NEW e \in cache, Expire(e) PROVE TypeOK'
  BY <1>1 DEF Expire, TypeOK, db, req, history
<1>2. CASE UNCHANGED vars
  BY <1>2 DEF vars, TypeOK, db, redis, req, history
<1>3. QED BY <1>1, <1>2, LookupType, WriteType DEF Next

(* Every variable keeps its type: nothing is filed without a revision.      *)
THEOREM TypeCorrect == Spec => []TypeOK
BY InitType, NextType, PTL DEF Spec
-----------------------------------------------------------------------------
(* The revision of a user stands for the state of the tables: while nothing *)
(* is pending or lost, what was read under the current revision is still    *)
(* what the tables say.                                                     *)
Settled(u) == u \notin lost /\ ~Pending(u)
Current(u) == PermissionsOf(Granted(u))

LookupOK(q) ==
  /\ pc[q] # "store" => read[q] = {}
  /\ pc[q] \notin {"get", "roles", "perms", "store"} => key[q] = NoKey
  /\ pc[q] \in {"get", "roles", "perms", "store"} /\ key[q] # NoKey =>
       /\ key[q] <= urev[usr[q]]
       /\ key[q] = urev[usr[q]] /\ Settled(usr[q]) =>
            /\ pc[q] \in {"perms", "store"} => seen[q] = Granted(usr[q])
            /\ pc[q] = "store" => read[q] = Current(usr[q])

EntryOK(e) ==
  /\ e.rev <= urev[e.user]
  /\ e.rev = urev[e.user] /\ Settled(e.user) =>
       e.roles = Granted(e.user) /\ e.perms = Current(e.user)

IInv ==
  /\ TypeOK
  /\ \A q \in Req : LookupOK(q)
  /\ \A e \in cache : EntryOK(e)

(* What a step does to a user: a new revision, or nothing a settled user    *)
(* would notice.                                                            *)
Same(u) == Settled(u)' => Settled(u) /\ Granted(u)' = Granted(u) /\ Current(u)' = Current(u)
Kept(u) == urev'[u] = urev[u] /\ Same(u)
Bumped(u) == urev'[u] = urev[u] + 1

(* A step that leaves the tables alone, and every pending invalidation.     *)
LEMMA QuietStep ==
  ASSUME NEW u \in User, UNCHANGED <<db, urev>>,
         u \in lost => u \in lost', Pending(u) => Pending(u)' \/ u \in lost'
  PROVE  Kept(u)
BY DEF Kept, Same, Settled, Current, PermissionsOf, Granted, db

LEMMA LookupKeeps ==
  ASSUME TypeOK, NEW q \in Req, Lookup(q), NEW u \in User
  PROVE  Kept(u)
<1>1. /\ UNCHANGED <<db, urev, lost>>
      /\ \A p \in Req \ {q} : UNCHANGED <<pc[p], rol[p], todo[p]>>
      /\ pc[q] \notin {"members", "incr"}
  BY DEF Lookup, Find, ReadRevision, GetCached, SelectRoles, SelectPermissions, Store,
         redis, history, End, Goto, TypeOK
<1>2. Pending(u) => Pending(u)'
  BY <1>1 DEF Pending, db
<1>3. QED BY <1>1, <1>2, QuietStep

LEMMA WriteKeeps ==
  ASSUME TypeOK, NEW q \in Req, Write(q), NEW u \in User
  PROVE  Kept(u) \/ Bumped(u)
<1> USE DEF TypeOK, db, redis, history, Goto
<1> DEFINE Alone == \A p \in Req \ {q} : UNCHANGED <<pc[p], rol[p], todo[p]>>
<1>1. ASSUME NEW r \in Role, NEW o \in {"status", "remove", "perms"}, ChangeRole(q, r, o)
      PROVE  Kept(u)
  <2>1. UNCHANGED <<db, urev, lost>> /\ Alone /\ pc[q] = "idle"
    BY <1>1 DEF ChangeRole
  <2>2. Pending(u) => Pending(u)'
    BY <2>1 DEF Pending
  <2>3. QED BY <2>1, <2>2, QuietStep
<1>2. CASE CommitRole(q)
  <2>1. /\ UNCHANGED <<roles, urev, lost>> /\ Alone
        /\ rol[q] \in Role /\ rol'[q] = rol[q] /\ pc[q] = "commit" /\ pc'[q] = "members"
        /\ \A r \in Role \ {rol[q]} : state'[r] = state[r] /\ perms'[r] = perms[r]
    BY <1>2 DEF CommitRole, Observe
  <2>2. CASE rol[q] \in roles[u]
    BY <2>1, <2>2 DEF Kept, Same, Settled, Pending
  <2>3. CASE rol[q] \notin roles[u]
    <3>1. Granted(u)' = Granted(u) /\ Current(u)' = Current(u)
      BY <2>1, <2>3 DEF Granted, Current, PermissionsOf
    <3>2. Pending(u) => Pending(u)'
      BY <2>1 DEF Pending
    <3>3. QED BY <2>1, <3>1, <3>2 DEF Kept, Same, Settled
  <2>4. QED BY <2>2, <2>3
<1>3. CASE SelectMembers(q)
  <2>1. UNCHANGED <<db, urev, lost>> /\ Alone /\ pc[q] = "members"
    BY <1>3 DEF SelectMembers, End
  <2>2. rol[q] \in roles[u] => pc'[q] = "incr" /\ u \in todo'[q]
    BY <1>3 DEF SelectMembers
  <2>3. Pending(u) => Pending(u)'
    BY <2>1, <2>2 DEF Pending
  <2>4. QED BY <2>1, <2>3, QuietStep
<1>4. ASSUME NEW v \in User, AssignRoles(q, v) PROVE Kept(u)
  <2>1. UNCHANGED <<db, urev, lost>> /\ Alone /\ pc[q] = "idle"
    BY <1>4 DEF AssignRoles
  <2>2. Pending(u) => Pending(u)'
    BY <2>1 DEF Pending
  <2>3. QED BY <2>1, <2>2, QuietStep
<1>5. CASE CommitAssignment(q)
  <2>1. /\ UNCHANGED <<state, perms, urev, lost>> /\ Alone
        /\ pc[q] = "commit" /\ pc'[q] = "incr" /\ todo'[q] = {usr[q]}
        /\ \A v \in User \ {usr[q]} : roles'[v] = roles[v]
    BY <1>5 DEF CommitAssignment, Observe
  <2>2. CASE u = usr[q]
    BY <2>1, <2>2 DEF Kept, Same, Settled, Pending
  <2>3. CASE u # usr[q]
    <3>1. Granted(u)' = Granted(u) /\ Current(u)' = Current(u)
      BY <2>1, <2>3 DEF Granted, Current, PermissionsOf
    <3>2. Pending(u) => Pending(u)'
      BY <2>1, <2>3 DEF Pending
    <3>3. QED BY <2>1, <3>1, <3>2 DEF Kept, Same, Settled
  <2>4. QED BY <2>2, <2>3
<1>6. ASSUME NEW v \in User, Increment(q, v) PROVE Kept(u) \/ Bumped(u)
  <2>1. /\ UNCHANGED db /\ Alone /\ pc[q] = "incr" /\ v \in todo[q]
        /\ u # v => urev'[u] = urev[u] /\ (u \in lost => u \in lost')
        /\ u # v /\ u \in todo[q] => pc'[q] = "incr" /\ u \in todo'[q]
    BY <1>6 DEF Increment, End
  <2>2. CASE u = v
    <3>1. CASE Bumped(u)
      BY <3>1
    <3>2. CASE ~Bumped(u)
      BY <1>6, <2>2, <3>2 DEF Increment, Bumped, Kept, Same, Settled
    <3>3. QED BY <3>1, <3>2
  <2>3. CASE u # v
    <3>1. Pending(u) => Pending(u)'
      BY <2>1, <2>3 DEF Pending
    <3>2. Granted(u)' = Granted(u) /\ Current(u)' = Current(u)
      BY <2>1 DEF Granted, Current, PermissionsOf
    <3>3. QED BY <2>1, <2>3, <3>1, <3>2 DEF Kept, Same, Settled
  <2>4. QED BY <2>2, <2>3
<1>7. CASE Die(q)
  <2>1. /\ UNCHANGED <<db, urev>> /\ Alone /\ (u \in lost => u \in lost')
        /\ pc[q] = "members" /\ rol[q] \in roles[u] => u \in lost'
        /\ pc[q] = "incr" /\ u \in todo[q] => u \in lost'
    BY <1>7 DEF Die, End
  <2>2. Pending(u) => Pending(u)' \/ u \in lost'
    BY <2>1 DEF Pending
  <2>3. QED BY <2>1, <2>2, QuietStep
<1>8. QED BY <1>1, <1>2, <1>3, <1>4, <1>5, <1>6, <1>7 DEF Write

(* What a step that moves neither a lookup nor an entry leaves right.       *)
LEMMA StillLooked ==
  ASSUME TypeOK, NEW q \in Req, LookupOK(q), \A u \in User : Kept(u) \/ Bumped(u),
         UNCHANGED <<pc[q], usr[q], key[q], seen[q], read[q]>>
  PROVE  LookupOK(q)'
<1>1. CASE pc[q] \in {"get", "roles", "perms", "store"} /\ key[q] # NoKey
  <2>1. usr[q] \in User /\ key[q] \in Nat /\ urev[usr[q]] \in Nat
    BY <1>1 DEF TypeOK
  <2>2. CASE Kept(usr[q])
    BY <1>1, <2>1, <2>2 DEF LookupOK, Kept, Same
  <2>3. CASE Bumped(usr[q])
    BY <1>1, <2>1, <2>3 DEF LookupOK, Bumped
  <2>4. QED BY <2>1, <2>2, <2>3
<1>2. CASE ~(pc[q] \in {"get", "roles", "perms", "store"} /\ key[q] # NoKey)
  BY <1>2 DEF LookupOK
<1>3. QED BY <1>1, <1>2

LEMMA StillFiled ==
  ASSUME TypeOK, NEW e \in Entry, EntryOK(e), \A u \in User : Kept(u) \/ Bumped(u)
  PROVE  EntryOK(e)'
<1>1. e.user \in User /\ e.rev \in Nat /\ urev[e.user] \in Nat
  BY DEF TypeOK, Entry
<1>2. CASE Kept(e.user)
  BY <1>1, <1>2 DEF EntryOK, Kept, Same
<1>3. CASE Bumped(e.user)
  BY <1>1, <1>3 DEF EntryOK, Bumped
<1>4. QED BY <1>1, <1>2, <1>3

(* The step of a request that is, or becomes, a lookup.                     *)
LEMMA LookupStep ==
  ASSUME TypeOK, NEW q \in Req, LookupOK(q), Lookup(q)
  PROVE  LookupOK(q)'
<1> USE DEF TypeOK, Goto
<1>1. ASSUME NEW u \in User, Find(q, u) PROVE LookupOK(q)'
  BY <1>1 DEF Find, LookupOK
<1>2. ASSUME NEW u \in User PROVE Kept(u)
  BY LookupKeeps
<1>3. CASE ReadRevision(q)
  <2>1. /\ usr[q] \in User /\ urev[usr[q]] \in Nat /\ urev[usr[q]] # NoKey
        /\ pc[q] = "revision" /\ usr'[q] = usr[q] /\ urev' = urev /\ read'[q] = read[q]
    BY <1>3 DEF ReadRevision, redis
  <2>2. read'[q] = {}
    BY <2>1 DEF LookupOK
  <2>3. CASE pc'[q] = "get"
    <3>1. key'[q] = urev[usr[q]]
      BY <1>3, <2>1, <2>3 DEF ReadRevision
    <3>2. QED BY <2>1, <2>2, <2>3, <3>1 DEF LookupOK
  <2>4. CASE pc'[q] # "get"
    <3>1. pc'[q] = "roles" /\ key'[q] = NoKey
      BY <1>3, <2>1, <2>4 DEF ReadRevision, LookupOK
    <3>2. QED BY <2>1, <2>2, <3>1 DEF LookupOK
  <2>5. QED BY <2>3, <2>4
<1>4. ASSUME End(q) PROVE LookupOK(q)'
  BY <1>4 DEF End, LookupOK
<1>5. CASE GetCached(q) /\ ~End(q)
  <2>1. usr[q] \in User /\ pc[q] = "get" /\ pc'[q] = "roles" /\ read'[q] = read[q]
        /\ usr'[q] = usr[q] /\ urev' = urev /\ (key'[q] = key[q] \/ key'[q] = NoKey)
    BY <1>5 DEF GetCached, redis
  <2>2. QED BY <2>1 DEF LookupOK
<1>6. CASE SelectRoles(q) /\ ~End(q)
  <2> DEFINE u == usr[q]
  <2>1. /\ u \in User /\ pc[q] = "roles" /\ UNCHANGED <<db, urev>>
        /\ pc'[q] = IF Granted(u) = {} THEN "store" ELSE "perms"
        /\ seen'[q] = Granted(u) /\ UNCHANGED <<usr[q], key[q], read[q]>>
    BY <1>6 DEF SelectRoles, redis
  <2>2. Granted(u)' = Granted(u) /\ read[q] = {}
    BY <2>1 DEF Granted, db, LookupOK
  <2>3. Granted(u) = {} => Current(u)' = {}
    BY <2>1, <2>2 DEF Current, PermissionsOf, db
  <2>4. QED BY <2>1, <2>2, <2>3 DEF LookupOK
<1>7. CASE SelectPermissions(q)
  <2> DEFINE u == usr[q]
  <2>1. /\ u \in User /\ pc[q] = "perms" /\ pc'[q] = "store" /\ UNCHANGED <<db, urev>>
        /\ read'[q] = PermissionsOf(seen[q]) /\ UNCHANGED <<usr[q], key[q], seen[q]>>
    BY <1>7 DEF SelectPermissions, redis
  <2>2. Settled(u)' => Settled(u) /\ Granted(u)' = Granted(u) /\ Current(u)' = Current(u)
    BY <1>2, <2>1 DEF Kept, Same
  <2>3. QED BY <2>1, <2>2 DEF LookupOK, Current
<1>8. CASE Store(q)
  BY <1>4, <1>8 DEF Store
<1>9. QED BY <1>1, <1>3, <1>4, <1>5, <1>6, <1>7, <1>8 DEF Lookup

(* Writers have read nothing.                                               *)
LEMMA WriterStep ==
  ASSUME TypeOK, NEW q \in Req, LookupOK(q), Write(q)
  PROVE  LookupOK(q)'
<1>1. /\ pc'[q] \in {"idle", "commit", "members", "incr"}
      /\ read'[q] = {} /\ key'[q] = NoKey
  BY DEF TypeOK, LookupOK, Write, ChangeRole, CommitRole, SelectMembers, AssignRoles,
         CommitAssignment, Increment, Die, End, Goto
<1>2. QED BY <1>1 DEF LookupOK

(* A new entry says what the lookup saw.                                    *)
LEMMA FiledStep ==
  ASSUME TypeOK, NEW q \in Req, LookupOK(q), Store(q), NEW e \in cache', e \notin cache
  PROVE  EntryOK(e)'
<1>1. PICK u \in User : u = usr[q]
  BY DEF Store, TypeOK
<1>2. /\ key[q] # NoKey /\ pc[q] = "store" /\ urev' = urev
      /\ e.user = u /\ e.rev = key[q] /\ e.roles = seen[q] /\ e.perms = read[q]
  BY <1>1 DEF Store, File
<1>3. Kept(u)
  BY LookupKeeps DEF Lookup
<1>4. /\ key[q] <= urev[u]
      /\ key[q] = urev[u] /\ Settled(u) => seen[q] = Granted(u) /\ read[q] = Current(u)
  BY <1>1, <1>2 DEF LookupOK
<1>5. QED BY <1>2, <1>3, <1>4 DEF EntryOK, Kept, Same

LEMMA NextInv == IInv /\ [Next]_vars => IInv'
<1> SUFFICES ASSUME IInv, [Next]_vars PROVE IInv'
  OBVIOUS
<1>1. TypeOK /\ TypeOK'
  BY NextType DEF IInv
<1>2. ASSUME NEW u \in User PROVE Kept(u) \/ Bumped(u)
  <2>1. CASE UNCHANGED vars
    BY <2>1, QuietStep DEF vars, db, redis, req, history, Pending
  <2>2. ASSUME NEW e \in cache, Expire(e) PROVE Kept(u)
    BY <2>2, QuietStep DEF Expire, db, req, history, Pending
  <2>3. QED BY <1>1, <2>1, <2>2, LookupKeeps, WriteKeeps DEF Next
<1>3. ASSUME NEW q \in Req, Lookup(q) \/ Write(q), NEW p \in Req PROVE LookupOK(p)'
  <2>1. CASE p = q
    BY <1>1, <1>3, <2>1, LookupStep, WriterStep DEF IInv
  <2>2. CASE p # q
    <3>1. UNCHANGED <<pc[p], usr[p], key[p], seen[p], read[p]>>
      BY <1>1, <1>3, <2>2 DEF Lookup, Find, ReadRevision, GetCached, SelectRoles,
         SelectPermissions, Store, Write, ChangeRole, CommitRole, SelectMembers,
         AssignRoles, CommitAssignment, Increment, Die, End, Goto, TypeOK
    <3>2. QED BY <1>1, <1>2, <3>1, StillLooked DEF IInv
  <2>3. QED BY <2>1, <2>2
<1>4. ASSUME UNCHANGED vars \/ \E e \in cache : Expire(e), NEW p \in Req
      PROVE  LookupOK(p)'
  <2>1. UNCHANGED <<pc[p], usr[p], key[p], seen[p], read[p]>>
    BY <1>4 DEF Expire, vars, req
  <2>2. QED BY <1>1, <1>2, <2>1, StillLooked DEF IInv
<1>5. ASSUME NEW e \in cache' PROVE EntryOK(e)'
  <2>1. CASE e \in cache
    BY <1>1, <1>2, <2>1, StillFiled DEF IInv, TypeOK
  <2>2. CASE e \notin cache
    <3>1. PICK q \in Req : Store(q)
      BY <2>2 DEF Next, Lookup, Find, ReadRevision, GetCached, SelectRoles,
         SelectPermissions, Write, ChangeRole, CommitRole, SelectMembers,
         AssignRoles, CommitAssignment, Increment, Die, Expire, redis, vars
    <3>2. QED BY <1>1, <2>2, <3>1, FiledStep DEF IInv
  <2>3. QED BY <2>1, <2>2
<1>6. QED BY <1>1, <1>3, <1>4, <1>5 DEF IInv, Next

LEMMA InitInv == Init => IInv
<1> SUFFICES ASSUME Init PROVE IInv
  OBVIOUS
<1>1. TypeOK
  BY InitType
<1>2. ASSUME NEW q \in Req PROVE LookupOK(q)
  BY DEF Init, LookupOK
<1>3. cache = {}
  BY DEF Init
<1>4. QED BY <1>1, <1>2, <1>3 DEF IInv

(* Filing under the revision read before the tables is enough: however      *)
(* lookups and writers interleave and Redis fails, once nobody is about to  *)
(* invalidate a user, the entry lookups find is what the tables say.        *)
THEOREM CacheStaysCurrent == Spec => []CacheIsCurrent
<1>1. IInv => CacheIsCurrent
  BY DEF IInv, EntryOK, CacheIsCurrent, Settled, Current
<1>2. QED BY InitInv, NextInv, <1>1, PTL DEF Spec
-----------------------------------------------------------------------------
(* A revision stands for what was in force since it was made: a lookup that   *)
(* read it, and an entry filed under it, hold nothing else.  Steps add to   *)
(* that until an increment makes another revision.                          *)
Recent(u, n, S, P) == n = urev[u] => S \subseteq held[u] /\ P \subseteq had[u]

LookupRecent(q) ==
  pc[q] \in {"perms", "store"} =>
    /\ seen[q] \subseteq Cached
    /\ key[q] # NoKey => Recent(usr[q], key[q], seen[q], read[q])

FactsKept(u) == Granted(u) \cap Cached \subseteq held[u] /\ PermissionsOf(Cached) \subseteq had[u]

RecentInv ==
  /\ \A u \in User : FactsKept(u)
  /\ \A q \in Req : LookupRecent(q)
  /\ \A e \in cache : Recent(e.user, e.rev, e.roles, e.perms)

Grown(u) == urev'[u] = urev[u] /\ held[u] \subseteq held'[u] /\ had[u] \subseteq had'[u]

(* A lookup and an expiry change neither tables nor history.                *)
LEMMA QuietFacts ==
  ASSUME NEW u \in User, FactsKept(u), UNCHANGED <<db, urev, history>>
  PROVE  FactsKept(u)' /\ Grown(u)
BY DEF FactsKept, Grown, Granted, PermissionsOf, db, history

LEMMA ObservedFacts ==
  ASSUME TypeOK, NEW u \in User, Observe, urev' = urev
  PROVE  FactsKept(u)' /\ Grown(u)
BY DEF Observe, FactsKept, Grown, TypeOK, Cached

LEMMA FactsStep ==
  ASSUME TypeOK, TypeOK', [Next]_vars, NEW u \in User, FactsKept(u)
  PROVE  FactsKept(u)' /\ (Grown(u) \/ Bumped(u))
<1>1. CASE UNCHANGED vars
  BY <1>1, QuietFacts DEF vars, redis
<1>2. CASE \E e \in cache : Expire(e)
  BY <1>2, QuietFacts DEF Expire
<1>3. CASE \E q \in Req : Lookup(q)
  BY <1>3, QuietFacts DEF Lookup, Find, ReadRevision, GetCached, SelectRoles,
     SelectPermissions, Store, redis
<1>4. ASSUME NEW q \in Req, Write(q) PROVE FactsKept(u)' /\ (Grown(u) \/ Bumped(u))
  <2>1. ASSUME NEW r \in Role, NEW o \in {"status", "remove", "perms"}, ChangeRole(q, r, o)
        PROVE  UNCHANGED <<db, urev, history>>
    BY <2>1 DEF ChangeRole, redis
  <2>2. CASE CommitRole(q) \/ CommitAssignment(q)
    BY <2>2, ObservedFacts DEF CommitRole, CommitAssignment, redis
  <2>3. CASE SelectMembers(q) \/ \E v \in User : AssignRoles(q, v)
    BY <2>3, QuietFacts DEF SelectMembers, AssignRoles, redis
  <2>4. ASSUME NEW v \in User, Increment(q, v)
        PROVE  FactsKept(u)' /\ (Grown(u) \/ Bumped(u))
    <3>1. Granted(u)' = Granted(u) /\ PermissionsOf(Cached)' = PermissionsOf(Cached)
      BY <2>4 DEF Increment, Granted, PermissionsOf, db
    <3>2. CASE urev'[u] = urev[u] /\ held'[u] = held[u] /\ had'[u] = had[u]
      BY <3>1, <3>2 DEF FactsKept, Grown, Cached
    <3>3. CASE /\ urev'[u] = urev[u] + 1
               /\ held'[u] = Granted(u) \cap Cached /\ had'[u] = PermissionsOf(Cached)
      BY <3>1, <3>3 DEF FactsKept, Bumped, Cached
    <3>4. QED BY <2>4, <3>2, <3>3 DEF Increment, TypeOK
  <2>5. CASE Die(q)
    BY <2>5 DEF Die, FactsKept, Grown, Granted, PermissionsOf, Cached, db, redis
  <2>6. QED BY <1>4, <2>1, <2>2, <2>3, <2>4, <2>5, QuietFacts DEF Write
<1>5. QED BY <1>1, <1>2, <1>3, <1>4 DEF Next

(* What was recent stays so, or is filed under a past revision.             *)
LEMMA StillRecent ==
  ASSUME TypeOK, NEW u \in User, Grown(u) \/ Bumped(u), NEW n \in Nat, n <= urev[u],
         NEW S, NEW P, Recent(u, n, S, P)
  PROVE  n = urev'[u] => S \subseteq held'[u] /\ P \subseteq had'[u]
<1>1. urev[u] \in Nat
  BY DEF TypeOK
<1>2. QED BY <1>1 DEF Recent, Grown, Bumped

LEMMA RecentStep == IInv /\ RecentInv /\ [Next]_vars => RecentInv'
<1> SUFFICES ASSUME IInv, RecentInv, [Next]_vars PROVE RecentInv'
  OBVIOUS
<1>1. TypeOK /\ TypeOK'
  BY NextType DEF IInv
<1>2. ASSUME NEW u \in User PROVE FactsKept(u)' /\ (Grown(u) \/ Bumped(u))
  BY <1>1, FactsStep DEF RecentInv
<1>3. ASSUME NEW q \in Req, UNCHANGED <<pc[q], usr[q], key[q], seen[q], read[q]>>
      PROVE  LookupRecent(q)'
  <2>1. CASE pc[q] \in {"perms", "store"} /\ key[q] # NoKey
    <3>1. usr[q] \in User /\ key[q] \in Nat /\ key[q] <= urev[usr[q]]
      BY <1>1, <2>1 DEF TypeOK, IInv, LookupOK
    <3>2. seen[q] \subseteq Cached /\ Recent(usr[q], key[q], seen[q], read[q])
      BY <2>1 DEF RecentInv, LookupRecent
    <3>3. key[q] = urev'[usr[q]] => seen[q] \subseteq held'[usr[q]] /\ read[q] \subseteq had'[usr[q]]
      BY <1>1, <1>2, <3>1, <3>2, StillRecent
    <3>4. QED BY <1>3, <3>2, <3>3 DEF LookupRecent, Recent, Cached
  <2>2. CASE ~(pc[q] \in {"perms", "store"} /\ key[q] # NoKey)
    BY <1>3, <2>2 DEF RecentInv, LookupRecent, Cached
  <2>3. QED BY <2>1, <2>2
<1>4. ASSUME NEW q \in Req, SelectRoles(q), ~End(q) PROVE LookupRecent(q)'
  <2> DEFINE u == usr[q]
  <2>1. /\ u \in User /\ usr' = usr /\ key' = key /\ read' = read /\ urev' = urev
        /\ held' = held /\ had' = had /\ pc[q] = "roles"
        /\ seen'[q] = Granted(u) /\ SuperAdmin \notin Granted(u)
    BY <1>1, <1>4 DEF SelectRoles, TypeOK, redis, history
  <2>2. read[q] = {} /\ Granted(u) \subseteq Cached
    BY <1>1, <2>1 DEF IInv, LookupOK, Granted, Cached, TypeOK
  <2>3. Granted(u) \subseteq held[u]
    BY <2>1, <2>2 DEF RecentInv, FactsKept
  <2>4. QED BY <2>1, <2>2, <2>3 DEF LookupRecent, Recent, Cached
<1>5. ASSUME NEW q \in Req, SelectPermissions(q) PROVE LookupRecent(q)'
  <2> DEFINE u == usr[q]
  <2>1. /\ u \in User /\ usr' = usr /\ key' = key /\ seen' = seen /\ urev' = urev
        /\ held' = held /\ had' = had /\ pc[q] = "perms"
        /\ read'[q] = PermissionsOf(seen[q])
    BY <1>1, <1>5 DEF SelectPermissions, TypeOK, Goto, redis, history
  <2>2. seen[q] \subseteq Cached /\ (key[q] # NoKey => Recent(u, key[q], seen[q], read[q]))
    BY <2>1 DEF RecentInv, LookupRecent
  <2>3. PermissionsOf(seen[q]) \subseteq PermissionsOf(Cached)
    BY <2>2 DEF PermissionsOf
  <2>4. PermissionsOf(Cached) \subseteq had[u]
    BY <2>1 DEF RecentInv, FactsKept
  <2>5. QED BY <2>1, <2>2, <2>3, <2>4 DEF LookupRecent, Recent, Cached
<1>6. ASSUME NEW q \in Req PROVE LookupRecent(q)'
  <2>1. CASE pc'[q] \notin {"perms", "store"}
    BY <2>1 DEF LookupRecent
  <2>2. CASE UNCHANGED <<pc[q], usr[q], key[q], seen[q], read[q]>>
    BY <1>3, <2>2
  <2>3. CASE /\ pc'[q] \in {"perms", "store"}
             /\ ~UNCHANGED <<pc[q], usr[q], key[q], seen[q], read[q]>>
    <3>1. (SelectRoles(q) /\ ~End(q)) \/ SelectPermissions(q)
      BY <1>1, <2>3 DEF Next, Lookup, Find, ReadRevision, GetCached, SelectRoles,
         SelectPermissions, Store, Write, ChangeRole, CommitRole, SelectMembers,
         AssignRoles, CommitAssignment, Increment, Die, Expire, End, Goto, TypeOK,
         vars, req
    <3>2. QED BY <1>4, <1>5, <3>1
  <2>4. QED BY <2>1, <2>2, <2>3
<1>7. ASSUME NEW e \in cache' PROVE Recent(e.user, e.rev, e.roles, e.perms)'
  <2>1. CASE e \in cache
    <3>1. e.user \in User /\ e.rev \in Nat /\ e.rev <= urev[e.user]
      BY <1>1, <2>1 DEF TypeOK, Entry, IInv, EntryOK
    <3>2. QED BY <1>1, <1>2, <2>1, <3>1, StillRecent DEF RecentInv, Recent
  <2>2. CASE e \notin cache
    <3>1. PICK q \in Req : Store(q)
      BY <2>2 DEF Next, Lookup, Find, ReadRevision, GetCached, SelectRoles,
         SelectPermissions, Write, ChangeRole, CommitRole, SelectMembers,
         AssignRoles, CommitAssignment, Increment, Die, Expire, redis, vars
    <3>2. /\ key[q] # NoKey /\ pc[q] = "store" /\ UNCHANGED <<urev, held, had>>
          /\ e.user = usr[q] /\ e.rev = key[q] /\ e.roles = seen[q] /\ e.perms = read[q]
      BY <2>2, <3>1 DEF Store, File, history
    <3>3. Recent(usr[q], key[q], seen[q], read[q])
      BY <3>2 DEF RecentInv, LookupRecent
    <3>4. QED BY <3>2, <3>3 DEF Recent
  <2>3. QED BY <2>1, <2>2
<1>8. QED BY <1>2, <1>6, <1>7 DEF RecentInv

(* Whatever writers are under way and whatever calls have failed, what        *)
(* lookups find of a user was in force since his revision was last          *)
(* incremented: what was revoked before does not come back.                 *)
THEOREM RevocationsLast == Spec => []RevokedStaysRevoked
<1>1. Init => RecentInv
  <2> SUFFICES ASSUME Init PROVE RecentInv
    OBVIOUS
  <2>1. ASSUME NEW u \in User PROVE FactsKept(u)
    BY DEF Init, FactsKept
  <2>2. (\A q \in Req : LookupRecent(q)) /\ cache = {}
    BY DEF Init, LookupRecent
  <2>3. QED BY <2>1, <2>2 DEF RecentInv
<1>2. RecentInv => RevokedStaysRevoked
  BY DEF RecentInv, Recent, RevokedStaysRevoked
<1>3. QED BY InitInv, NextInv, RecentStep, <1>1, <1>2, PTL DEF Spec
=============================================================================
