------------------------------ MODULE RbacCache ------------------------------
(***************************************************************************)
(* The authorization of a user as every guarded request reads it:          *)
(* PermissionService.findUserAuthorization over RbacCacheService, against  *)
(* the writers of RoleService.  A cached authorization is filed under the  *)
(* user's revision; a writer commits first and increments the revisions of *)
(* the users it affects afterwards, so that what was read before the       *)
(* change stays behind under the old revision.                             *)
(*                                                                         *)
(* Each action is one statement or Redis call.  A Redis call may fail with *)
(* or without effect, and a writer may die between its commit and its      *)
(* invalidation; only the time to live then ends what is stale.            *)
(***************************************************************************)
EXTENDS Naturals, FiniteSets

CONSTANTS
  User, Role,
  SuperAdmin,   \* the role whose holders are not cached
  System,       \* roles that cannot be disabled or removed
  Data,         \* sets of permissions a role can have
  Req,          \* request slots
  Ops,          \* the operations requests may start
  Faults,       \* BOOLEAN: whether Redis calls and writers may fail
  NoUser, NoRole, NoKey,
  MaxRev        \* bound on the revisions, past which no writer starts

ASSUME NamesAssumption ==
  NoUser \notin User /\ NoRole \notin Role /\ NoKey \notin Nat
ASSUME FaultsAssumption == Faults \in BOOLEAN

VARIABLES
  roles,    \* user_roles
  state,    \* roles.status and roles.deleted_at
  perms,    \* role_permissions
  urev,     \* the user's revision in Redis
  cache,    \* the entries in Redis
  pc, op, usr, rol,
  key,      \* the revision a lookup read, NoKey when Redis failed
  seen,     \* the roles a lookup selected
  read,     \* their permissions
  todo,     \* users a writer has still to invalidate
  lost,     \* history: users changed since they were last invalidated, by a
            \* writer that failed to do so
  held,     \* history: the roles in force of a user at some moment since his
            \* revision was last incremented
  had       \* history: <<r, perms[r]>> of every role at some such moment

db == <<roles, state, perms>>
redis == <<urev, cache>>
req == <<pc, op, usr, rol, key, seen, read, todo>>
history == <<lost, held, had>>
vars == <<db, redis, req, history>>

Granted(u) == {r \in roles[u] : state[r] = "active"}
PermissionsOf(S) == {<<r, perms[r]>> : r \in S}
Cached == Role \ {SuperAdmin}

Entry == [user : User, rev : Nat, roles : SUBSET Role, perms : SUBSET (Role \X Data)]
Filed(u, n) == {e \in cache : e.user = u /\ e.rev = n}

TypeOK ==
  /\ roles \in [User -> SUBSET Role]
  /\ state \in [Role -> {"active", "disabled", "deleted"}]
  /\ perms \in [Role -> Data]
  /\ urev \in [User -> Nat]
  /\ cache \in SUBSET Entry
  /\ pc \in [Req -> {"idle", "revision", "get", "roles", "perms", "store",
                     "commit", "members", "incr"}]
  /\ op \in [Req -> {"none", "find", "status", "remove", "perms", "assign"}]
  /\ usr \in [Req -> User \cup {NoUser}]
  /\ rol \in [Req -> Role \cup {NoRole}]
  /\ key \in [Req -> Nat \cup {NoKey}]
  /\ seen \in [Req -> SUBSET Role]
  /\ read \in [Req -> SUBSET (Role \X Data)]
  /\ todo \in [Req -> SUBSET User]
  /\ lost \in SUBSET User
  /\ held \in [User -> SUBSET Role]
  /\ had \in [User -> SUBSET (Role \X Data)]
  /\ \A q \in Req : pc[q] \in {"revision", "get", "roles", "perms", "store"} => usr[q] \in User
  /\ \A q \in Req : pc[q] = "commit" /\ op[q] = "assign" => usr[q] \in User
  /\ \A q \in Req : pc[q] = "commit" /\ op[q] # "assign" => rol[q] \in Role
  /\ \A q \in Req : pc[q] = "members" => rol[q] \in Role

Init ==
  /\ roles \in [User -> SUBSET Role]
  /\ state = [r \in Role |-> "active"]
  /\ perms \in [Role -> Data]
  /\ urev = [u \in User |-> 0]
  /\ cache = {}
  /\ pc = [q \in Req |-> "idle"]
  /\ op = [q \in Req |-> "none"]
  /\ usr = [q \in Req |-> NoUser]
  /\ rol = [q \in Req |-> NoRole]
  /\ key = [q \in Req |-> NoKey]
  /\ seen = [q \in Req |-> {}]
  /\ read = [q \in Req |-> {}]
  /\ todo = [q \in Req |-> {}]
  /\ lost = {}
  /\ held = [u \in User |-> Granted(u) \cap Cached]
  /\ had = [u \in User |-> PermissionsOf(Cached)]

Goto(q, at, to) == pc[q] = at /\ pc' = [pc EXCEPT ![q] = to]
End(q) ==
  /\ pc' = [pc EXCEPT ![q] = "idle"]
  /\ op' = [op EXCEPT ![q] = "none"]
  /\ usr' = [usr EXCEPT ![q] = NoUser]
  /\ rol' = [rol EXCEPT ![q] = NoRole]
  /\ key' = [key EXCEPT ![q] = NoKey]
  /\ seen' = [seen EXCEPT ![q] = {}]
  /\ read' = [read EXCEPT ![q] = {}]
  /\ todo' = [todo EXCEPT ![q] = {}]

(***************************************************************************)
(* findUserAuthorization                                                   *)
(***************************************************************************)

Find(q, u) ==
  /\ "find" \in Ops
  /\ Goto(q, "idle", "revision")
  /\ op' = [op EXCEPT ![q] = "find"]
  /\ usr' = [usr EXCEPT ![q] = u]
  /\ UNCHANGED <<db, redis, rol, key, seen, read, todo, history>>

(* userRevision *)
ReadRevision(q) ==
  /\ \/ Goto(q, "revision", "get") /\ key' = [key EXCEPT ![q] = urev[usr[q]]]
     \/ Faults /\ Goto(q, "revision", "roles") /\ UNCHANGED key
  /\ UNCHANGED <<db, redis, op, usr, rol, seen, read, todo, history>>

(* lookup: an entry answers the request *)
GetCached(q) ==
  /\ pc[q] = "get"
  /\ \/ Filed(usr[q], key[q]) # {} /\ End(q)
     \/ /\ Filed(usr[q], key[q]) = {}
        /\ Goto(q, "get", "roles")
        /\ UNCHANGED <<op, usr, rol, key, seen, read, todo>>
     \/ /\ Faults
        /\ Goto(q, "get", "roles")
        /\ key' = [key EXCEPT ![q] = NoKey]
        /\ UNCHANGED <<op, usr, rol, seen, read, todo>>
  /\ UNCHANGED <<db, redis, history>>

(* the roles in force; a super administrator is answered at once, and no    *)
(* role means no permission                                                 *)
SelectRoles(q) ==
  LET S == Granted(usr[q]) IN
  /\ pc[q] = "roles"
  /\ \/ SuperAdmin \in S /\ End(q)
     \/ /\ SuperAdmin \notin S
        /\ pc' = [pc EXCEPT ![q] = IF S = {} THEN "store" ELSE "perms"]
        /\ seen' = [seen EXCEPT ![q] = S]
        /\ UNCHANGED <<op, usr, rol, key, read, todo>>
  /\ UNCHANGED <<db, redis, history>>

SelectPermissions(q) ==
  /\ Goto(q, "perms", "store")
  /\ read' = [read EXCEPT ![q] = PermissionsOf(seen[q])]
  /\ UNCHANGED <<db, redis, op, usr, rol, key, seen, todo, history>>

File(u, n, S, P) ==
  cache' = (cache \ Filed(u, n)) \cup {[user |-> u, rev |-> n, roles |-> S, perms |-> P]}

(* mutation: filed under the revision of the moment *)
StoreLate(q) ==
  /\ pc[q] = "store"
  /\ \/ key[q] = NoKey /\ UNCHANGED cache
     \/ key[q] # NoKey /\ File(usr[q], urev[usr[q]], seen[q], read[q])
     \/ key[q] # NoKey /\ Faults /\ UNCHANGED cache
  /\ End(q)
  /\ UNCHANGED <<db, urev, history>>

(* mutation: stored although the lookup failed *)
StoreUnkeyed(q) ==
  /\ pc[q] = "store"
  /\ File(usr[q], key[q], seen[q], read[q])
  /\ End(q)
  /\ UNCHANGED <<db, urev, history>>

(* store: nothing when the lookup failed *)
Store(q) ==
  /\ pc[q] = "store"
  /\ \/ key[q] = NoKey /\ UNCHANGED cache
     \/ key[q] # NoKey /\ File(usr[q], key[q], seen[q], read[q])
     \/ key[q] # NoKey /\ Faults /\ UNCHANGED cache
  /\ End(q)
  /\ UNCHANGED <<db, urev, history>>

(* the time to live, or a malformed entry deleted *)
Expire(e) ==
  /\ cache' = cache \ {e}
  /\ UNCHANGED <<db, urev, req, history>>

(***************************************************************************)
(* The writers of RoleService                                              *)
(***************************************************************************)

Room == \A u \in User : urev[u] < MaxRev

(* update, remove, replaceAssignments: findRoleOrFail *)
ChangeRole(q, r, o) ==
  /\ o \in Ops \cap {"status", "remove", "perms"} /\ Room
  /\ state[r] # "deleted"
  /\ o \in {"status", "remove"} => r \notin System
  /\ Goto(q, "idle", "commit")
  /\ op' = [op EXCEPT ![q] = o]
  /\ rol' = [rol EXCEPT ![q] = r]
  /\ UNCHANGED <<db, redis, usr, key, seen, read, todo, history>>

(* what a commit puts in force, everybody may be answered from now on *)
Observe ==
  /\ held' = [u \in User |-> held[u] \cup (Granted(u) \cap Cached)']
  /\ had' = [u \in User |-> had[u] \cup PermissionsOf(Cached)']
  /\ UNCHANGED lost

(* the transaction; a role removed meanwhile has no row left to update     *)
CommitRole(q) ==
  LET r == rol[q] IN
  /\ op[q] # "assign"
  /\ Goto(q, "commit", "members")
  /\ \/ /\ op[q] \in {"status", "remove"} /\ state[r] = "deleted"
        /\ UNCHANGED <<state, perms>>
     \/ /\ op[q] = "status" /\ state[r] # "deleted"
        /\ \E s \in {"active", "disabled"} : state' = [state EXCEPT ![r] = s]
        /\ UNCHANGED perms
     \/ /\ op[q] = "remove" /\ state[r] # "deleted"
        /\ state' = [state EXCEPT ![r] = "deleted"]
        /\ UNCHANGED perms
     \/ /\ op[q] = "perms"
        /\ \E d \in Data : perms' = [perms EXCEPT ![r] = d]
        /\ UNCHANGED state
  /\ UNCHANGED <<roles, redis, op, usr, rol, key, seen, read, todo>>
  /\ Observe

(* mutation: only members by a role in force are invalidated *)
SelectMembersInForce(q) ==
  LET M == {u \in User : rol[q] \in Granted(u)} IN
  /\ pc[q] = "members"
  /\ \/ M = {} /\ End(q)
     \/ /\ M # {}
        /\ Goto(q, "members", "incr")
        /\ todo' = [todo EXCEPT ![q] = M]
        /\ UNCHANGED <<op, usr, rol, key, seen, read>>
  /\ UNCHANGED <<db, redis, history>>

(* invalidateRoleUsers: the members of the role *)
SelectMembers(q) ==
  LET M == {u \in User : rol[q] \in roles[u]} IN
  /\ pc[q] = "members"
  /\ \/ M = {} /\ End(q)
     \/ /\ M # {}
        /\ Goto(q, "members", "incr")
        /\ todo' = [todo EXCEPT ![q] = M]
        /\ UNCHANGED <<op, usr, rol, key, seen, read>>
  /\ UNCHANGED <<db, redis, history>>

(* setUserRoles: the user and the roles exist *)
AssignRoles(q, u) ==
  /\ "assign" \in Ops /\ Room
  /\ Goto(q, "idle", "commit")
  /\ op' = [op EXCEPT ![q] = "assign"]
  /\ usr' = [usr EXCEPT ![q] = u]
  /\ UNCHANGED <<db, redis, rol, key, seen, read, todo, history>>

CommitAssignment(q) ==
  /\ op[q] = "assign"
  /\ Goto(q, "commit", "incr")
  /\ \E S \in SUBSET Role : roles' = [roles EXCEPT ![usr[q]] = S]
  /\ todo' = [todo EXCEPT ![q] = {usr[q]}]
  /\ UNCHANGED <<state, perms, redis, op, usr, rol, key, seen, read>>
  /\ Observe

(* invalidateUsers: one INCR of the pipeline; its failure is logged *)
Increment(q, u) ==
  /\ pc[q] = "incr" /\ u \in todo[q]
  /\ \/ /\ urev' = [urev EXCEPT ![u] = @ + 1]
        /\ lost' = lost \ {u}
        /\ held' = [held EXCEPT ![u] = Granted(u) \cap Cached]
        /\ had' = [had EXCEPT ![u] = PermissionsOf(Cached)]
     \/ /\ Faults
        /\ lost' = lost \cup {u}
        /\ UNCHANGED <<urev, held, had>>
  /\ \/ todo[q] = {u} /\ End(q)
     \/ /\ todo[q] # {u}
        /\ todo' = [todo EXCEPT ![q] = @ \ {u}]
        /\ UNCHANGED <<pc, op, usr, rol, key, seen, read>>
  /\ UNCHANGED <<db, cache>>

(* the writer dies, or its SELECT fails, after the commit *)
Die(q) ==
  /\ Faults
  /\ \/ pc[q] = "members" /\ lost' = lost \cup {u \in User : rol[q] \in roles[u]}
     \/ pc[q] = "incr" /\ lost' = lost \cup todo[q]
  /\ End(q)
  /\ UNCHANGED <<db, redis, held, had>>
-----------------------------------------------------------------------------
Lookup(q) ==
  \/ \E u \in User : Find(q, u)
  \/ ReadRevision(q)
  \/ GetCached(q)
  \/ SelectRoles(q)
  \/ SelectPermissions(q)
  \/ Store(q)

Write(q) ==
  \/ \E r \in Role, o \in {"status", "remove", "perms"} : ChangeRole(q, r, o)
  \/ CommitRole(q)
  \/ SelectMembers(q)
  \/ \E u \in User : AssignRoles(q, u)
  \/ CommitAssignment(q)
  \/ \E u \in User : Increment(q, u)
  \/ Die(q)

Next ==
  \/ \E q \in Req : Lookup(q) \/ Write(q)
  \/ \E e \in cache : Expire(e)

Spec == Init /\ [][Next]_vars
-----------------------------------------------------------------------------
(* a committed change of u's authorization is still to be invalidated *)
Pending(u) ==
  \E q \in Req : \/ pc[q] = "members" /\ rol[q] \in roles[u]
                 \/ pc[q] = "incr" /\ u \in todo[q]

(* When nobody is about to invalidate a user, and no invalidation of the    *)
(* user was lost, the entry lookups find is what the tables say: no lookup  *)
(* that read a role or its permissions before a change leaves them behind   *)
(* where a later lookup finds them.                                         *)
CacheIsCurrent ==
  \A e \in cache :
    e.rev = urev[e.user] /\ e.user \notin lost /\ ~Pending(e.user) =>
      e.roles = Granted(e.user) /\ e.perms = PermissionsOf(Granted(e.user))

(* What lookups find of a user was in force at some moment since his         *)
(* revision was last incremented, whatever other writers are under way and  *)
(* whatever calls have failed: a role or permission revoked before an       *)
(* increment does not come back (rbac-cache.service.ts:77, 139).            *)
RevokedStaysRevoked ==
  \A e \in cache :
    e.rev = urev[e.user] => e.roles \subseteq held[e.user] /\ e.perms \subseteq had[e.user]
=============================================================================
