----------------------------- MODULE Departments -----------------------------
(***************************************************************************)
(* The department tree of apps/api: DepartmentService, the users that      *)
(* belong to departments (UserService), and the data scope of a user who   *)
(* sees "dept_and_below" (DataScopeService), cached in Redis under the     *)
(* revision of the tree (RbacCacheService).                                *)
(*                                                                         *)
(* A request r runs one operation at a time; each action is the code       *)
(* between two awaits with the one statement it sends.  The tree is read   *)
(* in one statement and written in a later one, without a lock between     *)
(* them: two requests may each find the tree in order and together leave   *)
(* it in none.                                                             *)
(***************************************************************************)
EXTENDS Naturals, Forests

CONSTANTS
  Dept, User, Req,
  Top,      \* parent_id NULL
  NoDept,   \* dept_id NULL
  NoUser,
  Off,      \* a cache key of null: Redis did not answer
  Ops,      \* the operations requests may start
  Status,   \* bound: the statuses a form is sent with
  Faults,   \* BOOLEAN: whether Redis calls fail and writers die
  MaxTree   \* bound on the tree's revision, past which no writer starts

ASSUME TopAssumption == Top \notin Dept /\ NoDept \notin Dept
ASSUME UserAssumption == NoUser \notin User
ASSUME OffAssumption == Off \notin Nat
ASSUME StatusAssumption == Status \subseteq {"active", "disabled"}
ASSUME FaultsAssumption == Faults \in BOOLEAN
ASSUME MaxTreeAssumption == MaxTree \in Nat

VARIABLES
  row,      \* row[d]: whether d's row exists, its status, its tombstone
  parent,   \* parent_id
  logged,   \* where d's transfer records lead: to_parent_id of the last one,
            \* before any the parent d was created under
  member,   \* dept_id of a user
  tree,     \* the tree revision in Redis
  cache,    \* the data-scope entries in Redis
  pc, op,
  dpt,      \* the department a request works on
  usr,      \* the user an assignment works on
  from,     \* the parent findDepartmentOrFail read
  to,       \* the parent the request asks for
  key,      \* the revision a lookup read, Off when Redis failed
  ids,      \* the departments an expansion found
  stale,    \* history: requests past a check whose tables changed since
  crossed,  \* history: such a request has written
  undone,   \* history: departments an edit has put under another parent
  lost      \* history: the tree changed and the increment that should have
            \* followed did not, nor any since

tables == <<row, parent, logged, member>>
redis == <<tree, cache>>
locals == <<dpt, usr, from, to, key, ids>>
history == <<stale, crossed, undone, lost>>
vars == <<tables, redis, pc, op, locals, history>>

Alive == {d \in Dept : row[d] \in {"active", "disabled"}}

PcState == {"idle", "parent", "below", "write", "insert", "edit", "delete",
            "assign", "incr", "revision", "get", "expand", "store", "endless"}

Entry == [rev : Nat, dept : Dept, ids : SUBSET Dept]

TypeOK ==
  /\ row \in [Dept -> {"unborn", "active", "disabled", "deleted"}]
  /\ parent \in [Dept -> Dept \cup {Top}]
  /\ logged \in [Dept -> Dept \cup {Top}]
  /\ member \in [User -> Dept \cup {NoDept}]
  /\ tree \in Nat
  /\ cache \in SUBSET Entry
  /\ pc \in [Req -> PcState]
  /\ op \in [Req -> {"none", "move", "edit", "create", "remove", "assign", "scope"}]
  /\ dpt \in [Req -> Dept \cup {NoDept}]
  /\ usr \in [Req -> User \cup {NoUser}]
  /\ from \in [Req -> Dept \cup {Top}]
  /\ to \in [Req -> Dept \cup {Top}]
  /\ key \in [Req -> Nat \cup {Off}]
  /\ ids \in [Req -> SUBSET Dept]
  /\ stale \in SUBSET Req
  /\ crossed \in BOOLEAN
  /\ undone \in SUBSET Dept
  /\ lost \in BOOLEAN
  /\ \A r \in Req : pc[r] \in {"below", "write", "edit", "delete", "revision",
                                "get", "expand", "store"} => dpt[r] \in Dept
  /\ \A r \in Req : pc[r] = "parent" /\ op[r] = "move" => dpt[r] \in Dept
  /\ \A r \in Req : pc[r] = "assign" => usr[r] \in User

(* a tree whose departments all exist or are still to be created *)
Init ==
  /\ row \in [Dept -> {"unborn", "active", "disabled"}]
  /\ parent \in [Dept -> Dept \cup {Top}]
  /\ \A d \in Dept : parent[d] # Top => d \in Alive /\ parent[d] \in Alive
  /\ Acyclic(parent, Alive)
  /\ logged = parent
  /\ member = [u \in User |-> NoDept]
  /\ tree = 0
  /\ cache = {}
  /\ pc = [r \in Req |-> "idle"]
  /\ op = [r \in Req |-> "none"]
  /\ dpt = [r \in Req |-> NoDept]
  /\ usr = [r \in Req |-> NoUser]
  /\ from = [r \in Req |-> Top]
  /\ to = [r \in Req |-> Top]
  /\ key = [r \in Req |-> Off]
  /\ ids = [r \in Req |-> {}]
  /\ stale = {}
  /\ crossed = FALSE
  /\ undone = {}
  /\ lost = FALSE

Goto(r, at, next) == pc[r] = at /\ pc' = [pc EXCEPT ![r] = next]

Begin(r, o, next) ==
  /\ o \in Ops
  /\ Goto(r, "idle", next)
  /\ op' = [op EXCEPT ![r] = o]

(* the locals of a request do not outlive it *)
End(r) ==
  /\ pc' = [pc EXCEPT ![r] = "idle"]
  /\ op' = [op EXCEPT ![r] = "none"]
  /\ dpt' = [dpt EXCEPT ![r] = NoDept]
  /\ usr' = [usr EXCEPT ![r] = NoUser]
  /\ from' = [from EXCEPT ![r] = Top]
  /\ to' = [to EXCEPT ![r] = Top]
  /\ key' = [key EXCEPT ![r] = Off]
  /\ ids' = [ids EXCEPT ![r] = {}]

(* an answer that changes nothing: a failed check, or a read *)
Answer(r) == End(r) /\ stale' = stale \ {r} /\ UNCHANGED <<crossed, undone, lost>>

(* r writes what others may have checked: they are stale now, and a write    *)
(* that is itself stale and can do harm is a crossing.  A move or creation  *)
(* at the top rests on no check                                            *)
Checked ==
  {q \in Req : \/ pc[q] \in {"below", "edit", "delete", "assign"}
               \/ pc[q] \in {"write", "insert"} /\ to[q] # Top}
Overtakes(r, harmful) ==
  /\ crossed' = (crossed \/ (harmful /\ r \in stale))
  /\ stale' = (stale \cup Checked) \ {r}

(* writers stop at the bound; a revision only grows after a write *)
Room == tree < MaxTree

(***************************************************************************)
(* update: with another parent                                             *)
(***************************************************************************)

(* findDepartmentOrFail, parentChanged, the reason given *)
Move(r, d, p) ==
  /\ Room /\ d \in Alive /\ p # parent[d]
  /\ Begin(r, "move", IF p = Top THEN "write" ELSE "parent")
  /\ dpt' = [dpt EXCEPT ![r] = d]
  /\ from' = [from EXCEPT ![r] = parent[d]]
  /\ to' = [to EXCEPT ![r] = p]
  /\ UNCHANGED <<tables, redis, usr, key, ids, history>>

(* assertParentUsable *)
CheckParent(r) ==
  /\ pc[r] = "parent"
  /\ \/ /\ to[r] \in Dept => row[to[r]] = "active"
        /\ Goto(r, "parent", IF op[r] = "move" THEN "below" ELSE "insert")
        /\ UNCHANGED <<op, locals, history>>
     \/ /\ to[r] \in Dept /\ row[to[r]] # "active"
        /\ Answer(r)
  /\ UNCHANGED <<tables, redis>>

(* mutation: only the department itself is refused *)
CheckNotItself(r) ==
  /\ pc[r] = "below"
  /\ \/ /\ dpt[r] \in Alive
        /\ to[r] # dpt[r]
        /\ Goto(r, "below", "write")
        /\ UNCHANGED <<op, locals, history>>
     \/ /\ dpt[r] \notin Alive \/ to[r] = dpt[r]
        /\ Answer(r)
  /\ UNCHANGED <<tables, redis>>

(* assertNotOwnDescendant: itself is refused first; the search of           *)
(* findDescendantIds answers 404 for a department gone, and has no end on  *)
(* a cycle                                                                 *)
CheckBelow(r) ==
  LET d == dpt[r] IN
  /\ pc[r] = "below"
  /\ \/ /\ to[r] = d \/ d \notin Alive
        /\ Answer(r)
     \/ /\ to[r] # d /\ d \in Alive /\ ~SearchEnds(parent, Alive, d)
        /\ Goto(r, "below", "endless")
        /\ UNCHANGED <<op, locals, history>>
     \/ /\ to[r] # d /\ d \in Alive /\ SearchEnds(parent, Alive, d)
        /\ to[r] \in Below(parent, Alive, d)
        /\ Answer(r)
     \/ /\ to[r] # d /\ d \in Alive /\ SearchEnds(parent, Alive, d)
        /\ to[r] \notin Below(parent, Alive, d)
        /\ Goto(r, "below", "write")
        /\ UNCHANGED <<op, locals, history>>
  /\ UNCHANGED <<tables, redis>>

(* the UPDATE where the parent is still the one read, which also writes what *)
(* else the form changes                                                   *)
Relocate(r) ==
  LET d == dpt[r] IN
  /\ d \in Alive /\ parent[d] = from[r]
  /\ parent' = [parent EXCEPT ![d] = to[r]]
  /\ \E s \in Status \cup {row[d]} : row' = [row EXCEPT ![d] = s]

(* mutation: the record is inserted whatever the UPDATE matched *)
WriteMoveRecorded(r) ==
  LET d == dpt[r] IN
  /\ Goto(r, "write", "incr")
  /\ \/ Relocate(r)
     \/ /\ d \notin Alive \/ parent[d] # from[r]
        /\ UNCHANGED <<row, parent>>
  /\ logged' = [logged EXCEPT ![d] = to[r]]
  /\ Overtakes(r, to[r] # Top)
  /\ UNCHANGED <<member, redis, op, locals, undone, lost>>

(* the transaction: the UPDATE and the transfer record; a department moved   *)
(* meanwhile answers 409                                                   *)
WriteMove(r) ==
  LET d == dpt[r] IN
  /\ pc[r] = "write"
  /\ \/ /\ Relocate(r)
        /\ Goto(r, "write", "incr")
        /\ logged' = [logged EXCEPT ![d] = to[r]]
        /\ Overtakes(r, to[r] # Top)
        /\ UNCHANGED <<op, locals, undone, lost>>
     \/ /\ d \notin Alive \/ parent[d] # from[r]
        /\ Answer(r)
        /\ UNCHANGED <<row, parent, logged>>
  /\ UNCHANGED <<member, redis>>

(***************************************************************************)
(* update: with the parent it has, or without                              *)
(***************************************************************************)

Edit(r, d) ==
  /\ d \in Alive
  /\ Begin(r, "edit", "edit")
  /\ dpt' = [dpt EXCEPT ![r] = d]
  /\ from' = [from EXCEPT ![r] = parent[d]]
  /\ UNCHANGED <<tables, redis, usr, to, key, ids, history>>

(* the UPDATE by primary key; a form that sends the parent it shows writes  *)
(* it again, over a move that came between                                 *)
WriteEdit(r) ==
  LET d == dpt[r] IN
  /\ pc[r] = "edit"
  /\ End(r)
  /\ \/ d \notin Alive /\ stale' = stale \ {r} /\ UNCHANGED <<row, parent, crossed, undone, lost>>
     \/ /\ d \in Alive
        /\ \E s \in Status : row' = [row EXCEPT ![d] = s]
        /\ stale' = stale \ {r}
        /\ UNCHANGED <<parent, crossed, undone, lost>>
     \/ /\ d \in Alive /\ parent[d] # from[r]
        /\ \E s \in Status : row' = [row EXCEPT ![d] = s]
        /\ parent' = [parent EXCEPT ![d] = from[r]]
        /\ Overtakes(r, TRUE)
        /\ undone' = undone \cup {d}
        /\ lost' = TRUE
  /\ UNCHANGED <<logged, member, redis>>

(***************************************************************************)
(* create, remove                                                          *)
(***************************************************************************)

Create(r, p) ==
  /\ Room
  /\ Begin(r, "create", IF p = Top THEN "insert" ELSE "parent")
  /\ to' = [to EXCEPT ![r] = p]
  /\ UNCHANGED <<tables, redis, dpt, usr, from, key, ids, history>>

Insert(r, d) ==
  /\ Goto(r, "insert", "incr")
  /\ row[d] = "unborn"
  /\ \E s \in Status : row' = [row EXCEPT ![d] = s]
  /\ parent' = [parent EXCEPT ![d] = to[r]]
  /\ logged' = [logged EXCEPT ![d] = to[r]]
  /\ Overtakes(r, to[r] # Top)
  /\ UNCHANGED <<member, redis, op, locals, undone, lost>>

(* mutation: users of the department do not count *)
RemoveCountingChildren(r, d) ==
  /\ Room /\ d \in Alive
  /\ \A x \in Alive : parent[x] # d
  /\ Begin(r, "remove", "delete")
  /\ dpt' = [dpt EXCEPT ![r] = d]
  /\ UNCHANGED <<tables, redis, usr, from, to, key, ids, history>>

(* findDepartmentOrFail and the two counts, read as one: what changes        *)
(* between the counts makes the request stale as what changes after them    *)
Remove(r, d) ==
  /\ Room /\ d \in Alive
  /\ \A x \in Alive : parent[x] # d
  /\ \A u \in User : member[u] # d
  /\ Begin(r, "remove", "delete")
  /\ dpt' = [dpt EXCEPT ![r] = d]
  /\ UNCHANGED <<tables, redis, usr, from, to, key, ids, history>>

Delete(r) ==
  /\ Goto(r, "delete", "incr")
  /\ \/ /\ dpt[r] \in Alive
        /\ row' = [row EXCEPT ![dpt[r]] = "deleted"]
        /\ Overtakes(r, TRUE)
     \/ dpt[r] \notin Alive /\ stale' = stale \ {r} /\ UNCHANGED <<row, crossed>>
  /\ UNCHANGED <<parent, logged, member, redis, op, locals, undone, lost>>

(* invalidateDepartmentTree: the INCR; its failure is logged, and a writer  *)
(* that dies never sends it                                                *)
Increment(r) ==
  /\ pc[r] = "incr"
  /\ \/ tree' = tree + 1 /\ lost' = FALSE
     \/ Faults /\ UNCHANGED tree /\ lost' = TRUE
  /\ End(r)
  /\ stale' = stale \ {r}
  /\ UNCHANGED <<tables, cache, crossed, undone>>

(***************************************************************************)
(* UserService: a user is put in a department, or in none                  *)
(***************************************************************************)

(* assertDepartmentsUsable *)
Assign(r, u, d) ==
  /\ d \in Dept => row[d] = "active"
  /\ d # member[u]
  /\ Begin(r, "assign", "assign")
  /\ usr' = [usr EXCEPT ![r] = u]
  /\ dpt' = [dpt EXCEPT ![r] = d]
  /\ UNCHANGED <<tables, redis, from, to, key, ids, history>>

WriteAssignment(r) ==
  /\ pc[r] = "assign"
  /\ member' = [member EXCEPT ![usr[r]] = dpt[r]]
  /\ Overtakes(r, dpt[r] # NoDept)
  /\ End(r)
  /\ UNCHANGED <<row, parent, logged, redis, undone, lost>>

(***************************************************************************)
(* DataScopeService.resolveCachedDataScope, for a role with dept_and_below *)
(***************************************************************************)

Scope(r, u) ==
  /\ member[u] # NoDept
  /\ Begin(r, "scope", "revision")
  /\ dpt' = [dpt EXCEPT ![r] = member[u]]
  /\ UNCHANGED <<tables, redis, usr, from, to, key, ids, history>>

(* revisions *)
ReadRevision(r) ==
  /\ \/ Goto(r, "revision", "get") /\ key' = [key EXCEPT ![r] = tree]
     \/ Faults /\ Goto(r, "revision", "expand") /\ UNCHANGED key
  /\ UNCHANGED <<tables, redis, op, dpt, usr, from, to, ids, history>>

Filed(n, d) == {e \in cache : e.rev = n /\ e.dept = d}

(* lookup *)
GetCached(r) ==
  /\ pc[r] = "get"
  /\ \/ Filed(key[r], dpt[r]) # {} /\ Answer(r)
     \/ /\ Filed(key[r], dpt[r]) = {}
        /\ Goto(r, "get", "expand")
        /\ UNCHANGED <<op, locals, history>>
     \/ /\ Faults
        /\ Goto(r, "get", "expand")
        /\ key' = [key EXCEPT ![r] = Off]
        /\ UNCHANGED <<op, dpt, usr, from, to, ids, history>>
  /\ UNCHANGED <<tables, redis>>

(* resolveDataScope: findDescendantIds *)
Expand(r) ==
  LET d == dpt[r] IN
  /\ pc[r] = "expand"
  /\ \/ d \notin Alive /\ Answer(r)
     \/ /\ d \in Alive /\ ~SearchEnds(parent, Alive, d)
        /\ Goto(r, "expand", "endless")
        /\ UNCHANGED <<op, locals, history>>
     \/ /\ d \in Alive /\ SearchEnds(parent, Alive, d)
        /\ Goto(r, "expand", "store")
        /\ ids' = [ids EXCEPT ![r] = Below(parent, Alive, d)]
        /\ UNCHANGED <<op, dpt, usr, from, to, key, history>>
  /\ UNCHANGED <<tables, redis>>

File(n, d, S) == cache' = (cache \ Filed(n, d)) \cup {[rev |-> n, dept |-> d, ids |-> S]}

(* mutation: filed under the revision of the moment *)
StoreLate(r) ==
  /\ pc[r] = "store"
  /\ \/ key[r] = Off /\ UNCHANGED cache
     \/ key[r] # Off /\ File(tree, dpt[r], ids[r])
  /\ Answer(r)
  /\ UNCHANGED <<tables, tree>>

(* mutation: stored although the lookup failed *)
StoreUnkeyed(r) ==
  /\ pc[r] = "store"
  /\ File(key[r], dpt[r], ids[r])
  /\ Answer(r)
  /\ UNCHANGED <<tables, tree>>

(* store: nothing when the lookup failed *)
Store(r) ==
  /\ pc[r] = "store"
  /\ \/ key[r] = Off /\ UNCHANGED cache
     \/ key[r] # Off /\ File(key[r], dpt[r], ids[r])
     \/ key[r] # Off /\ Faults /\ UNCHANGED cache
  /\ Answer(r)
  /\ UNCHANGED <<tables, tree>>

(* the time to live *)
Expire(e) ==
  /\ cache' = cache \ {e}
  /\ UNCHANGED <<tables, tree, pc, op, locals, history>>

(* a request is dropped where it stands: its process dies, or a statement    *)
(* fails.  A search without end only stops with its process                *)
Drop(r) ==
  /\ Faults
  /\ pc[r] \notin {"idle", "incr"}
  /\ Answer(r)
  /\ UNCHANGED <<tables, redis>>
-----------------------------------------------------------------------------
Updates(r) ==
  \/ \E d \in Dept, p \in Dept \cup {Top} : Move(r, d, p)
  \/ \E d \in Dept : Edit(r, d)
  \/ CheckParent(r) \/ CheckBelow(r) \/ WriteMove(r) \/ WriteEdit(r)

Others(r) ==
  \/ \E p \in Dept \cup {Top} : Create(r, p)
  \/ \E d \in Dept : Insert(r, d) \/ Remove(r, d)
  \/ Delete(r) \/ Increment(r) \/ Drop(r)
  \/ \E u \in User, d \in Dept \cup {NoDept} : Assign(r, u, d)
  \/ WriteAssignment(r)

Scopes(r) ==
  \/ \E u \in User : Scope(r, u)
  \/ ReadRevision(r) \/ GetCached(r) \/ Expand(r) \/ Store(r)

Next ==
  \/ \E r \in Req : Updates(r) \/ Others(r) \/ Scopes(r)
  \/ \E e \in cache : Expire(e)

Spec == Init /\ [][Next]_vars
-----------------------------------------------------------------------------
(* No department is above itself, and no search for what is under one goes   *)
(* on for ever, unless a request wrote on the strength of a check that       *)
(* another request had made out of date: requests that do not overlap never *)
(* build a cycle, whatever they move (department.service.ts:147, 294).      *)
CyclesNeedARace ==
  crossed \/ (Acyclic(parent, Alive) /\ \A r \in Req : pc[r] # "endless")

(* Unless such a request wrote, the requests above implement Trees, in which  *)
(* an operation is one step: each write takes effect as if its checks, made *)
(* in earlier statements, were made with it, on the tables as they are then *)
(* (department.service.ts:110, 147, 251; user.service.ts:247).              *)
Above == [x \in Alive |-> parent[x]]
Unborn == {x \in Dept : row[x] = "unborn"}
Serial == INSTANCE Trees WITH above <- Above, home <- member, unused <- Unborn
TreesSpec == Serial!TInit /\ [][crossed' \/ Serial!TNext]_(Serial!tvars)

(* The transfer records of a department lead to the parent it has, however   *)
(* its moves overlap, unless an edit that moved nothing wrote an old parent *)
(* over a move.                                                            *)
RecordsLeadToTheParent == \A d \in Dept : logged[d] = parent[d] \/ d \in undone

(* When no writer is about to increment the revision and no increment was    *)
(* lost, an entry a lookup would find holds the departments below its own   *)
(* as the table has them.                                                  *)
ScopesAreCurrent ==
  \A e \in cache :
    e.rev = tree /\ ~lost /\ (\A r \in Req : pc[r] # "incr") =>
      e.ids = Below(parent, Alive, e.dept)
=============================================================================
