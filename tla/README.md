# nest-admin in TLA+

Models of nest-admin: what it promises about sessions, accounts, locks,
authorizations, departments, notices and scheduled tasks when requests
interleave, Redis or MySQL fails and processes die. The modules are checked
with TLC on small instances; type correctness, the refinements and every
safety property of a passing run except `NeverWaits` are also proved with
TLAPS, for any accounts, tokens, departments, users and requests. Liveness is
model-checked only.

Paths below are relative to `src/`; `M` stands for `apps/api/src/modules`.

## The system

A pnpm monorepo: `apps/api` (NestJS, Drizzle on MySQL, Redis optional),
`apps/web` (Vue administration client), `packages/database` (tables, seeds),
`packages/shared` (constants). Several API processes may share one database
and one Redis.

All concurrency is between requests: a handler runs alone until its next
`await`, and any other handler, in this process or another, may run between
two of them. Most operations are several statements without a transaction;
Redis is "fail-open", that is, its errors are logged and the request goes on.
So a step of a model is one SQL statement, one transaction, or one Redis call,
together with the code up to the next `await`.

| Component | State | Operations | Interacts with | Hard behaviour | What makes it correct |
|---|---|---|---|---|---|
| Refresh-token sessions (`M/auth/refresh-token.service.ts`, `auth.service.ts`) | `refresh_tokens` | issue, check, rotate, revoke one / own / others / all, purge | account status, request guard, log cleanup, web client | rotation against revocation, reuse detection, limit checked before insert, requests that die half way | a token is exchanged once; a session has one usable token; revocation is complete; reuse evidence is exact |
| Account status and password (`M/user/user.service.ts`) | `users` | create, update, disable, remove, change password, unlock | sessions, lockout, RBAC cache | revocation in a second statement, logins that read the account before | no session survives the change |
| Login lockout (`common/login-lockout`) | failure counter and lock key in Redis, `users.locked_until` | check, record failure, clear, unlock | login | pipeline without transaction, lock set while others test, Redis loss | bounded guesses, a lock ends for a cause, persisted lock |
| Authorization cache (`M/rbac/rbac-cache.service.ts`, `permission.service.ts`) | revisions and entries in Redis | look up, store, invalidate | every guarded request, role and user changes | read before a change and stored after it, lost invalidation | no stale entry where lookups find it |
| Roles and grants (`M/rbac/role.service.ts`) | `roles`, `user_roles`, `role_permissions` | create, update, remove, replace permissions, assign | authorization cache | members selected after the commit | every affected user is invalidated |
| Data scope (`M/rbac/data-scope.service.ts`) | entries filed under user and tree revision | resolve | departments, roles | as above, with two revisions | as above |
| Departments (`M/rbac/department.service.ts`), menus (`menu.service.ts`) | parent pointers, `department_transfers` | create, move, remove, search | data scope, users | check, then write: concurrent moves; loops on a cycle | a forest; every move recorded |
| Scheduled tasks (`M/scheduled-task`) and Redis lock (`redis/redis-lock.service.ts`) | task table, log table, cron jobs per process, lock key | create, update, remove, run, reconcile | log cleanup | lock expiry without renewal, crash during a run, late finish, stale snapshot | one run at a time while the lock lasts; schedules converge |
| Notices, messages, events (`M/notice`) | `notices`, recipients, streams per process | draft, edit, publish, withdraw, stream, replay | Redis publish/subscribe, web client | compare-and-set on status, merge of history and live, lost publications | recipients get what was published |
| OAuth login (`M/auth/oauth.service.ts`) | state and exchange code in Redis, identities | start, callback, exchange | users, sessions | user and identity in two statements | one account per identity |
| Files (`M/file`) | rows, objects in storage | upload, remove | users' avatars | store and row in two systems | no row without object |
| Dictionaries (`M/dictionary`) | tables, revisions and entries in Redis | edit, look up | web client | as the authorization cache | as there |
| System configuration, posts, logs, log cleanup, statistics, monitor | tables | CRUD, append, aggregate | - | batches of the cleanup | - |
| Web client (`apps/web/src`) | tokens, rows and counters per tab | refresh on 401, tables, notifications | API | single flight per tab only, answers out of order | no answer replaces a later one |

`PROJECT.json` lists every component with its status, and every hazard at the
line where it bites with the properties that cover it.

## The modules

The most consequential state came first. A component has a module with its
state and actions, an `MC` module for TLC and, except for the lock, the
forest and the abstract modules, a `...Proofs` module; the modules share code
where the components do.

| Module | Extends or instantiates | Models |
|---|---|---|
| `RefreshTokens` | | the table of sessions and its statements |
| `AuthSessions` | `RefreshTokens`; implements `SessionFamilies` | the services on sessions |
| `SessionFamilies` | | what a session promises |
| `Accounts` | | one account, local or of OAuth, and what ends its sessions |
| `LoginLockout` | | failures and locks |
| `RbacCache` | | roles and cached authorizations |
| `Forests` | | rows that name a parent row |
| `Departments` | `Forests`; implements `Trees` | the department tree, its users, cached data scopes |
| `Trees` | `Forests` | what the departments promise when operations are single steps |
| `Notices` | implements `Inboxes` | a notice, its recipients, its announcements |
| `Inboxes` | | what a notice promises its recipients |
| `NoticeStreams` | | announcements between processes, streams, the unread count |
| `RedisLocks` | | the lock |
| `TaskExecutions` | `RedisLocks`; implements `Leases` | runs of scheduled tasks |
| `Leases` | | what a lock promises |

What the modules leave to each other: `Accounts` has a session as the epoch of
the account its login read, `AuthSessions` has its tokens; `Notices` has who
has to be told of a change, `NoticeStreams` how one user is told.

Next in line, if the model is taken further: `TaskSchedules`, the cron jobs of
each process reconciled with the table; two browser tabs that share one
refresh token, composed with `AuthSessions`; `FileResources`, objects in
storage against rows.

## Sessions: `RefreshTokens`, `AuthSessions`, `SessionFamilies`

`RefreshTokens` is the table `refresh_tokens` and its statements as operators;
`AuthSessions` extends it with requests, one action per statement of the
services, each with the guard, early return and error path of the code.

| Model | Code |
|---|---|
| `row[j]` | the row whose `jti` is `j`: `none` (no row), `live` (`revoked_at` NULL), `revoked`, with account, device, creation, expiry and `replaced_by_jti` |
| `status[u]` | `users.status`, `removed` for a deleted row |
| `pc[r]`, `op[r]`, `usr[r]`, `tok[r]`, `dev[r]`, `keep[r]`, `due[r]` | the statement a request sends next, and the local variables it still needs: its account, token, device, the session it keeps, the expiry computed before its statements |
| `doomed[r]` | history: the sessions a revocation was asked to end |
| `root`, `from` | history: the login a token descends from, and the token it replaced |
| `purging` | the background deletion `issue()` starts and does not wait for |

`LoginVerified` ... `IssueInsert` are `issue()`; `RefreshBegin` ...
`RefreshConflict` are `AuthService.refresh` with `check()` and `rotate()`, a
transaction and therefore one step; `RevokeAll...`, `RevokeOthers...`,
`Kick...`, `Logout` are the revocations, with the SELECT and the UPDATE of
each apart; `Deactivate` and `ChangePassword` commit first and revoke after;
`Guard...` is `JwtStrategy.validate`. `CleanUp` is the
deletion of dead rows by `LogCleanupService`, whatever the retention period:
one shorter than the life of a token (`LOG_RETENTION_DAYS` may be one day, a
token lives seven) deletes the evidence of reuse with the row, and a token that
is used again is then merely unknown. `Abort` ends a request at any await: a
statement that rejects, or a process that dies. The lookup of the user in a
refresh is the exception: `refresh()` takes a failure for a user that is gone
and revokes every session (`RefreshFindUser`).

`SessionFamilies` is the promise: a session is opened under a fresh token,
is passed on to fresh tokens only, and once ended never returns.
`AuthSessions` implements it under the mapping given by `root`.

| Run | Question | Bounds and why they are enough |
|---|---|---|
| `sessions` | single use, one usable token, exact reuse evidence, complete revocation, refinement | two requests of every kind, three tokens of one account, any request may abort. Every race in the code is between two statements of two requests; three tokens make a login, a rotation and a rotation of its result |
| `session_limit` | by how much concurrent logins exceed the limit | four tokens, a limit of two, two requests, a clock of three instants so that sessions expire and are purged |
| `session_liveness` | does a revocation take effect, does a refresh outlive a deactivation, also while dead rows are deleted | two tokens; requests do not abort, which both properties need: see below. The only run with the log cleanup; the theorems cover it everywhere |
| `reuse_cascade` | **violation** of `OnlyReuseCascades` | two requests, no abort |

`RevocationComplete` says of a revocation that has returned that none of the
sessions it found is usable, under any token. Its second part is the kick of
one session, whose UPDATE goes by the primary key it read before: the session
is over, unless a refresh exchanged its token in between. Then the UPDATE
meets the exchanged row, the kick reports success and the device stays logged
in; without the exception TLC finds that run.

`LimitOvershoot` bounds the live sessions by the limit plus one less than the
number of concurrent requests; the limit itself is not kept, because it is
read before the row is inserted. The bound is reached.

**Fairness** (`FairSpec`, liveness run only): weak fairness of the next step
of each request that has begun. Node resumes a handler once its statement
is answered, and with no `Abort` every statement is answered. Nothing is
assumed of requests that have not begun or of the clock.

**Finding** (`reuse_cascade`): a logout or kick between `check()` and
`rotate()` makes the rotation affect no row; `refresh()` takes that for reuse
and revokes every session of the account, where the comment of `check()` says
that such a token must only have its own request refused.

## Accounts: `Accounts`

| Model | Code |
|---|---|
| `local` | the account has a password its user knows; otherwise it is the one OAuth derives from a subject |
| `account`, `bound`, `provider` | its row and status in `users`, its row in `oauth_identities`, and whether the provider is enabled and registers new users |
| `epoch`, `sessions` | how often the account was disabled, deleted or given a new password; the epochs whose logins left a session |
| `pc[r]`, `op[r]`, `tag[r]`, `open[r]` | the statement a request sends next, what for, and the epoch and `autoRegister` it read |
| `gone` | the requests that know the account by an id that was deleted with it |
| `late`, `interrupted`, `stranded` | history: epochs of sessions opened after they had ended, a revocation that was not carried out, an OAuth registration given up half way |

`Create`, `FindName`, `InsertUser`, `ReadUser` are `UserService.create()` with
its three callers; `Authorize`, `Callback`, `FindIdentity`, `FindUser`,
`BindIdentity`, `CleanUp`, `Exchange` are OAuth, where the calls of one browser
are phases of one request because GETDEL gives a state and a ticket to one
call only. `Edit` and `Write` are the transactions of `update`, `remove` and
`changePassword`, `SelectSessions` and `RevokeSessions` what follows their
commit. `Drop` ends a request anywhere. The INSERT of an identity may take
effect although it fails; the account is deleted all the same, with the
identity and the sessions somebody may have opened through it meanwhile, and
the subject registers with another one. What still goes by the id of the first
(`gone`) then finds no row.

`accounts`: three requests, since what matters are two callbacks of a subject
or two logins with a withdrawal between them; two withdrawals, for an account
that is enabled again.

`NobodyIsStranded`: an account of OAuth is bound to its subject, or one
callback is about to bind it, unless a registration was given up between its
two statements. Such an account can be reached by nobody and blocks its name.
The second part, `OneRegisters`, says what does not cause it: callbacks of one
subject race for the INSERT of the user, whose name is derived from the
subject, and the loser fails there. The comment at `oauth.service.ts:360`
expects the collision at the identity; no run of two callbacks gets there.
`StaleSessionsNeedARace`: who was disabled or deleted, or changed his
password, has no session from before, unless the revocation is under way or
was interrupted, or the session was inserted by a login that had read the
account before. The code prevents neither exception; the guard of `AuthSessions`
refuses such sessions of a disabled account, but not those of a new password.

## Lockout: `LoginLockout`

| Model | Code |
|---|---|
| `count[n]`, `countExp[n]` | the key `fail:<name>` and the end of its time to live |
| `lockExp[n]` | the end of the key `lock:<name>` |
| `dbLock[n]` | `users.locked_until` of the account stored as `n` |
| `Stored[n]` | the username of the account that MySQL finds for `n` |
| `pc[r]`, `name[r]` | the call a login or unlock makes next, and its username as typed |
| `tested`, `told`, `stale`, `blind`, `faulty` | history: passwords tested, the lock last reported, a request overtaken by a lock, one whose PTTL failed, whether a call failed |

`LoginBegin`, `CheckLocked`, `VerifyPassword` and `RecordFailure`, `SetLock`,
`WriteLockedUntil` follow `AuthService.login` and `recordFailure()`; `Clear`,
`Unlock` and `ClearLockedUntil` are `clearOnSuccess()` and `clearLock()`. A
Redis call may fail with or without effect, or be sent again by ioredis once
its answer was lost, and the pipeline of INCR and PEXPIRE fails part by part;
the reading of the policy before it may fail as well. A system without Redis is
one whose calls all fail. `MaxNow` caps the clock, and `MaxCount` what is
tested while nothing fails.

A name has spellings. MySQL compares usernames without regard to case
(`utf8mb4_unicode_ci`, `docker-compose.yml:66`), `LoginDto` leaves the name as
it was typed, and the counter and the lock are keys of that spelling
(`auth.service.ts:81`, `:98`), while a success clears the keys of the stored
username (`:116`). So each spelling of an account is counted and locked by
itself, although the comment of the class speaks of the account: the passwords
tested against an account are bounded only by the number of its spellings times
the bound of one, a login under another spelling is not held up by the lock of
the first, and if it succeeds it ends the lock of the stored name. The lock of
a spelling that is not the stored one is ended by nothing but time.

`login_lockout`: two requests on two spellings of one account and an unknown
name, a threshold of two, a window of two ticks and a lock of one, so that the
lock ends while the counter lives on, and the reverse. `GuessBound`: fewer than
threshold + requests passwords are tested under one spelling before its lock,
as long as no call fails. `LockEndsForACause`: the lock of a stored name ends
early by an administrator, or by a right password that was past the check when
the lock was set, could not be checked, or was checked under another spelling;
no other lock ends early - whatever fails. The view of the run drops what no
later step reads: what was tested once a call has failed, and the count past
the threshold.

**Finding** (`lockout_persisted`): the UPDATE of `locked_until` has a
placeholder without a value, so it always fails and the lock is never in the
database, where the comment of the class says it is.

## Authorizations: `RbacCache`

| Model | Code |
|---|---|
| `roles`, `state`, `perms` | `user_roles`, status and deletion of `roles`, `role_permissions` |
| `urev`, `cache` | the revision keys and the entries in Redis |
| `key[q]`, `seen[q]`, `read[q]` | the revision a lookup read (`NoKey`: Redis failed), the roles and permissions it selected |
| `todo[q]` | users a writer has still to invalidate |
| `lost` | history: users whose invalidation failed, until the next that succeeds |
| `held`, `had` | history: the roles of a user, and the permissions of every role, in force at some moment since the user's revision was last incremented |

A lookup is five steps (`ReadRevision`, `GetCached`, `SelectRoles`,
`SelectPermissions`, `Store`), a role change three (`CommitRole`,
`SelectMembers`, `Increment` per user), an assignment two. `Die` is a writer
that ends between commit and invalidation; `Expire` the time to live.

`CacheIsCurrent`: once nobody is about to invalidate a user and none of the
invalidations was lost, the entry under the current revision is what the
tables say. This is what "read the revision first, store under it last" and
"commit first, select the members, invalidate last" are for. `rbac_cache`
checks it with two requests, two users, two roles and at most one round of
concurrent writers (`MaxRev`) - enough for a lookup against a writer, and for
two writers around a cached entry; the theorem covers any number.

`CacheIsCurrent` says nothing while a writer is under way, and never again
after an invalidation was lost, until the next one. `RevokedStaysRevoked` holds then
too: the entry under the current revision has only what was in force at some
moment since that revision was made, so a role or permission revoked before
does not come back, however many writers follow and whatever fails.

## Departments: `Departments`, `Trees`, `Forests`

| Model | Code |
|---|---|
| `row[d]`, `parent[d]` | status, `deleted_at` and `parent_id` of a department |
| `logged[d]` | where its transfer records lead |
| `member[u]` | `users.dept_id` |
| `tree`, `cache` | the revision of the tree and the data-scope entries in Redis |
| `pc`, `op`, `dpt`, `usr`, `from`, `to`, `key`, `ids` | the statement of a request and its local variables: what it works on, the parent it read and the one it asks for, the revision it read, the departments it found |
| `stale`, `crossed` | history: requests whose checks another has made out of date, and whether such a request has written |
| `undone`, `lost` | history: departments an edit has put back under another parent; an increment of the revision that failed |

`Move` ... `WriteMove` are `update` with another parent: it is usable, it is
not below the department, and the UPDATE compares the parent with the one
read. It writes the rest of the form as well, the status included. `Edit` and `WriteEdit` are `update` with the parent the form shows, which
writes it again without comparing. `Create`, `Remove`, `Assign` check in one
statement and write in another. `Scope` ... `Store` are
`resolveCachedDataScope`. A search that does not end (`findDescendantIds` on a
cycle) leaves its request in `endless`.

`Forests` defines what is below a row, and acyclicity, by quantifying over
sets of rows. `MCDepartments` has the search of the code as well, queue and
all, and the assumption `SearchFindsBelow`, which TLC evaluates, compares the
two on every graph.

`departments`: every tree of two departments and two requests of every kind,
one of which may die at any point. Two departments are what a cycle takes:
each is moved under the other; two requests are what a race takes. `MaxTree`
lets writers start until the revision was incremented once; those under way
finish, so entries of an earlier and of the current revision meet.

`TreesSpec` says what the checks are for: until two requests cross, the
requests implement `Trees`, where an operation is one step that checks and
writes at once; in particular nothing in use is below a removed department and
no user is in one. The counterexamples without `crossed`
are short: two moves that each find no cycle; a user assigned to a department
that is being removed. After the first a search below one of the two does not
end, and blocks its process; `CyclesNeedARace` says that no search
does so otherwise.
`RecordsLeadToTheParent`: the comparison in the UPDATE keeps records and tree
together, except where an edit wrote an old parent over a move.
`ScopesAreCurrent` is `CacheIsCurrent` for the tree.

## Notices: `Notices`, `NoticeStreams`

| Model (`Notices`) | Code |
|---|---|
| `status`, `text`, `type` | the row in `notices`, `text` for all a form can set that no check reads |
| `targets`, `recipients[u]` | `notice_targets`; the row of `notice_recipients` and its `read_at` |
| `seen`, `kind`, `ids`, `sets`, `to` | local variables: the status read, the targets to go by, which columns an edit sets, the users to tell |
| `gone` | requests about to mark a row that a publication has replaced |
| `unaware`, `dropped`, `stale`, `crossed`, `late` | history: users not told of a change; those whose announcement died; requests that read targets or recipients changed since, and whether one of them has written |

Each write compares the status with the one read (`WriteEdit`, `WritePublish`,
`WriteRemove`) or with the only one it takes (`WriteWithdraw`), and nothing
else. `InboxesSpec` is what that comparison is for: the requests implement
`Inboxes`, where what a notice says and who has it stay while it is shown, a
message is read once, a withdrawn notice comes back only as a new unread
message, and a removed one never. The mapping takes a notice for hidden unless
its status is "published", as `availableMessage` does. `RecipientsNeedARace`
is what it is not enough for: an edit between the
statements of a publication leaves a notice published to the recipients of its
old targets, and two edits leave targets of another kind than the type.
`EveryChangeIsAnnounced`: whose messages change is told, unless the process
died or a withdrawal went by recipients another publication had replaced.

`notices`: two requests, two users, a notice for everybody, for a user or for
a role that stands for somebody or nobody, two texts. What a
target stands for does not change: a publication reads it once.

| Model (`NoticeStreams`) | Code |
|---|---|
| `changes` | how often the messages of the user have changed |
| `due`, `channel`, `up` | calls of `publishToUsers` under way, messages of the Redis channel, processes that are subscribed |
| `stream`, `opening`, `inbox`, `closing` | the process that holds the stream of the tab, and what is on its way to the tab |
| `tab`, `fatal`, `timer` | `connectionState`, whether `fetchEventSource` gave up, the polling timer |
| `asks`, `read`, `latest`, `shown` | requests for the unread count, what they were answered with, `refreshSequence`, `unreadCount` |
| `missed` | history: an event or answer was lost and nothing asked since |

`notice_streams`: two processes, so that an announcement comes from the
process of the stream or from the other; two requests for the count, one of
which overtakes the other; one change; two faults, each a failed PUBLISH, a
broken subscription or stream, a refused connection, a failed request, a
PUBLISH whose reply is lost and which ioredis sends again
(`redis.module.ts:31-36`), or a crash. A second fault is what a recovery from the first can meet.

`CountIsCurrent`: once nothing is under way, a tab with a stream shows the
count there is, although announcements, streams and answers overtake each
other, unless an event or answer was lost. The order of history and live
events, which a comment of the controller asserts and `merge()` does not keep,
does not matter for it: every event makes the tab ask. A refresh that fails
while the tab is connected is not repeated; a comment of the store
(`notifications.ts`) counts on the timer, which runs without a stream only.
That a stream is given the event of a change once is not claimed: a PUBLISH
that is sent again is taken twice by the other processes, and on a reconnect
history and live events may announce the same change. The tab asks once more
and shows the same count. `CountNeverGoesBack`: the store compares the
answer of a request with `refreshSequence`, so an answer that a later request
has overtaken never puts an older count back.

**Fairness** (`FairSpec`, for `CountCatchesUp`): weak fairness of each step of
a call under way and of each message on the channel (Node resumes handlers,
Redis delivers to who is subscribed), of connecting (`fetchEventSource` tries
again after three seconds), of what the tab does with what arrives, of the
timer, and of answers to requests for the count. A poll is due every 60
seconds and a request fails after 15, so one that is under way ends before the
next; this is why `Poll` waits for it. Nothing is assumed of changes, faults,
mounting, or of subscribing again.

## Scheduled tasks: `RedisLocks`, `TaskExecutions`, `Leases`

`RedisLocks` is the lock service: keys with a holder and an end, SET NX PX,
compare-and-delete. `TaskExecutions` extends it with the executions of
`scheduled-task.service.ts`.

| Model | Code |
|---|---|
| `holder[k]`, `until[k]` | value and expiry of `lock:scheduled-task:system.log.cleanup` (`task`) and of `lock:cleanup:logs` (`cleanup`), which the only registered handler takes inside the first, and `POST /operation-logs/cleanup` alone |
| `redis` | whether the deployment has Redis; without, `runExclusive()` just runs |
| `alive[p]`, `last[p]` | `deleted_at`, `last_run_at` and `last_run_status` of a plan |
| `log[e]` | the status of the entry of run `e` in `sys_scheduled_task_log` |
| `pc[e]`, `plan[e]`, `began[e]`, `sent[e]` | the call a run makes next, its plan, its start, and the UPDATEs of its outcome that are under way; `NoPlan` for a cleanup started from the log page |
| `took`, `did`, `faulted` | history: until when a lock taken was to hold, what became of the cleanup, whether a statement failed |

`Begin`, `InsertLog`, `MarkRunning` are `createExecution()`, the same for a
cron job and for a manual run; `BeginCleanup` is the other caller of
`LogCleanupService.runManually()`, the request `POST /operation-logs/cleanup`
(`operation-log.controller.ts:70`), which takes the lock of the cleanup without
that of the task and writes no entry; `AcquireTask` ... `ReleaseTask` the nested
`runExclusive()`; `Record` one answer to the two UPDATEs that
`finishExecution()` sends at once. The first error among them makes the
`catch` of `performExecution()` record a failure while the other may still be
under way, so the outcomes of one run can reach the tables in any order.
Every lost answer comes with and without its effect; `Die` ends a process's
run anywhere. `MaxFaults` caps the failures, `MaxNow` the clock.

`task_executions`: two runs of one plan, of two, of which one can be removed,
or of none,
locks of two ticks and one, three instants, two failures. Two runs are enough
for one to outlive a lock that the other takes, and for each order of their
four writes; they meet at the locks of the handler whatever their plan, and at
the last-run columns when it is the same. The `VIEW` of `MCTaskExecutions`
leaves out what no step or property reads any more.

`Exclusion`: two runs are inside what a lock protects only if one of them has
outlived it. Two cleanups therefore overlap only if the lock of the cleanup was
outlived; if both are runs of plans the lock of the task was outlived as well,
not always by the same run. Neither lock is renewed: a scheduled cleanup of
more than ten minutes overlaps with one that is started from the log page, and
one of more than an hour with the next scheduled one too.
`LeasesSpec`: each of the two locks, seen with the runs inside the part it
protects, implements `Leases`: taken only when free, ended by its term or by
the run that took it as it leaves, never by a run that outlived its own.
`NeverWaits`: a lock that is held, or was left behind by a dead
process or a lost answer, delays nobody; as every step of a run is one of at
most 13 (`RunsOnlyGoForward`), every run that survives comes to its end.
`LogTells` and `LastRunSettles` relate what
is recorded to what happened.

Three things the code does that the properties spell out: a cleanup whose own
lock is refused counts as a success that cleaned nothing; a successful run
whose outcome could not be written at once is recorded as a failure; the
entry of a run that died stays "running".

## What is proved

The eight `...Proofs` modules hold for all values of the constants that meet the
named assumptions of the modules (names apart from elements, positive limits
and times to live, finitely many requests where they are counted).

* `AuthSessions`: the inductive invariant (`InductiveInvariant`) joins the
  types with the lineage of the table (a replaced row is dead, has one
  successor of the same session, and a session's tokens form a line of which
  only the last can be usable) and with what each request remembers (a refresh
  past `check()` holds a row that is or was live; a revocation past its UPDATE
  left nothing alive of what it was asked to end; a kick past its UPDATE has
  ended the last token of its session, unless that token has a successor).
  None of the properties is
  inductive alone: that a rotation creates one usable token needs that the
  rotated row was the session's last. From it: `TokensAreSingleUse`,
  `SessionsHaveOneToken`, `ReplacedMeansExchanged`, `RevocationsComplete`,
  `DeactivationWins`, and the step simulation `ImplementsFamilies`.
  `LimitHolds` counts. `LimitOvershoot` is not inductive: a login about to
  insert, or a refresh past `check()` about to renew a token that has expired
  meanwhile, adds a session. So `WithinLimit` counts both with the usable
  sessions of an account. A request that passes the check of the limit leaves
  fewer usable sessions than the limit, and each other request adds at most
  one, by its INSERT or by the token it holds. This needs finitely many
  requests (`ReqAssumption`).
* `LoginLockout`: `LocksEndForACause` from `PastCheck` (a request past the
  check of a locked name was overtaken or blind). `GuessesAreBounded` from
  `Guesses`: without a lock, what was tested beyond the threshold belongs to
  requests still on their way to count it or to set the lock; under a lock,
  tested passwords and requests past the check together stay below the bound.
* `RbacCache`: `CacheStaysCurrent` from the step lemma that a step gives a
  user a new revision or changes nothing a settled user would notice
  (`LookupKeeps`, `WriteKeeps`), and from what a lookup holds while its
  revision is current. `RevocationsLast` from `RecentInv`: what lookups read
  under a revision, and what is filed under it, was in force since it was made;
  a step adds to what was in force (`Grown`) or makes a new revision.
* `TaskExecutions`: `CleanupsExclude` from `LockInv` (inside the part a lock
  protects, a run still holds the lock it took or has outlived it);
  the step simulation `ImplementsLeases`, for each of the locks: an acquisition
  is `Take` (with or without going inside), a release or a death inside is
  `Leave`, the clock is `Pass`, and what happens at the other lock a stutter.
  `LogsTellTheTruth` from `RunInv` (no outcome
  is in the log before it is known, and whatever is under way is true);
  `LastRunsSettle` from `PlanInv`: of a plan whose runs were undisturbed, some
  run has written the columns last, and they are "running" only while its
  outcome is still to be written. `RunsOnlyGoForward` by the measure `Left`,
  which every step of a run decreases: an error repeats the recording, but
  once, so what a run may still send stays bounded (`SentInv`).
* `Departments`: `NoCycles` and `NoOrphans` from `TreeInv`: while no request
  has crossed another, the tree is in order and what each request that is not
  stale has checked still holds. The core is `MoveKeepsForest`, a fact about
  any set of rows: to move a row under one that is not below it makes no cycle.
  The step simulation `ImplementsTrees` rests on the same: `WriteMove` is
  `Put`, `Insert` is `Open`, `Delete` is `Close`, `WriteAssignment` is
  `Settle`; an edit that is not stale writes the parent there is.
  `RecordsAreRight` is inductive by itself.
  `CachedScopesAreCurrent` goes as `CacheStaysCurrent`.
* `Notices`: the step simulation `ImplementsInboxes` from `SeenInv` (no request
  compares with "published"): drafts and readers of a hidden notice stutter,
  `WritePublish` is `Post`, `WriteWithdraw` is `Retract`, `WriteRemove` is
  `Discard`, `WriteMark` and `MarkAll` are `Read`; `RecipientsAreRight` from
  `RaceInv` (a request that is not stale holds the type and the recipients the
  tables imply);
  `ChangesAreAnnounced` from `AnnounceInv` (a withdrawal that is not stale
  knows every recipient).
* `NoticeStreams`: `CountComesOut` from `CountInv`: the number the tab has or
  will be answered with is current, or something is on its way that will make
  it ask; a call that is sending again has been given out already.
  `CountsStayNew` from `ReadInv`: the answer the tab waits for was read after
  the count it shows.
* `Accounts`: `Inv` and `OneRegisters` are inductive together: who inserted the
  user is alone with an unbound account until it binds or deletes it, and only
  its own failed INSERT leaves a bound one to be deleted. From it
  `Reachable` and, for the epochs, `WithdrawalEndsSessions`.

Only model-checked: `RevocationTakesEffect` and `CountCatchesUp` (liveness) and `NeverWaits` (the prover treats neither
fairness nor ENABLED; what `NeverWaits` rests on is proved as
`OutcomesAreOnTheirWay`: a run that waits for its outcome to be recorded has
sent one), and the two violations. `SearchFindsBelow` compares a
recursive search with its definition on bounded inputs; induction over data is
beyond the prover as well.

## What is not modelled

Texts, layouts and log records; token signatures and hashing (a token that
verifies is one that was issued and has not expired); the paginated lists.
Isolation anomalies inside one MySQL transaction are not modelled: the
transactions here lock the rows they change, so each is one step.

Of the components:

* Menus move like departments, on another table and without transfer records;
  dictionaries are cached like authorizations, under one revision. A module of
  either would repeat `Departments` or `RbacCache`.
* Posts, system configuration, logs, statistics and the monitor are
  independent rows, appended records or reads: no property of theirs takes more
  than one step to violate.
* Files and storage: an object is stored before its row and removed after it,
  by calls to a disk or a service outside the repository; which of the two
  stays behind when one fails is a matter of the single failure.
* The cron jobs of a process: `TaskExecutions` lets a run begin at any time, so
  its properties hold whatever the jobs do; that jobs follow the table within
  the fifteen seconds of a reconciliation is not stated.
* The web client except its event stream: the refresh shared by the requests of
  one tab, and tables whose overtaken answers are dropped by the same sequence
  number as those of the notification store. Most of the repository's lines
  are views, seeds, migrations, DTOs and lists, which keep no state a property
  could be about.

`PROJECT.json` names each of these with its status.
