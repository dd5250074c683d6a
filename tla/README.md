# ghostman: TLA+ models, checks and proofs

ghostman is the backend of an API client: a Go HTTP server over PostgreSQL that
keeps teams, projects, the folder and request tree of each project, environments,
and webhook endpoints that capture the requests sent to them. The server keeps
almost no state in memory. Every request runs in its own goroutine, and what makes
the program right or wrong is how the SQL statements of concurrent handlers
interleave at READ COMMITTED, PostgreSQL's default, which nothing in `internal/db`
changes. The models are therefore written at the grain of one SQL statement, with
the locks that statement takes.

`PROJECT.json` is the machine-readable index: components, runs, the map from
definitions to source lines, hazards, findings and theorems.

## Inventory

| Component | State | Operations | What is hard | What makes it correct |
|---|---|---|---|---|
| Folder and request tree (`api/folders.go`, `api/requests.go`, `db/folders.go`, `db/requests.go`) | `folders`, `requests`: project, parent, `sort_order` | create, move, reorder, delete, rename, settings | check-then-write over several statements, cascades, moves that cross, lock order | a forest inside each project; every call takes effect at one instant; no call blocks for ever |
| Project access and membership (`api/project_access.go`, `api/members.go`, `db/store.go`, `internal/authz`) | `team_members.all_projects`, `project_access` | replace a project's list, set a member's list, remove or leave, join | lists rewritten from both sides, checks before the transaction | grants only for members; a list is stored as sent; no half-written list is seen |
| Rate limiter (`internal/ratelimit`, `api/ratelimit.go`) | map of buckets under a mutex, time of the last sweep | `Allow`, `sweep` | lazy refill, eviction, the announced wait | the same as one token bucket per key; memory is bounded by recent keys |
| Webhook endpoints (`api/webhooks.go`, `db/webhooks.go`) | `webhook_endpoints`: project, unique slug, response | create, update, delete | quota counted before the insert, slug collisions across projects, bounded retry | the quota holds; a slug is never taken over; creating ends |
| Webhook captures (`api/capture.go`, `db/webhooks.go`) | `webhook_captures`, an id sequence, the client's cursor | capture (insert + prune), list after a cursor, clear, cascade | ids handed out before commit, prunes blind to each other | the newest are kept; a polling client misses nothing |
| Invitations (`api/invitations.go`, `db/invitations.sql.go`, `db/store.go`) | `team_invitations`: team, email, status | invite, accept, reject, revoke | accept, reject and revoke race; accepting and deleting a team lock in opposite order | one live invitation per address; one answer wins; acceptance and membership go together |
| Teams (`api/teams.go`) | `teams`, `team_members` | create with its owner, rename, delete | a deletion that races with invitations and joins | the owner is a member; nothing outlives its team |
| Project list, environments, variables, proxies, examples as ordered lists | `sort_order` of five tables | create at the end, reorder, delete | a position computed in the insert; the projects' reorder has no lock and no transaction | a reorder writes the order it was sent; positions tie only when writes overlap |
| Partial updates of teams, projects, environments, variables, folders, requests, proxies, examples, endpoints | the other columns; CHECK constraints; `proxy_id` with `ON DELETE SET NULL` | `PATCH` | checked against a row read earlier, merged into the row as it is by then | no update undoes another; a secret stores no value; the proxy of a node is its project's |
| Authentication and sessions (`api/auth.go`, `api/auth_middleware.go`, `db/sessions.sql.go`) | `users`, `sessions` | register, log in, log out, authenticate, hourly sweep | expiry against sweep, logout against calls under way | a token works as long as promised and not after its logout |
| Server lifecycle (`cmd/server`) | listener, signal context, cleanup goroutine, pool | start, migrate, signal, drain, stop | the order of stopping, also when start-up fails | the process ends; the pool outlives the cleanup; a graceful stop cuts nothing off |
| Upload tool (`cmd/upload`) | the temporary file and the live binary on the server | send, compare hashes, rename | the connection breaks; two uploads share a temporary name | only a whole binary is put in place |
| HTTP plumbing, configuration, generated query layer, hashing, progress display, test helper | none of their own | route, encode, parse | sequential | not state machines |

How they interact: every handler authenticates, asks `authz`, and then calls a store
method that runs one transaction. Components share tables through foreign keys:
deleting a project cascades into the tree, the grants and the endpoints; deleting an
endpoint into its captures; deleting a team into its members and invitations;
deleting a proxy sets the `proxy_id` of nodes to NULL. Tree moves, tree reorders and
endpoint creation also share one lock, the project row taken by `LockProject` (`FOR
NO KEY UPDATE`), which `DELETE FROM projects` conflicts with. Captures pass through
the rate limiter first. All statements take their connection from one pool, which
the main goroutine closes last.

## How PostgreSQL is modelled

* One action is one statement. A statement reads the tables as committed when it
  starts, plus what its own transaction has written. Uncommitted writes are held in
  `call[h]` and reach the tables in the commit step.
* Row locks are either a variable (`lock`, the project row) or read off the position
  and the uncommitted writes of the other handlers (`ForUpdate`, `NoKeyUpdate`,
  `KeyShare`, `Locks`, `call[g].del`). A statement that must wait is a disabled
  action.
* A statement that locks several rows locks them one by one, in sort order where it
  says `ORDER BY ... FOR UPDATE` and in any order otherwise, so that transactions can
  come to wait for each other. `DeadlockVictim` then ends one of those that do
  (`Deadlocked`: a handler that waits, through others, for itself).
* A `DELETE` with `ON DELETE CASCADE` locks its own row, then each row that refers to
  one it has, and takes effect when none is left (tree, lists, invitations).
* In access, captures and endpoints, about which only safety is checked of deletions, a
  `DELETE` of a list of rows is two steps, the snapshot and then all the row locks, and
  a cascade is one step that waits for all of its rows. Rows whose deletion another
  transaction commits in between leave the snapshot (`Forget`). Partial orders of
  locking would add deadlocks there, each of which ends a call as `Abort` does.
* A foreign key pins the row it refers to (`KeyShare`), waits while that row is being
  deleted, and fails if it is gone.
* `Abort(h)` may end a call anywhere before its commit: a cancelled request, a lost
  connection. It stands for `inTx`'s rollback, or for that of the one statement.
* A handler's reads before its transaction (access, existence, the ids of a list)
  are the call's first step. The actions of other handlers fall between that step
  and every statement of the transaction, which is where the races are.

## Modules

**TreeTables** holds the tables of a project's tree and what committed statements do
to them: `InsertRow`, `SetParent`, `Erase`. `parent_id` of a folder and `folder_id`
of a request are one column. `Ancestors` is the result of the recursive query of
`IsDescendant`, stated as a least fixed point so that it can be reasoned about
without recursion. `Acyclic` says that every non-empty set of live rows has a row
whose parent is outside it.

**AtomicTree** is the abstract specification: each accepted create, move, reorder or
delete happens at one instant on the tree as it is then.

**ProjectTree** is the implementation. State: the tables, the project lock, and for
every handler the next statement (`pc`) and its arguments and results (`call`).
Actions are named after the handlers (`handleMoveFolder`) and the queries
(`LockProject`, `requireFolderInProject`, `CheckCycle`, `UpdateFolderParent`,
`ListSiblingFolderIDs`, `BulkUpdateFolderOrder`, ...). A reorder locks its siblings
one by one in sort order (`LockSibling`) and then compares them with the client's
list (`checkSiblings`). A `DELETE` is a call of one statement in many steps: it
locks its row (`DeleteFolder`, `DeleteRequest`, `DeleteProject`), sweeps up the rows
below one at a time (`SweepUp`), and erases them all at once (`CommitDelete`).
`NoKeyUpdate` is a move's lock on its row, and `KeyShare` that of a foreign key on
the parent, which a move takes only when the parent changes. A deletion of a folder
and a move of a row below it into it can be stuck, and so can that deletion and a
reorder, or the deletion of the project: `DeadlockVictim` ends one. Creates take no
project lock, in the code and in the model, so two of them can pick the same
`sort_order`; the code breaks ties by `created_at`, and AtomicTree leaves the value
open. An `int4` `sort_order` at its maximum makes the next append fail: `MaxOrder`
plays that maximum, and `Insert` and `UpdateParent` have the failing branch.

**TeamAccess** has one team: `members`, `allProjects`, `projects`, `grants`, and
three kinds of handlers whose numbers are constants, so that a run chooses what
races with what. `AcceptInvitation` is the part of an acceptance that membership
sees. **MCTeamAccessSides** lets a behaviour choose which side writes (`acting`):
the member's, or the project's.

**TokenBucket** and **RateLimiter** are the promise and the implementation of
`internal/ratelimit`. `Allow` is one action because it holds the mutex throughout;
the sweep inside it is part of the action. Time is counted in units of refill, so
that the rate is one unit per tick and a token costs `Cost` units. The map lives in
memory and is empty after a restart of the process; the model is one life of the
process.

**AtomicEndpoints** is the abstract specification of webhook endpoints: a create
counts, finds its slug free and inserts at one instant. **WebhookEndpoints** models
`handleCreateWebhook` and its retry loop around `CreateWebhook`, and implements it.
The random slug is any slug.

**WebhookCaptures** models `CaptureWebhook` (insert, prune), `ClearCaptures`, the
endpoint's deletion, and a client that polls `handleListCaptures` with the last id
it has. A rollback does not return an id to the sequence. `stored` is a history
variable: every capture that was ever committed.

**Invitations** has the teams with their owners and members, and the invitations. A
user is identified with their address. An acceptance is three statements in a
transaction: the guarded `UPDATE ... WHERE status = 'pending'`, which locks the
invitation (`"join"`); the insert of the membership row, whose foreign key refers to
the team (`fresh`); the commit. Deleting a team locks the team and then, one by one,
the invitations its cascade has to reach (`held`). The two take their locks in
opposite order, so both can be stuck: `DeadlockVictim` is PostgreSQL's detector,
which ends one of them. An invite checks membership, inserts against the partial
unique index, and waits in its foreign key for a deletion of the team. Rejecting is
one statement, and revoking reads the status and then deletes by id alone.

**OrderedList** is the `sort_order` of the rows of one parent; `kind` says which of
the five tables a behaviour is about, and every handler and query has its own action
that asks for its kind. A create reads the maximum in the snapshot its statement
starts with (`ReadMax`) and inserts what it computed. A reorder takes the row locks
of `SELECT ... FOR UPDATE` one at a time in the order of its snapshot and skips rows
that have gone; the list the client sent is drawn when `checkSameIDSet` first looks
at it. The reorder of projects has no transaction and no lock before its `UPDATE`,
which locks the rows one by one in any order (`LockProjectRow`); its positions count
from 1. Deleting the parent is a call too: it locks the parent, which inserts then
wait for, and the rows one by one (`LockParent`, `LockCascade`, `DeleteParent`). So
a cascade against a reorder, two updates of the projects' order, or two reorders
whose snapshots had different orders may be stuck, and `DeadlockVictim` ends one.
`tied` is a history variable: a write that overlapped another has been committed
since the last reorder that met none.

**Settings** is one row of one of nine tables and the partial updates of it.
`Columns` gives each kind the columns that have a rule of their own, and one that is
merely replaced. A handler reads the row, checks what was sent (`NoSecretValue`,
`requireProxyInProject`, the shapes in `Patches`), and runs an `UPDATE` that merges
it into the row as it is by then (`Coalesce`, `MergedVariable`), under the table's
CHECK constraints and the foreign key of `proxy_id`. `DeleteProxy` sets the id to
NULL and leaves the mode.

**Server** is one process at a time. `phase` follows `run` and `serve`; `signal` is
the context of `signal.NotifyContext`; `cleanup` is the goroutine of
`RunSessionCleanup`. A statement takes a connection of the pool and gives it back
(`Acquire`, `Release`); the pool is pgxpool, modelled from its use, and its `Close`
waits for the connections that are out. `users` and `sessions` outlive the process.
`Shutdown` returns when all requests are done, or earlier (the drain timeout).
Requests also begin on connections that were accepted before: while `Shutdown`
drains, after its timeout and after the listener has failed. Requests that are left
meet a closed pool and end with an error. A statement may fail without an effect
(`StatementFails`); one that takes effect and whose answer is lost is the statement
itself, and so a registration can leave a user without a session. `promised` is a
history variable: until when a token was said to be good, and nothing once a logout
has deleted its row.

**Upload** is the tool run by several people against one host. Names refer to
inodes, so that `scp` and a running service keep the file they opened. A binary is
two blocks, which makes a file whole, partial, damaged or mixed. The connection may
break at any step and the service restart at any time.

**MCProjectContents** and **MCServer** put parts that share no variable into one
run. In MCProjectContents `part` says whether endpoints, a list or a row's settings
move, and in MCServer `uploading` says whether the upload tool or the server does;
the others stay in an initial state. The reachable states are the disjoint union of
the parts', so that nothing is lost and no product is explored. Their fairness is
that of the parts: it asks nothing of a handler that has not begun, and so nothing
of a part that stands still.

**MCProjectTreeLive** starts ProjectTree with one of three kinds of clients
(`clients`): those that reshape a subtree, those that create, reorder and delete in
one folder, and those that move and reorder. Together these are every pair of calls
that can wait for each other.

The other `MC*` modules add symmetry sets; the `.cfg` files give the constants
(`Invitations` is checked as it is). The `*_proofs` modules hold theorems only.
Operators with a comment that begins `Mutant:` are wrong variants of the definition
below them (a dropped lock, a missing cascade, an off-by-one). They are used by no
specification: replacing the definition by its mutant must break the property that
names it in `PROJECT.json`, which shows that the property depends on the code.

## Runs

| Run | Checks | Shows |
|---|---|---|
| `tree` | `Acyclic`, `CheckedMoveStaysSafe`, `ReorderSeesItsSiblings`, `ParentsInProject`, `ImplementsAtomicTree` | crossing moves cannot close a cycle; what a handler checked under the lock holds when it writes; no row ends up under a missing folder or another project's; interleaved calls look atomic |
| `tree_live` | `EveryCallEnds` | no call waits for ever, although the deletion of a folder may take its locks in the opposite order to a move, a reorder or the deletion of the project |
| `access` | `MemberSideGrants`, `SetMemberIsExact`, `ReplaceIsExact`, `GrantsLeaveOnRequest` | the membership row's lock serialises updates and removal of a member; one update of a project's list at a time stores what it was sent; no reader sees a list half replaced |
| `limiter` | `AdmissionBounded`, `RetryAfterIsEnough`, `IdleBucketsAreDropped`, `ImplementsTokenBucket` | lazy refill and sweeping cannot be told from a bucket per key |
| `captures` | `OverflowIsBounded`, `NewestStay`, `SerialNothingSkipped` | concurrent prunes lose none of the newest and leave a bounded surplus; where one caller waits for each answer, the limit is exact and the polling cursor misses nothing |
| `invitations` | `OneLiveInvitation`, `TeamsAreWhole`, `FirstAnswerWins`, `AcceptedMeansJoined`, `JoinsOnlyInvited`, `EveryCallEnds` | of concurrent answers one wins and makes a member in the same step; nothing outlives its team; opposite lock orders leave nobody waiting |
| `contents` | `TypesOK`, `QuotaHolds`, `ImplementsAtomicEndpoints`, `TiesComeFromOverlap`, `ReorderIsExact`, `ChecksSuffice`, `ProxySettingConsistent`, `UpdatesMerge`, `EveryCallEnds` | concurrent creates keep to the quota and look like single steps, so that no slug is taken over; lists are renumbered as asked; partial updates merge, and never meet a constraint the handler did not check; calls end |
| `server` | `TypesOK`, `TokensWork`, `LoggedOutStaysOut`, `PoolOutlivesCleanup`, `GracefulCutsNothing`, `ShutdownEnds`, `ExpiredAreSwept`, `LiveIsWhole` | sessions keep their promise over sweeps, logouts and restarts; every way of stopping ends, in the right order; an upload that no other overlaps puts only a whole binary in place, wherever it is cut off |

`TypesOK` is the type invariant of all parts of a run. Those of ProjectTree,
RateLimiter, TeamAccess, WebhookCaptures and Invitations are proved, and not
repeated in the runs.

Runs that TLC is expected to refute, because a comment or document of the repository
promises what the code does not keep:

| Run | Property | Source of the promise | What happens |
|---|---|---|---|
| `access_two_replaces` | `ReplaceIsExact` | `internal/db/store.go:60` | two concurrent updates of one project's list each clear only what they can see: the union of both lists stays |
| `access_replace_remove` | `GrantsOnlyForMembers` | `internal/db/store.go:142`, `README.md:278` | membership is checked before the transaction; a grant is written after the member's removal |
| `access_flag` | `GrantsKeptUnderFlag` | `README.md:276`, the projects migration | switching `all_projects` on deletes the explicit list that switching it off is said to restore (`README.md:273` describes the clearing, so the documents disagree with each other too) |
| `captures_skip` | `NothingSkipped` | the webhooks migration: the id "doubles as the polling cursor" | captures that commit out of id order fall behind the cursor |

Milder divergences have no run of their own. The properties that hold are stated so
that they say what remains true:

* `README.md:475` says that an endpoint keeps its newest 500 captures.
  `OverflowIsBounded` says how many more there may be while captures overlap (one
  for each other capture under way, until the next one prunes).
* The comment above `CreateProject` (`internal/db/projects.sql.go:71`) says that two
  clients creating projects at once "cannot both read the same max". Computing it in
  the inserting statement does not keep two statements from starting on one
  snapshot. `TiesComeFromOverlap` says that overlapping is the only way to tied
  positions, and that the next undisturbed reorder ends them.
* `README.md:95` allows a revocation "while pending", and `README.md:231` leaves
  answered invitations in place. `DeleteInvitation` deletes by id alone, so that one
  answered since the status was read goes as well; `FirstAnswerWins` therefore
  allows deletion after an answer, and only that.
* `README.md:735` says that a damaged upload never replaces the binary. Two uploads
  that overlap share the temporary name: a second `scp` writes into the file that
  the first has verified and may already have renamed. `LiveIsWhole` is about
  uploads that do not overlap, to a host that has `sha256sum` (without it the check
  is skipped, with a message).

### Bounds

* Tree: two handlers, so that every statement of a call can fall between any two of
  another; the races listed need two writers, one of which may be a `DELETE`. Two
  folders close a cycle by two crossing moves; a request and two projects make rows of
  both kinds and the checks of the project necessary.
  `MaxOrder` 2 reaches the overflow of the append and still has a non-trivial
  reorder; `MaxList` bounds the list a client sends, and one element too few or a
  repeated one is among the rejected lists. Moves append in both runs
  (`ClientOrder` is empty): a reorder brings about the same positions, the overflow
  included, and the theorems allow any order that a client may send.
* `tree_live`: one project, two handlers, and three rows for each kind of clients:
  two folders and a request that can be nested, or one folder with two requests in
  it. Lists have two ids, so that two of a folder's rows are locked one after the
  other in either order. With three handlers, key-share locks that overlap without
  end can starve a `DELETE`, which PostgreSQL permits as well.
* Access: an owner and two other users, two projects, and in one run either two
  calls that set a member's access or one that replaces a project's, beside two
  removals. Two that replace at once are the run `access_two_replaces`.
* The limiter run has two keys, a token of two units, a burst of two tokens and
  sweeps every three ticks. Nine ticks let a bucket empty, refill to the brim, be
  swept and be used again.
* Captures: two senders, a clearer, `Keep` 2 and four ids let captures overlap,
  overflow and be pruned by a later one. There are two endpoints because they share
  one sequence: any caller may call the first at any time, and the second has one
  caller that waits for each answer (`Serial`). Both kinds of callers exist; the
  code does not distinguish them.
* Invitations: one team, two users, two invitations, three handlers. Three handlers
  are an acceptance, a competing answer and the deletion of the team at once; two
  invitations are an answered one and its successor, or two being sent. Members
  leave and are removed without a handler.
* Contents: three slugs and a quota of two let one create fill the quota while
  another counts, and let slugs collide with committed and with uncommitted rows.
  Two rows and two handlers are two overlapping creates, or a reorder and a write
  that it meets. Two proxies, one of them the project's own, and bodies of up to two
  bytes cover every branch of the merges and of the CHECKs.
* Server: an account, a token, two requests, two starts of the process, and two
  ticks with a lifetime of one tick. A session is made, used or logged out by two
  requests at once, expires, is swept, and is met again after a restart.
* Upload: two uploaders, three uploads, four files (live, running, temporary and one
  that is still open without a name).
* Ids of an instance are used up: a create starts only while one is left, and
  deleted ids do not return. So a run says `CHECK_DEADLOCK FALSE` where the instance
  may really come to rest: every id used and everything deleted (tree, captures,
  contents, invitations, `access_two_replaces`), or the process stopped for the last
  time and the clock at its end (server). That no handler is stuck with work to do
  is what the liveness properties say.
* Symmetry is used for safety runs only.

### Fairness

ProjectTree, WebhookEndpoints, OrderedList and Invitations ask strong fairness of
`Advance(h)`, the next statement of a call under way. A goroutine runs until it is
blocked in PostgreSQL, which queues the waiters of a row lock, so a statement that
is blocked again and again is granted its turn in the end. ProjectTree, OrderedList
and Invitations ask weak fairness of `DeadlockVictim`, the deadlock detector. No
fairness is assumed of other failures or of clients making calls: calls must end
without anything else failing.

Server asks weak fairness of the main goroutine, of every request, and of the ticker
and the statement of the sweep; strong fairness of a sweep's success (not all of
them fail), and of `CleanupReturns`: a `select` whose context is done does not
choose the ticker for ever. `ExpiredAreSwept` ends when the process stops serving:
the ticker starts anew with the process, and a server that is restarted more often
than hourly never sweeps.

## Proofs

TLAPS checks these theorems for every value of the constants that satisfies the
named assumptions. `IdsAssumption`, `MaxOrderAssumption`, `MaxListAssumption`,
`ClientOrderAssumption`, `HandlerAssumption`, `LimiterAssumption`,
`InvitationsAssumption`, `ServerAssumption`, `TeamAssumption`, `CapturesAssumption`
and `EndpointsAssumption` say that quotas, limits, costs and clocks are natural
numbers (positive where the code's are), that ids of different kinds differ, and
that the values which stand for "none" are no ids. Slugs are finite in number, for a
project's endpoints are counted, and so are senders, because the bound on captures
counts them. `ContentsAssumption` has finitely many rows, because positions are
compared with their number, and `ToolAssumption` a bound on uploads that is a
number. No assumption bounds the users, projects, folders, requests, teams,
invitations, tokens or handlers.

| Theorem | Statement |
|---|---|
| `TypeCorrect` | `Spec => []TypeOK` (ProjectTree) |
| `TreeAcyclic` | `Spec => []Acyclic` |
| `ParentsStayInProject` | `Spec => []ParentsInProject` |
| `MovesStaySafe` | `Spec => []CheckedMoveStaysSafe` |
| `ReordersStaySafe` | `Spec => []ReorderSeesItsSiblings` |
| `TreeImplementsAtomic` | `Spec => ImplementsAtomicTree` |
| `LimiterTypeCorrect` | `Spec => []TypeOK` (RateLimiter) |
| `AdmissionIsBounded` | `Spec => []AdmissionBounded` |
| `RetryAfterSuffices` | `Spec => []RetryAfterIsEnough` |
| `IdleBucketsLeave` | `Spec => IdleBucketsAreDropped` |
| `LimiterImplementsTokenBucket` | `Spec => ImplementsTokenBucket` |
| `EndpointTypes` | `Spec => []TypeOK` (WebhookEndpoints) |
| `QuotaAlwaysHolds` | `Spec => []QuotaHolds` |
| `SlugsAlwaysStayPut` | `Spec => SlugsStayPut` |
| `EndpointsImplementAtomic` | `Spec => ImplementsAtomicEndpoints` |
| `AccessTypes` | `Spec => []TypeOK` (TeamAccess) |
| `GrantsNeverHalfReplaced` | `Spec => GrantsLeaveOnRequest` |
| `ProjectListsAreExact` | `Spec /\ []Uncrossed({"replace"}) => ReplaceIsExact` |
| `MemberListsAreExact` | `Spec /\ []Uncrossed({"set"}) => SetMemberIsExact` |
| `MembersTakeTheirGrants` | `Spec /\ []Uncrossed({"remove"}) => []GrantsOnlyForMembers` |
| `MemberSideKeepsGrants` | `OneSideSpec => []MemberSideGrants` |
| `CaptureTypes` | `Spec => []TypeOK` (WebhookCaptures) |
| `NewestAlwaysStay` | `Spec => NewestStay` |
| `OverflowStaysBounded` | `Spec => []OverflowIsBounded` |
| `PollingMissesNothing` | `Spec => []SerialNothingSkipped` |
| `InvitationTypes` | `Spec => []TypeOK` (Invitations) |
| `OneInvitationLives` | `Spec => []OneLiveInvitation` |
| `TeamsStayWhole` | `Spec => []TeamsAreWhole` |
| `FirstAnswerStands` | `Spec => FirstAnswerWins` |
| `AcceptingJoins` | `Spec => AcceptedMeansJoined` |
| `JoiningNeedsInvitation` | `Spec => JoinsOnlyInvited` |
| `ServerTypes` | `Spec => []TypeOK` (Server) |
| `PoolClosesLast` | `Spec => []PoolOutlivesCleanup` |
| `DrainingIsComplete` | `Spec => []GracefulCutsNothing` |
| `SessionsLast` | `Spec => []TokensWork` |
| `LogoutIsFinal` | `Spec => []LoggedOutStaysOut` |
| `LiveStaysWhole` | `BothSpec => []LiveIsWhole` (Upload, in MCServer) |
| `ServerAndToolTypes` | `BothSpec => []TypesOK` |
| `TiesAlwaysComeFromOverlap` | `ContentsSpec => []TiesComeFromOverlap` (OrderedList, in MCProjectContents) |
| `ReordersAreExact` | `ContentsSpec => ReorderIsExact` |
| `ChecksAlwaysSuffice` | `ContentsSpec => []ChecksSuffice` (Settings, in MCProjectContents) |
| `ProxySettingStaysConsistent` | `ContentsSpec => []ProxySettingConsistent` |
| `UpdatesAlwaysMerge` | `ContentsSpec => UpdatesMerge` |
| `ContentsTypes` | `ContentsSpec => []TypesOK` |

**The tree.** `Acyclic` and `ParentsInProject` are not inductive: whether a commit
keeps them depends on what a handler read statements ago. `IInv` adds what each
handler may rely on. `CallShape` ties arguments to the position in the call.
`NodeFound` and `ParentFound` say that a row that was checked can only have been
deleted since, because ids are not reused and rows do not change project.
`CommitReady` says that the rows an uncommitted write refers to are still there,
thanks to the key-share locks. `HoldsLock` says that a move or reorder past its
first statement holds the lock of its project if the project still exists, which is
what excludes a second mover. `DeleteReady` says that the rows a `DELETE` has locked
hang together below its own row, and `LocksExclude` that nobody else has a lock on
them, so that what it erases is a subtree which no uncommitted write refers to.
`MoveReady` is the cycle check, still true; `ReorderReady` is the sibling check,
still true. `MoveReady` is the heart: it survives another handler's create because a
new row has no children, another handler's delete because erasing whole subtrees
cuts no path, and another handler's move because that handler would have to hold the
same lock. ProjectTree_proofs begins with those three facts about the tables alone
(`InsertRowKeepsApart`, `EraseKeepsApart`, `SetParentKeepsApart`), with
`ConfinedWitness`: a set closed under parents that contains the one row and not the
other is what shows that there is no path, so no induction over paths is needed. One
lemma per action follows, `StepOK` joins them, and `StepAtomic` shows that a commit
or a delete is the AtomicTree step of the same name and every other statement a
stutter.

**The limiter.** `Conserved` says that units spent plus units left never exceed the
burst plus the time gone by; `WaitCovered` that a refused key gains a unit with
every tick of its wait; `KeptUnfilled` that what the last sweep kept was not full
then; `PastTimes` orders the clocks. `SweepChangesNothing` is the code's comment
"forgetting them changes nothing": a bucket is dropped only when it is full, and a
new one starts full.

**Endpoints.** The quota is not inductive: it holds at the commit because the count
was below it statements earlier. `HoldsLock` says that a create past its first
statement has the project's lock, `BelowQuota` that what it counted is still true,
and `SlugReserved` that nobody else has the slug of a row that is inserted and not
yet committed. So a commit is a create of AtomicEndpoints, and every other statement
a stutter.

**Access.** `Shape` says what a call has read and written by each statement: the
rows it deletes are rows of its own list, and what it inserts was asked for. With
`InsertsHold` and `OneWriter` (a member's row is updated or deleted by one
transaction at a time) it gives `GrantsLeaveOnRequest` for all handlers. The other
theorems need `Reached`: the rows that a list replaces, or a removal deletes, are
those its DELETE has found. Any number of calls about one member keep this for each
other, because they wait at the membership row. A call on the project's side takes
no such lock, and rows that it adds meanwhile are invisible to the statement, which
is how the runs `access_two_replaces` and `access_replace_remove` break these
properties. So the theorems assume `Uncrossed`, which says just that and nothing
about who else is at work: no call asks for a row which a replacing, setting or
removing call under way is about to delete, where one of the two is a project's
list. With it, `CommitClears` shows that every commit leaves `Reached` true for the
others. `AskedAreMembers` adds that those whom a project's list names are members
still, because a removal in between would have crossed it. Where only the member's
side writes there is nothing to assume: `MemberSideKeepsGrants` derives `Uncrossed`
from the shape of the calls.

**Captures.** `PrunesOldOnly` says of every row a prune has found, or deleted
without having committed, that `Keep` newer captures were stored or come with its
own commit. It survives every other step because `stored` only grows: a capture that
is deleted meanwhile was still stored, which is all that "newest" is about.

How many captures there may be cannot be read off the table, for prunes that have
looked and not committed are still to change it, and any of them may roll back.
`PrunesLeaveFew` therefore speaks of every subset of them: whichever commit, at most
`Limit` captures are left. It is preserved by a new prune because that one leaves
`Keep` of what it can see, and everything it cannot see is the one row each of the
other senders has inserted. `IdsDrawnOnce` says that the ids of these rows differ
from each other and from all that was stored. `SerialCursor` says that where one
caller waits for each answer the row under way comes after everything the client may
have.

**Invitations.** `OneHolder` says that the lock on an invitation has one holder, be
it an acceptance or the cascade of a team, and `Shape` that the invitation of an
acceptance under way is pending. Together they make a cascade wait for the
acceptance of any invitation it has to delete, and thereby keep the team there for
the membership row, with no need for a lock on the team. `InsertsAlone` says that an
insert past the unique index is the only one for its address until it commits.

**The server.** `Phases` says what exists in each phase (in particular that the pool
is closed only in the last one, which is entered without a cleanup goroutine or
after its end), and `StaysDrained` that no request begins after a successful drain.
For the sessions, `RowsArePromises` says that a row is what was promised or gone,
and `LateCalls` that a token that was logged out is never promised again.

**Lists.** `FreshCallsKnowAll` is the heart: a call that no other write has
overtaken (`stale` is unset) computes its position above every live row, or has
locked, or is about to lock, every one of them. So a tie needs a call that was
overtaken, which is what `tied` records. `PositionsBounded` bounds positions by the
rows ever created, `HeldAreThere` and `LocksExclude` say that rows a reorder has
locked cannot be deleted before it writes. The reorder writes positions one to n
along a list without duplicates (`checkSameIDSet`), which makes them distinct.

**Settings.** A CHECK sees the merged row, of which the handler saw one half and the
row as it was then the other. `CallsChecked` says that what reaches the UPDATE is
what was checked, and the invariant carries `Checks(row)` itself. A body and its
size are sent together, and the merge drops the value of a secret whichever call
made it one, so a row that satisfies its CHECK satisfies it after any merge.
`ProxySettingConsistent` is kept by the foreign key when a proxy goes between the
check and the UPDATE, and by `ON DELETE SET NULL` afterwards.

**The upload tool.** `TempIsOwn` says that an upload which is alone has the
temporary file to itself from opening to renaming, so that what it verified is what
it renames; `OneAtATime` that uploads which do not overlap are alone.

MCProjectContents_proofs and Server_proofs prove these about the composed
specifications that the runs check. A step of one part leaves the variables of the
others alone, so their invariants hold as they did.

**Only model-checked.** The liveness properties: `EveryCallEnds` of the tree, the
invitations, the endpoints and the lists, `ShutdownEnds` and `ExpiredAreSwept`. No
installed backend reasons about fairness or `ENABLED`. Every other property of a
passing run is a theorem.

## What is not modelled

* Rounding of `float64` in the limiter: tokens are whole units.
* The status code and wording of an answer. A failed call leaves no trace but its
  rollback.
* Authorisation is read when a handler starts and not again, as in the code; a
  caller who loses their right meanwhile still has that one call applied. The tree,
  endpoint, list and settings models let any handler call any operation on an
  existing parent, since its owner always may.
* What a body, a list of rows, an auth object or a script may look like
  (`api/request_body.go`, `api/key_value_rows.go`, `api/multipart_rows.go`,
  `api/node_scripts.go`): sequential validation of one message, without shared
  state. Settings takes the patches that pass.
* Name collisions of environments, variables and the like: a write that the unique
  index refuses changes nothing, as any other failure (`Abort`).
* Host routing, truncation of bodies and capturing of headers in `api/capture.go`,
  and the client's address for the limiter's key: functions of one message.
* Hashing of passwords and tokens: a token is a value nobody else has, a wrong
  password is a choice.
* The `-migrate` subcommands, configuration, routing, logging, JSON, the upload
  tool's progress display, and generated code, none of which has state of its own.
  The statements in generated code are modelled where they are used.

## Plan

1. **Done:** the tree, access, the limiter, endpoints, captures, invitations and
   teams, the ordered lists, partial updates, sessions and the process, the upload
   tool; abstract specifications of the tree, the limiter and the endpoints, with
   proved refinements.
2. **Done:** every safety and action property of the passing runs is proved.
   **Next:** abstract specifications of invitations and of access lists in which each
   call is one step, and the refinements.
3. **Composition** of Invitations with TeamAccess over one membership table, so that
   a rejoining member meets grants that were left behind.
4. **Pure algorithms** of the capture path (host to slug, body truncation, client
   address, paging) against reference definitions.
