# Formal models of the platform

This directory holds TLA+ models of the Go services and of the browser
application of this repository, the TLC runs that check them on small instances,
and TLAPS proofs of the properties that matter most. Paths are relative to the repository root; `auth/`, `rbac/`, ...
stand for `services/auth/internal/`, `services/rbac/internal/`, ...

To check a run: `tlc -config Sessions_kept.cfg MCSessions`; to check the proofs:
`tlapm SessionsProofs.tla`. `PROJECT.json` lists the runs, the lines of code each
definition stands for, the mutants each property detects, the hazards and the
theorems.

## 1. The system

The backend is a set of Go services that share one Postgres server (one schema
per service) and one Redis; the browser talks to them through the gateway. Every
service may run in several replicas, so two handlers of one service interleave
between any two SQL or Redis commands.

| Part | State it keeps | Operations | How it interacts |
|---|---|---|---|
| `services/auth` | `auth.sessions` (rows of refresh tokens), credentials, password history, MFA and recovery codes; Redis: rotation locks, grace entries, reset grants, failure counters; in memory: the claims cache | register, login, refresh, logout, revoke, change, reset or set a password, set an account's state, sweep | asks rbac for claims; publishes user, mail and audit events to Redis streams |
| `services/rbac` | roles, permissions, assignments, `rbac.user_versions` | role and assignment changes in transactions, ResolveClaims | writes the versions to Redis keys the gateway reads, publishes forced logouts; consumes `user.created` |
| `services/gateway` | per upstream: circuits, in-flight slots, a response cache; Redis: idempotency records, rate windows | routing, validation, the version check, proxying with retries and hedging | calls every service |
| `services/users` | profiles, deletion schedule, exports, announcements | profile CRUD, deletion, erasure | publishes and consumes user events |
| `services/worker` | `audit.processed_messages`, attempt counters, sent markers, dead-letter streams, the audit chain | consumes the streams, sends mail, replays | the only consumer of mail and audit; relays `audit.event_outbox` |
| `services/realtime` | an in-memory hub of websocket clients | register, unregister, broadcast, kick | subscribes to the channels auth and rbac publish to |
| `services/scheduler`, `internal/platform` | leases in Redis, the outbox table `audit.event_outbox` | elect a leader, run a job on each tick, publish through the outbox | used by every service that has housekeeping |
| `packages/contracts`, `apps/web` (host) | the access token and the refresh in flight, per bundle and tab; the user on screen; two broadcast channels and a lock of the browser | request, retry after a refresh, restore, sign in and out, support sessions, settings | talks to the gateway; tabs talk to each other |
| `apps/web-auth` | the form on screen, attempts left, the wait | sign-in, forgotten and new password, registration, links | calls auth; hands the session to the host |
| `apps/web-admin-users`, `apps/web-admin-roles` | cached lists, hidden rows, queued deletions, one dialog, one question | list, select, delete with undo, register, import, edit roles and assignments | call users, auth and rbac; told of changes by realtime |
| `apps/web/src/ProductPage.tsx`, settings lists | records and a filter, query boxes, sockets, cards | list, create, complete, import, search, connect, save | call users; other administrators write the same records |
| `apps/web/src/shell`, `lib/ui.tsx` | palette, bar, drawer, scroll places, health pill | shortcuts, navigation, focus loop, pings | wraps every page; shares the window's listeners |

### What is hard, and what makes each part correct

| Part | Hard behaviour | Correct when | Module |
|---|---|---|---|
| refresh sessions | two tabs refresh one token; a replay or a revocation lands between two statements of a rotation; a lock outlives, or is outlived by, its owner; a statement fails half-way | one live token per family, a revoked token never works again, two tabs never end their own session, locks free themselves | `Sessions`, `TokenChain` |
| mail jobs | redelivery while the first worker still holds the job; a crash between marker, send and checkpoint; failures of the calls that record failures | a mail leaves once, a job is never lost, every job is settled | `MailJobs` |
| claim versions | a change commits between the reads of a login; versions written to Redis in the other order or not at all; stale caches | the gateway refuses a token that carries removed permissions | `Claims` |
| leader election | a leader that goes on after its lease expired; a dead leader's key; a release that comes late | one replica works, somebody eventually does | `Leader` |
| credentials | two changes of one password; rehash, lock or session of a sign-in that read the row before; a counter that lost its TTL; one grant used twice at a time | a replaced password and its sessions are gone; a lock is the effect of recent failures and an administrator's lock stays; a link, code or secret serves once | `Credentials` |
| sign-in pages | answers in any order, also for a page that was left; failing calls | the page waits after its failures, no button rests for good | `SignIn` |
| user directory | undo against timer, failure of one deletion of several, polls and messages that are late or lost | what is hidden is being deleted, nothing is deleted twice, what is gone goes from the page | `Directory` |
| role and assignment forms | whole sets written back from cached rows; nested questions; answers for a form that has gone | a write changes what was asked; edits are not lost; nothing stays busy | `Access` |
| silent refresh and auth state | requests, bundles and tabs that share one refresh, against sign-in, sign-out, reload and support sessions | tabs agree on who is signed in, no token is presented twice, settings are saved for their owner | `Tabs` |
| console and settings lists | lists and answers that overtake each other, an import that fails midway, two sockets | what is shown was asked for, what is said is true, one record per click | `Console` |
| frame | one set of keys for page, palette, help and drawer; timers and saved places that outlive a route | keys, focus, places and the pill go with the page on screen | `Shell` |
| outbox and relay, audit batches | the relay takes a row its publisher is still publishing; one failed statement of a batch | an event committed is published and chained once but for the crash windows | planned: `Outbox`, `AuditJobs` |
| scheduler ticks | a job that goes on after its lock expired | one replica runs a job at a time | planned: `Jobs` |
| gateway | a retry of a POST under the same key; answers of requests started before a circuit opened; the in-flight limit | a keyed POST is executed once unless the client was told it failed | planned: `Gateway` |
| account life cycle | deletion against cancellation, erasure against late events | an erased account does not come back | planned: `UserLifecycle` |
| realtime hub | join against disconnect against kick | no closed socket in a room, no client outside the hub | planned: `Hub` |

`PROJECT.json` lists every component, modelled or not, and each hazard at the
line where it bites, with the properties that cover it or the module planned.

## 2. What is modelled

### `Sessions`: refresh-token families (`auth/service.go`)

| State | In the code |
|---|---|
| `st`, `info`, `expired` | rows of `auth.sessions`; a token and the row with its digest are one number, in creation order |
| `status` | `users.users.status` |
| `grace` | `refresh:grace:<digest>`: the successor handed to a duplicate refresh |
| `lock` | `refresh:lock:<digest>` with its owner |
| `pc`, `tok`, `dev`, `own`, `out` | a handler under way: what it does next and its local variables |

Every request slot runs one handler: `BeginLogin` (Login, startSession),
`BeginRefresh` (Refresh), `BeginLogout` (Logout), `Deactivate` (SetUserState).
An action is one SQL or Redis command with the code up to the next one: a refresh
is `BeginRefresh`, `AcquireLock`, `RereadGrace`, `SelectSession`, `CheckUser`,
`SaveRotated`, `InsertSession`, `EnforceCap`, `StoreGrace`, `ReleaseLock`, and
turns off to `KillFamily` or `SaveExpired` as the code does. `Fail` is an error
at any command, with the deferred release of the lock; `Crash` is a replica that
dies, with no release. `RevokeSession`, `RevokeAllOtherSessions`, `RevokeAll`
(change and reset of a password), `DeleteAll` (an administrator sets one),
`Sweep`, and the lapses of rows, grace entries and locks are one step each, since
each is one statement or one transaction.

`TokenChain` is the abstract specification: a family has at most one current
token; tokens are issued once, and only to a family without a current one. The
refinement mapping takes a family's live row as its current token, and the rows
inserted as those issued.

Abstractions: SetUserState's `locked` revokes as `Deactivate` does and is not a
state of its own; access tokens, MFA, audit events and telemetry are left out.

### `MailJobs`: mail through the worker (`worker/consumer.go`)

| State | In the code |
|---|---|
| `entry` | the stream `mail.jobs` in group `workers`: not published, queued, pending, acknowledged |
| `ledger` | `audit.processed_messages` |
| `attempts`, `marker` | `worker:attempts:<id>`, `worker:sent:<id>` in Redis |
| `parked` | the dead-letter stream |
| `pc`, `batch`, `cur`, `att`, `done` | a goroutine's batch and local variables |
| `sent` | mails that left: what the outside world sees |

`Read` and `Reclaim` take a batch; each job then goes `NextJob` (ledger),
`BumpAttempts`, `SetMarker` (SETNX, then the schema validation), `Send`,
`Unmark`, `Record`, or `FailJob`; `AckBatch` ends the batch. Any call may fail,
and a mailer may report a failure for a mail that left (the answer is lost, or
the fallback mailer sends what the first one had sent). A worker may die at any
step; a graceful stop cancels its context, which has the same effect. The marker's
24 h TTL is longer than a redelivery takes and is not modelled.

### `Leader`: leader election (`internal/platform/lock.go`, `leader.go`)

| State | In the code |
|---|---|
| `owner`, `ttl` | the key `leader:scheduler-service`, its owner string and time to live |
| `pc`, `reply`, `age` | where a replica is in `Run`, what its call has done at Redis, how long it has taken |
| `phase`, `due` | the ticker it looks at: retry while it waits, renew while it leads |
| `work` | the callback (`runJobs` of `services/scheduler`) has not returned |
| `stopped` | the context of `Run` is cancelled |

Time is discrete: `Tick` ages the key, the calls and the tickers, and waits for
every step that takes no time and for every call or callback at its limit. A call
takes effect at one instant (`SetNX`, `Renew`, `Release`) before its answer is
acted upon (`Lead`, `Refused`, `Renewed`, `Resign`, `Again`); `CallFails` is an
error, before or after the effect. Every attempt has an owner string of its own
(a UUID): `owner = r` is the string of r's attempt under way, `Lost` one that
nobody will present again, left by a crash or a failed call. The retry ticker runs
on while a replica leads, so where it stands afterwards is a choice. A callback
returns when its context is cancelled, or by itself, as an event.

### `Claims`: claim versions from rbac to the gateway

| State | In the code |
|---|---|
| `role`, `exists`, `held`, `ver` | `rbac.role_permissions`, `rbac.roles`, `rbac.user_roles`, `rbac.user_versions` |
| `redis` | `claims:ver:<user>` |
| `pc`, `job`, `snap`, `todo` | a request of an administrator: the holders it read, the versions it still has to SET |
| `lpc`, `sub`, `left`, `read` | a login or a refresh: ResolveClaims statement by statement, in the end the signed token |
| `cache`, `fresh` | auth's `ClaimsClient` |

`SetUserRoles`, `UpdateRole`/`CommitUpdate`, `DeleteRole`/`MoveUsers`/
`CommitDelete` and `AssignDefaultRole` are the transactions of rbac, under READ
COMMITTED: what a transaction read of the holders of a role may be out of date
when it commits. The rows of `user_versions` it locks in between are changed by
nobody else, so the bump is part of the commit; row locks and foreign keys appear
as guards (`RowLocked`, `Pinned`). A transaction may be rolled back at any point,
a deadlock between two of them included. After the commit the versions are read
again (`LoadVersions`, `LoadVersion`) and written one by one (`WriteVersion`),
each write can fail (`FailWrite`), and so can the whole tail (`Abandon`).
`BeginLogin` signs a cached entry or reads roles, version and permissions in
three kinds of statement; `ResolveFails` signs the expired entry or nothing;
`Accepted` is the gateway's comparison.

Abstractions: an archived role is one without permissions; the permission every
user has (`user:update:own`), delegations and CreateRole are left out; the three
statements in which DeleteRole reads the holders of a role are one; tokens do not
expire, which only leaves more of them to be refused.

### `Credentials` and `SignIn`: passwords, locks, grants, and their pages

| State | In the code |
|---|---|
| `account` | the row of `users.users` with its password history; `stale` is a hash of an older algorithm |
| `fails` | `login:fail:<email>`: the count, and whether its EXPIRE arrived |
| `live` | live sessions, each named by the password that opened it (`ByLink` without one) |
| `tokens`, `pending`, `issued` | reset links, sign-in links and recovery codes that still work; `mfa:pending:<sub>`; how many there have been |
| `reqs` | a request in a slot: its next statement (`at`), what it carries, the row it read (`row`) |
| `screen` | the page on screen, its form, the tries left, the wait, busy buttons |
| `seen` | history: past passwords, which statements of two requests crossed, failures in the window |

Login is `LoginReads`, `Rehash`, `VerifyMFA`, then `ClearLock`, `Uncount`,
`StartSession`, or `CountFailure`, `SetExpiry`, `LockAccount`; a change or reset of a
password is `ConfirmPassword` or `TakeLink`, `Validate`, `StorePassword`,
`RevokeSessions`; and so on for links, enrolment, recovery codes, the administrator's
lock and password, and registration. Any call may fail (`Break`) within `faults`.
`SignIn` adds the buttons of the pages and what each answer does to the form, also
when the tab has left the page (`Orphaned`, the code behind the answer still runs), and
requests of other clients for the same account.

Two overlapping requests can defeat most of these promises in the code; `crossed` names
the statements that have to cross, and a property excepts exactly those. A sign-in that
read the row before an administrator locked it clears the lock (a failing one shortens
it); a rehash can bring a replaced password back; two transactions for recovery codes
leave two sheets.

`CredentialsProofs` proves the promises of both modules in the composition `Pages`.
`SittingsAssumption` gives the fields of a sitting their types.

Abstractions: one account; a sheet of recovery codes is one code; the request counter of
`checkAccountRate`, mail, audit and telemetry are left out, an OAuth sign-in is its answer.

### `Console`: the product console and the settings lists

`records` and `saved` are the users service's; `calls` are requests under way, answered in
any order; `view` is the page. `FilterBy`, `CreateRecord`, `UpdateRecord`, `BulkInvite`,
`AskBox`, `Connect`, `Save` are clicks; `ServeConsole` and `CallFails` are the service;
`LoadArrives`, `RecordWritten`, `LineQueued`, `BoxAnswered`, `CardSaved`, `SocketOpens`,
`SocketCloses` are answers. `Reloads` is the list a write asks for, with the filter of the
render it was clicked in. Lists carry the version of the records they were read from. What
stands in and under a form of the console is a box: `BoxEdited`, `BoxAsks`, `BoxFails` and
`BoxShows` are what typing, a click, an error and an answer do to it.

### `Shell`: the frame around the pages

`frame` has the palette, the shortcut under way (`armed`), navigation and its bar; `drawer`
the drawer and the focus; `scroll` the scrolling element and `sessionStorage`; `health`
the pill and its pings. A key goes to every listener that is mounted (`Shortcut`,
`PaletteKey`, `Closed`), in one step as in the browser; timers (`EndBar`, `Disarm`),
frames (`NextFrame`), content that loads (`Loaded`) and answers (`PingAnswered`) are steps
of their own. A route changes by the bar's transition (`Transition`) or by a page that navigates
(`Turn`); both render it (`Renders`), which saves the old route's place and asks for a frame to
restore the new one's.

### `Pages`: one tab

Composes `SignIn`, `Console` and `Shell`: a sitting is spent in one of them. They share no
state in the code but the route, so their interleavings are not explored.

### `Directory`: the user directory (`apps/web-admin-users/src/UsersPage.tsx`)

| State | In the code |
|---|---|
| `account`, `news` | the users service, and messages about others' deletions on their way |
| `typed`, `query`, `offset` | the filters of the form, the debounced ones, the page |
| `cache`, `last`, `fetch` | the query cache per view, `placeholderData`, the request under way |
| `selected`, `pending`, `asking` | `selectedIds`, `pendingDeleteIds`, the confirmation |
| `batch`, `work`, `saved` | a confirmed deletion, its calls, the lists its failure brings back |
| `live`, `visible`, `emailHit`, `adding` | the live switch, the tab's visibility, the cached email check, registration and import |

A deletion is `Confirm`, `Undo` or `Fire`, a `DeleteUser` or `DeletionFails` for each account, then
`Succeed` or `RollBack`; `FireThrows` is the optimistic update that throws on the cached
boolean of the email check. The cache is an external library: `Answer`, `Refresh`, `Poll`,
`ServerReads`, `Arrives` are what the page relies on. `Answer` is a page of the accounts that
match and are there: those with as many before them as the offset says.

### `Access`: role and assignment forms (`RolesPage.tsx`, `UsersPage.tsx`, `ui-system.tsx`)

`perms` and `holds` are the server's; `lists` three cached lists; `modal` and `ask` the
dialog and the question on screen; `calls` requests, each with what is still to be sent
(`todo`). `behind` and `missed` are the rows that changed since a list was read without
this tab being told: only those excuse a write that takes away what others gave. Escape closes
a dirty form that has no question before it by asking (`CloseSafely`); over a question it
replaces it.

### `Tabs`: the session of a browser (`packages/contracts`, `auth-context.tsx`, `App.tsx`)

`rows` and `cookie` are what a browser sees of the auth service (its inside is
`Sessions`); `lock`, `flight` and `recent` are the browser lock, the refresh of each bundle
and `crossTabToken`; `tab`, `call` and `inbox` are what a tab shows, its request and
the broadcasts on their way. A refresh is `Asks`, `Turn`, `ServeRefresh`, its answer, and
what each waiter does next (`Boots`, `Beats`, `Retries`, `Exits`). `Reload` may come at
any step, `LeftTo` passes the lock of a page that is gone on.

`crossed` marks the sign-ins and sign-outs that meet something else. Two of its cases come from
the attempt to prove `TabsAgree`: a refresh that starts before another tab has heard of a
sign-in (`Changing`), and one that takes the token of an earlier session out of `crossTabToken`,
where it is kept for two seconds (`recent`). Both can leave a tab with the token of an account
that has left.

## 3. What TLC checks

| Run | Instance | What it shows |
|---|---|---|
| `sessions_kept` | 2 handlers, 3 tokens, 1 event, cap 2 | one live token per family; no replay alarm while the grace entry is within reach; the rows implement `TokenChain` |
| `sessions_events` | 2 handlers, 2 tokens, 2 events, cap 1, locks may be outlived | ended families stay ended, revoked is final, the session limit |
| `sessions_lock` | 2 handlers, 2 tokens, 1 event, fair | every rotation lock is freed |
| `mail_once` | 2 workers, 3 jobs (one invalid), 2 attempts, 2 faults, slow batches | a second mail only after a doubtful failure |
| `mail_settles` | the same, batches in time, fair | losses only in the three ways the code accepts; every job is acknowledged in the end |
| `claims_gateway` | 1 user, 2 roles, 2 requests, 1 login slot used again and again, 1 event | versions name permissions; stale claims are refused |
| `leader_elected` | 2 replicas, ttl of 9 ticks, calls of 2, callbacks that stop in 1, 3 events, fair | only the owner works, a dead leader is succeeded |
| `directory_deletion` | 2 accounts, 2 filters, 2 deletions, 1 move, 1 fault | hidden is being deleted; nothing is deleted twice; a deleted row does not come back |
| `directory_settles` | 3 accounts (2 registered), pages of 1, 1 deletion, 1 of another administrator, 1 fault, fair | every hidden row is decided; what is gone leaves a live page |
| `access_kept` | 18 sittings with up to 2 writes, 1 of others, 1 fault, 1 refetch | writes change what was asked; edits are kept; questions are answered |
| `tabs_agree` | 11 sittings in 1 or 2 tabs, a remote bundle in the first, fair | tabs agree; no token presented twice; settings saved for their owner; refreshes and restores end |
| `pages_kept` | 17 sittings at sign-in pages or of two to three overlapping requests, 8 visits to the console, 5 stays in the frame, fair | credentials, grants and locks survive overlaps but the named ones; pages show what was asked and say what is true; no button rests for good |

**Bounds.** Two handlers (workers, requests) are enough for every race of section
1: each is between two actors. Three tokens let a family rotate twice, or two
families rotate once. One event is one revocation, lapse, failed statement or
crash, placed anywhere; two events are explored where locks are outlived. The runs send no
device identifier, which would make a replay from elsewhere a third case; an instance with
`Devices = {d1}` and two tokens ends in a minute. In
`MailJobs` two attempts stand for the code's five: one failure that is retried
and one that is final. In `Claims` versions are per user and nothing compares two
users, so one user and two requests have every order of two version writes; two
roles let a role be deleted with a fallback; the one login slot serves any number of
logins one after the other, so one stores the cache entry that the next signs; `VersionNamesClaims` is proved for any number at a time. In `Leader` the times are
the largest that `Prompt` allows for that ttl, so every deadline is met with no tick to
spare; two replicas have every race for one key, and three events a crash, a failed renewal
and a failed release in one run.

`Directory` needs two deletions for one to fail next to the other, and a page smaller than
the list for rows to move up. `Access`, `Tabs` and `Pages` have many operations of which few
meet: instead of one bound on everything, `Sessions`, `Sittings`, `Visits` and `Frames` are
sets of small budgets, one for each group of operations that touch the same state, and a
behaviour starts with one of them. Every pair that shares state is in one budget: a sign-in
against a lock, a change, a reset, an enrolment, new codes; a list against each write that
reloads it; two sign-ins against a refresh, a heartbeat, a reload, a support session; a
navigation against scrolling. Two
passwords besides the first and a history of one let a password come back in the fewest
steps; `MaxAttempts`, `MaxTries` and `LockTicks` of two are the smallest at which a count is not
its limit at once. Counters the code leaves unbounded are bounded by `MaxToken`, `NumJobs`, `MaxEvents`,
`MaxFaults`, `MaxBatch`, `MaxMoves`, `MaxOthers`, `MaxLines`, those budgets and the sets of
requests. `CHECK_DEADLOCK FALSE` stands where these bounds stop the model: every
token issued, every job settled, every request answered, a budget used up and the user free
to do nothing more.

**Fairness.** `Sessions!FairSpec`: a handler that has started takes its next step
or dies (a goroutine is scheduled, and its calls have timeouts), and a TTL runs
out. `MailJobs!FairSpec`: the read and reclaim loops run for ever and their calls
return, which is what `Run` does until shutdown; a crash is a replica whose loops
start again. `Leader!FairSpec`: time passes, a process goes on with its loop, calls
return (with an answer or, within `MaxEvents`, an error) and a cancelled callback
returns; no replica has to start. `Directory!FairSpec`: requests are answered, timers fire,
the polling interval passes. `Tabs!FairSpec`: the service answers, answers and broadcasts
reach the tab, the lock goes to who waits. `Pages!FairSpec`: a request that has started goes on
at the service (Go handlers have timeouts), its answer reaches the page, the second-timers tick.
No fairness is assumed of clients, administrators, users or faults: nobody has to click.

**Symmetry** is used for invariants and action properties only, over handlers,
workers, users, requests and logins: no action prefers one of them.

**Mutants.** Every property of a run is broken by one slip in the code's definitions, named in
`PROJECT.json`. The properties of `pages_kept` that have several parts are broken in each by
further slips kept in the modules, each found by the same run:

| Property | Slips, besides the listed one |
|---|---|
| `GrantsAreKept` (`ResetOnce`, `MfaIsConfirmed`, `CodesWork`) | `Verified` as `LooksAgain`, `Replaces` as `OnTop` |
| `ShownIsAsked` (`ListIsCurrent`, `AnswersMatch`) | `Query` as `Previous` |
| `SaidIsTrue` (`ToldIsStored`, `AwayIsStored`, `ConnectedIsTrue`) | `Waits` as `PutFirst`, `GoesDown` as `StaysUp` |
| `FrameKeeps` (bar, palette, fields, focus, places, pill) | `FirstEntry` as `KeepsMark`, `Outside` as `Everywhere`, `Wraps` as `Leaves`, `UnderOld` as `UnderNext`, `Shows` as `Sticks` |
| `PagesSettle` (`SubmitSettles`, `BusySettles`) | `Rests` as `KeepsBusy` |

**Conditions.** Some properties except cases by name, and the exceptions are part
of what they say. `EndedStaysEnded` excepts families with a rotation between its
two statements when they ended (`raced`); `CapHolds` counts limits that a failed
request never enforced (`owed`); `NoDoubleMail` excepts mails that left although
the mailer reported a failure (`doubtful`); `StaleClaimsRefused` excepts users
whose versions were being written by two requests at once (`crossed`: the SETs
may land in the other order and the version in Redis goes down), by a request
that failed (`lost`), or who were given a role after another request had read its
holders (`late`), and reads that a change interrupted (`clean`). These variables
are history: no action reads them. `OnlyOwnerWorks` holds under `Prompt`, twice the
longest call to Redis and the time a callback takes to stop being less than two
thirds of the ttl; with one tick more TLC finds a callback that outlives its lease.
The code does not enforce it: the ttl of the scheduler is 15 s, `NewRedisClient`
sets no timeouts, and the callback waits for the jobs it started, so the sentence of
`leader.go:26` ("ensuring only the current owner keeps working") is as good as
those times. The lock each job takes in its own tick is a second barrier. `TabsAgree` and `SavesTheirOwn`
except sign-ins and sign-outs that overlap something or were not heard of, refreshes with
a token from before (all `crossed`), and support sessions whose token a refresh
replaced (`mixed`); `DeletedStaysHidden`, `NoDoubleDelete`, `ShownIsAsked`, `OneCreate`, `SaidIsTrue` and
`FrameKeeps` name theirs in their comments; each exception is a case the code really lets
happen, listed in section 5.

## 4. What is proved

TLAPS proves, for every value of the constants allowed by the assumptions
(`ConstantsAssumption` in each module; `CredentialsAssumption`, `SignInAssumption`,
`SittingsAssumption`, `ConsoleAssumption` and `FramesAssumption` for the pages). They say that
sets are finite, special values are not ordinary ones, limits are at least one, and of which
type the budgets are:

| Theorem | Says | Argument |
|---|---|---|
| `SessionsProofs!TypeCorrect` | `[]TypeOK` | step by step; strengthened by what a slot holds at each `pc` (`TypeInv`) |
| `SessionsProofs!EndedFamilies` | `[]EndedStaysEnded` | `EndInv`: a slot about to insert a token into a family is known to it when it ends |
| `SessionsProofs!RevokedForGood` | `RevocationIsFinal` | action property over `TypeInv`: what a handler saves is never a live row again |
| `SessionsProofs!OneLive` | `[]OneLivePerFamily`, if no lock is outlived | `Held` (a slot between lock and release owns its lock) and `LiveInv` (a slot between save and insert is the only one of its family, which has no live token) |
| `SessionsProofs!ChainImplemented` | `Spec => ImplementsChain`, if no lock is outlived | each step is an `Issue`, a `Retire` or a stutter |
| `SessionsProofs!CapAlways` | `[]CapHolds` | `CapInv`: a slot that inserts a session acts for its user and has still to enforce the limit, which keeps the newest `Cap`; what a failure left over is counted in `owed` |
| `SessionsProofs!ReplaysAreReal` | `[]OnlyRealReuseKills`, if no lock is outlived | `ReuseInv` over `Held`: a consumed token has its grace entry or a slot that is about to store it, the entry leads to the same device, and a slot on its way to the kill has missed it |
| `MailJobsProofs!TypeCorrect` | `[]TypeOK` | step by step |
| `MailJobsProofs!MailOnce` | `[]NoDoubleMail` | `SendInv`: at most one worker is sending a job, and its marker is set |
| `MailJobsProofs!LossesAreAccepted` | `[]NothingElseIsLost`, if batches end before the reclaim time | `HeldInv` (a job is in one worker's hands) and `LossInv` (a job in a ledger or a `done` list has a reason) |
| `LeaderProofs!TypeCorrect` | `[]TypeOK` | step by step |
| `LeaderProofs!OwnersWork` | `[]OnlyOwnerWorks`, if `Prompt` | `Budgets`: wherever a replica with a callback is in its loop, the key lasts longer than all that can happen before the callback returns |
| `LeaderProofs!OwnersUnlock` | `OnlyOwnerUnlocks` | action property over `TypeOK`: the compare of the release script |
| `DirectoryProofs!NothingHiddenForGood` | `[]HiddenIsQueued` | `Inv`: deletions are numbered in the order of their confirmations, and a row is hidden only by one that is open |
| `DirectoryProofs!DeletedOnce` | `[]NoDoubleDelete` | `OpenIsHidden` and `AskedIsShown`: a confirmation asks about rows on screen, and those of an undisturbed open deletion are not |
| `DirectoryProofs!DeletedAreHidden` | `[]DeletedStaysHidden` | `ListInv`: while no deletion runs or has failed, a cached view that is not stale and an answer on its way show no deleted account, and a view without a request is up to date |
| `ClaimsProofs!TypeCorrect` | `[]TypeOK` | step by step |
| `ClaimsProofs!VersionsNameClaims` | `[]VersionNamesClaims` | `NamesInv`: a clean read has only roles still held left to look up, and a request about to commit knows every holder of its role but the late ones |
| `ClaimsProofs!StaleClaimsAreRefused` | `[]StaleClaimsRefused` | `StaleInv` over `NamesInv`: a version on its way to Redis is the latest one (`WritesInv`), without a version nobody has roles (`ZeroInv`), and clean claims signed or cached for a settled user grant nothing that was removed, unless their version is below the one in Redis |
| `TabsProofs!TypeCorrect` | `[]TypeOK` | together with the lock: each bundle and tab stands in it once, so those who wait take turns |
| `TabsProofs!NoReplays` | `[]NoReplay` | `LockInv` (who has sent a refresh holds the lock), `NewestInv` (the cookie is the newest token of its family but for lost answers and those on their way), `PendingInv`, `ReplaysInv` |
| `TabsProofs!TabsAlwaysAgree` | `[]TabsAgree` | `AgreeInv`: until something crosses, a sign-in is alone, whatever speaks for an account speaks for the last one, and a tab that does not show it has the broadcast in its inbox |
| `TabsProofs!SaveTheirOwn` | `[]SavesTheirOwn` | `FormInv` over `AgreeInv`: what the settings page has asked for and loaded is of the account on screen |
| `AccessProofs!TypeCorrect` | `[]TypeOK` | part of `Inv`: lists, dialogs, questions and calls that fit each other, and the foreign key of the assignments |
| `AccessProofs!BusyFormsAreAnswered` | `[]BusyIsAnswered` | `Inv`: a form has at most one call of a mutation, a call tied to the dialog is of its kind, and only the editor asks about fewer permissions |
| `AccessProofs!EditsStay` | `EditsAreKept` | action property over `Inv`, one lemma for each action that can close a form |
| `AccessProofs!WritesAreMeant` | `AskedOnly` | `TruthInv`: a list that counts as up to date differs from the server only in rows that others changed (`behind`, `missed`) or that a call of this tab will refresh or tell of (`Pend`); so a form opened on it started from what the server had (`MeantInv`) |
| `CredentialsProofs!AdminLocksStay` | `[]AdminLockStays` | `Passed`: a sign-in past the check of the lock knows no administrator's lock, or was there when it was set |
| `CredentialsProofs!SessionsEnd` | `[]SessionsFollowPassword` | `Knows`: a sign-in on its way to a session has checked the password of now, unless one was stored meanwhile |
| `CredentialsProofs!OldPasswordsStayOut` | `NoRecentReuse` | action property over `HistoryInv`: until a replacement crosses another write, the row's history is the run's, and a new password about to be stored was checked against it |
| `CredentialsProofs!LocksAreEarned` | `EarnedLock` | action property over `CountInv`: the counter knows no more failures than the window had, and will lapse or is about to be told to |
| `CredentialsProofs!PagesWait` | `[]PageWaits` | `WaitInv` (wrong answers and tries left add up to the tries given) and `HomeInv` (the sign-in page waits for one sign-in at most, and counts down during none) |
| `CredentialsProofs!GrantsServeOnce` | `[]GrantsAreKept` | `ResetInv` (GETDEL hands the link to one request), `MfaInv`, `CodesInv` (a transaction about to insert codes has deleted those there are) and `SheetInv` (the page shows the last) |
| `CredentialsProofs!FrameStays` | `[]FrameKeeps` | `ShellInv`: the bar stands still only if the last navigation on its way leads to another route, the mark is among the matches, a route's place on record is where it was left or will be restored, pings have numbers of their own |
| `CredentialsProofs!ListsAreCurrent` | `[]ShownIsAsked` | `ListInv`: whenever the list is behind the page's last write, or shows another filter, a newer load or a write that will ask for one is under way (`Fix`); `AnswerInv`: the newest question is the one in the fields until they are edited |
| `CredentialsProofs!CreatesAreSingle` | `[]OneCreate` | `CreateInv`: all that is left of a creation, its reload included, belongs to one click and keeps the button busy |
| `CredentialsProofs!ConsoleTellsTheTruth` | `[]SaidIsTrue` | `SaidInv` (an import has counted what was stored, an answered card is stored) and `LiveInv` (one socket, or the call that asks where it is) |
| `CredentialsProofs!PagesTypeCorrect` | `[]TypeOK` | `TypeInv`: a request that shows a secret or a sheet of codes shows one that was issued; the types of console and frame are part of their invariants |

The invariants the runs check are not inductive: a state in which a handler is
about to insert a token into a family that has a live one satisfies
`OneLivePerFamily`, and its next step breaks it. The strengthenings name what
each slot knows at each step, what is still under way where a screen or a cache is behind, and
for the excepted overlaps what holds until one of them happens.

The type invariants of `Sessions`, `MailJobs`, `Leader` and `Claims`, and `OnlyOwnerUnlocks`, are
theorems and not run properties. `Directory` has no type theorem: `ListTypes` types what the
lists and the deletions need.

The theorems of `CredentialsProofs` are about the specification of `Pages`, so they hold
with the buttons and answers of every page there, and with what other clients ask. An
exception of a property (`crossed`) is the second half of each invariant: what a request
knows at its statement holds unless another one has written since it read (`over`).

Every invariant and every action property of the runs is a theorem, and so is the refinement
of `TokenChain`, which is one of safety. Only model-checked are the liveness properties
(`LockIsReleased`, `EveryJobSettles`, `LeadershipReturns`, `DeletionSettles`, `StaleRowsGo`,
`TabsSettle`, `PagesSettle`): they rest on fairness, which is out of the prover's reach.

## 5. Where the code differs from its documents, and what it accepts

Sentences of the documentation that the models contradict:

| The document | The code |
|---|---|
| docs/TOKEN_POLICY.md:24, a replay "kills the whole session family" | a rotation under way inserts its successor after the kill (`raced` in `EndedStaysEnded`) |
| docs/TOKEN_POLICY.md:34, logout "revokes the session family" | only the row of the cookie presented, which a concurrent refresh may just have replaced |
| docs/CONTRACTS.md:91, done "only after a successful SMTP send"; `worker/consumer.go:409` | the marker is set before the send; a crash in between leaves a marker without a mail (`NothingElseIsLost` names it) |
| docs/CONTRACTS.md:92, failed jobs move to the dead-letter stream | an invalid payload leaves its marker behind and counts as sent on the next attempt |
| docs/ARCHITECTURE.md:104, the gateway enforces refresh on a mismatch | roles, version and permissions are read in separate statements: a token can carry the new version and the old permissions (`clean` in `StaleClaimsRefused`) |
| docs/DIAGRAMS.md:101-102, a device mismatch ends the family | it only refuses the refresh |
| `ShortcutsHelp.tsx:12`, Escape closes palette and help | not with the focus inside them: the dialog stops the key before it reaches the window, where the tests fire it |

Seen while modelling, and part of the models:

- Sessions and claims: the rotation lock is not renewed, so a handler slower than its 20 s
  lets a second rotation in; overlapping role changes may leave the lower version in
  Redis; a `user.created` delivered again gives back a default role that was taken away; a
  login within 30 s of a role change may be signed from the cache and refused.
- Credentials: a step of an MFA sign-in that asks for the code counts as a failure; links and
  OAuth look at neither `locked_until` nor MFA; a reset whose write fails has used its link
  up; the reset page takes every 400 for a bad link.
- Sign-in pages: "send again" that fails shows nothing; the invitation's answer
  overwrites a typed address; an answer that comes after the page was left still signs in.
- Directory: an undo in the last half second says "cancelled" while the deletion runs; one
  failure shows every hidden row again; a failure brings back lists from before
  another success; the email check's cached boolean makes deletions throw.
- Forms: Escape during the question of a save leaves the form busy; Enter with the focus on
  Cancel confirms; a late save closes the form that is open by then; when one of
  several calls fails the others go on.
- Tabs: leaving a support session may fall back on an old token after a sign-out elsewhere;
  settings opened in a support tab whose token a refresh replaced save the
  administrator's profile into the other account; preferences stay the old user's; a
  failed sign-out is taken for done; a boot can wait although a token came.
- Console: a late list overtakes a newer one; a list that arrives releases the Create button
  while a record is being created; an import that fails midway does not say how many lines it stored, and
  they come again; Connect pressed twice leaves two sockets; the tour goes before it is stored.
- Frame: navigating to the route on screen leaves the bar; "g" on the page and a letter in a
  field within 800 ms navigates; Shift+Tab on the drawer's panel leaves its loop; the place
  of a route is overwritten when shorter content comes; answers of overlapping pings are shown in
  the order in which they come.

## 6. Plan

In order of weight; each module gets an abstract promise where one is worth
stating, an MC instance, and proofs where the argument is not finite.

1. `Gateway`: keyed POSTs (`gateway/idempotency.go`) through the transport with
   its circuits, in-flight slots, retries and hedges (`gateway/resilience.go`).
   Promise: a key is executed at most once until a failure is answered. Two
   requests, two endpoints, one fault. To prove: the at-most-once invariant.
2. `Outbox`: `PublishWithAuditOutbox` against the relay and the worker's ledger,
   composed with the states of `MailJobs`' stream; with `AuditJobs`, the batch
   transaction and the dead-letter replay. Promise: every committed event is
   delivered, twice only in the crash windows.
3. `Jobs`: the ticks of the scheduler (`internal/platform/scheduler.go`) on the
   clock and the key of `Leader`, alone and started by a leader. To prove: one
   replica runs a job at a time as long as jobs heed their context.
4. `UserLifecycle`: scheduled deletion, cancellation, erasure and the projections
   of `users`, `rbac` and `auth` that follow from the events.
5. `Hub`: the rooms of the websocket hub, against `Tabs`' sockets.
6. In the modules there are: the request counter of `checkAccountRate` and the states of an
   account in `Credentials`; `Sessions` under `Tabs` by a refinement (the service that `Tabs`
   sees as an abstract specification of `Sessions`).

Theorems next, with the modules they are about: the at-most-once invariant of `Gateway`, mutual
exclusion of `Jobs`, the refinement between `Tabs` and `Sessions` of step 6. `OneLive`,
`ChainImplemented` and `ReplaysAreReal` assume that no lock is outlived; what is left of them
without it is worth a theorem with the outlived rotations named.

## 7. What is not modelled

Stateless filters (routing, validation, rate limits with one Redis counter), CRUD
without concurrent readers, generated API code, migrations, deployment files and one-shot
tools: they hold no state that two actors share, or their correctness is that of Postgres
and Redis. Webhook delivery goes through the same consumer as mail, without the marker.
In the browser: rendering, pictures, charts, exports, columns, the permission catalogue,
"what's new" and the offline banner; requests paused while offline; j/k row focus; the lapse
of an access token under an open socket; the server going on with the request of a
reloaded tab; Console sockets left open when the page is left; in `Tabs` the two seconds of
`crossTabToken` pass for all bundles at once. Of the services: ReplayDLQ and ReplayFromStart of
the worker, the exchange with the OAuth provider, impersonation tokens, and
everything section 6 plans (the hazards without a property).
