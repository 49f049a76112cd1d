# nestjs-template: a verification project

The repository is a NestJS service template: accounts and sessions, roles and
permissions, an activity log, error tracking, rate limits, a generic repository
layer and adapters for Redis, RabbitMQ, mail, storage and HTTP. This directory
keeps TLA+ models of the parts that have state and concurrency, TLC
configurations that check them on small instances, and TLAPS proofs.

## The system

One Node.js process (or several behind a balancer) serves requests; each handler
is an async function that suspends at every await on PostgreSQL, Redis, RabbitMQ
or an outside service. There is no lock and, outside the repository helpers, no
transaction around a handler, so any other request may run at each of its awaits.

| Component | State | Operations | What makes it correct |
|---|---|---|---|
| auth sessions | `refresh_tokens`, `login_histories`, Redis `auth:<uid>:<fam>:<sid>` and `blacklist:<jwt>` | sign-in, Google sign-in, refresh, logout, logout-all, revoke-session, password change/reset, purge job | a rotation consumes its token; no token comes back; rows, hashes, blacklist and history agree |
| credentials and one-time tokens | `users` (password, failedAttempts, lockedUntil, emailVerified), `password_histories`, Redis one-time tokens | signup, verify, resend, forgot, reset, sign-in guards | a token works once and only for its purpose; a locked account stays locked; recent passwords are not reused |
| roles and permissions | `roles`, `permissions`, `role_permissions` | create, update, delete, restore, assign, remove, sync; the guard of every route | no grant to a deleted role or of a deleted permission; sync grants the declared set, and that is what the guard asks for |
| users | `users` rows, avatars in storage | create, update, archive, restore, remove, activate, upload, list | unique e-mail, no lost avatar, a mailed password opens its account |
| activity log | `request_logs`, `user_activity_logs`, `system_activity_logs`, RabbitMQ queue | interceptor, decorator, producer, consumer | the entries of a request are stored in the order they were logged and once; the queue drains |
| error tracking | `server_errors` | track, list, update status, delete | one row per fingerprint, one alert per row, only faults of the server counted |
| rate limit | Redis counters | guard | no more than the limit per window, the counter always expires |
| exception filter and database errors | none | conversion of what was thrown | every request is answered, with the status of its cause |
| HTTP client, breach check, queue endpoints | the attempts of a call | get, post, put, patch, delete, head | retries end, and a service that is down is no error of the caller |
| generic repository and providers | all tables | create, update, updateMany, softDelete, restore, upsert, lists | the checks a provider makes before it writes; a walk through a list misses nothing |
| redis, jwt | keys with a deadline, tokens with a lifetime | set, hash, expire, delete, scan; sign, verify | a blacklist entry outlives its token, a session key its row |
| mail, storage, geo, google, realtime, hash | none of their own | adapters | a failed call is an exception of the handler that awaits it |
| database health, responses, pipes, interceptors, configuration, migrations | none | conversions and start-up | |

`PROJECT.json` lists every component with its status, every hazard at its line,
and for each definition the lines it models.

How they meet: the guards of a request check its JWT against the blacklist
and its permissions against the grants of its role; the auth
handlers write the `users` row, the one-time tokens and the sessions of one user
in one request; every decorated provider method, whichever module it is in, logs
into the context of its request; the exception filter hands a 5xx to the error
tracker behind the response. PostgreSQL and Redis are the only shared state.

## Modules

| Module | Models |
|---|---|
| `AuthSessions` | the sessions of one user: every handler that reads or writes refresh-token rows, session hashes, the blacklist or the login history |
| `TokenLifecycle` | the abstract promise of refresh tokens under any interleaving and fault |
| `SessionRegistry` | the abstract promise of sessions when requests are served one at a time |
| `Accounts` | the credentials of one address: its `users` row, its one-time tokens and its password history |
| `Rbac` | roles, permissions and grants under the administrators' endpoints and the synchronisation of the admin role |
| `Routes` | the routes of the controllers, the keys the guard asks for and the keys the discovery collects |
| `ActivityLog` | the state and the operations of the request log |
| `RequestPipeline` | a request through middleware, guards, interceptor, handler and exception filter, composed with `ActivityLog` |
| `Http` | where a request is and the class of its answer |
| `RateLimit` | the Redis counters and the guard that hits them |
| `HttpClient` | a call with its retries |
| `ErrorTracking` | the row of one fingerprint, its trackers and its administrators |
| `DatabaseErrors` | the status the repository makes of an error of the database |
| `Frontend` | a request from its guards to its answer, composed of the five above |
| `Repository` | merge, filters, order and pages of the generic repository |
| `Listing` | a client that walks through the pages of a list |
| `Users` | the administration of users beside such a walk |
| `RedisKeys` | keys of Redis with a deadline, and the commands on them |
| `Lifetimes` | sessions of one user on a clock: JWTs by the second, rows and keys by the millisecond |
| `AuthSessions_proofs`, `SerialSessions_proofs`, `Accounts_proofs`, `Rbac_proofs`, `RequestPipeline_proofs`, `Frontend_proofs`, `Users_proofs`, `Lifetimes_proofs` | theorems about these modules and their TLAPS proofs |
| `MCAuthSessions`, `MCAccounts`, `MCRbac`, `MCRequestPipeline`, `MCFrontend`, `MCUsers`, `MCLifetimes` | instances for TLC |

`RequestPipeline` and `Frontend` are two cuts through one request: the first keeps
what it logs, the second what it hits, calls, throws and is answered.

`AuthSessions` and `Accounts` are two views of the same handlers: the first keeps
what a session is made of and one generation number of the password, the second
keeps the `users` row column by column and only whether the client was signed in.
An operator whose name ends in `_` and a few words (`TokenTake_Kept`) is a mutant:
the definition it belongs to with a plausible bug, on which a property must fail.

### AuthSessions

One action is one awaited call with the synchronous code around it;
`req[w].pc` names the await the request of worker `w` is suspended at, and the
other fields of `req[w]` are the locals that live across it. A pair (access JWT,
refresh JWT) is a number, a session is named by its first pair, a device
fingerprint is a model value.

| Variable | Code |
|---|---|
| `account` | `users.is_active` and not deleted |
| `password` | generation of `users.password` |
| `issued`, `claims` | pairs signed so far and what their JWTs carry |
| `row`, `rowFam` | the `refresh_tokens` row of a pair and its `family_id` |
| `redis` | the hash under `auth:<uid>:<fam>:<sid>` |
| `blAccess`, `blRefresh` | `blacklist:<jwt>` keys |
| `history` | the `login_histories` row of a session (`loggedOutAt` null or not) |
| `delivered` | pairs a response has carried out |
| `atExpired`, `rtExpired` | tokens past `exp` |

Steps that the code makes with more than one await and the model with one:

- sign-in guards, the failed-attempt counter and the lookup of permissions write
  nothing these properties read; `SigninStart` is a sign-in whose guards passed;
- in a refresh the JWT check and the blacklist lookup are `RefreshStart`, the
  user read and the row lookup are `RefreshVerify`;
- a `find` and `save` of one update call (`UpdateRow`), whose entity differs from
  the stored row only in `revokedAt`: the mutant `UpdateRow_Stale` shows what the
  separated form would do if the save carried an old value. A row that a cleanup
  deletes between the two is inserted again by the save, as a revoked row, which
  differs from a deleted one in nothing a client can see;
- a `Promise.all` of `set`, `set` and `del` on one session, and the two blacklist
  writes of revoke-session;
- `hmset` and `expire`: a process that dies between them leaves a hash without a
  lifetime, which nothing here distinguishes from one that has not expired yet
  (`Lifetimes` separates them);
- in the password endpoints the hash and its history row are `PasswordStored`;
- `jwt-auth.guard` and the key scan of logout-all are `LogoutAllStart`.

`Abort` ends a request at any await: a thrown call, a mail that cannot be sent,
a dead process. Two JWTs with equal claims signed in one second are one string;
here every signing is a new pair, and blacklist entries do not expire: both are
`Lifetimes`'. With faults, a key scan (`Scans`) may come back empty: `RedisService.keys`
answers an error of Redis with no keys.

### Lifetimes

The same sessions on a clock, for one user and one request at a time. `now` counts
ticks; rows, hashes and blacklist entries (`RedisKeys`) have a deadline in ticks, a JWT
has the whole second it was signed in (`iat`) and ends by the second. A pair is the
record of its claims, so that signing equal claims in one second gives the same pair.
The clock runs between any two awaits of a sign-in or refresh that sign, write a row,
blacklist, HSET or EXPIRE; the endpoints that end sessions are one action each, because
a clock that ran between their writes would only lengthen what they write.

| Variable | Code |
|---|---|
| `rows` | rows of `refresh_tokens` that are not revoked: the hashed token and `expires_at` |
| `auth` | the hash of each session and its TTL |
| `blAccess`, `blRefresh` | `blacklist:<jwt>` keys and their TTLs |
| `req` | the sign-in or refresh in flight |
| `given` | pairs a response has carried out |
| `began`, `signed`, `clashed`, `ended`, `broken` | history variables of the properties |

`BlacklistOutlivesToken` and `SessionUsable` leave out what the code does not keep, each
a finding: the first a remembered refresh token that a logout ends, the second a pair that
is signed again within its second (`clashed`). `SessionUsable` also leaves out requests
that died and keys that ran out between HSET and EXPIRE (`broken`).

### Accounts

| Variable | Code |
|---|---|
| `exists`, `row` | the `users` row of the address: password, `failedAttempts`, `lockedUntil`, `emailVerified`, `isActive`, Google id |
| `signedin` | a client holds an access token, which change-password asks for |
| `hist` | `password_histories`, oldest first |
| `record` | Redis `verification-token:<type>:<uid>`, one key for each type of token |
| `minted`, `mailed` | one-time tokens generated, and those that reached the mailbox |
| `now` | the clock that `lockedUntil` is compared with |
| `stored`, `accepted`, `failures`, `lastFailure`, `disturbed` | history variables of the properties |

The repository updates a row in two awaits: it loads the whole entity and merges
the columns given (`UserFind`), then saves it (`UserSave`). TypeORM's save reads
the row once more and writes every column in which the entity differs from it, so
the saved row is the loaded one with the patch. That is the hazard of this
component: any other update between the two is reverted, which `stale_save` shows
for a password.

Steps the model merges: the lookup of the user with the check that rejects the
request, where nothing is awaited between them that another request could see;
the user read of verify-token with the reading of the address. Passwords are
compared for equality (bcrypt), a mail either arrives or the request dies
(`Abort`), a token expires at any moment (`TokenExpires`).

### Rbac

| Variable | Code |
|---|---|
| `role`, `perm`, `grants` | the tables `roles` (with soft deletion), `permissions` and `role_permissions` |
| `lastRole`, `lastPerm` | the sequences of their ids |
| `alone`, `synced`, `changes` | history variables: which synchronisations nothing else overlapped, whether one of those has ended since the last change, requests begun |

Unique indexes and foreign keys are part of the writes they refuse: such a write
ends the request. `Lower` and `Like` are what `LOWER(name)` and the ILIKE of the
name check do with a name; a name with a wildcard finds other names.
`CreateRole` is the code as it is: its name check is inverted (see the findings).
A synchronisation is `SyncStart` .. `SyncPrune` and then the assignment that
administrators use as well (`AssignPerms`, `AssignRead`, `AssignInsert`).
Merged steps: `find` and `remove` of one delete call, the lookups of role and
grant before a grant is removed.

`Routes` has the routes of every controller as sets of records (path of the
controller, method, declared keys, whether the guard is told to skip it), without
their parameters. Two readers of this metadata must agree: `CanActivate` is the guard
at a request, `DiscoverPermissionKeys` the scan of a synchronisation. `Controllers`
is the set of routes an instance runs with; `AppRoutes`, those of the repository,
satisfies what the theorems assume of it. `PermissionKeys` is what a token signed now
carries: an administrator's older token opens a new route after the next refresh.

### ActivityLog and RequestPipeline

| Variable | Code |
|---|---|
| `rabbit` | `ENABLE_RABBITMQ`, chosen once: both ways of logging are checked |
| `id` | the X-Request-Id of each request, which the client may choose |
| `http` | guards, insert of the log row, handler, failed (a 500 being tracked), done |
| `logged`, `pending` | the entries a request has logged; the lists in its `AsyncLocalStorage` context |
| `requestLogs`, `systemLogs`, `userLogs` | the three tables, the last two in the order of their ids |
| `writeQueue`, `userWrites`, `updates` | writes nobody waits for: the promise chain of system entries, user entries, updates of the status code |
| `bundle`, `message` | what a request published and how far its delivery is |

A delivery and the insert of the request's row are one step (`ConsumeRequest`):
nothing happens between them but the call. `createMany` saves in one transaction.
The context of the middleware and the one the interceptor opens share their lists,
so entries logged by the tracker after the bundle was copied stay behind
(`TrackerLogs`). `Crash` is the death of the only process: in-memory writes are
gone, unacknowledged messages are delivered again.

### Frontend and its parts

| Variable | Code |
|---|---|
| `http`, `answer` | where the request is; the class of its status |
| `hits`, `lifetime` | the counter `rl:<action>:<identifier>` and its TTL in ticks (`Persistent`: a key without one) |
| `guard` | the identifiers left to check, the command that is next, the locals of `increment` |
| `call` | the attempts of the call a request waits for; whether it has a timeout, whether the service is up |
| `error` | the `server_errors` row of one fingerprint |
| `job` | each tracker and each administrator's request: the id it names, its patch, the row it has loaded |
| `alerts`, `isProd` | alert mails sent; whether any are |
| `window`, `admitted`, `broken`, `inserts`, `crashes` | history variables and bounds |

A guard hits one counter after the other. INCR, EXPIRE and TTL are actions of
their own, and the clock, other requests, a failing Redis or the death of the
process come between them. A handler returns, refuses, fails with an error of the
database, or calls a service, whose failure the client turns into a response:
the breach check lets the password pass, the queue endpoints answer 404.
`StatusOf` is `handle` with its 14 branches: each asks for its code or for words of
the message. The filter answers and, from 500 on, starts the tracker behind the
answer: the atomic upsert (`Upserted`), the alert of a row that counts one, and
the stamp through find and save. A fault of another fingerprint is an answer that
leaves the row alone. Merged: the lookup of an administrator's provider and the
one of `update` (`JobFind`), between which a change of the row is seen by the
second alone.

### Repository, Listing and Users

| Variable | Code |
|---|---|
| `users`, `lastId` | the `users` table with soft deletion, and the sequence of its ids |
| `stored`, `lastAvatar` | the objects under `avatars/` in the bucket, and how many there ever were |
| `mailed` | requests that mailed the password they generated |
| `job` | each request: the await it is at, its patch and the row it has loaded |
| `walk`, `seen` | the client of the list: page, statement, total; rows it was shown |
| `awaited`, `shrunk`, `disturbed` | history variables of the properties |

An update is the lookup of the provider (`Find`), the hook's check (`Taken`), the
load of `update` (`Load`) and its save (`Save`). The save writes the loaded row
with the patch over whatever is there now, and inserts it again when it was
removed: TypeORM reads the row once more before it saves and skips columns that
are equal by then, which ends in the same row. A page is two statements, the rows
and then the total; `Listed` filters and sorts as `buildListQuery` does for the
users list (a row stands behind as many as have a newer id), and `PageOf` cuts by
position. Object keys carry the time in
milliseconds and are taken to be distinct.

## Runs

| Run | Instance | Shows |
|---|---|---|
| `serial` | 1 worker, 2 devices, 4 pairs (2 once a token expires or the account is switched off), 1 password change, purge | between requests every session a client can refresh is in Redis with the pair the client holds, and vice versa; a logout leaves nothing of its session; a password change leaves no live token; the history of a refreshable session is open; the sessions implement `SessionRegistry` |
| `rotation_race` | 2 workers, 2 devices that change, 3 pairs | at every await, beside logouts, revoked sessions and the purge: rotation consumes its token, no row is revived, a hash holds a pair of its own key; the inductive invariant of the proof |
| `revocation_race` | 2 workers, faults, 2 pairs, fairness | the tokens implement `TokenLifecycle` with logout-all and password changes, also when a key scan fails, and every request ends |
| `single_use` | 2 workers, 3 pairs | **violated**: one refresh token is rotated twice |
| `lifetimes` | 1 session for 4 seconds or 2 for 2 seconds and 3 pairs, ticks of half a second, tokens of 1, 1 and 3 seconds, caps of 2 and 3 | a blacklist entry outlives its token; a session that can be refreshed is usable; no rotation passes the cap |
| `accounts` | 1 worker, 3 passwords, 2 tokens, 3 stores, lock after 2 failures, history of 2 | a lock comes exactly at the limit, and a recent password is not reused, over long sequences of requests of every kind |
| `accounts_race` | 2 workers, faults, 3 tokens, 2 passwords | at every await: a token is accepted once and for its purpose, and no stale save verifies an address |
| `stale_save` | 2 workers, 2 passwords | **violated**: a sign-in in flight writes the old password back |
| `rbac` | 2 workers, faults, 3 roles, 4 permissions, 4 keys, 3 routes, 3 changes by administrators | an undisturbed synchronisation leaves the admin role every declared key and no orphans, whatever was half done before, and these keys open every route; seeded permissions stay |
| `pipeline` | 2 requests with equal or distinct ids, 2 entries each, prefetch 1, 1 crash, fairness | entries are stored in their order and once; every message is acknowledged |
| `frontend` | 2 requests, 1 administrator, 2 counters, limit 1, window of 2 ticks, 1 retry, 4 kinds of database error, 1 crash, fairness | no more than the limit in a window, whose end no hit moves; a lockout ends; one alert for each row; only faults of the server counted; every request answered |
| `users` | 2 requests of administrators, 3 seeds (the caller, one with an avatar, one archived with an avatar), 4 addresses, pages of 1 | a walk through the list misses no row that stays; the avatar of a user is in the bucket; a mailed password opens an account |

Bounds: `MaxPairs` bounds the pairs signed, `MaxPasswords` the password changes,
`Endpoints` selects handlers. Three pairs are a sign-in and two rotations of it,
or two sign-ins and one rotation, which is what the races need; four pairs give
each of two devices a sign-in and a rotation; two pairs are what a token that expires
beside another session needs. In `lifetimes`, half a second separates a clock in
milliseconds from one in seconds, four seconds outlast the longest token and both caps,
and two sessions are what logout-all, a replaced session and a wrong cookie need. Two workers are enough for every
hazard listed: each is one request overtaking another.

In `accounts`, two tokens and three stores are a sign-up, a reset and a change, and
a history of two with three passwords reaches both a refused and an admitted
reuse; one tick of the clock ends a lock. In `accounts_race`, three tokens are a
verification, its resend and a reset. In `rbac`, one role beside the seeded ones is
enough for every check (they compare two rows). The keys are two that are seeded, of
which a route declares one, the key that the discovery derives for another route, and
one that is neither; the routes are one of each kind (a derived key, a declared one,
no check). Three changes are what it takes to rename a key, take its grant and get in
the way of a synchronisation, or to create, archive and restore a role. In
`pipeline`, two entries are the least that can be out of order, a prefetch of 1 is
the fullest queue two messages can make, and a second crash only repeats the
redelivery of the first.

In `frontend`, two requests share both counters of a route with a limit of 1, so
that one of them is refused, and a window of 2 ticks can end between any two
commands. One retry is an attempt and its repetition. The four errors are a
conflict, a deadlock, a lost connection and a syntax error whose message quotes
the word of an earlier branch. One administrator with one request can save over
the stamp of a tracker or remove the row under it. In `users`, two requests about
one user reach every overlap of an upload with an upload, an update, an archive or
a removal; two insertions beside three seeds give a walk of up to four pages (the
list leaves the caller out).

The run `serial` keeps the fingerprint of a client stable (`Drift = FALSE`): when
an address changes between two refreshes, the row is filed under the new
fingerprint and the hash stays under the old one, and `SessionsMatchRows` does
not hold.

Deadlock is not checked: once the pairs are used up and every session has ended
the instance stops.

Fairness: `FairSpec` asks weak fairness of `Continue(w)`, the next step of a
request that has begun: the event loop resumes every await that settles. Nothing
is asked of clients, of time or of the purge. `FairSpec` of `RequestPipeline` asks
weak fairness of `Consumer`: the broker delivers what is ready and the event loop
runs the consumer on. Nothing is asked of requests, of the writes nobody waits for
or of crashes. `FairSpec` of `Frontend` asks weak fairness of the clock (`Tick`) and
of each request that was let in (`Serve`), unless it waits for a call without a
timeout: Axios ends a call that has one, and every other await (Redis, PostgreSQL)
is taken to settle, with a result or an error. Nothing is asked of trackers,
administrators, new requests or crashes.

The other runs do not check deadlock either: their bounds run out.

## Proofs

### AuthSessions

`AuthSessions_proofs` proves for every number of workers, devices, pairs and
passwords, with `Drift` and `Faults` in either position:

- `Typing`: `Spec => []TypeOK`;
- `Invariant`: `Spec => []IndInv`;
- `Rotation`: `Spec => []RotationConsumes`;
- `Revival`: `Spec => NeverRevived`;
- `Refinement`: `Spec => ImplementsTokenLifecycle`;
- `SessionKeys`: `Spec => []SessionKeyMatchesToken`.

`RotationConsumes` is not inductive. A rotation revokes the consumed row in one
await (`RefreshRevoke`) and signs its successor in a later one (`RefreshIssue`);
between the two, other requests act on the same row. `LocalInv` says that a
request at `rf_issue` relies on a row that is not live, `PairsInv` that rows
exist only for pairs that are signed and that parents are signed before their
children. `IndInv` is their conjunction with `TypeOK`; `KeysInv`, on top of it, says the same
of the session hashes and of the pairs requests are about to write into them. Each action has one lemma:
it keeps the types, it makes no row live except the one it signs, and it leaves
its own request in a state `LocalInv` allows; `OtherStep` carries the other
requests over, because a row that is dead stays dead. The refinement maps every
action that can end rows to `Kill`, `SigninIssue` and `RefreshIssue` to `Mint`,
and the others to stutters.

`SerialSessions_proofs` proves, for any devices, pairs and passwords: `OneLive`,
`PasswordChange`, `SessionsInSync`, `Blacklist`, `History`, `LogoutEnding` and
`RegistryRefinement` (`Spec => ImplementsSessionRegistry`). All of them assume
`OneAtATime`: one worker, no call that fails, and clients that keep their
fingerprint. They are not true without it, by design of the code: no handler locks
anything, and the runs `revocation_race` and `rotation_race` look at what is left
then. What is hard is inside the handlers. Between two of its awaits the table,
Redis, the blacklist and the login history contradict each other, and a handler
relies on what it did several awaits earlier. `SerialInv` states for every await by
how much they differ:

- rows (`RowsInv`, `FamiliesInv`): a live row is the only one of its session and
  signed under the password of now, but for the password being stored; a sign-in or
  rotation that will sign has left no live row in its family or session;
- keys (`SyncInv`): every live row has the key of its session and every key a live
  row, but for the key the request has dropped or is still to write;
- blacklist (in `SyncInv`): no usable pair is blacklisted, but for one whose row the
  request is about to revoke;
- history (`HistoryInv`): every session that was handed out has a history row, and the
  row is open while a token of the session is usable.

The clock runs beside the request (tokens, keys and rows may expire at any await),
so each conjunct speaks of what has not expired. There is one lemma per action, and
under it one step per conjunct the action disturbs. The refinement maps the signing
of a sign-in to `Open`, that of a rotation to `Renew`, whatever ends a row to `End`
and the rest to stutters.

### Accounts

`TokenIsSpentHolds` and `VerifiedByMailHolds`, for every number of workers,
passwords and bounds. A handler that verifies an address does not look at the
token again when it saves, and every other update saves a row it read earlier, so
the invariant `IInv` says three things beside the properties: what a token in
Redis was generated for; that a request whose patch verifies the address either is
still to take its token or has taken one that was mailed (`GoodPatch`); and that
every copy of the row a request holds satisfies what is claimed of the row in the
table (`GoodRow`), which is why saving a stale copy is harmless to this property
though not to `LastPasswordHolds`.

`GuessingLocksHolds` and `NoRecentReuseHolds`, for any limits: both properties are
about requests that neither overlap nor die (`disturbed` stays false). `CInv` says
that at most one request is then in flight, and `Calm` what it relies on at each
await: the failures since the last success are counted in the row or in the patch it
is about to save (`Counted`), the row it loaded is the row in the table (`Current`),
the history is the last `HistoryLimit` passwords stored, up to the insert and the
deletion that are still to come (`Recorded`), and a password it will store has been
looked up (`Checked`). `CInv` builds on `IInv`, which types the requests.

`TypeOKHolds`, whatever overlaps or dies: the bounds of the model are kept by
requests that are several awaits from the step that counts, so `TInv` counts the
requests still to generate a token, to store a password or to insert a history row
beside those done (`Counts`), and says that a wrong password is counted on a copy of
the row that was below the limit when it was read.

### Rbac

`ProtectedKeptHolds` and `TypeOKHolds`, for every number of requests, any keys and
names. The orphans a synchronisation found by key are removed by id some awaits
later. `IInv` says that no request holds, to rename, delete or prune it, the id of
a permission that is seeded now; a row cannot become seeded meanwhile, because
every seeded key has a row (`SeedsOK`) and keys are unique.

`SyncGrantsDeclaredHolds` and `SyncOpensRoutesHolds`, for any set of routes: a
synchronisation that only synchronisations overlap repairs whatever requests that
died have left. Nothing about one of them is inductive while an administrator's
request is in flight, so `SInv` speaks of those that are alone: `SyncOK` says what
each has established at the await it is at (every declared key has a row it holds or
will create, the role it found is the admin role, what it will remove is not
declared), and `Granted` what is left when one has ended. `Stable` is what a step of
one may do to the others: declared rows, their grants and the roles stay. An
assignment inserts the grants it found missing, which `Covers` carries over that
await although another assignment may have inserted them: then it fails and claims
nothing. `SyncOpensRoutesHolds` adds `GuardAsksForDeclared`: the guard asks for
discovered keys only, also at a HEAD.

### RequestPipeline

`SystemLogsInOrderHolds` and `TypeOKHolds`, for every number of requests and
entries, any prefetch count, number of deaths and choice of ids. The order of the
table is not inductive: `IInv` adds, without RabbitMQ, that what is stored of a
request precedes what waits in the chain, which precedes what it logs next
(`Chained`); with RabbitMQ, that contexts and bundles are in order and that a
request with stored entries has its row, so that a redelivery fails on the unique
id before it stores anything twice (`ByBundle`).

### Frontend

The first half of `Frontend_proofs` proves what the steps of the counters and of the row keep; the second half shows that every step of the composition is a step of each
part or leaves it alone, and proves `TypeOKHolds`, `LimitHoldsAlways`,
`WindowKeptHolds`, `AlertOncePerRowHolds` and `OnlyServerFaultsCountedHolds` for
every number of requests, administrators, counters and deaths, any limit, window,
routes and set of database errors.

- INCR hands out tickets: the count of a hit and the window it fell in. No two
  tickets of one counter and window are equal (`TicketsInv`), and an admitted
  ticket is at most the limit, so there are no more of them than the limit.
  `ExpireInv`, used by `WindowKept`, says that a counter whose EXPIRE is still to
  come has no lifetime yet and therefore cannot end before it.
- A count is at most the number of trackers past their upsert (`Past`), in the row
  and in every copy a request has loaded; alerts sent and alerts to come
  (`Alerting`) are at most the rows inserted, because a count of one comes from an
  insertion only: every copy counts one at least.
- `Way(r)` ties the parts: a tracker runs only for a request that was answered with
  a 5xx, which `StatusInStatuses` and `FaultClass` show of every branch of `handle`.

### Users

`MailsOpenAccountsHolds` and `AvatarStoredHolds`, for every number of requests and
users, any addresses and seeds. `IInv` says that every copy of a row has the
password of its row (`PasswordInv`), that an avatar belongs to one user in rows,
copies and uploads (`OwnerInv`), and that the object an upload has stored is in no
row and no copy but its own before it saves (`FreshInv`): the deletion of an old
avatar therefore hits no other user and no newer avatar.

`WalkSeesEveryRowHolds`, for any length of the table and of the pages. A row stands
behind as many rows of the list as have a newer id (`Places`), which `NewerCount`
counts as the cardinality of a set, so that no induction over the sorted sequence is
needed. While no row leaves the list this number only grows, because what is
inserted has a newer id than every row. `WalkInv` says that a row the client waits
for and has not seen stands behind the pages it has read, and that the total it read
counts that row; on the last page nothing is behind.

`TypeOKHolds`: the numbers of avatars are bounded by the requests that have uploaded
and those that still may (`BoundInv`), each of which uploads once.

### Lifetimes

`BlacklistOutlivesTokenHolds` and `CapHoldsAlways`, for any devices, lifetimes and caps and
any length of a second. `IInv` says of every signed pair that it has the start and the
remember flag of its session and was signed in a second that has begun (`SignedOK`,
`SameSession`), of requests and session keys that the pairs they hold are signed, and of
every pair that was blacklisted that its entry, unless the token has ended, is there with
a deadline no sooner than the end of the token (`Lasts`). A new entry is made after its
token was signed and for the lifetime of such a token (`Entered`), which for a rotation
needs that the pair in Redis is remembered like the one presented; the clock drops an
entry only after its token (`Expired`). `Times` and `ClockSecond` carry the arithmetic
between ticks and seconds.

`SessionUsableHolds`, for the same constants. `UInv` adds three facts to `IInv`: a
session has at most one row (`RowsInv`); a pair has lost its row before it is
blacklisted, so no row that is left is in a blacklist (`ListsInv`); and a row that
has not expired has its session's key, with its pair and a deadline no sooner than
its own, except while the request that wrote the row is still to write the key or
its deadline (`KeysInv`). The rows expire by the millisecond and the keys by the
second, and the clock may run at every await: the deadline of a key is computed
later than that of its row, from the same lifetime.

The assumptions are the named ASSUMEs of the modules, which TLC evaluates in every
run. Every safety property, every action property and both refinements of the passing
runs are proved. Only model-checked are the four liveness properties
(`EveryRequestEnds`, `QueueDrains`, `LockoutEnds`, `EveryRequestAnswered`): they need
fairness and ENABLED, which the prover does not handle.

## What the runs found

`PROJECT.json` quotes each line. Shown by a run: a refresh token can be rotated
twice at once; a save of a stale row reverts a password change. Met while
modelling:

- a token signed in a request that is past its checks outlives a password reset,
  and so does the access token of a session that another sign-in replaced;
- a failing key scan is taken for no sessions: logout-all and a password reset then end
  nothing and succeed;
- a pair that is refreshed in the second it was signed in is blacklisted itself; a
  remembered refresh token outlives the blacklist entry of its logout, and its cookie
  ends earlier than the token;
- create-role's duplicate check is inverted; the names of the two reserved roles
  can be changed, and then they are no longer protected;
- log entries of guards that reject and of the error tracker are lost with
  RabbitMQ; a repeated or long X-Request-Id costs a request its log row;
- a counter whose EXPIRE never came refuses its identifier for ever;
- the stamp of an alert and a status set by an administrator write back counts and
  decisions that are older; the stamp is set when no mail was sent;
- words quoted in a message decide before the code of a later branch does;
- the timeout of the breach check holds for each of its attempts;
- an avatar upload fails when the old object cannot be deleted, and for an archived
  user it deletes the old object before it answers 404;
- a user can be deactivated by themselves through the update endpoints; a generated
  password is not returned; an update of a row that is removed meanwhile is a 500;
- the synchronisation makes permissions of public routes (`health:read`, `app:read`),
  which no guard asks for, and the seeded `users:read` opens no route.

## Plan

Done: `AuthSessions`, `Accounts`, `Rbac` with `Routes`, `ActivityLog` with `RequestPipeline`,
`RateLimit`, `HttpClient`, `ErrorTracking` and `DatabaseErrors` with `Frontend`,
`Repository` and `Listing` with `Users`, `RedisKeys` with `Lifetimes`; the proofs of all
their safety properties. What is left:

1. Lemmas that would carry the liveness arguments as far as the prover goes: a measure
   of what a request has still to do that every step of it lowers.
2. Weaker hypotheses for `SerialSessions_proofs`: several workers whose requests are of
   different sessions.

## Not modelled, and why

- Realtime gateway: the rooms belong to the socket library and its JWT middleware
  is a stub. Mail, geo and Google: calls to services without state of their own
  here; their failure is the failure of the await.
- Generic repository: joins, column selection, search and user-chosen sorting of
  `buildListQuery` choose rows and columns no property tells apart; transactions
  that no component opens; hooks no provider overrides.
- Database health checks, response shapes, pipes, DTO and OpenAPI decoration,
  modules and configuration: read-only, stateless or declarative. They are more
  than half of the lines of the repository and have no behaviour to check.
- Migrations 5 to 7 (resumes, documents, billing): no code uses their tables yet.
- Cryptography, JSON snapshots and message texts: no property is about them.
- Liveness beyond the four properties above: most of the system promises an answer
  only while PostgreSQL and Redis do.
- Redis commands without a caller (sets, sorted sets, several keys at once).
