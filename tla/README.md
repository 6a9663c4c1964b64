# TLA+ models of x64c/gw

This directory holds TLA+ specifications of the `gw` Go web framework
(`src/`), the TLC configurations that check them, and `PROJECT.json`, which
maps every definition to the lines of Go it models and lists the runs, the
mutants, the findings and the hazards.

Run a check from this directory:

    tlc -workers 2 -config MC_Collection.cfg MC_Collection

## 1. Inventory of the system

`spec.md` calls the collection engine (`orm/coll`, `orm/collgrp`, the
relation loader in `db/sqldb`) the core.  Around it sits a web framework
whose hard parts are concurrent: in-process lock registries, a token-bucket
rate limiter with a background cleaner, a cookie-session store capped per
user, an upstream API client that refreshes tokens and retries, and the
service lifecycle.

| Component | Source | State | Operations | Interacts with |
|---|---|---|---|---|
| Identity contract | `model/model.go` | none | `GetID`, `PtrsToIDMap` | every collection |
| Collection | `orm/coll/collection.go` | `itemsMap` (ID -> entity), optional `order` slice (nil = unordered) | constructors, `Add`, `AddIfNew`, `Sort`, `RemoveOrder`, `Filter`; reads `Len`, `Has`, `Find`, `IDs`, `Items`, `ForEach*` | combinators, groups, relation loader |
| Functional combinators | `orm/coll/iter.go` | none (pure) | `EnumerateToSlice/Map`, `CollectToSlice/Map`, `CollectUniqueToSlice[WithSkip]`, `Build[Un]OrderedCollectionFrom` | read a Collection, build new ones |
| Collection group | `orm/collgrp/*.go` | `collectionsMap` (key -> Collection), optional key `order` | `GroupBy`, `SetCollection`, `FindCollection`, `Sort`, `Collections`, `Keys` | owns sub-Collections |
| Relation loader | `db/sqldb/query_dbg.go` (+ `coll.LinkBelongsTo/LinkHasMany`, not in `src/`) | none beyond the two collections | `LoadBelongsTo`, `LoadHasMany` | query executor (external), Collection, combinators |
| Named locks / ActionLock | `namedlocks/*.go`, `web/handlerwrappers/action_lock.go` | `ActionLocks` sync.Map (name -> held) | `AcquireLocks` (LoadOrStore each, roll back on conflict), `ReleaseLocks`, the wrapper around a request | concurrent HTTP requests |
| Throttle bucket store | `throttle/*.go`, `handlerwrappers/throttle_*.go`, `framework/core_svc_throttle.go` | `groups` map, per group a sync.Map of buckets (tokens, lastCheck, mutex), service state | `Allow`, `Cleanup` (ticker goroutine), `Start`, `Stop`, `run` | request goroutines vs. the cleaner goroutine |
| User cookie sessions | `web/usercookiesession/*.go`, `handlerwrappers/auth_usercookiesession.go` | KV store keys: session -> uid, per-user session list, token hashes; `SessionLocks` (per-user mutex) | `StoreSessionInKVDB` (Set, lock, Push, CleanUp, Expire), `CleanUp` (Len, Range, Delete, Trim), sliding refresh, token-pair store | concurrent logins and requests, KV store (external) |
| External API client | `framework/external_api_client.go` | tokens in the KV store | `fetchJSON/PDF*`, `*Retriable` (on "access token expired": `UpdateTokens` then one retry), `UpdateTokens` | upstream API, session manager |
| Service lifecycle | `framework/core.go`, `core_shutdown_signal.go`, `throttle/bucketstore.go` (`Start/Stop/run`) | `services`, `done` channel, service `state` | `AddService`, `StartServices`, `WaitServicesDone`, `StopServices`, signal -> `RootCancel` | every service goroutine |
| UDS command store | `uds/cmdstore.go`, `uds/cmdgroup.go` | handler map, group map, display orders | `SetCommandHandler(s)`, `GetHandler`, `PrintHelp` | admin socket (external) |
| Raw SQL store / loader | `db/sqldb/rawstore.go`, `db/sqldb/impls/mysql/rawstmtstore.go` | `stmts` map | `LoadRawStmtsToStore` (dialect file wins over `.sql`) | file system |
| HTML template store | `tpl/htmlstore.go`, `framework/core_svc_htmltmpl.go` | `c.HTMLTemplateStore` (published store), the store being built | `LoadFileTemplates` (walk, skip hidden and non-`.ghtml`, error on a bad or duplicate file), publish by pointer assignment | file system, request handlers and `htmltpl-get-all` reading the store |
| SQL databases start-up / clean-up | `framework/core_svc_sqldb.go`, `framework/core_resource_cleanup.go` | `SQLDBConfs`, `SQLDBClients`, the clients `sqldb.New` made | `PrepareSQLDatabases` (config read, `New` and `Init` per database, statement loads), `ResourceCleanUp` (Close loop) | drivers (external), the raw statement loader |
| Not modelled | config loading (`framework/core_init.go`, the other `core_svc_*.go`), most UDS command handlers, responses, routing, request helpers, context helpers, client-app hot reload | | | |

### Hard behaviours

* Collections: the difference between a nil and an empty order slice;
  repeated IDs in a constructor batch; Go's random map iteration order
  (every unordered walk, `Sort`'s promotion of an unordered collection);
  first- versus last-write-wins in every builder.
* Relation loading: one batched fetch per direction, failure of that fetch,
  unmatched foreign keys, an empty key list.
* Named locks: requests acquire several locks one `LoadOrStore` at a time,
  in Go map order, and roll back on conflict; two requests can each block
  the other.
* Throttle: `Allow` is a `Load` followed by a `Store` (not `LoadOrStore`),
  and `Cleanup` reads a bucket's `lastCheck` under its mutex but deletes it
  after unlocking, while requests keep using the bucket.
* Sessions: the session key is written before the per-user lock is taken;
  the cap is enforced by Len/Range/Delete/Trim, four separate KV calls;
  `SessionLocks` is per process while the KV store is shared.
* Token refresh: concurrent requests that all see "access token expired"
  each refresh with the same refresh token and retry once.
* SQL start-up: clients are built in map order and the first failing
  call returns, leaving the client whose `Init` failed outside the map
  that `ResourceCleanUp` closes; a failing statement read leaves a
  partly filled package-level store.
* Lifecycle: services are started one by one; one failure leaves others
  running; `WaitServicesDone` waits for as many results as services.

### What makes each component correct

* Collection: an ordered collection's order lists every held ID exactly
  once; calls other than `Sort` keep relative order; `Sort` is a stable
  sort; an ordered collection is never treated as unordered.
* Combinators: projections have one output per entity in order; unique
  projections keep first occurrences; rebuilding keeps every entity and,
  for ordered sources, the order.
* Collection group: every entity is in exactly one sub-collection, in
  source order; the key order lists every key once.
* Relation loader: all-or-nothing linking; a child's parent reference is
  the parent with its foreign key; a parent with no children gets an empty,
  non-nil collection; one fetch per direction.
* Named locks: no lock is held by two requests; a request proceeds only
  with all its locks; all locks are released when it finishes.
* Throttle: no key is allowed more than the bucket permits in a window.
* Sessions: a user never keeps more than `MaxCntPerUser` live sessions.
* Token refresh: a request that retried uses the refreshed token pair; a
  stored pair is a pair the upstream issued together.
* SQL databases: a start-up that returns nil has an `Init`'ed client for
  every configured database; clean-up closes every client but the one
  whose `Init` failed.
* Lifecycle: every started service eventually reports done after the root
  context is cancelled, and `WaitServicesDone` returns.

## 2. Plan and status

| Module | Models | Status |
|---|---|---|
| `Collection` | one Collection under any sequence of calls | done |
| `CollIter` | the combinators of `iter.go` as operators | done |
| `CollGroup` | `GroupBy`, then group `Sort` / `SetCollection` | done |
| `RelationLoad` | `LoadBelongsTo`, `LoadHasMany` over the Collection state | done (all-or-nothing only; the query is one step) |
| `NamedLocks`, `LockSet` | concurrent `ActionLock.Wrap`; the atomic lock-set promise it refines | done |
| `Throttle` | `Allow`, `Cleanup`, `Start`/`Stop`/`run`, and `StartServices`/`WaitServicesDone` with the shutdown signal | done for one group and one bucket ID |
| `CookieSessions` | concurrent `StoreSessionInKVDB`, session authentication, `FetchJSONRetriable` with `UpdateTokens` | done for one user and one process |
| `UdsCommands` | the UDS command store and the three JWKS commands | done; other handlers are single calls |
| `RawStmts` | `LoadRawStmtsToStore` into a `RawSQLStore` | done, a failing read included |
| `SqlDatabases` | `PrepareSQLDatabases` and `ResourceCleanUp`, composed into `UdsCommands` | done; the drivers are not under `src/` |
| `HtmlTemplates`, `TemplateStore` | `LoadFileTemplates` and the hot reload of `PrepareHTMLTemplateStore`, composed into `UdsCommands`; the atomic-replacement promise it refines | done |

Left for later:
* a stepwise relation loader refining the all-or-nothing one;
* two application processes sharing the KV store.  The per-user mutex is
  per process, so this case is reached only by the mutant of
  `SessionListTracksLive`.
* several bucket IDs and groups in `Throttle`;
* the intended-URI redirect check in `usercookiesession/funcs.go`.  A
  cookie value `//host/...` has no scheme, so it is not rejected as
  external.  It is listed as a hazard and not yet checked.

## 3. The modules

Conventions of every module: a Go `nil` slice is the model value `NoOrder`
(or `None`); Go's map iteration order is a nondeterministic choice over
every permutation of the keys (`MapWalks`, `SetToSeqs`); every call into
`sync.Map`, the KV store, the file system or a crypto library is one atomic
step, and the Go code between two such calls of one goroutine is part of
one of them; a call that may fail fails at most `MaxFail` times in a
behaviour (`CanFail`).  A section "Plausible faults" in a module holds the
mutated definitions that `PROJECT.json` lists as mutants; they are not part
of the specification.

### Collection (`Collection.tla`)

State: `itemsMap` is a TLA+ function from the held IDs to entities
(`[id, val]` records; `GetID()` is `.id`), `order` is a sequence of IDs or
the model value `NoOrder` for a nil slice, `lastOp` is a history variable
naming the call that produced the state (used by the action properties).
Each exported method that changes a collection is an action: the four
constructors (the caller replaces its collection by a new one), `Add`,
`AddIfNew`, `Sort(less)`, `RemoveOrder` and `c = c.Filter(fn)`.
`sort.SliceStable` is a stable insertion sort (`SliceStable`).
Comparators are ranks over the entity's value (so ties happen); predicates
keep the entities whose value is in a set.  Initial states are every value
a constructor can return from a batch of at most `MaxBatch` entities;
`DistinctBatches` chooses whether a batch may repeat an ID (query results
keyed by a primary key do not).

### Combinators (`CollIter.tla`)

Each function of `iter.go` is an operator of the collection state, a Go map
walk and callbacks drawn from small function sets (yield: value -> output;
key function; skip set).  `EnumerateToSlice` records whether it indexes past
the slice it sized with `c.Len()` (a Go panic).  The properties quantify over
every callback and walk and are checked in every state `Collection` reaches.

### Collection group (`CollGroup.tla`)

The source is the Collection state; `DoGroupBy` groups it (for every key
function and map walk) into `gColls` (key -> `[items, order]`) and then
stops the source, because `GroupBy` copies references and never reads the
source again.  `GroupSort` (a stable sort of the keys, `sort.SliceStable`)
and `SetCollection` then follow in any order; `gOps` records which calls
happened.  `Collections` and `GroupKeys` are the reads.

### Relation loader (`RelationLoad.tla`)

`LoadBelongsTo` and `LoadHasMany` are operators over the Collection state:
the foreign keys collected once each (`CollectUniqueToSliceWithSkip`), the
placeholder count, the bound values (`IDsAsAny`), one query, and the
linking.  The query executor and the two linkers are not under `src/`; they
are modelled from `spec.md` 4.4 (a query with the wrong number of values
fails; a linker sets unmatched references to nil and gives a parent with no
children an empty collection).  The property is checked in every state of
the `collection` run, for every walk and every foreign-key function.

### Named locks (`NamedLocks.tla`, `LockSet.tla`)

Each request is a goroutine with a program counter `pc`: `Begin` (auth
passed, lock keys in a map order), one `LoadOrStore` per key, the rollback
`Delete`s on conflict (409), the handler (`cs`), the deferred release
`Delete`s, and a next request of the same client.  `store` is the
`ActionLocks` sync.Map.  `LockSet` is the promise with no inner steps: a
request enters only when no request inside shares a lock, or it is
refused; `NamedLocks` implements it under the mapping `AbsPc`.

### Throttle and service lifecycle (`Throttle.tla`)

One bucket group and one bucket ID.  `slot` is the sync.Map entry (which
bucket record the ID maps to, 0 for none) and `bk` the bucket records, so a
goroutine may hold a bucket the map has dropped.  Requests run `Allow` as
`GetBucket` (Load), the bucket's `Allow` under its mutex, or `SetBucket`
(Store of a fresh bucket).  The `run` goroutine loops on a select between
the ticker (`Cleanup`: Range, the bucket mutex section reading `lastCheck`,
then `Delete`) and `ctx.Done()`.  `Start`, `Stop` and the signal handler's
`RootCancel` change the service state.  The core's `StartServices` starts
`SvcOrder` one service at a time (another service's `Start` may fail,
ending the start); each started service has a relay goroutine that forwards
its result to `c.done`, a channel with room for `len(c.services)` values;
`WaitRecv` is one receive of `WaitServicesDone`.  `StopServices`, which the
application calls once the start has ended, runs every service's `Stop`:
the bucket store's (a no-op unless RUNNING) and the other services', which
cancel their contexts.
Time is whole ticks of `clock` up to `MaxTime`; requests up to `MaxReqs`.

### Cookie sessions and token refresh (`CookieSessions.tla`)

One user in one process.  `live` is the set of session keys in the KV
store, `lst` the per-user session list, `mutex` the per-user
`SessionLocks` mutex, `tokA`/`tokR` the generations of the stored access and
refresh tokens of session `S0`, `noTTL` the token hashes stored without an
expiration.  A login is `SetSession`, `LockUser`, `PushSession` and
`CleanUp`'s `Len`, `Range`, `Delete` and `Trim`, then the unlock.  A fetch
authenticates `S0` (with the sliding refresh), calls upstream, and on an
expired access token runs `UpdateTokens` (read the refresh token, reissue
upstream, then `Exists` on the access hash (`ExistsAccess`: an absent
hash or an error sets `shouldSetExp`), `SetField` access, `SetField`
refresh, and `Expire` on both only if `shouldSetExp`), then retries once.
Each of the three KV calls is its own step, so a `CleanUp` can run between
the `Exists` and the writes.  `CleanUp`'s `Delete` removes `S0`'s token
hashes with the session only when `Conf.WithExternalTokens` is set
(`TokensDeleted`, from `buildKeysToDel`); both runs set it.  Upstream (not under
`src/`) accepts only the latest access token and rotates refresh tokens.
`Expire` is the access token expiring.  `mode` is `Conf.ExpireMode`,
chosen in the initial state: the absolute handler skips the sliding
refresh.  The initial state is the manager `PrepareUserCookieSessions`
builds, with an empty `SessionLocks` map, and `S0` already logged in.
`Range` and `Trim` behave as the
KV store's list commands do on a list shorter than asked: `Range` returns
the whole list and `Trim` empties it.

`SessionListTracksLive` states what the per-user mutex is for: with no
failed KV call, the list holds exactly the live sessions apart from those
of logins between `Set` and `Push`, and no check runs mid-clean-up.  Its
mutant lets a login lock while the other holds the mutex.  This is what
two logins in two processes do, because `SessionLocks` is per process.
`StoredPairIsLatest` states that, when no refresh is storing, the stored
pair is the latest one upstream issued.  So two concurrent refreshes
never leave an older or mixed pair behind.

### UDS commands and JWKS keys (`UdsCommands.tla`)

`handlerMap`, `groupMap` and `groupOrder` are the `CommandStore`;
`SetCommandHandler` registers handlers in any order and number, and a
handler whose command exists under another group is `log.Fatal`
(`phase` = "fatal").  `Serve` is the application's main (not under
`src/`) starting to serve once `PrepareSQLDatabases` returned nil; after it, `GetHandler` dispatches a command; the
three JWKS commands are step sequences over the key directories (`priv`,
`pub`), the KV key `kid`, the file `jwks.json` (`jwks`) and its temporary
file (`tmp`): rotate (generate, save private, save public, set kid, then
build), build (load the public keys, write the temporary file, rename), and
delete-old (get kid, list, remove every other key file).  Every file and KV
call may fail and ends the command, except `os.Remove` in delete-old, whose
error the code ignores: the file stays and the loop goes on.

### Raw SQL statement store (`RawStmts.tla`)

`LoadRawStmtsToStore` is an operator: `fs.WalkDir`'s lexical order
(`WalkDir`, names compared as sequences of dot-separated atoms), the
extension filter, the key (path without extension, `/` replaced by `.`),
and the callback `Visit` that always `Set`s a file of the dialect's
extension and `Set`s a `.sql` file only when `Get` finds no key.  The
store is loaded by `PrepareSQLDatabases` (below) from each of two embedded
file trees: one with dialect files and colliding keys (`a/b.sql`,
`a.b.mysql`), one with only `.sql` files.  `LoadRawStmtsFailingAt(fs, i)`
is the walk stopped by a `ReadFile` error on the i-th statement file. The
package-level store keeps the files before it.

### SQL databases (`SqlDatabases.tla`)

`PrepareSQLDatabases` is a sequence of steps, named by `sqlPc`.
`LoadSQLDBConfs` reads the configuration, a function from database names
to dialects. With no dialect it returns nil. `NewClient` runs `sqldb.New`
for the database the map iteration reaches next, and `InitClient` runs
`Init` and stores the client in `c.SQLDBClients` (`sqlClients`).
`LoadMysqlStmts` and `LoadPgsqlStmts` run the statement loads for the
dialects present. Every step may fail, and the first error returns
(`SqlFail`). The variable `client` records every client `New` made: `new`,
`ready` after `Init`, and `closed`. `ResourceCleanUp` and `CloseClient`
are its loop over `c.SQLDBClients`.  In `UdsCommands`, `PrepareSql` runs
these steps before registration (they share no state with it, so their
order with it does not matter). Registration and serving need a nil
return. `StopApp` runs `ResourceCleanUp` either between commands, or
after an error when the caller cleans up. The caller is not under
`src/`, so a start-up error may also simply end the process.

### HTML template store (`HtmlTemplates.tla`)

`LoadFileTemplates` is an operator over a template tree (root present,
file paths, files that fail to read or parse): the walk in `WalkDir`
order, `fs.SkipDir` for a hidden directory, the skip of hidden and
non-`.ghtml` files, the error on a bad file or a duplicate key, and the
key (path without `.ghtml`).  `PrepareHTMLTemplateStore` is two actions:
`LoadTemplates` builds the store into `tplNew` (a failed load publishes
nothing) and `PublishTemplates` is the assignment
`c.HTMLTemplateStore = store`.  `UdsCommands` composes it: `Reload` runs a
step of it while serving, interleaved with the other commands, and the
`htmltpl-get-all` command (`TplGetAll`) reads the published store.
`VisibleTemplates` is the reference definition of what a tree should
give, written from the filter's conditions without the walk.

`TemplateStore.tla` is what the store promises its readers.  The store is
absent at first.  Every change replaces it, in one step, by a member of
`Complete`, the stores a successful load produces.  `HtmlTemplates`
instantiates it with `store <- tplStore` and
`Complete <- { VisibleTemplates(t) } \ {None}`, and checks it as the
property `ImplementsTemplateStore`:
* `LoadTemplates` and a failed reload are stuttering steps of the abstract
  store;
* `PublishTemplates` is its `Replace`.

## 4. Runs

| Run | Module / cfg | Checks | Result |
|---|---|---|---|
| `collection` | `MC_Collection.cfg` | `TypeOK`, `OrderMatchesKeys`, `ProjectionsComplete`, `UniqueProjectionFirstOccurrence`, `RebuildIdentityKeepsOrder`, `RelativeOrderKept`, `SortIsStable`, `RelationsLinked` | pass, 1250 states: every collection over 3 IDs and 2 values under every call; combinators and both loaders agree with their reference definitions |
| `collection_dup_batch` | `MC_CollectionDupBatch.cfg` | `OrderMatchesKeys` | violation: `NewOrderedCollection` copies a repeated batch ID into `order` twice |
| `collection_empty_ordered` | `MC_CollectionEmptyOrdered.cfg` | `OrderedModeHonoured` | violation: `Filter` and `ForEachOrderly` test `len(c.order)`, so an empty ordered collection is treated as unordered |
| `group` | `MC_CollGroup.cfg` | `GroupByPartitions`, `GroupSortIsStable` | pass, 82,510 states: grouping partitions the source in source order and mode; group `Sort` is stable |
| `group_set_after_sort` | `MC_CollGroupSetAfterSort.cfg` | `GroupOrderMatchesKeys` | violation: `SetCollection` of a new key after `Sort` leaves it out of `Keys()` and `Collections()` |
| `action_locks` | `MC_NamedLocks.cfg` | `LockOwnership`, `EveryRequestCompletes`, `ImplementsLockSet` | pass, 9670 states: 3 requests over 2 locks in every map order |
| `throttle` | `MC_Throttle.cfg` | `StopEventuallyDone`, `ShutdownCompletes`, `AllServicesEnd` | pass, 180,867 states: `Stop` ends `run` even during a `Cleanup`; after the signal `WaitServicesDone` returns unless a start failed; after `StopServices` every started service ends and its relay delivers |
| `throttle_allow_race` | `MC_ThrottleRace.cfg` | `TokenBudget` | violation: two first requests both miss the `Load` and both `Store` a fresh bucket |
| `throttle_cleanup_stale` | `MC_ThrottleCleanup.cfg` | `TokenBudget` | violation: `Cleanup` deletes a bucket used after it read `lastCheck` |
| `sessions` | `MC_CookieSessions.cfg` | `SessionCapNoKVErrors`, `StoredPairIsLatest`, `SessionListTracksLive`, `LoginCompletes` | pass, 418,004 states: 2 logins and 2 refreshing requests in both expiration modes, 1 KV failure allowed; the stored token pair is always the latest issued pair and the session list tracks the live sessions |
| `sessions_orphan_ttl` | `MC_CookieSessionsOrphanTTL.cfg` | `NoTokenKeyWithoutTTL` | violation: a `CleanUp` between `Exists` and the `SetField`s re-creates a token hash without expiration |
| `uds_commands` | `MC_UdsCommands.cfg` | `HelpListsEachCommandOnce`, `CurrentKeyUsable`, `KidPublished`, `SqlDatabasesReady`, `CleanUpLeavesOnlyFailedInit`, `ImplementsTemplateStore` | pass, 9,876,563 states: SQL start-up with every call failing or not, two SQL trees, two database configurations, then registration orders with a group conflict, key commands with one failing call, reloads of four template trees interleaved with the commands; the two-step reload refines the atomic `TemplateStore`; a nil start-up serves a ready client per database and the dialect-first store; `ResourceCleanUp` leaves open only the client whose `Init` failed |

Every property of a passing run has a mutant in `PROJECT.json`: a
plausible bug of the mapped code (a dropped guard, a missing reset, a
swapped check) under which the same run finds the property violated.

### Bounds

* Collections: 3 IDs give every relative order of three elements; 2 values
  give ties for `Sort` and for projections; batches of up to 3 reach every
  map shape, so all 106 collection values are initial states.  Groups use 2
  keys, so sub-collections of one and of two entities occur.
* Locks: 3 requests over 2 names, two needing both and one needing one:
  overlapping acquisitions in both orders, and a third that overlaps only on one name.
* Throttle: `Burst` = 1 and `OlderThan` = 1 make a second admission in one
  tick a violation and make buckets eligible for cleanup after one tick;
  the violation runs need 3 ticks and 3 requests, the liveness run 2.
  The liveness run starts three services, the bucket store second: a
  failed `Start` of the third leaves two services running with nobody
  receiving on `c.done`, the case the channel's capacity is for.
* Sessions: `MaxCntPerUser` = 1 with 2 logins makes every clean-up delete;
  2 generations let both fetchers refresh once; one KV failure anywhere.
* UDS: 3 key IDs (one existing, two to generate), one failure, and a
  handler set with a group conflict.  `RawStmts` trees hold a dialect file
  and a fallback of one key, a fallback reached through a directory that
  collides with a dialect file's key, and files that must be skipped.
  The two database configurations are one mysql database and two pgsql
  databases. Together they take both branches of both statement loads,
  and with two databases a failing `Init` follows a stored client in
  either map order.
  The four template trees are a good one (a root template, one in a
  subdirectory, one under `.git/`, a hidden file, a `.txt` file), the same
  without one template, one with a bad template and one without a root, so
  successful and failed reloads follow each other in every order.

### Fairness

* Collections, groups, the loader and the UDS store are called
  synchronously; no liveness is claimed and no fairness assumed.
* Named locks: weak fairness of each request's steps (`Run(r)`): a
  runnable goroutine is eventually scheduled.  Starting a request is the
  client's choice and is not fair.
* Throttle: weak fairness of `Cleanup`, of `StartServices` and of each
  relay and other-service goroutine; strong fairness of `RunDone`, because
  Go's select picks uniformly among ready cases, so a done context that is
  ready at every select is eventually chosen.  Requests, ticks,
  `StopServices` and the signal are the environment and are not fair.
* Sessions: strong fairness of each login: a login blocked on the
  per-user mutex is enabled whenever it is free, and `sync.Mutex`
  starvation mode hands the lock over.  Fetchers and expiry are not fair.

## 5. Findings

* `NewOrderedCollection` (`orm/coll/collection.go:61`) lists a repeated
  batch ID twice in `order`; `EnumerateToSlice` then writes past its slice.
* `Filter` and `ForEachOrderly` (`collection.go:207`, `:194`) treat an empty
  ordered collection as unordered, unlike `spec.md`.
* `SetCollection` (`orm/collgrp/collectiongroup.go:36`) after `Sort` omits
  the new key from the group order, against `spec.md` 4.3.
* `BucketStore.Allow` (`throttle/bucketstore.go:121`) uses `Load` then
  `Store`: concurrent first requests each get a full bucket.
* `Cleanup` (`throttle/bucketstore_nodbg.go:18`) deletes after unlocking
  the bucket, so a bucket in use can be dropped.
* `StoreExternalTokenPairInKVDB` (`web/usercookiesession/manager.go:135`)
  decides whether to set the expiration before its writes; a concurrent
  `CleanUp` makes it leave a token hash with no expiration.

## 6. Not modelled, and why

* Config loading, JSON (un)marshalling, cookies, cryptography, HTTP
  transport, template execution, responses and routing: I/O or formatting with
  no state a property distinguishes.
* UDS handlers other than the JWKS ones and `htmltpl-get-all`: each is one
  read or one call into a store; the UDS server is not under `src/`.
* Template reloads before serving: `Reload` runs only in the serve phase;
  the first load at start-up is the same two steps with no reader.
  The publication is a plain pointer write, modelled as one step.
* Client-app hot reload: a single `atomic.Pointer` swap of an immutable map.
* Code not under `src/` (the query executor, the collection linkers,
  `Bucket.Allow`, the other services, upstream): modelled from `spec.md` or
  as the least its callers rely on, and marked `spec_modelled` in the map.
* The SQL drivers (`sqldb.New`, a client's `Init`, `Close` and
  `RawSQLStore`, the pgsql loader) are not under `src/`. A call to one
  succeeds or fails, and a mysql client shows the mysql package's store.
  Whether a client whose `Init` failed holds a connection is the
  driver's business. `CleanUpLeavesOnlyFailedInit` shows that this
  client is the only one left open.
* Lock-name construction in `ActionLock.Wrap`: two `(action, target)`
  pairs can map to one name only if an action name contains `:`. Action
  names come from the application's configuration, which is not under
  `src/`, so `NamedLocks` takes a request's lock names as a set of model
  values.
* The `//host` redirect in `TryRedirectIfIntendedURICookie`: this is URL
  parsing. Showing it needs its own violation run, and this one is listed
  as a hazard and not checked.
* `SetBucketGroup` calls and UDS commands running concurrently: the
  callers (application start-up code and the UDS server) are outside
  `src/`. `Throttle` registers its group before `Start`, and `UdsCommands`
  runs one command at a time.
* `WaitServicesDone` after a failed `StartServices`: the application's
  main decides what follows a failed start; the model lets it call
  `StopServices`.
* Growth of `Core.SessionLocks`: a mutex per user is stored and never
  deleted; a model of one user cannot show it.
* `LinkBelongsTo` failing halfway: the linkers are not under `src/`, and
  `spec.md` does not say how they fail.
