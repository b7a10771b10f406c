# Kudzu: specifications, model checking and proofs

Kudzu is the server of the GROW Observatory. It reads the measurements of
"Flower Power" soil sensors from Parrot's API, publishes them at Thingful, keeps
track of both in PostgreSQL, and answers clients over an HTTP API. This
directory holds TLA+ specifications of the parts in which something can go wrong
that a test would hardly reach, the TLC configurations that check small
instances of them, and proofs checked by TLAPS. Paths below are relative to the
repository's root (`src/` here).

## The system

| Component | State | Operations | Talks to |
|---|---|---|---|
| `pkg/indexer` | the pass under way: identity, locations left, a copy of one thing's row | `Start` (ticker loop), `Index`, `indexLocations`, `indexNewLocation`, `indexExistingLocation` | identities and things in the database; Parrot (read); Thingful (create, update) |
| `pkg/postgres` | tables users, identities, things, channels, data_sources, applications, location_changes | one method per statement or transaction; `NextIdentity` claims a row | called by indexer, handlers, middleware, commands |
| `pkg/flowerpower` | none | `GetUser`, `GetLocations` (two requests joined), `GetReadings` (one window) | Parrot's API through `pkg/client` |
| `pkg/thingful` | none; `GetData` has a wait group, a channel and goroutines for the time of a call | `CreateThing`, `UpdateThing`, `GetData` | Thingful's API through `pkg/client` |
| `pkg/client` | an HTTP client with a timeout | `Get`, `Post`, `Patch` | Parrot, Thingful |
| `pkg/http/middleware` | the map of token buckets (`rate_limiter.go`); the others have none | authentication, rate limit, logging, metrics, request id | applications table |
| `pkg/http/handlers` | none | users (create, delete), locations (list, update), time series, applications, metadata, data sources, health, metrics | database, Parrot, Thingful |
| `pkg/app`, `pkg/http/http.go`, `cmd/kudzu/commands/server.go` | quit and error channels, wait group, signal channel, retry policy | start, retry, interrupt, graceful stop | all of the above |
| `cmd/kudzu/commands` (`apps`, `migrate`), `pkg/migrations` | the schema | create an application, migrate up and down | database |
| `pkg/logger`, `pkg/version` | none | formatting | |

How they interact: `server` builds an `App`; the app starts the HTTP service and
the indexer in goroutines and waits for an interrupt or an error. The indexer
and the handlers never call one another: they meet in the tables and at
Thingful. Every request passes authentication and the rate limiter before it
reaches a handler; the time series handler fans out over Thingful with `GetData`
and then reads the data sources from the database.

### What is hard about it

- *Interleaving.* Several servers may run indexers on one database; handlers run
  beside them; each pass holds a copy of a row over minutes and many calls.
- *Partial failure.* A pass is a sequence of calls to two services and a
  database without a transaction around them. Each may fail, and a call that
  timed out, or a COMMIT that reported an error, may have been carried out.
- *Crash and restart.* An identity is marked as indexed before the work is done;
  the watermark (`last_uploaded_sample`) is all that is left after a crash.
- *Goroutines and channels.* `GetData` returns early while goroutines still
  send; the life cycle has a wait group filled from within the goroutines it
  waits for, channels without a buffer, and a retry that leaves goroutines behind.
- *Two writers of one fact.* A geolocation is in the database and at Thingful; the
  handler writes the one and then the other, and a pass may hold an older copy.
- *Order of arrival.* What `GetData` collects comes in the order in which
  goroutines finish, and the time series answer is built from that.
- *Locks.* `CreateThing` is a transaction of fifteen statements that lock rows one
  after another, next to others, and to a deletion whose foreign keys reach the
  same rows.
- *Stale reads.* What a request needs of its application is read once, by the
  authentication; a token bucket keeps the rate it was made with.
- *Check-then-act.* The rate limiter looks an entry up under one lock and inserts
  it under another.

### What makes each component correct

- Indexer: what the watermark says is uploaded is at Thingful, always; a fault
  strands at most one thing; two passes over one identity do not run together,
  as long as none outlasts the rest period; then a watermark does not move back
  either; every due identity gets its turn, every pass
  ends, every sample arrives; one bad location does not hold up the others.
- Handlers beside the indexer: a deletion leaves no thing without an owner and
  strands no more than the pass was creating; a rename is not lost; a stored
  geolocation reaches Thingful in the end.
- Time series: each series asked for and no other, in the order asked for, with
  its own first and last date; every code explained; whatever came in first.
- `GetData`: all things or an error; no send on a closed channel; it returns;
  what it leaves behind is bounded.
- Transactions: none waits in a circle, each ends, each has the effect of one
  step that keeps the constraints of the schema.
- Applications: a key that was handed out works and permits what was asked for,
  at most a fault uses up a name.
- Rate limiter: no application gets more than its share, none is limited before
  it has used it up.
- Life cycle: a received interrupt ends the process, after the pass and the
  service of the App that received it; the process is never up without listening.

PROJECT.json lists every component with its status, and every hazard with its
line and the properties that cover it.

## Modules

| Module | Models | Checked by | Proved in |
|---|---|---|---|
| `Postgres` | tables users and identities (as one) and things; each SQL statement as an operator | through the modules that use it | through their proofs |
| `Delivery` | abstract: what the indexer promises to the readers of Thingful and of the database | as a property of `indexer_faults` | by `KudzuProofs` |
| `Indexer` | the indexer loop, any number of them, with Parrot, Thingful, the sensors and the clock as environment | `MCIndexer`, four runs | `KudzuProofs`, `ExclusiveProofs` |
| `Kudzu` | `Indexer` composed with the handlers that write the same tables: `newUserHandler`, `deleteUserHandler`, `updateLocationHandler` | `MCKudzu`, `kudzu` | `KudzuProofs`, `ExclusiveProofs` |
| `Tables` | abstract: the transactions of `pkg/postgres` as single steps | as a property of `transactions` | by `TransactionsProofs` |
| `Transactions` | the same transactions statement by statement, with their locks and error paths | `MCTransactions`, `transactions` | `TransactionsProofs` |
| `Fetch` | abstract: what a call of `GetData` promises | as a property of `getdata`; within `Timeseries` | by `GetDataProofs` (`GetData` implements it) |
| `GetData` | one call of `Thingful.GetData` | `getdata`, `getdata_leak` | `GetDataProofs` |
| `Timeseries` | `timeseriesHandler`, on top of `Fetch` | `MCTimeseries`, `timeseries` | `TimeseriesProofs` |
| `RateLimiter` | the map of buckets, concurrent requests, rates that change, the cleanup ticker | `MCRateLimiter`, `rate_limiter_overwrite`; within `Api` | `RateLimiterProofs`, `ApiProofs` |
| `Api` | table applications, authentication, `RateLimiter`, `createAppHandler` and the command `api-key`, composed | `MCApi`, `api` | `ApiProofs` |
| `AppLifecycle` | server command, `App.Start`, `HTTP.Start`, `Indexer.Start` | `app_stop` | `AppLifecycleProofs` |

Operators whose comment says "a slip" (`LoadFromStart`, `Abandon`, ...) are
not part of a specification. Each is what its neighbour would be after a
plausible mistake in the code, and is kept to show that the properties notice:
PROJECT.json pairs each with the property it breaks.

### Postgres and Indexer

A table is a function whose domain is the set of keys it holds; NULL, and Go's
zero time, are 0. Times of samples count from a location's first sample, which
is 1; the clock counts from 1. The set of observations at Thingful is a set of
sample times, so storing one twice is storing it once, as Thingful does.

The variables are the tables `identities` and `things`, Thingful's `remote`,
Parrot's `parrot`, the database clock `now`, and per indexer the program counter
`pc` and the local variables of the Go functions: `user` (identity), `todo`
(locations not done), `loc` (l), `isNew` (which of the two functions runs),
`copy` (thing). `faults` counts the failures so far.

| Code (`pkg/indexer/indexer.go` unless named) | Action |
|---|---|
| `postgres/identities.go` `NextIdentity`, the UPDATE | `SelectIdentity` (the row is locked), `NextIdentityFails` |
| its COMMIT | `CommitClaim`, `CommitClaimFails` (logged; the pass goes on) |
| `flowerpower.GetLocations` | `FetchStatus`, `FetchConfiguration`, `GetLocationsFails` |
| loop of `indexLocations` | `GetThing`, `GetThingFails`, `FinishPass` |
| `indexNewLocation` up to the INSERT | `ReadFirst`, `CreateThing`, `CreateThingFails`, `InsertThing`, `InsertThingRejected`, `InsertThingFails` |
| the chunk loops of both functions | `ReadMore`, `ReadChunk`, `PushChunk`, `PushChunkFails`, `SaveChunk`, `SaveChunkFails`, `GetReadingsFails` |
| end of the loops | `FinishLocation`, `UpdateNicknameFails` |
| the process | `Crash`, `Restart` |

Each remote call and each statement is one action, since others run between any
two. The variants ending in `Fails` include the outcome "carried out, but
reported as failed" where the client times out or a COMMIT loses its answer.

`since` is when a pass began. It serves the constant `Longest` alone: the clock
stands still while a pass has lasted that long. Nothing in the code limits a
pass, so `Longest` is an assumption that an instance makes, or does not make by
setting it to `MaxNow`.

An error of `NextIdentity` takes the process down: `Index` logs it and then
dereferences the nil identity (line 103).

Parrot and Thingful are outside the repository. Their behaviour is what the code
relies on: Parrot lists a user's locations with the time of the last sample and
the nickname, its second answer may not list a sensor for a location
(`Fitted`); Thingful gives a new uid for each create and stores observations.

A column that no property tells apart is left out, and so are the channels of a
thing (they are in `Transactions`).

`Delivery` is what all this is for, in two variables: `stored`, what Thingful
holds, and `recorded`, which thing and how many samples the database has on
record for a location. Its steps announce a thing, deliver more samples, enter a
location, or move its mark, and none takes anything back. `ImplementsDelivery`
maps `remote` and the rows of `things` to the two.

### Kudzu

A user and its identity are inserted by one statement and deleted together, so
the domain of `identities` is the set of users. `Account` says which account at
Parrot an access token belongs to: a person who was deleted and registers again
is a new user with the same account (`parrot_id` is UNIQUE), and the same
locations.

| Code | Action |
|---|---|
| `updateLocationHandler`: `UpdateGeolocation` (`postgres/locations.go`) | `UpdateLocation`, `UpdateLocationFails` (the COMMIT may have been executed) |
| `updateLocationHandler`: `env.thingful.UpdateThing` | `PushLocation`, `PushLocationFails` |
| `newUserHandler`: `SaveUser` (`postgres/users.go`) | `SaveUser` |
| `deleteUserHandler`: `DeleteUser` | `DeleteUser` |

`request[r]` is what a call of `updateLocationHandler` has read from its UPDATE
and not yet sent. `deleted` is a history variable.

What the schema does is part of this: `things.owner_id` is ON DELETE SET NULL
and NOT NULL, so a user with things cannot be deleted (`CanDeleteUser`), while
one whose first pass is under way can. The INSERT of that pass is then rejected by
the foreign key after the thing was created at Thingful, and so it goes for each
of the user's locations, but for none of them twice: `StrandedByDeletion` bounds
what is left at Thingful.

The place of a thing is written by the handler to the database and then to
Thingful, and by a pass, from a copy that may be older, to Thingful only
(`UpdateThing` of `postgres/things.go` does not write `long` and `lat`). Either
failing, or the pass being later, leaves Thingful with an older place;
`GeolocationRepaired` says that the next pass with new data puts it right. The
title at Thingful lags by one chunk at each rename, since
`indexExistingLocation` sends the chunk (line 316) before it takes the new
nickname into its copy (line 326); no property says otherwise.

A transaction of the database is one step here, which `Transactions` justifies.
The trigger that records old geolocations in `location_changes` is left out:
nothing reads that table.

### Tables and Transactions

`Tables` has each transaction as one step: a thing appears with all its channels,
if its location and uid are new and its owner exists; a user without things is
deleted; an account has one user; an identity that is claimed is due.
`Transactions` runs them the way PostgreSQL does at READ COMMITTED: a statement
waits for the transactions that have locked what it touches, locks are kept to
the end of the transaction, what was written is seen by others at the COMMIT.

| Code | Actions |
|---|---|
| `CreateThing` | `BeginCreate`, `InsertThing` (the INSERT, up to the check of its UNIQUE keys), `CheckOwner` (its foreign key, which locks the user's row FOR KEY SHARE), `UpsertSource` and `InsertChannel` for each of `makeChannels` |
| `UpdateThing`, `UpdateNickname`, `UpdateGeolocation` | `BeginUpdate`, `UpdateRow` |
| `DeleteUser` | `BeginDelete`, `DeleteRow`, then what the foreign keys do: `Cascade` (identities), `SetOwnerNull` (things, where NOT NULL makes it fail) |
| `SaveUser` | `BeginSave`, `InsertUserRow` |
| `NextIdentity` | `BeginClaim`: SKIP LOCKED never waits |
| `tx.Commit()`, and a COMMIT that reports an error | `Commit`, `CommitFails` |
| the error paths with `tx.Rollback()`, a connection that is lost | `StatementFails`, `Rollback` |

`at[s]` is the statement session s runs next, `work[s]` its transaction, `held[s]`
its locks. A key of a UNIQUE index counts as a lock. `ImplementsTables` needs no
mapping: what is not committed is not in the tables. The deadlock that
`NoWaitCycle` excludes would come from two `CreateThing` that take the data
sources in different orders (the slip `SourceInAnyOrder`); that both list them as
`makeChannels` does is why none exists. That two passes do not claim one identity
needs a clock that moves and is left to `indexer_concurrent`.

### Fetch and Timeseries

`Fetch` is the abstract call: it collects the things of the positions asked for,
one at a time and in any order, and ends with all of them or with an error.
`Timeseries` uses its actions as they are, with the list of the request: a list
may name a location twice, hence positions. That `GetData` keeps this promise is
`ImplementsFetch`, which is model-checked and proved.

| Code (`pkg/http/handlers/timeseries_handler.go`) | Action |
|---|---|
| `parseTimeSeriesRequest` | `Accept`, `Reject` |
| `env.thingful.GetData` | `ReceiveThing`, `GetDataReturns`, `GetDataFails` |
| `env.db.GetDataSources` | `GetDataSources`, `GetDataSourcesFails` |
| `buildResponse`, `json.Marshal` | `BuildResponse`, `BuildResponseFails` |

Ids are paths, and `Base` is `path.Base`. Thingful is taken to answer with a
thing's channels and their readings between the two dates, the latest first, as
`buildObservations` expects: what it holds of a channel is a set (`readings`),
`LatestFirst` its order in an answer, so neither the model nor `Complete` depends on
how it is kept. `ContentsAssumption` says what else is taken of Thingful: a thing's id
ends in the uid it was asked for, its channels have different names, and a channel
has no two readings of one time. `Entries` are the places that the two loops
of `buildResponse` come to, a pair of thing and channel each, and the series of the
answer go by them. The maps of the answer are functions; the first
entry with a code decides (`UnitOf`, `FirstOf`). For a channel that the table of units
does not know, with different units at different things, the first thing to
arrive therefore decides the unit that both are read in. `Explained` claims the
unit only for names in the table, which those that this program writes all are.

### GetData

`main` is the caller, `fetcher[k]` the goroutine of uid k, `closer` the one that
waits and closes, `channel` what the buffer holds. The channel is a set, because
the goroutines' order is arbitrary anyway. `WaitGroup` is the set of goroutines
that have been added and are not done.

### RateLimiter and Api

`getVisitor` is `Found` or `NotFound`, `addVisitor` is `AddVisitor`: the steps
between which the locks are released. `limiter[r]` is the bucket a request holds
outside the locks; `uid[r]` and `rate[r]` are what the authentication has put in
its context. A bucket keeps the rate it was made with. A tick is a second, in
which a bucket of rate r gains r tokens; the clock stands still while a request
is between two steps of the middleware, which take microseconds. `admitted`,
`replaced` and `granted` are history variables for the properties.

`Api` composes this with what is in front and behind: `Authenticate` (`LoadApp`
and the values for the context) takes the place of the arbitrary `Arrive`, and a
request that has passed is in `createAppHandler` (`CreateApp`, `CreateAppEnds`) or
in another handler (`OtherAnswer`, which is also every refusal). `tx[c]` is a row
inserted and not committed, by a request or by the command (`RunCommand`,
`CommandEnds`); `told` is the set of registrations whose key somebody has been
told. An operator may change a rate in the table (`ChangeRate`): nothing in the
program does. The scope column is a text of claims, commas and braces, written by
`Value` and read by `Scan`.

A request without a valid key is answered 401 or 403 before it reaches the limiter
and leaves no trace: it has no action. `FairShare` and `LimitedOnlyAtLimit` count by the highest and the lowest
rate an application has had, since a bucket outlives a change of the rate; an
application that never pauses for a minute keeps its old rate for ever.

### AppLifecycle

`main` is the main goroutine, in the command's retry loop or in `App.Start`; per
App there are the goroutines of `HTTP.Start`, `ListenAndServe` and
`Indexer.Start`. `WaitGroup` counts those that have run their `wg.Add` and not
their `Done`. An `Interrupt` is received in the select, lost when the main
goroutine is elsewhere, and fatal before the first `signal.Notify`.

`wg.Add` is called by the goroutines themselves, when they get to run, so
`wg.Wait` is more than one step. It returns at once if nobody has joined
(`WaitReturns`) or blocks (`WaitBlocks`) until a `Done` takes the counter to
zero. Woken, it returns (`Wake`), or it panics when another goroutine has joined
meanwhile (`WaitPanics`: "WaitGroup is reused before previous Wait has
returned"). Between the return and the end of the process (`Exit`) the other
goroutines run on, and those that had not begun may join and begin to serve or
to wait for a tick. What `GracefulStop` can say is therefore: no pass of the App
that was interrupted is cut off, and its service has been shut down if it was
listening when the interrupt came (`served`). A service that comes late may have
its requests cut off. The indexers of Apps that failed earlier are waited for by
nobody: one may be in a pass when the process ends, which is a crash to it
(`Crash` in `Indexer`).

That a late indexer is not in a pass is a matter of time: its ticker is made when
it begins (`fresh`) and fires a `Delay` later, seconds, while the main goroutine
only has to return. `DelayPasses` has this assumption in its guard.

## Runs

| Run | Instance | Shows |
|---|---|---|
| `indexer_faults` | 1 indexer, 1 user, 2 locations (one from an earlier release, without a watermark), 2 faults of any kind, crash included | `StrandedBound`, `WatermarkNeverRegresses`, `TypeOK`; `ImplementsDelivery` |
| `indexer_concurrent` | 2 indexers, 2 users, passes no longer than the rest period of 1, 4 clock values, so that each user is claimed again after a rest, by either; 1 fault | `OnePassPerIdentity`, `WatermarkNeverRegresses` |
| `indexer_overlap` | 2 indexers on 1 user with 1 location and 2 nicknames, claims that expire at once, 1 fault, a lost COMMIT included | `Coverage`, `CopyInv` |
| `indexer_progress` | 1 indexer, 2 users, both due again at each tick, 2 locations of the one and none of the other, for whom Parrot may fail again and again; 1 failing call to Thingful, a clock without end | `NoStarvation`, `PassEnds`, `EventuallyUploaded` |
| `kudzu` | 1 indexer, 1 call of `updateLocationHandler` at a time, 1 account that may register twice, 1 location, 2 nicknames, 2 places, 1 failing call | `StrandedByDeletion`, `OwnersRegistered`, `NicknameFollows`, `GeolocationRepaired`, `KudzuTypeOK` |
| `getdata` | 4 uids, buffer of 2 | `AllOrError`, `NoSendAfterClose`, `LeakBound`, `CallReturns`, `TypeOK`; `ImplementsFetch` |
| `getdata_leak` | 3 uids, buffer of 1 | **violated**: `ChannelGetsClosed` |
| `timeseries` | 2 things with 2 channels each, requests for up to 3 positions, 4 days of readings, both orders | `Complete`, `InOrder`, `Explained`, `OnlyRequestedFail` |
| `transactions` | 3 sessions, 2 locations, 2 uids, 1 account that may register twice, 2 data sources, 1 fault | `NoWaitCycle`, `EveryTransactionEnds`, `TypeOK`; `ImplementsTables` |
| `api` | 2 applications (one to be registered), 2 requests at a time, 5 in all, rates 1 and 2 with one change, 4 seconds, expiry after 2, 1 fault | `FairShare`, `LimitedOnlyAtLimit`, `KeysWork`, `NamesLostBound`, `ApiTypeOK` |
| `rate_limiter_overwrite` | 1 application, 2 requests | **violated**: `EntryReturned` |
| `app_stop` | up to 3 Apps | `GracefulStop`, `StopTerminates`, `NeverDeaf`, `TypeOK` |

In `indexer_overlap` a watermark can move back, and a location can be created
twice; `Coverage` and `CopyInv` are what remains true. They are proved for
`indexer_faults` and `kudzu` as well and not checked there again, and `Accounted`,
a part of the invariant of `GetDataProofs`, is not checked in `getdata`.

### Where code and comments disagree

- `getdata_leak`: `thingful.go:533` says the last goroutine waits for all and
  closes the channel. `GetData` returns on the first error (line 545, 550, 499);
  then nobody receives, and once the buffer is full the others block for good.
- `rate_limiter_overwrite`: `rate_limiter.go:116` says an entry that is present
  is simply returned. Two first requests can both miss it; the second insert
  replaces the first bucket, and with it one burst is given away. `FairShare`
  is the bound that remains true.
- Not made into runs: the server's help speaks of "a background indexer"; after
  an error of the HTTP service the retry starts another beside the old one, whose
  quit channel nobody closes. The claim in `NextIdentity` keeps the two apart
  (`indexer_concurrent`) unless a pass outlasts the rest period,
  and `Coverage` holds when they overlap. The message of a 429 answer promises "no more than r
  req/sec" while the bucket holds 2r, and r is the rate in the table, not that of
  the bucket; claims that are not known and names that are taken are answered 500,
  as if the server had failed; deleting a user who does not exist is answered 204; the help of `--concurrency` speaks of the
  number of goroutines while it is the buffer's capacity (the comment at
  `thingful.go:510` knows); `Indexer.Start` says errors go to the error channel,
  while it never sends and an error of `NextIdentity` is a panic.

### Bounds, and why they are enough

`MaxSample`, `MaxNow`, `MaxFaults`, `MaxApps` and the number of `UIDs` bound the
state space. With a window of 2 and up to 4 samples a location takes a first
chunk, a full one and a cut one; a window of 1 (in `indexer_concurrent`) gives
the longest loops, and the four clock values there let both identities become due
again after a period of 1 and be claimed by either indexer; a period of 0 makes
claims expire within a pass. Two faults allow a failure and another one during
the recovery from it. There are enough uids for a create in every pass.

`NoStarvation` is about what happens for ever, so `indexer_progress` has a clock that
does not end. Whether an identity is due, and which comes first, depend on the order
of the times and on their distance from now up to one period. `Rebase` of `MCIndexer`
therefore takes an instant that no row names out of the calendar, which makes room
for another tick: with two identities and a period of 0, among the four values below
the fifth at most three are named (the time of registration and of each last pass).
`Denied` is a user whose passes fail without end and cost no fault. A pass may take
longer than the period, so an identity that has just had its turn is due
again when it ends, and an order that is wrong (the slip `IsBeforeLatestFirst`)
starves the other. Two things would starve an identity whatever the order, and are not in
the instance: a COMMIT that never succeeds, and a stream of new users that does not
end (NULLS FIRST).

For `GetData`, four uids over a buffer of two leave one
that neither the receiver nor the buffer can take; the number of locations the
handler allows is 10. In `kudzu` three uids are enough:
at most one thing is in the table, one is stranded by the fault and one by the
deletion; a period of 0 makes passes follow one another within two clock values.
`timeseries` bounds the request to 3 locations and 2 days (10 and 10 in the code):
enough for a location named twice beside another, one list that is too long, an
interval that is too long, and series of none, one and several readings. In `transactions` three sessions allow a circle of three and a
deletion between two inserts; two locations and two data sources are enough for
two `CreateThing` to meet in the data sources and nowhere else. In `api` the rates
are 1 and 2 (bursts 2 and 4), five requests use up a burst and what accrues after
it, and an entry expires after two idle seconds of the four: the assumption
`Expiry >= 2` is the code's 60 seconds against the 2 that fill a bucket. `MaxFaults`
and `MaxChanges` are 1, as a name is lost to one fault and one change makes a
bucket stale.

Deadlock is not checked in the runs whose cfg says so: the clock and the sample
counts end, a call of `GetData` and a
request end (or block, which is the point of `getdata_leak`), the process exits,
sessions and users run out. `rate_limiter_overwrite` checks it.

Symmetry is used for the two indexers in runs without liveness, and for
requests (and applications, where all are alike) in the limiter.

### Fairness

- Indexer: weak fairness of `Step(i)`, what an indexer does when nothing fails.
  The scheduler runs the goroutine, and every call returns because the client
  has a timeout. None for the environment (clock, sensors, renames), for faults
  or for a restart. A step that fails is another action, so liveness is claimed
  only where the number of faults is bounded, but for a user whose passes
  always fail (`Denied`).
- `Kudzu`: the same, and none for the handlers: what a client begins need not go on.
- `GetData`: weak fairness of the caller, of the closing goroutine and of each
  fetch; the same reasons.
- `Transactions`: strong fairness of `Step(s)`, the next statement of a session.
  PostgreSQL queues those who wait for a lock and grants it in that order, so a
  statement that finds its locks free again and again is run; weak fairness would
  let the others take them for ever. None for beginning a transaction or for faults.
- `AppLifecycle`: weak fairness of the goroutines, of the end of a pass
  (`PassEnds`), and strong fairness of `StopIndexer`: Go's select picks at random
  among the ready cases, so the ticker does not win for ever.

## Proofs

Every invariant of a run that passes is stated by a theorem, and so are the action
properties and the refinements; what is left to TLC is liveness. A theorem is about
every instance that meets the assumptions named below: any sets of users, locations,
things or requests, any numbers of indexers, sessions or goroutines, any window,
period, rate and number of faults.

### Indexer and Kudzu

`KudzuProofs` begins with the indexer alone, whether passes overlap or not:

- `TypeCorrect`: `Spec => []TypeOK`,
- `CoverageHolds`: `Spec => []Coverage`,
- `CopyInvHolds`: `Spec => []CopyInv`.

The inductive invariant is `CoverageInv == TypeOK /\ Coverage /\ CopyInv`.
`Coverage` relates the table to Thingful. It is not inductive: `SaveChunk`
writes the watermark of the indexer's copy, read long ago, over whatever the row
holds. `CopyInv` says what the copy may be trusted for: up to its own watermark
the samples are at Thingful under its uid, and at `save` the chunk just pushed is
too. It survives the steps of other indexers because nobody removes observations
from Thingful, rows from `things`, or changes a row's uid; that is also why an
overlapping pass can move a watermark back but never make it lie. `NextInv` has
one case per action; the lemmas before it say what each write does to the two
tables (`StoreNewEffect`, `StoreChunkEffect`, `InsertEffect`, `SaveEffect`,
`NicknameEffect`) and that steps that write neither leave the invariant alone
(`CoverageFrame`, `CopyFrame`).

It goes on to show that `Coverage` survives the handlers, for any number of users,
accounts and calls:

- `KudzuTypeCorrect`: `KudzuSpec => []KudzuTypeOK`,
- `KudzuCoverage`: `KudzuSpec => []Coverage`,
- `OwnersStayRegistered`: `KudzuSpec => []OwnersRegistered`.

The inductive invariant `KudzuInv` adds to `CoverageInv` the types of `request`
and `deleted`, `OwnersRegistered`, and `RequestsKnown`: the uid a handler is about
to send is one that Thingful has given out. A step of an indexer keeps it by
`NextInv` and because it neither adds nor removes an identity and inserts a thing
only for one that exists (`IndexerKeepsOwners`, `IndexerKeepsUids`); a handler
keeps it because it changes a row's geolocation and nothing else
(`UpdateGeolocationRow`, `GeolocationEffect`) and what it stores at Thingful has
the same observations (`StoreGeolocationEffect`), and because a user is deleted
only if no row names it.

Last, it shows that both implement `Delivery`:

- `IndexerImplementsDelivery`: `Spec => ImplementsDelivery`,
- `KudzuImplementsDelivery`: `KudzuSpec => ImplementsDelivery`.

The invariants above carry it: `Coverage` and `CopyInv` give the guards of `Enter`
and `Mark`, each action that writes a store is matched with one step of
`Delivery`, and all others, deletions of users included, stutter.

`ExclusiveProofs` shows what more holds while no two passes work on one identity:

- `PassesExclude`: `Spec => []OnePassPerIdentity`,
- `WatermarksAdvance`: `Spec => WatermarkNeverRegresses`,
- `FewThingsStranded`: `Spec => []StrandedBound`,
- `KudzuPassesExclude`: `KudzuSpec => []OnePassPerIdentity`,
- `DeletionStrandsOnce`: `KudzuSpec => []StrandedByDeletion`.

Their hypothesis is `Exclusive`: there is a single indexer, or `ClaimsHold`, which
says that no pass takes longer than the rest period (`Longest <= Period`) and no
COMMIT of a claim reports a failure. The clock may go on for any number of periods,
and the indexers claim each identity again after each. `WatermarksAdvance`
and `FewThingsStranded` also need `OwnedApart`: no location belongs to two users. When passes do
overlap only `Coverage` is left, as `indexer_overlap` and `CoverageHolds` show.
`ClaimInv` says that the row of a pass's identity is locked, or carries the time at
which the pass began, no longer ago than a pass takes; so the identity is not due. `PassesInv` says that a pass is
over locations of its identity, and that one which was new when the pass looked still
has no row; `RowsInv` adds that the watermark in its copy is the row's. They hold
because the other passes are at other users, hence at other locations
(`LocationsApart`, `RowFrame`). `StrandedInv` adds that a success strands no thing
(`SuccessStrandsNothing`) and a failure at most one (`FailureStrandsOne`).

With handlers a user may be deleted in the middle of its pass, and the next user of that
account has the same locations. `PassesInv` therefore speaks of new locations only while
the identity is there, and `OwnersApart` of registered users only: `Accounting` gives
it, as an account has at most one of them. What remains is to count, and
`StrandedByDeletion` itself is not inductive, since a pass over a deleted user has
things left to create. `DeletionInv` counts instead of all `Abandoned` locations those
that are `Spent`, which no pass has before it any more. A rejected INSERT strands one
thing (`RejectionStrandsOne`) and makes its location one that is spent
(`RejectionSpends`), and none that is spent becomes otherwise (`IndexerSpends`), since
no pass begins over an identity that is gone.

### Transactions

`TransactionsProofs` shows for any number of sessions, users, locations and data
sources:

- `TransactionsTypeCorrect`: `Spec => []TypeOK`,
- `NoDeadlock`: `Spec => []NoWaitCycle`,
- `TransactionsImplementTables`: `Spec => ImplementsTables`.

All three rest on `LocksInvHolds`. The invariant `LocksInv` has three parts beside
`TypeOK` and the unique accounts. `SessionOK` says exactly which locks a session
has before each of its statements. `Apart` says that two sessions share no lock
but that on an owner's row, which two `CreateThing` share, and that their uids
differ. `FoundOK` says that what a statement has found in the tables - no row with
this location, an owner who exists, no user with this account, a user without
things, an identity that is due - stays true until the transaction ends. The last
part is the one that is not obvious: it holds because whoever could make it false
needs a lock that the session has. It makes the commit one step of `Tables`. For
`NoDeadlock` each statement has a rank, the place of its lock in the order in which
all take theirs; who waits has a smaller rank than the one it waits for
(`WaitingRank`), so in any set of sessions the one with the greatest (`Farthest`)
waits for none of them. The ranks of the data sources are their positions in
`makeChannels`; those of the things and the users cross, and there `FoundOK` is
needed once more: a `DeleteUser` waits at the end for a thing, but never for one
that is being created.

### GetData and Timeseries

`GetDataProofs` shows for any number of uids and any buffer:

- `SuccessIsComplete`: `Spec => []AllOrError`,
- `ChannelSafe`: `Spec => []NoSendAfterClose`,
- `GetDataImplementsFetch`: `Spec => ImplementsFetch`,
- `FewGoroutinesLeak`: `Spec => []LeakBound`,
- `GetDataTypeCorrect`: `Spec => []TypeOK`.

The inductive invariant is `TypeOK /\ Accounted /\ NoSendAfterClose`: every
answer is with its goroutine, in the channel or collected, unless the caller has
given up; so when the channel is closed, nobody has one left, and when it is
drained as well, all are collected (`CompleteInv`). The refinement follows from it:
`Receive` collects or fails, `Return` succeeds, and all other steps stutter
(`StepImplementsFetch`). For `LeakBound` the goroutines that are stuck, those whose
answers fill the buffer and the one whose answer failed (`FailedOne`) are disjoint
sets of uids, so their sizes add up to at most the number of uids.

`TimeseriesProofs` shows for any number of things, channels, readings and locations
asked for, in whichever order the things arrive:

- `AnswerIsComplete`: `Spec => []Complete`,
- `AnswerIsInOrder`: `Spec => []InOrder`,
- `AnswerIsExplained`: `Spec => []Explained`,
- `OnlyRequestedValuesFail`: `Spec => []OnlyRequestedFail`.

The invariant `HandlerInv` is short: what has been received are answers for locations
of the request, as many for each uid as have been collected (`Received`), and the
response was built from them. The rest is about the operators. `LatestFirstIs`: a
finite set of readings of different times has one sequence that is decreasing, with all of
them. `SeriesIs` and `DatesInOrder` carry this through `Reverse` and the dates.
`EntryIs` traces an entry back to a uid that was asked for and to a channel that
Thingful has. For `Complete`, `SeriesFound` says that the series of thing u and
variable v are the places where u's answer was received, each with the one channel
that has the name (this is where different names are needed), so there
are as many of them as times that u is named. For `Explained`, `KnownUnit` says that
the unit of a channel in the table depends on its name alone, so that all entries with
a code agree, the first included; and two channels with one source have one name.

### RateLimiter and Api

`RateLimiterProofs` shows for any number of visitors, requests, buckets and rates:

- `LimiterTypes`: `Spec => []TypeOK`,
- `LimiterIsFair`: `Spec => []FairShare`,
- `LimitedOnlyAfterUse`: `Spec => LimitedOnlyAtLimit`.

`BucketsInv` says who has which bucket: a request between lookup and verdict has one
of its own application and an entry seen in this second (`Passage`), no bucket serves
two applications, and each has a rate that its application has had
(`BucketsApart`). This needs a free bucket for every insert, which `SomeUnused` finds
by counting.

`FairShare` is about every span of time up to now, with one rate for all, and it is far
from inductive: it does not say what an application could still pass at once, nor why a
fresh bucket after the expiry of the old one gives nothing away. `Share` says both, for
every rate q that none of the application's rates exceeds. While there is an entry, what
has passed since a together with the tokens in all its buckets (`TokensOf`) is
within the allowance; and up to the second in which it was last seen, what has
passed alone was within the allowance of that second. The entry goes two seconds
later at the earliest, in which a burst accrues (`AllowanceLater`; this is what
`Expiry >= 2` is for), so without an entry what has passed is
one burst below the allowance, which the next insert adds again. An insert over another
request's entry adds a bucket and is counted in `replaced`. The clock moves only
between requests, when the application has at most the bucket of its entry, so a tick adds
no more than q. There is a lemma for each step that changes the sum (`PassShare`,
`TickShare`, `AddShare`, `CleanupShare`); all others leave it or lower it
(`NarrowedShare`).

`UsedInv` is the converse for one bucket: there is a time, that when it was last
full, since which all that it lacks has been used. So when it has less than one token,
what has passed reaches the allowance.

`ApiProofs` shows for any number of clients, names, scopes and requests:

- `KeysAlwaysWork`: `ApiSpec => []KeysWork`,
- `FewNamesLost`: `ApiSpec => []NamesLostBound`,
- `ApiImplementsLimiter`: `ApiSpec => Spec` (of `RateLimiter`),
- `ApiIsFair` and `ApiLimitsOnlyAfterUse`: `FairShare` and `LimitedOnlyAtLimit` again, for
  the composed system,
- `ApiTypeCorrect`: `ApiSpec => []ApiTypeOK`.

`KeysInv` follows a registration from the INSERT to the answer: the table has one
row for a name, a row whose COMMIT is pending is not yet in it, and whoever was
told a key has a row with the claims asked for. What makes the claims come out
right is `ScanValue`: `Scan` undoes `Value` for the claims that are known and not
empty, and `createAppHandler` lets no others pass. `LostInv` counts the rows without
a key that anybody knows against the ends that were lost; `MapInv` says that a
request past the authentication belongs to a registered application. From the two invariants
each step of `Api` is one of `RateLimiter` or leaves its variables alone
(`ApiStepsLimit`): what the authentication passes on is a visitor with a rate the
limiter allows for. `ClaimsInv` says that the scope column has only what `Value` has
written for known claims; so what a request carries as its roles are such claims.

### AppLifecycle

`AppLifecycleProofs` shows for any number of Apps, with or without an indexer:

- `LifecycleTypeCorrect`: `Spec => []TypeOK`,
- `StopsGracefully`: `Spec => []GracefulStop`.

`StopInv` adds what `GracefulStop` rests on. `Spawned`: once `App.Start` waits, both
goroutines of the current App have been started. `Listening`: a service that
listens has joined the wait group and not begun to shut down. `Settled` is the
argument: when the wait group lets the main goroutine go the counter is zero, so a
service that was listening is done, and the indexer is done or has not begun; and one
that begins after that has a ticker that has not fired yet.

### What is assumed

`ConstantsAssumption`, `LegacyAssumption`, `NoneAssumption`, `NoneIsNoRow` (Indexer),
`AccountAssumption` (Kudzu), `TransactionsAssumption`, `RowsAssumption`,
`GetDataAssumption`, `TimeseriesAssumption`, `ContentsAssumption`,
`RateLimiterAssumption`, `ApiAssumption`, `RegistrationsAssumption` and
`LifecycleAssumption` give the types of the constants and say that they are disjoint. Those
that say more: no location is listed for two accounts, and an account has finitely many
(`AccountAssumption`, Parrot); things are answered under the uid they were asked for, with
channels of different names and readings of different times (`ContentsAssumption`,
Thingful); the limiter's visitors, requests and buckets are finitely many, with one bucket
more than can be in use, and an entry expires after no less than the two seconds that fill
a bucket (`RateLimiterAssumption`; 60 in the code). TLC evaluates all of them in the runs.
`ClaimsHold`, `Exclusive` and `OwnedApart` are hypotheses of the theorems that need them,
since there are runs in which they do not hold.

### What is only model-checked

- Liveness: `NoStarvation`, `PassEnds`, `EventuallyUploaded`, `NicknameFollows`,
  `GeolocationRepaired`, `CallReturns`, `EveryTransactionEnds`, `StopTerminates`,
  `NeverDeaf`. They rest on fairness, for which the prover would have to reason about
  ENABLED.
- The two properties that the code violates, `ChannelGetsClosed` and `EntryReturned`:
  a counterexample is found, there is nothing to prove.

## Not modelled, and why

- Pure I/O and formatting: logging, metrics, request ids, JSON and URLs.
- Read-only queries for lists, statistics, metadata and data sources.
- The hash of a key (a key is its uid, and cannot be guessed), and a collision of
  random uids, which the UNIQUE column would turn into an error.
- Rows that a failed scan leaves open (`things.go:307`): the pool of connections
  has no limit, so nobody waits, and the query's columns always scan.
- What a client is told when Parrot fails after its user was committed
  (`user_handlers.go:91`: 502, and 422 on the retry); the state is `SaveUser`'s.
- An interrupt while the command is backing off (`app.go:164`) is lost, as in
  `Interrupt`; that it has to be repeated is no property.
- Migrations: applied by a library while nothing else runs.
- Constant fields, titles and serial numbers of the time series answer.
- The race on `lastSeen` (`rate_limiter.go:122`, written under the read lock):
  both writers store the same tick.
- Vendored code, the build tools under `_tools` (the source of golang/dep and
  others, several times the size of the program) and the generated
  `pkg/migrations/assets.go`.

## Plan

What is left is in the models rather than the theorems: `flowerpower.GetUser` and the
parsing of measurements, and the handlers that only read (metadata, data sources,
health). Worth proving next: the safety part of `NicknameFollows` and
`GeolocationRepaired`, that is, what Thingful holds of a location's name and place once
a pass over it has ended without a fault.
