# Verification of issuing-ledger-service

This directory holds TLA+ modules that model the service, the TLC
configurations that check them on small instances, and theorems about them that
TLAPS checks for every value of their constants.

## The system

A Go service authorizes payments between accounts of a MariaDB ledger. One HTTP
endpoint takes a request under an idempotency key kept in Redis; the use case
runs one database transaction that locks both accounts, checks funds and
currencies, writes both balances, two ledger entries, a transaction header and
an outbox event; a relay publishes the outbox events to Kafka. Beside this core
the repository holds an older application (share tracking, YouTube and Facebook
integration, users), most of which `main.go` no longer wires.

### Inventory

| Component | State it keeps | Operations | Interacts with | What is hard | What makes it correct |
|---|---|---|---|---|---|
| Authorization use case (`usecase/issuing_usecase.go`) | none of its own; a map of locked accounts per call | `AuthorizePayment`, `validateAuthorizeRequest` | ledger repository (callback in a transaction) | absolute balances computed from values read earlier; lock order | funded, at-most-once transfers; no lost update; no circular wait |
| Ledger repository and schema (`infrastructure/persistence/ledger`, `migrations`) | `accounts`, `ledger_transactions`, `ledger_entries`, `outbox_events` | `ExecuteInTransaction`, `GetAccountForUpdate`, `UpdateAccountBalance`, `CreateLedgerTransaction`, `CreateLedgerEntry`, `CreateOutboxEvent` | MariaDB | failing statements, lost commit answers, crashes, duplicate keys, column range | all or nothing; header, entries and event agree |
| Idempotency store (`infrastructure/cache/idempotency.go`) | one value for each key | `AcquireLock`, `Complete`, `GetResult`, `ReleaseLock` | Redis | expiry, lost replies, an unconditional DEL | one holder; answers stay |
| Authorization endpoint (`interfaces/http/issuing_handler.go`) | per request: lock held, response | `HandleAuthorize`, `decodeAuthorizeRequest`, `statusForAuthorizationError` | idempotency store, use case | failures between commit and completion, panics, retries | true answers; one posting for each key; no key left behind |
| Outbox relay (`infrastructure/message/kafka_relay.go`, `persistence/outbox`) | its current batch | `Start`, `processBatch`, `GetPendingEvents`, `MarkEventProcessed` | outbox table, Kafka | several instances, crashes between publish and mark, out-of-order commits | published before marked; older first; bounded duplicates; eventually processed |
| Process life cycle (`main.go`) | goroutines, `httpServer`, errgroup | startup, `startOutboxStrategy`, shutdown | all of the above | failures and signals at any point of startup and shutdown | a failure ends the process; requests are drained |
| Share tracking and jobs (`usecase/share_usecase.go`, `persistence/share_repository.go`) | records, jobs, audits | `Share`, `ProcessShareJobs`, `GetShareStatus` | database, Facebook, hub | concurrent processors, retries, discarded errors, stuck jobs | a success is real; no pending or running work is left behind; one retry |
| Share hub (`infrastructure/realtime/share_hub.go`) | the channels of each user, a readers-writer lock | `Serve`, `BroadcastShareStatus` | share use case, HTTP streams | closing a channel while others send on it; full channels; readers and writers that wait for each other | no send on a closed channel; every broadcast returns, every stream gets in and out |
| YouTube cache and use case (`usecase/youtube_usecase.go`, `persistence/youtube_cache_repository.go`, `clients/youtube`) | rows of `youtube_video_cache`; transactions | details, forced refresh, update, upload, sync, list, summary | YouTube, database | read-modify-write of a whole video, stores of what was read earlier, rows locked in the order of a search page, lists that change between pages, pages whose order is not unique or whose read breaks off | reported updates stay; the cache follows them; a sync is complete, and a summary as far as its order allows; every request returns |
| OAuth flows and tokens (`facebook_oauth_handler.go`, `oauth_token_repository.go`, `youtube_auth_handler.go`) | states in memory, rows of `oauth_tokens` | `GetAuthURL`, `Callback`, `RefreshPages`, `LinkPage`, `LinkPageURL` | Facebook, database, middleware | repeated callbacks, callbacks in another session, restarts, read-modify-write of a token row, a failing read taken for a missing row | a state lets one callback through; a row is of a consent that its user started; no lost token or page link |
| Users and authentication (`usecase/user_usecase.go`, `middleware/auth.go`) | user rows, issued tokens | `Register`, `Login`, `Auth` | database | a name that is registered twice | a caller acts for the row it logged in as |
| Worker pool (`infrastructure/worker/worker.go`) | two bounded channels | send, process, collect errors | database | bounded channels, a collector that starts late and leaves after an idle second | the pool returns |
| Clients, configuration, logging, routing, CDC connector | none or static | | external services | | |

`main.go` and `router.go` of this commit start the authorization path, the relay and
user login; the share, hub, YouTube and Facebook code is complete but no route leads
to it, and nothing starts the worker pool.

The hazards that follow from this inventory, with the line where each bites and
the properties that cover it, are listed in `PROJECT.json`, as is the table that
maps every definition to the lines it models.

## Modules

| Module | What it is |
|---|---|
| `Transfers` | the abstract ledger: an atomic, funded, at-most-once transfer between two accounts |
| `Ledger` | `AuthorizePayment` over the repository and the tables, one action per SQL statement |
| `LedgerInvariant`, `LedgerProofs` | the inductive invariant `IInv` and the proofs about `Ledger` |
| `MCLedger` | accounts and requests for TLC |
| `Idempotency` | the Redis value of each key and the four commands on it |
| `AuthorizeHandler` | `HandleAuthorize`, one action per remote call, over `Idempotency` |
| `HandlerProofs`, `MCHandler` | its proofs and its instance (progress of keys: in `MCProcess`) |
| `OutboxRelay` | `OutboxRelay.Start` and `processBatch` over the outbox table and Kafka |
| `Delivery` | the abstract outbox: committed events are delivered in order, and marked last |
| `RelayInvariant`, `RelayHistory` | the relay's invariant `RelayInv`; the relay with the history that `Delivery` needs |
| `RelayProofs`, `MCRelay` | its proofs and its instance |
| `ServiceProcess`, `ProcessProofs` | `main`: startup, errgroup, signals, shutdown and exit status, and its proofs |
| `ShareHub`, `HubProofs` | the hub's lock and channels, one action per operation on them, and its proofs |
| `WorkerPool` | the pool's goroutines and channels, proofs in `ProcessProofs` |
| `MCProcess` | one instance for what may wait for good: `ServiceProcess`, `ShareHub`, `WorkerPool`, and `AuthorizeHandler` over its keys |
| `ShareJobs`, `ShareProofs`, `MCShare` | `Share` and `ProcessShareJobs`, one action per call, its proofs and instance |
| `YouTubeVideos`, `VideoProofs`, `MCVideos` | videos and their cached rows, one action per call to YouTube or the database, its proofs and instance |
| `Users` | registration, login, expiry of tokens, the middleware |
| `PageTokens`, `TokenProofs`, `MCTokens` | Facebook consents and token rows, over `Users`, its proofs and instance |

The modules meet at their abstractions. `AuthorizeHandler` takes
`AuthorizePayment` as one step (`Post` or `Decline`); `Ledger` implements
`Transfers`, which is what justifies that step. `OutboxRelay` starts from the rows
that `Ledger` commits with each transfer (`Insert`). What a process stop does to
each of them (`Crash`) and when one happens is the subject of `ServiceProcess`.
`PageTokens` extends `Users`: who may call, and for whom, is decided there. `ShareHub`
takes the broadcasts of `ShareJobs` as senders that come at any time. `MCProcess`
puts `ServiceProcess`, `ShareHub`, `WorkerPool` and an instance of `AuthorizeHandler` side
by side in one run; they share no state, and a behaviour is one of one of them.

### How state and actions correspond to the code

**Ledger.** `balance` is the committed `accounts.balance`, `row` the value written
in place by the transaction that holds `rowLock`; `txns`, `entries`, `events` are
the committed rows of `ledger_transactions`, `ledger_entries` and
`outbox_events`, `staged` the rows an open transaction has inserted. For each
worker, `pc` is the statement it is at, `seen` its map `accounts`, `outcome` the
error or nil it returns. Statements are actions: `LockFirst`, `LockSecond` (the two
`SELECT ... FOR UPDATE` in the order of `sort.Strings`), `RejectFunds`,
`RejectCurrency`, `CreateLedgerTransaction`, `UpdateSource`,
`UpdateDestination`, `InsertDebit`, `InsertCredit`, `CreateOutboxEvent`, `Commit`,
`Rollback`. `Fail` is any statement that fails, a lost answer to `COMMIT`
included, and `Crash` ends the process. An identifier (`AccountId`) is told from
the row it finds (`RowOf`): the code compares and sorts spellings, the database
finds rows under a case-insensitive collation.

**AuthorizeHandler.** `store` is Redis, `posted` the committed transactions with
the key each was sent under. `Receive`, `Acquire`, `LookUp`, `Decode`, `Post`,
`Decline`, `Complete`, `Release` are the calls of `HandleAuthorize` in their order;
`ReplyLost`, `CallFails`, `Panic`, `Crash`, `Expire` are what can go wrong.
`owner` and `worst` are history: who wrote the last marker of a key, and the worst
fault so far. go-redis repeats a command whose reply it has not seen, so a command
may take effect more than once.

**OutboxRelay.** `status` is the column, `copies` the number of times an event is on
its topic, `batch` what a relay still has to publish and mark. `known` is history:
the rows that were committed when the batch was loaded. `HandleError` is the
`switch` of `Start`: a Canceled or DeadlineExceeded error is ignored for the first
batch and ends the relay without an error later; any other is returned and ends the
process (`ReturnError`). `RelayHistory` adds `owes`: for each event, the older ones that
were committed before it and are not yet delivered. `Delivery` knows neither relays nor
batches: an event is delivered when it owes nothing, and marked when it is delivered. `owes` decides
nothing, so every behaviour of `OutboxRelay` is one of `RelayHistory` with its history.

**ServiceProcess.** `main`, `relay`, `server` are the goroutines; `cancelled` is the
errgroup's context. `server = "spawned"` means that the server's goroutine has not
yet assigned `httpServer`, which `main` reads without synchronisation.

**ShareJobs.** `status` is the column of `video_share_records`; `jobRecord`, `jobStatus` and
`attempts` are the columns of `share_jobs`, whose rows are numbered by `created_at` (the jobs
of one request have the same; an INSERT takes any free number);
`posts` counts what the platform has. A worker is a goroutine that serves `Share`
(`ShareTrackOnly`, `ShareServerPost`, `Enqueue`) and then becomes the processing that
`Share` starts, or one that serves `ProcessPending`; from `FetchPendingJobs` on both take
the calls of `ProcessShareJobs` in order. `todo` is what `EnqueueJobs` has still to
insert, `batch` the jobs left of a batch with the `attempts` read with it. Errors that
the code discards are `CallFails`, also a read of the batch that breaks off:
`FetchPendingJobs` does not ask `rows.Err()` and goes on with the jobs that have come (`Take`); `Deadline` is the 30 seconds of a batch or a client
that has gone, after which every call of that worker fails. `overlap` and `tracked` are
history: two workers have had one job in their batches, and a record was made a success
by `track_only`. Shared by two workers, a job may be posted twice and a failure may be
written over a success; this is what the code does, and the properties say what holds
all the same, or until then.

**ShareHub.** `writer`, `readers` and `waiting` are a `sync.RWMutex`: a `Lock` that waits
for readers keeps new ones out, and `Unlock` lets in those that wait. `users` is the
map of channels, `channel` how many events each holds. A stream goes through
`Arrive`, `Lock`, `AddSubscriber`, `Deliver`, `Leave`, `Lock`, `RemoveSubscriber`; a sender through
`Broadcast` (`RLock`), `Subscribers`, one `Offer` for each channel, and `RUnlock`. An offer to a
full channel is dropped (`select` with a `default`), one to a closed channel sets
`panicked`.

**WorkerPool.** `sent`, `taken` and `errors` count what has gone through the two
channels, `work` is the item each worker has in hand, `nameless` the items that will
yield an error. `CollectorTimesOut` may happen whenever the channel of errors is empty.

**YouTubeVideos.** `videos` is what YouTube has: of each field, the number of the change
that wrote it. `cache` is the table, with `fresh` for rows that have not expired. `call` is the
state of each request: `pc` is its next call, `copy` the video it has read, `page` and
`token` a page of a sync, `staged` the rows its open transaction has upserted and
therefore locked. `UpdateVideo` is `FetchExisting`, `Write` (all fields, as read, with one
changed), `Fetch`, `Store`; a sync is `Search`, `Details`, `Row` for each video, `Commit`, page
after page. `UpsertFails` ends a request without a rollback: the deferred function of
`UpsertVideos` looks at a variable nobody assigns, and the row locks go only with the
request's context (`Answer`). `DeadlockVictim` is the database's answer to two syncs in
opposite orders. `EditElsewhere` is the owner at YouTube's own pages.
A list is `Count` and `Select` for each page. `PublishedAt` may be the same for several videos: the
query orders by nothing else, so each page is cut from any of the `Orders` of the rows that
it allows, and two pages may disagree. `ReadBreaksOff` ends a page after some of its rows,
without an error, as `ListVideos` does not ask `rows.Err()`. `acked`, `raced`, `outdated` and
`steady` are history: the last change each field was reported to have, videos two requests
were updating at once, videos changed while a request was about to store them, and
requests whose list has not changed so far, and none of whose own calls has failed.

**Users, PageTokens.** `users` are rows without a unique name, `sessions` the tokens that
were issued and have not expired. `states` is the handler's map, in memory
(`Restart` empties it), `rows` the table of tokens, of which a token is the consent and the page it
comes from. A request without a session acts for `Demo` ("demo-user"). `call` is a request
between its read of a row and its write: `GetToken`, `GetDemoToken` and `CloneDemoToken` (who
has no row adopts that of demo-user), `ResolvePage`, `FetchPage`, `FetchPages`, `Store`. A failing
read goes on as if there were no row (`NoToken` in `CallFails`), as in the code. `used`,
`starter` and `crossed` are history of consents: how many callbacks a state has let through, who
started it, and which were called back in the session of somebody else, who then gets the
token (`CallbackUser`). `own` and `choice` remember the consent and the page a user was
promised, and forget them when a request of the same user overlaps or fails.

## Runs

| Run | Question | Result | States |
|---|---|---|---|
| `ledger` | do interleaved statements, failures and crashes keep the books and implement `Transfers`, without circles of waiting, and does every call return? | holds | 72,676 |
| `ledger_spellings` | is lexical order a lock order when an account has two spellings? | **violated** | |
| `handler` | what do clients learn under all faults, and who holds a key? | holds | 597,983 |
| `handler_stale` | can a stale worker complete another request's marker? | **violated** | |
| `relay` | do two relays implement `Delivery`? how many duplicates? is every event published and marked in the end? | holds | 412,878 |
| `relay_deadline` | does the relay run until its context is cancelled? | **violated** | |
| `process` | does a failure or a signal end the process, after draining? does a broadcast ever reach a closed channel or stall? does the pool return? does a key always leave IN_PROGRESS while process and Redis work? | holds | 151,261 |
| `process_unregistered` | does a shutdown always reach the server? | **violated** | |
| `share` | does every success have a post, all work an owner, and every job one retry? | holds | 3,570,942 |
| `videos` | do reported updates stay and reach the cache? are syncs and summaries complete? does every request return? | holds | 410,450 |
| `tokens` | does a state pass one callback? whose are the tokens, and are own tokens and linked pages kept? | holds | 2,571,293 |
| `tokens_session` | does a token always go to the user who started the consent? | **violated** | |

The violated properties are quotations of comments, tests or schema that the code
does not live up to; `PROJECT.json` quotes each of them under `findings`. The type
invariants, and the inductive invariants of the ledger and the relay, are proved
rather than run.

### Bounds, and why they are enough

- *ledger*: two workers, three identifiers, five accounts (rich, poor, empty, of
  another currency, and the partner of an overdraft), a column that holds 0..2, nine
  requests: opposite transfers, two requests with one identifier, an overflowing
  credit, and one request for each refusal. A worker is reused for any number of
  requests, so two workers give every pairwise interleaving of statements. Amounts
  are 1 and 2: funds and overflow are decided at the boundary. No counter is bounded.
  Circles of waiting transactions are looked for among the same requests; a circle
  of two is the one that opposite transfers make, and the theorem `NeverWaitInACircle`
  covers those of any length.
- *handler*: two workers and two keys; the requests use one key with two
  transactions and with a body that does not decode, one transaction under two keys,
  and no key at all. Two workers make every race on a key; a third would be a repeat
  of one of them, since what a worker leaves behind is in `store`. What a request is
  answered is also looked at as an action (`DeclinedMeansNotPosted`), over all return
  paths: 409 is the one error that may be about a posted transaction.
- *relay*: two relays, three rows, batches of two, so that a batch is full, rows
  appear behind it in `created_at` order, and a second batch is needed.
  `MaxFaults = 2` bounds failing calls, lost replies and process stops together: one
  for each relay, or both on one event.
- *process*: `MaxRequests = 2` requests in flight. Hub: three streams, two of one user,
  two senders, channels that hold one event, so that a sender meets a full channel, a
  closed one, one stream leaving while another enters, and a second reader while a
  writer waits. Pool: two workers, four items, channels of two, so that the sender
  blocks, and every subset of the items yields errors. Handlers: the instance of *handler*,
  with panics as the only fault, since a lost reply or a stop does leave a key behind.
- *share*: two workers, one record, two jobs, batches of two; a request names the
  platform once or twice. Two jobs of one record are enough for a second share of a
  pending video, for one batch in two hands, and for results written out of order; jobs
  of different records do not touch each other. `MaxFaults = 1`, since the properties
  under faults speak of any one (two were also checked). Workers are symmetric.
- *videos*: a channel of three videos, of which two were published at one time, a video of
  another channel, and an upload. Pages of three, so that an upload turns a sync of one page
  into one of two; dashboard pages of one row, at most two, so that two pages may
  disagree about the videos of one time, and the limit is below the number of rows.
  `MaxRequests = 2` concurrent requests of two fields of one video, in all pairs of the
  operations, since every property relates two requests; `MaxTrouble = 2` failures and
  changes elsewhere together.
- *tokens*: one registered user beside demo-user, two requests at a time (one of the user and
  one of anybody without a session, or two of either), two pages, two consents, one fault.
  Requests are symmetric. *tokens_session* has two users, one request at a time and no fault.

The runs state `CHECK_DEADLOCK FALSE` where the system may stop: a relay has nothing
to do when no row is left, and a process has ended.

### Fairness

- `Ledger`: strong fairness of each worker's next statement. InnoDB queues waiting
  transactions, so one that can get a row lock, or insert its identifier, again and
  again does so. Nothing forces a `Fail` or a `Crash`, and no fairness is assumed of
  `Begin`.
- `AuthorizeHandler` (in `MCProcess`): weak fairness of a handler's own steps: the goroutine is
  scheduled and the calls it makes return (clients have timeouts; a timeout is a
  `CallFails`).
- `OutboxRelay`: weak fairness of a running relay (a ticker and calls that return) and
  of `Boot`: the deployment restarts a process that fails
  (`deploy/systemd/go-project.service`, `Restart=on-failure`).
- `MCProcess`: weak fairness of `main`, of the server's goroutine and of a relay whose
  context is cancelled. None for signals and failures, nor for requests: draining them
  ends after five seconds. Of a stream, only the steps that take the lock or hold it: a
  client need not come, read or leave; of a sender, every step of its broadcast; of the
  pool, its goroutines, as the database answers.
- `YouTubeVideos`: weak fairness of a request's own steps, the database's detection of
  deadlocks included. None of failures, of expiry or of changes elsewhere.

`EventuallyProcessed` is conditional on some relay not having returned for good: the
run `relay_deadline` shows that one expired deadline is enough for that.
`FailureEndsProcess` and `SignalEndsProcess` leave out the state that
`process_unregistered` exhibits, in which `main` waits for a server it never told to
stop.

## Proofs

All theorems hold for every number of workers, accounts, keys, events, requests,
streams, records, jobs, videos, users and faults, and for every value of the bounds. The assumptions are the named `ASSUME` of each
module (types and distinctness of constants), and for the ledger `CanonicalIds`: no two
identifiers in use find the same row. Without it a transfer from an account to
itself under another spelling passes validation and one of its updates is
overwritten. Some theorems assume more: `NeverWaitInACircle` that there are finitely many
workers, `MarkersAreNotOrphaned` that only panics go wrong (as in the run
`process`), `NoSendOnClosed` that there is a user at all, and `VideoProofs` speaks of
finitely many videos numbered from 1. `SyncsAreComplete` assumes that the hard stop of a full
sync (1000 pages) leaves room for all videos, which is also what its property needs;
`HubWaitsForSomebody` that there is a user; `PoolGoesOn` that there are workers and that the
channel of items has a place (100 of each in the code); `PoolHandlesAll` that there are workers.

- **LedgerProofs.** `Invariance` proves `IInv` inductive. `NoOverdraft` alone is not:
  that a write leaves a legal balance depends on what the worker read, on nobody
  else having changed the row since, and on how far the transaction has come. `IInv`
  says, for each worker and each statement: which locks it holds (`LocksOf`), what the
  locked rows contain (`RowsOf`), that its reads are the committed values (`ReadsOf`),
  which guards it has passed (`GuardsOf`), and which rows it has staged (`StagedOf`);
  and for the tables, that unlocked rows are the committed ones and identifiers are
  claimed once. From it follow `TypeCorrect`, `NeverOverdrawn`, `UpdatesNeverLost`,
  `AlwaysDoubleEntry`, `SuccessIsPosted`, and `LedgerImplementsTransfers`: every step
  but a successful `Commit` is a stutter of `Transfers`, and a `Commit` is its `Post`.
  `NeverWaitInACircle` needs one argument more: a worker that has inserted rows waits for
  nobody; of the others, one that is waited for holds a row, so if it waits it waits at
  its second lock; and if a worker at its second lock waits for another one there, the other's first
  account comes later in lexical order. A finite set of workers that all wait for each
  other would contain an endless ascent (`NoEndlessAscent`, by well-foundedness of strict
  inclusion of finite sets).
  `BalancesFollowTheLedger` is about a sum over the set of entries. A sum is what the library's
  fold over a finite set returns: `SumExists` and `SumsAgree` show that the recursive function it
  is defined by exists and has one value on each subset (induction over finite sets is a least
  counterexample among the subsets, `SmallestOf`), and the lemmas after them what one more entry
  adds. With that, a `Commit` changes each balance and each sum alike.
- **HandlerProofs.** `AnswersAreTrue` rests on `TruthInv`: what is stored, and what a
  worker is about to store, is posted too. `OneHolderPerKey`, `AnswersStand` and
  `OwnersComplete` rest on `OwnerInv`: until a key expires or a reply is lost, a worker
  between `AcquireLock` and the end of its call wrote the marker that is in the store.
  `KeysPostOnce` and `DeclinedIsNotPosted` rest on `RetryInv`: as long as only process
  stops go wrong, a key under which something is posted is never free, so whoever holds a
  fresh marker and answers an error leaves the key without a posting. The 409 of `LookUp` is
  excepted: after a stop between commit and `Complete` it is told of a posted transaction.
  `MarkersAreNotOrphaned` rests on `MarkerInv`: a marker belongs to a worker that still holds
  it, panicking or not.
- **RelayProofs.** `RelayInvariance` proves `RelayInv`: an event that is being marked has
  a copy (`Marking`), whatever a batch holds was committed when it was loaded, what is
  older and no longer in the batch is published, and the copies of an event are at most
  the relays that may still publish it, those that have, and the faults
  (`CopiesPaidFor`). `ProcessedArePublished`, `OlderArePublishedFirst` and
  `DuplicatesArePaidFor` follow. `RelaysImplementDelivery` shows each step to commit, deliver,
  mark or stutter. It rests on `HistoryInv`: a relay saw what the events of its batch owe
  (`OwesKnown`). The next event of a batch is its oldest, so what it owes is no longer in
  the batch, and `OlderFirst` says that it is published, by whichever relay: it owes nothing.
- **ProcessProofs.** `ProcessInvariance` ties what `main` knows to what the goroutines have
  done; `FailuresAreReported` (status 2 after `g.Wait`, 1 if a signal came first) and
  `RequestsAreDrained` follow from it. `ShutdownGoesOn` adds that
  a failure has cancelled the group and that `Shutdown` was called on a server that is
  registered (`ShutdownIsOpen`), so that `main` never waits for what cannot come. Of the pool,
  `PoolInv` counts: items are taken once each, and an error in its channel is that of an item
  without a name that was processed (`Handled`). A worker that still holds such an item finds a
  place for its error, as long as the channel has one for each: from this `PoolGoesOn`.
- **HubProofs.** `NoSendOnClosed`: what a sender has still to offer its event to is open,
  since it took the channels from the map under the read lock, and a channel is closed
  under the write lock, which excludes it. `HubWaitsForSomebody` rests on `LockIsAttended`: the
  stream in `Lock` is about to change the map, who waits in `RLock` waits for that stream, and
  who has `RLock` is reading and waits for nobody, as its sends have a default.
- **ShareProofs.** `ShareInvariance` proves `ShareInv`: whatever a worker has in hand exists
  and fits the call it is at (`BaseInv`, from which `ShareTypes` and `SuccessesAreReal`);
  until a call fails, a running job has its worker and a pending record somebody who
  may resolve it (`RunningAreAttended`, `PendingAreQueued`); and until a call fails or two
  batches overlap, the `attempts` a worker has read are those of the job (`RetryInv`), which is
  what the rule of the single retry relies on (`RetriesAreSingle`).
- **TokenProofs.** `TokensInvariance` proves `TokensInv`: a pending state is unused, tokens in
  hand and in rows come from consents that their users or demo-user started, or that were
  called back in another session (`IsOwn`), and what a request has
  read of the row of a user to whom something was promised is what the row says
  (`ReadOK`). From it `StatesAreUsedOnce`, `RowsAreOwn`, `OwnTokensAreKept`, `LinkedPagesStay`.
- **VideoProofs.** `UpdatesStay` is not inductive: an update is on YouTube before it is
  reported, and the next writer has read the video earlier still. `VideosInv` adds that
  an update on its way to being reported is still there (`PendingStays`), that whoever is
  about to write a video back knows every reported update (`WriterKnows`) and every one on
  its way (`WriterFollows`), all for videos that no two requests were updating at once, and that
  a new video has a number nobody had (`RoomOK`). `AcknowledgedUpdatesStay` follows.
  `BasicsOK` says that each request is at a call of its kind (`PathOK`) and stores copies of
  videos only (`RowsOK`). The lists are sequences: `NewestFirst` has each element of a
  finite set once (`NewestFirstLists`, by counting), the part of it that a page returns is
  `PageOfIs`, and a page and the next are a longer page (`PagesJoin`). `SyncOK` then says what
  a full sync of a steady channel has stored so far (the videos before its token) and what is left in its
  page, and `SyncsAreComplete` follows at the page without a next token; `SummaryOK` says that a
  summary has the pages it has read, joined. Each page comes in an order of its own, but any two
  orders of the same rows have videos of the same time at each place (`OrdersAgree`, by
  counting those that are not older), so the joined pages are as new as those of one order
  (`PagesAsNew`, `JoinedAsNew`); without ties there is one order only (`NoTiesNoChoice`), and
  `SummariesCountOnce` follows.
  `CacheFollowsUpdates` is not inductive either: `CacheInv` adds that what a request is
  about to store, in whatever place it holds it, contains the reported updates
  (`HolderKnows`) and those on their way to being reported (`HolderFollows`). For that a
  transaction must not outlive its request (`StagedInRow`).
  `WaitsForRowsEnd` holds under faults too: a lock belongs to a request that is upserting or
  about to answer (`LocksOK`), so requests that all wait for each other are all upserting,
  which is the circle that has a `DeadlockVictim`.

The theorems `ShutdownGoesOn`, `PoolGoesOn`, `HubWaitsForSomebody`, `WaitsForRowsEnd`, and with
them `NeverWaitInACircle` and `MarkersAreNotOrphaned`, are the safety part of what the runs
check of progress: in no state does everybody wait for what cannot come. "Can go on" is
spelled out in them as the guards of the actions, as ENABLED is out of the prover's reach.

Only model-checked: all liveness properties (`CallsReturn`, `KeyRecovers`,
`EventuallyProcessed`, `FailureEndsProcess`, `SignalEndsProcess`, `HubNeverStalls`, `PoolEnds`,
`RequestsReturn`), which need fairness and ENABLED. Every other property of a passing run has a
theorem that states it for every value of the constants.

## Not modelled

- Payload texts, timestamps other than their order, metrics, traces and logs.
- The CDC strategy: `infrastructure/cdc/outbox-connector.json` configures Debezium, and
  with `OUTBOX_STRATEGY=cdc` the program starts no relay.
- The order of events within Kafka: the writer balances over partitions, so the relay
  decides only the order in which it hands them over.
- The shared lock that InnoDB takes on the row a duplicate key is found at: of three inserters of
  one identifier, two may deadlock when the first rolls back, and one of them fails
  (a `Fail` of the model). `TxnClaimed` knows an exclusive wait only.
- A database that loses committed transactions, and a Redis that loses keys before
  they expire.
- Of sharing: the text of a post, external references, the audit table and
  `attempt_count`, which nothing reads, and soft deletion, which nothing does.
- Of the hub: what an event says, so that the order in which two broadcasts of one record
  arrive is left open, as it is in the code.
- Of YouTube: comments, playlists, search, ratings and the reads that only pass an
  answer on; the pages of the search itself, which YouTube may reorder.
- `youtube_auth_handler.go`, which keeps one token pair of the whole process in package
  variables that requests write without a lock. What a reader gets is undefined
  by Go's memory model, and no caller depends on a particular outcome.
- Of Facebook: `Status`, and the three exchanges of `Callback` one by one, which only read.
- Routing, metrics, configuration, and the clients that pass a call on.

Met while modelling, and visible in the models as what the code does, though no run
is about it:

- Accounts have a status, and the schema seeds one "to test account status rejection
  logic" (`0001_20260919_create_schema.up.sql:45`), but no query or check reads it:
  transfers from and to a suspended account are posted.
- `ListVideos` orders by `published_at` only, and asks for each page anew: of videos published
  at one time, or without a time, a summary may count one twice and miss another. Neither it
  nor `FetchPendingJobs` asks `rows.Err()`: a read that breaks off is a short page, and a 200,
  or a short batch.
- After a process stop between commit and `Complete` the retry is answered 409 ("request is
  already in progress") until the key expires, although the transaction is posted.
- A state that is never called back stays in the handler's map for good, and so does one
  whose callback came too late.
- A user name may be registered twice; `Login` then finds one of the rows.
- An invalid `OUTBOX_STRATEGY` is only logged (`StartOutboxStrategy`), and the service accepts
  payments that nobody publishes.
- The exit through `os.Exit` skips the deferred flush of traces and metrics.
- A requeued share job is retried only when somebody shares or processes again.
- With more errors than its channel holds, the sender, the workers and the collector of
  the pool can wait for each other for good; `PoolEnds` is stated up to that number.

## Plan

Done: the authorization path from the endpoint to Kafka and the process around it;
share jobs and their hub; the video cache; consents, token rows and users; the worker
pool. Every component with state of its own has a module and theorems.

What could follow:

1. `IssuingService`: endpoint, ledger and relay in one composition, with its refinement of
   an abstract payment service (each key pays at most once, each payment is announced
   at least once). The parts and the abstractions they meet at are there.
2. Comments and playlists of the YouTube client, as far as they write.
