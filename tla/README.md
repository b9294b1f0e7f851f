# SigmaTraderPRO in TLA+

A verification project for the backend of SigmaTraderPRO
(`src/apps/backend/app`): TLA+ modules for the parts that decide whether an
order reaches a broker and what the database says about it, TLC configurations
that model-check them on small instances, and TLAPS proofs of their main
properties for every value of the constants.

Paths below are relative to `src/apps/backend/app` unless they start with
`src/`.

## 1. The system

SigmaTraderPRO turns trading signals into broker orders. A FastAPI process
(`uvicorn`, one process, `src/Makefile:59`) serves a React client and a
TradingView webhook from a PostgreSQL database. Endpoints written with `def`
run on a thread pool, so requests overlap; each has a database session of its
own (`db/session.py`) at READ COMMITTED, without row locks or version columns.
That is the root of most of what is hard here: a handler loads a row, decides
on its copy, calls a broker over the network, and commits later. An UPDATE
names the row by id and only the columns that differ from the copy, so the last
writer of a column wins.

| Component | Source | State | Operations |
|---|---|---|---|
| Execution-intent queue | `services/ingestion_queue_service.py`, `api/v1/queue.py` | `ingestion_queue_items`: status, intent, mode, expiry, link to an order | create, update, resolve fields, cancel, execute |
| Order dispatch | `services/order_service.py`, `api/v1/orders.py` | `orders`: status, broker order id | place a stock or an F&O order, preview |
| Dispatch gate | `services/dispatch_gating_service.py`, `core/time.py` | none; reads the user's kill switch, the broker session, the clock | evaluate |
| Position ledger | `services/position_service.py`, `api/v1/positions.py` | `positions`: side, quantity, lots, prices; `orders.linked_position_id` | apply an order, sync with the broker's position book, square-off drafts |
| Webhook ingestion | `services/webhook_ingestion_service.py`, `services/tradingview_webhook_service.py`, `api/webhooks.py` | `webhook_ingestions`: key, payload, status | accept, reject, retry or ignore an alert |
| Webhook routes | `services/webhook_routes_service.py` | `webhook_routes`: token, user, defaults, policy | create, edit, resolve a token |
| Broker sessions and adapters | `brokers/*`, `services/broker_service.py` | `broker_connections`: credentials, session, day, last error | settings, connect, disconnect, status, place, fetch |
| Orders workspace and reconciliation | `services/orders_workspace_service.py` | writes `orders` | merge with the broker's book, reconcile |
| Watchlists | `services/watchlist_service.py` | `watchlists`, `watchlist_items` | create, default, delete, add, remove, reorder |
| Instrument registry | `services/instrument_registry_service.py`, `services/instrument_sync_service.py`, `services/instrument_normalizer.py` | `instruments`, `instrument_mappings` | sync, resolve for a broker, search |
| Quotes, holdings | `services/quote_service.py`, `services/holdings_service.py` | a Redis cache of seconds | fetch |
| System events, CSV audit | `services/system_events_service.py`, `core/csv_audit.py` | `system_events`, log files | append, rotate, clean up |
| Users, tokens, encryption | `services/auth_service.py`, `core/security.py`, `core/crypto.py` | `users` | register, log in |
| Frontend | `src/apps/frontend` | browser state | a client of the API |

How they interact, on the way of a signal:

1. `POST /webhook/tradingview` resolves the route token to a user, derives an
   idempotency key from the payload, records an inbox row, and calls
   `create_item`. Each of these commits.
2. `create_item` resolves the intent against the instrument registry, inserts
   the queue row, and for an auto-dispatch row that is ready calls
   `execute_item` in the same request. An operator may edit, resolve, cancel or
   execute the row at any time.
3. `execute_item` checks expiry, resolution, validation and the dispatch gate,
   commits `approved`, and calls the order service.
4. The order service inserts a `PENDING` order and commits, asks the gate again,
   calls the broker, and commits the outcome together with the change of the
   position ledger. `execute_item` then links the order and concludes the row.
5. A position sync overwrites the ledger with the broker's book; a
   reconciliation overwrites order statuses with the broker's.

What makes each part correct, and what makes that hard:

- *Queue*: a cancelled or dispatched row stays so; a row is sent once; a row
  says dispatched only of an acknowledged order. Hard because two requests may
  be in the middle of the same row, and because a broker's error leaves open
  whether it has the order.
- *Orders*: written ahead, concluded once, truthful about the broker. Hard
  because of crashes, the gate changing between its two evaluations, and
  exceptions after the broker has accepted.
- *Ledger*: the sum of what was traded. Hard because of lost updates, the
  foreign key from orders, and the sync's snapshot.
- *Webhook*: one item and one automatic dispatch of a key, whatever is
  delivered how often; answers that are true. Hard because three commits follow
  each other and a redelivery may come between any two.
- *Registry*: a token of the broker stands for one contract and a contract for
  one token, and the pair is one the broker has listed. Hard because the lists
  come in batches, two reads by two unique keys decide what one write does, and
  a sync of positions fetches single tokens in between.
- *Reconciliation*: what the user is shown and told of an order is what the
  database holds, and it follows the broker. Hard because rows are loaded before
  the brokers are asked and written after, while orders are placed and other
  passes run, and because the events of a pass follow its commit one by one.
- *Broker session*: a session belongs to the credentials it was issued for and
  counts on the day it was issued. Hard because a login takes as long as the
  broker takes, while settings, a disconnect, another login or midnight pass.
- *Watchlists*: exactly one default, no position taken twice; see the plan.

`PROJECT.json` lists every component with its status, and under `hazards` each
place in the code where one of these difficulties bites, with the properties
that cover it.

## 2. The modules

| Module | Models |
|---|---|
| `OrderLog` | abstract: what the orders table promises about the broker; the queue with its dispatch and the order book both implement it |
| `OrderDispatch` | `place_stock_order` and `place_fno_order`, the gate, direct `POST /orders` |
| `IngestionQueue` | extends `OrderDispatch` with the queue rows and the five handlers on them |
| `IngestionQueueInv` | the inductive invariant of `IngestionQueue`, and how far a request has come |
| `IngestionQueueProofs` | its theorems, and that it implements `OrderLog` |
| `PositionLedger` | `apply_order` and `sync_from_broker_positionbook` on one ledger row |
| `PositionLedgerProofs` | its theorems |
| `AlertQueue` | abstract: what the webhook promises the sender of an alert |
| `WebhookInbox` | `ingest_tradingview` and `create_item` as deliveries meet them |
| `WebhookInboxProofs` | its theorems, and that it implements `AlertQueue` |
| `InstrumentRegistry` | the syncs of a broker's list and of single tokens, and the position sync that resolves by them |
| `InstrumentRegistryProofs` | its theorems |
| `OrderBook` | `list_workspace` and `reconcile`, next to the placing of orders and the brokers' progress |
| `OrderBookProofs` | its theorems, and that it implements `OrderLog` |
| `BrokerSession` | the connection row: settings, connect, disconnect, failing orders, midnight |
| `BrokerSessionProofs` | its theorems |
| `MC...`, one for each of the six components | symmetry and small sets for TLC |

### Order dispatch and the queue

A request is a thread: `pc[r]` is where it is, and a step ends where the code
commits or reads the database again. `seen[r]` is the copy of the row in its
session; `Merge` is SQLAlchemy's column-wise UPDATE. So `Load` is `get_item`
with the final test after it, `UpdateSettings`/`UpdateIntent`, `Resolve` and
`Cancel` are the three editing handlers, and `Expire`, `Block`, `Approve`,
`Refresh`, `PlaceFails`, `Conclude` are the exits of `execute_item` in their
order, with `InsertOrder`, `RefuseOrder`, `ClearOrder`, `Send`, `RecordAnswer`
of the order service between `Refresh` and `Conclude`. A row that `create_item`
has just inserted is refreshed and goes through the final test of `execute_item`
like any other (`Refresh`, `FinalByNow`). `Die` is a crash, or an
exception that no handler catches, at any point. The environment flips the gate
(kill switch, session, end of the day), lets a sync of the registry map the
instrument or move its mapping away (`SyncRegistry`), and lets the expiry pass.

An intent is one of three kinds: `complete`, `unsafe` (resolves, but fails
validation) or `partial` (a field is unresolved). What the broker has is `held`;
an acknowledgement implies it, and any failure leaves it open, because the
adapters raise the same error for a refusal and for a timeout.

Two facts of the code are easily taken for slips of the model. `resolve_item_fields`
edits the loaded JSON in place, and SQLAlchemy leaves a JSON column that
compares equal to itself out of the UPDATE; so `Resolve` leaves the stored intent
alone. And `Cancel` does not look at `approved`: a row may be cancelled while its
order is on the way.

### The position ledger

One user, broker and instrument, so at most one row (the unique index), with an
id that is never used again. An order reads it after the broker has accepted and
commits acknowledgement, link and row together (`Open`, `Change`, `Close`); the
index and the foreign key turn the commit into an exception (`Fail`). A sync
fetches the broker's rows (any set of products with any nets), reads the ledger
row, and writes, closes or skips it. `mixed`, `clean` and `expected` are history
variables: who read while another was undecided, and what the sum should be. An
order that is not acknowledged any more (`failed`) still shows PENDING, which is
what the database has.

### The webhook

A delivery goes from its route (`Route`) over the lookup of its key to one of
the three admissions of the code: as the first of its key, as a retry of a
recorded alert without an item (from the row's payload), or as the late one whose
insert of the row was refused (from its own payload). Recording may fail, and the
alert is admitted all the same: `PersistFails` leaves no row, `PersistUnread` a row
that was committed but could not be read back, of which the delivery does not know
and which it therefore cannot mark when its item is refused. `Admit` and `AdmitTaken`
are `create_item`'s INSERT and its `IntegrityError`; `Dispatch` and
`DispatchFails` its call of `execute_item`, which may raise after it has sent.
The endpoint is `async` with a synchronous body, so that in one process
deliveries follow each other between their awaits; the code handles overlap by its
unique keys all the same, as for several workers, and the model lets them
overlap. The disagreement it found needs no overlap.

### The instrument registry

One broker. A list gives each token one contract (its canonical id) and each
contract one token; a sync downloads one (`SyncMaster`), then takes its rows in
any order: `UpsertCanonical` for the instrument, `LookUp` for the two reads of
`upsert_mapping`, `StoreMapping` or `RefuseMapping` for the flush, `Commit` every
`Batch` rows, `FinishSync`. `plan[a]` is which of the four branches the reads
chose, with the copy they saw; `Flushed` is the column-wise UPDATE on the row as it
is by now. `work`, `wrote` and `fresh` are a transaction's own writes, which it
sees (`Seen`) and others wait for (`Unlocked`). The merge branch deletes one row
and changes another, and SQLAlchemy sends the UPDATE first: `Refused` meets the
unique key that the comment above the code says it avoids. A position sync
(`FetchPositions`, `SettlePositions`) resolves what the broker reports; what it
cannot resolve it fetches (`SyncTokens`, which goes through the same steps) and
looks again (`ResettlePositions`). `published`, `blend`, `crossed` and `mixed`
are history variables.

### The order book

`rows` are stored orders, `book` what the broker lists of them, `heard` the last
status an event has told of each. `heard` is a history variable, and so are the
operators that decide which orders it gives up (`Unsure`, `OthersOwe`, `OrdersOf`);
what the program does is the list of changes (`Transitions`, `Change`), its cut to
`EventLimit` in `Commit`, and `Tell`. Placing is `Submit`, `Reach`, and one of
`Acknowledge`, `Refuse`, `Lose`, as `OrderDispatch` has it in full. The event of
an acknowledgement is a transaction of its own; "unsure" in `heard` stands for
one that is lost or comes after a pass has told of the order. A request loads the
rows (`Load`), asks one broker after the other (`Ask`, where an error is an empty
book), and is then a look (`EndLook`; what it shows is `Shown`) or a pass
(`Commit`, then `Tell` for each change up to `EventLimit`). The two read alike, so
which of them a request is, is decided at the end. `Written` is the column-wise
UPDATE. A price is compared with a tolerance (`Differs`), a status nobody knows
changes nothing (`Coerced`).

The code also matches orders by an exchange id that a pass puts into the loaded
JSON snapshot in place and assigns back. SQLAlchemy sees no change and stores
none, so `Matched` is by broker id alone. This is exact for every order that
`order_service` has placed, because it stores each with a preview snapshot
(`services/order_service.py:630`, `:874`). A row with no snapshot at all would be
given a new one with the id, which is stored; such rows, which only come from
elsewhere (a test inserts one and checks that the id is stored,
`src/apps/backend/tests/test_orders_reconcile_and_position_sync.py:163-164`),
are left out.

### The broker session

`conn` is the row, `base[a]` the request's copy of it. `Save` is
`upsert_settings`; `Issue`, `Date`, `Store` and `FailLogin` are `connect`, cut
where the broker answers and where the day is read; `Check` and `FailOrder` are
the use of the session by an order. Ciphertexts differ each time, so credentials
and sessions are always written, while a day, a flag or an error equal to the
loaded one is not (`Left`). A session knows, as the code does not, which
credentials and which day it was issued for, and `doubt` whether its columns were
last written by a request that others had overtaken, or by a login that came back
after midnight. In these cases the documented rule ("sessions are valid for
today; status flips to stale the next day") may fail: a login sent before
midnight counts for the day after, and a login whose day equals the one it loaded,
beside a disconnect, stores a session without a day.

`OrderDispatch` lets the gate open and close at any moment (`ToggleGate`), which
covers every change of `State` here.

## 3. The runs

| Run | Shows |
|---|---|
| `queue_dispatch` | three requests on one row, with crashes, a flapping gate and ambiguous broker errors. `OrderLogSpec`: the orders table keeps `OrderLog`. `FinalLeftOnlyByRace`, `UnracedSendIsApproved`, `SecondOrderExplained`: a final row is left, a row is sent unapproved, or sent twice, only by requests that overlapped (or, for the last, a crash or a failed answer); approved means that the row says so and that its intent passes validation. `ApprovedIsHeld`: an approved row has a request that will conclude it, or that died on it. `DispatchedIsAcknowledged`: a dispatched row always has its acknowledged order. `IInv`: the invariant of the proofs |
| `queue_live` | `ApprovedIsTransient`: an approved row is concluded |
| `final_stays_final` | **violated**: without the clause about races, a final row does change |
| `ready_is_executable` | **violated**: a row is resolved to `ready` and its intent still lacks the field |
| `position_ledger` | two orders and a repeated sync. `LedgerIsSum`: the ledger is what the last undisturbed sync reported plus the orders since, unless a request wrote on an overtaken reading; one undisturbed sync heals it. `LostAckExplained`: the only two ways an accepted order stays PENDING. `SyncLeavesReported`: what an undisturbed sync makes of any report, and so how far `SyncFollowsBroker` is true. `IInv`, here and in the other runs, has the type invariant as a conjunct |
| `ack_is_recorded` | **violated**: buy and sell the same quantity one after the other, and the second acknowledgement is lost to the foreign key |
| `sync_follows_broker` | **violated**: a position the broker reports with net 0 stays open in the ledger |
| `webhook_inbox` | three deliveries of one key for two users. `AlertQueueSpec`: one item and at most one automatic dispatch of a key, and `accepted`/`duplicate_ignored` name an item of the user. `RecordedFirst`, `AcceptedIsQueued`: inbox and queue agree but for named failures. `BorrowedIsRetry`: when an item holds another delivery's payload |
| `not_enqueued_is_not_sent` | **violated**: an alert is answered "failed to enqueue" although its order was sent |
| `instrument_registry` | a sync of the list and a sync of positions on a registry that an earlier list has filled. `MappingWasListed`: a mapping no list ever contained needs two syncs that wrote a row on overtaken readings. `MappingLostIsListed`: an undisturbed sync takes a mapping away only if its own list names the token or the contract. `LoneRefusalIsMerge`: an undisturbed sync is refused by the unique keys only in the merge. `SyncMirrorsList`: an undisturbed sync that ends well has stored its whole list. `RetryShowsHeld`: the second look shows every position whose token was fetched for it |
| `order_book` | two orders and two overlapping requests. `HeardIsStored`: what events told of an order is its status, but for untold, cut off or crossing changes. `MarkedIsMendable`, `PassSettles`: what a look marks a pass changes, and then neither would again. `ShownOnce`: every order is shown, and twice only without a broker id or beyond the limit. `BackwardIsOvertaken`: a status moves backwards only under a pass that wrote over a row changed since. `OrderLogSpec`: placing next to passes keeps `OrderLog`; in particular an order without a broker id is out of every pass's reach |
| `broker_session` | two requests, two sets of credentials, three days. `SessionIsOfItsDay`, `LoginSticks`, `MixIsSaved`, `SessionLostIsSeen`: see above; the last says that a failing login where there was no session does not disconnect the one that succeeded beside it |

The five violations are explained under `findings` in `PROJECT.json`,
each with the line of the code, comment, document or test it disagrees with.
`ready_is_executable` asks only whether the stored intent leaves a field
unresolved; that a mapping may be moved away after a row was found ready is no
disagreement.

Some outcomes a reader would wish away are real, because nothing in the code
prevents them: two overlapping executions send a row twice, two overlapping passes
tell the changes of an order in another order than they wrote them, an overlapped
sync deletes a mapping. The properties about these name the overlap as the
exemption. So they do not say that it cannot happen, but that it happens in no
other way: each is broken by a change of the program that brings the outcome about
without the overlap. The pairs (definition, changed definition) are under `mutants`
in `PROJECT.json`.

### Bounds, and why they are enough

- *One row, one ledger row, one key.* Rows of the queue do not interact: each
  handler reads and writes one row, and unique keys are per row. The same holds
  of ledger rows and of idempotency keys. The theorems about the queue and the
  webhook hold for any number of rows and keys; `PositionLedger` is one row.
- *Three requests (queue), two orders and a sync (ledger), three deliveries.*
  An overlap takes two; the third is the one that meets its consequences (an
  execution after a lost cancel, a redelivery after a race). The liveness run
  has two requests.
- *Quantities -1, 1, 2 and nets -1, 0, 1*: a reversal, a square-off, an addition
  and a change of side all occur. Two products per instrument in the sync.
- *Payloads*: two readable ones and one that does not normalise; two users, as a
  key may be shared by routes of two users.
- *Registry*: two tokens, three contracts and rows, batches of two: a token moves
  to a free contract, to a taken one (the merge), and a list takes one or two
  batches. One sync and one position sync overlap as two syncs do.
- *Order book*: three reports, of a status nobody knows, an open and a final one,
  with no price, prices within and beyond the tolerance, with and without a
  reason. A look shows one order of two, a pass tells one change of two. Both
  orders are at the first of the two brokers, which makes them alike; so one
  broker failing while another lists an order is not met by TLC, only by the
  proofs, which take any distribution.
- *Session*: three days, so that a session may be stale, renewed, and stale again.
- Each order is placed at most once per request, so the state space is finite
  without a bound on steps. A sync repeats; ledger ids are bounded by the orders
  and what syncs can insert, as only orders delete.

Symmetry is used over requests, orders, products, deliveries and users, in the
runs without liveness. The runs of the webhook, the registry and the order book
do not look for deadlocks, because every request may end and the brokers come to
rest; the other runs do: there the environment always has a step, or a
sync can be repeated.

### Fairness

`queue_live` assumes weak fairness of each request's own steps: a running thread
is scheduled, and the broker call has a timeout. Nothing is assumed of new
requests, crashes, the gate, the registry or the clock.

## 4. What is proved

TLAPS checks, for every number of requests, rows, orders, deliveries, keys,
users, tokens, contracts and credentials and for every quantity, limit and batch:

- `IngestionQueueProofs`: `Invariance`, `TypeCorrect`, `DispatchedCorrect`,
  `SecondOrderCorrect`, `FinalLeftCorrect`, `UnracedSendCorrect`,
  `ApprovedIsHeldCorrect`, `AdvanceCorrect`, `OrderLogImplemented`.
- `PositionLedgerProofs`: `LedgerInvariance`, `LedgerTypeCorrect`,
  `LedgerIsSumCorrect`, `LostAckCorrect`, `SyncLeavesReportedCorrect`.
- `WebhookInboxProofs`: `InboxInvariance`, `InboxTypeCorrect`,
  `RecordedFirstCorrect`, `AcceptedIsQueuedCorrect`, `BorrowedIsRetryCorrect`,
  `AlertQueueImplemented`.
- `InstrumentRegistryProofs`: `RegistryInvariance`, `RegistryTypeCorrect`,
  `MappingWasListedCorrect`, `MappingLostIsListedCorrect`,
  `LoneRefusalIsMergeCorrect`, `SyncMirrorsListCorrect`, `RetryShowsHeldCorrect`.
- `OrderBookProofs`: `BookInvariance`, `BookTypeCorrect`, `HeardIsStoredCorrect`,
  `MarkedIsMendableCorrect`, `ShownOnceCorrect`, `BackwardIsOvertakenCorrect`,
  `PassSettlesCorrect`, `LostStaysLostCorrect`, `BookLogImplemented`.
- `BrokerSessionProofs`: `SessionInvariance`, `SessionTypeCorrect`,
  `SessionIsOfItsDayCorrect`, `LoginSticksCorrect`, `MixIsSavedCorrect`,
  `SessionLostIsSeenCorrect`.

The assumptions are those named in the modules: `None` is neither a request nor
a row, orders and syncs are different threads, quantities are integers and an
order's is not 0, unreadable payloads are payloads; `Blank` and `"none"` are no
tokens, contracts, rows, credentials or errors; orders of the order book are
finitely many, its reports are well formed and its limits are numbers; a batch
has at least one row.

*Queue.* The properties speak of overlap, so the invariant has to say what a
request that was never overlapped can rely on. `Meetings` says that two requests
active on a row are both marked; hence an unmarked one is alone, its copy is the
row (`Alone`), and it holds `approved` from its approval until it concludes.
`Phases` and `Targets` tie an order and a row to where the request is, and
`Settled` keeps the result of an undisturbed execution: a dispatched row nobody
works on. A second order of a row would need a load of that row, which its final
status forbids. The proof sorts the steps of `Next` into a few kinds by what they
change (`StepKinds`) and shows each part of the invariant for each kind.

`ApprovedIsHeld` is part of the invariant, because the request that holds an
approval has to be there before it can be said to conclude it. A request that has
refreshed the row concludes only if its copy shows `approved` (`WillConclude`),
and a cancel or an edit beside it may have changed that; so what survives an
overlap is that *some* request holds the approval, or died on it. `AdvanceCorrect`
adds that every step of a request takes it further (`Stage`) and that nothing
takes it back, so no handler loops. Together they are the safety half of
`ApprovedIsTransient`: an approved row has a request that concludes it, unless it
dies, after a bounded number of its own steps. That a running thread takes these steps is the
fairness which only TLC's run uses.

*Ledger.* `Windows` marks requests whose readings overlap; so an unmarked
reader's copy is the row (`Current`), and what it writes is the sum. `Numbered`
and `LinksResolve` are the unique index and the foreign key: a link is to the row
there is. `SyncLeavesReportedCorrect` is the counterpart of the violated
`SyncFollowsBroker`: with several products of an instrument the row is one of
them, whole, and the only report an undisturbed sync does not follow is one of
closed products alone.

*Webhook.* `RowsOwned` and `ItemsOwned` say which delivery a row and an item
come from and what it must have been through; `OneItemPerKey` is the unique key;
`Underway` says what a delivery knows at each point, in particular that one that
is about to dispatch owns an item that has not been dispatched. The refinement
maps `told` to the deliveries answered `accepted` or `duplicate_ignored`.

*Registry.* `KeysUnique` and `Locks` are what the database enforces of the table
and of transactions in flight; `Provenance` says that every mapping in sight is
listed or blended; `InHand` what a request has read, by where it is; and `Alone`
that of a request whose sync overlapped no other, the copies are still the rows and
what it has stored is still there. `Core` joins these. `Losses` says of a sync
nobody overlapped that whatever differs between the table it sees and the
committed one is a mapping its list names, which is what `MappingLostIsListed`
needs at the commit. The exemption for overlapped syncs cannot be dropped: with
batches of one row TLC shows a merge in `upsert_mapping`, chosen by two reads that
another sync has overtaken, deleting a mapping that no list it was given names. A
lone sync never gets there: its merges are all refused (`LonePlan`).

*Order book.* A broker never moves an order back (`Rank`), so whatever was read
earlier lags behind what was read later: `RowsLag` and `ReadingsLag` order a row,
a request's copy, its answer and the book. `DebtsAreClear` says that a change is
owed by one pass and the row is at its status; without it `HeardIsStored` would
not survive the telling. `CallsPend` says that an order is PENDING and has no
broker id for as long as its request runs; with it every step of the order book is
a step of `OrderLog` or leaves the log alone. The log's status of an order is how
it was concluded: an order with a broker id is acknowledged, whatever
reconciliation has made of its status since. `OrderLog` is also what the queue
with its dispatch implements, so the placing that `OrderBook` abridges and the one
`OrderDispatch` has in full keep the same promises. `LostStaysLostCorrect` states
one consequence on its own: the order no pass can reach.

*Session.* `DaysArePast` and `LoginsAreGranted` bound what a login in flight may
bring; `SessionIsOfItsDay` is then inductive, since a request that was not overtaken
writes both columns on what they are.

The three refinements (`OrderLogImplemented`, `BookLogImplemented`,
`AlertQueueImplemented`) are proved by showing that the initial states
map to initial states and that, under the invariant, each step maps to a step or a
stutter.

*Only model-checked*: `ApprovedIsTransient` (liveness needs fairness and ENABLED,
which are out of the prover's reach; its safety half is proved, see above), and the
violations.

## 5. What is left out

- *Queue*: reason codes, notes, correlation ids, audit events; which field of an
  intent is missing; the reads (`list`, `get`). System events commit the
  session; where a row is dirty at that point the commit is the model's.
- *Orders*: prices, margin previews, quantity checks; they decide whether
  `PlaceFails` happens, which the model lets happen at any time.
- *Ledger*: lots, average price, marks, and the second sync after a sync of
  unmapped instruments, which is another sync; instruments without mapping.
- *Webhook*: the rows of rejected alerts, which live in key namespaces no alert
  shares; the branch for a recorded row without a normalised payload, which no row
  under an alert's key is; route management; a queue item whose key a user has
  typed in by hand.
- *Registry*: how a canonical id is derived from a broker's row; names, lot sizes
  and expiries of instruments; search; the rows a sync skips as not tradeable.
- *Order book*: rows without a preview snapshot; broker words that happen to equal
  another status of the program than those `_coerce_status` translates
  (`ACKNOWLEDGED`, `BLOCKED` and the like); filters other than status, the final cut of a look to its limit,
  limit prices, orders the gate has blocked, and the listing, repeating and
  reversing of orders in `api/v1/orders.py`.
- *Session*: `last_connected_at`, requests that only read the connection, the
  brokers' login protocols, and refusals of an input, which change nothing.
- Everything `PROJECT.json` lists as `not_modelled`.

## 6. Plan

Modules in the order of their weight, with what each is to state:

1. `Watchlist`: the default flag and item positions under concurrent requests.
   Abstract: exactly one default, positions without duplicates.
2. `IntentResolution`: defaults, route policy and sizing as pure operators,
   against a reference definition over bounded inputs; proofs that a ready
   intent passes validation's required fields.
3. A composition of `WebhookInbox` and `IngestionQueue`, in which `Dispatch` is
   the queue's `execute_item`, and of `OrderBook` with `PositionLedger`'s lost
   acknowledgements.
4. `CsvAudit`: rotation, the file cap and retention.
5. `InstrumentNames`: the derivation of canonical ids, and that two brokers'
   rows of one contract agree on it.

Runs: one passing and, where docs and code disagree, one violation per module.
Proofs: for each module type correctness and the property named first; then the
lemmas about `IntentResolution`. For the modules there are: that deliveries and
syncs end after a bounded number of their own steps, as `AdvanceCorrect` says of
requests to the queue (for a sync the measure is what is left of its list).
