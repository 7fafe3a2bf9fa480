# ForgeERP: TLA+ models, checks and proofs

ForgeERP is a multi-tenant ERP back end in Rust. It is event sourced: a command
is handled by an aggregate rebuilt from its event stream, the decided events are
appended under optimistic concurrency, published on a bus and folded into read
models. This directory holds TLA+ models of that machinery, TLC configurations
that check them on small instances, and TLAPS proofs for every instance.

## The system: inventory of components

| component | state it keeps | operations | what makes it correct |
|---|---|---|---|
| inventory item (`crates/inventory`) | item rebuilt from events | handle, apply | stock never negative, also when i64 wraps |
| command dispatcher (`crates/infra/src/command_dispatcher.rs`) | locals of a running dispatch | load, rehydrate, handle, append, publish | no lost update, true replies, a command commits twice only if it was sent again after a publication error |
| event store, in memory and PostgreSQL (`crates/infra/src/event_store`) | one stream per (tenant, aggregate) | append, load_stream, queries | append-only, gap-free numbering, one winner per version |
| buses, in memory, Redis Pub/Sub, Redis Streams (`crates/events`, `crates/infra/src/event_bus`) | subscriber channels; consumer groups, pending entries | publish, subscribe, poll, acknowledge | every event reaches every consumer, order per stream |
| projections and their loops (`crates/infra/src/projections`, `crates/api/src/app/services.rs`) | rows, a cursor per stream | apply_envelope, rebuild, replay | the read model is a state of the stream and catches up |
| background jobs (`crates/infra/src/jobs`) | job table, dead-letter table | enqueue, claim, update, dead-letter, retry, delete; executor threads | one executor per job, bounded runs, every job settles |
| sales to receivables saga (`crates/infra/src/saga`) | saga stream per order | correlate, react, append_emit | one invoice per order, the order is marked in the end |
| sales order, invoice, ledger, purchase order, product, party, user aggregates | aggregate rebuilt from events | their commands | lifecycles, balanced entries, payments bounded by totals, final states final |
| replay jobs (`crates/infra/src/projections/replay.rs`, `crates/api/src/app/routes/replay.rs`) | a job table, progress | start, cancel; load in pages, clear, apply | a rebuild restores the rows from wherever they stood, and ends |
| reports without a service: open invoices, customer balances, stock valuation (`crates/infra/src/projections`) | rows, accounts, cursors | apply_envelope, register_invoice_customer, set_unit_cost, rebuild | reports agree with each other and with the aggregates |
| desktop client (`crates/desktop`) | command queue and cache in SQLite, connectivity | enqueue, sync, retry, cache, resolve conflict | a command the user gave is kept and is sent again only for a reason |
| authorization (`crates/auth`, `crates/api/src/authz.rs`) | none; tokens carry roles and a lifetime | validate_claims, authorize, explain | lost rights expire, explanations tell what the guard does |
| AI anomaly runner (`crates/ai`, `crates/infra/src/ai`) | a trigger channel per tenant | trigger, run, publish insight | every event is looked at although triggers are coalesced |

Components interact by calls (route handler to dispatcher to store), by messages
(dispatcher to bus to projection and saga loops) and by shared tables (job
store, SQLite queue, read models). What is hard about them: dispatches that
interleave between load and append; publication that is neither atomic with the
append nor ordered like it; projections that refuse an event and never see it
again; retries of commands that already took effect; threads that hold a copy of
a row while others change it; restarts that keep rows and lose cursors.
`PROJECT.json` lists these hazards one by one, at their lines.

## Modules

* `InventoryItem`: the aggregate of `crates/inventory/src/item.rs` as operators:
  `Apply`, `HandleError` (the error a command meets, in the order the code tests
  for it) and `Decide`. i64 addition wraps at `MaxI64` as a release build does.
* `SerialInventory`: the abstract specification: every accepted command is one
  indivisible step on the item's current state.
* `ProjectionCursor`: the cursor test every projection makes before it applies
  an envelope. `StockProjection`: that test and the upsert of
  `inventory_stock.rs::apply_envelope`.
* `CommandDispatcher`: requests run `dispatch` step by step (`Load`,
  `ApplyHistory` once per event, `HandleCommand`, `AppendEvent`, `Publish` or
  `PublishFails`) over the in-memory store and bus, and `Deliver` is one turn of
  the projection loop in `build_in_memory_services`. `streams`, `channel`,
  `cursor` and `readModel` are the store, the worker's channel, the projection's
  cursors and rows; `pc`, `history`, `agg`, `done`, `reply` are the locals of a
  dispatch, `reply` with one entry per attempt. `states` and `first` only record
  what happened. The module stands at
  the interface of `dispatch`: a caller may name any aggregate id. The HTTP
  route for creation picks a fresh one, other callers choose theirs.
* `JobQueue`: `InMemoryJobStore`, executor threads and the callers of the store.
  Each store call is one step; an executor's `copy` and a cancelling caller's
  `toCancel` are the rows they hold between two calls. Cancelling is `get`,
  `mark_cancelled`, `update`, the only way the store's interface offers; no
  caller in the repository uses it yet.
* `EventLog`: the abstract append-only log: whole batches at the end of a
  stream, each event once.
* `PostgresEventStore`: `append_events` as a transaction of several round trips
  (`CheckStreamVersion`, `InsertEvent` once per event, `Commit`), between which
  other transactions run. `table` holds the committed rows, `inserted` those of
  an open transaction. PostgreSQL is external: an INSERT
  waits for an open transaction that holds the same key (`Waits`) and fails if
  that one commits. Connections break before COMMIT (`Break`) or after it took
  effect (`CommitUnacknowledged`). The bridge from the synchronous `EventStore`
  trait (`postgres.rs:643`) calls `Handle::block_on`, which panics inside the
  runtime before a statement is sent; such a call is one that is not made.
  `store_snapshot` stores whatever it is handed and has no caller: it is left out.
* `RedisStreams`: `redis_streams.rs` with the projection loop of
  `build_persistent_services` behind it. Redis is external (`stream`,
  `lastRead`, `pending`, `idle`); `Poll` is one turn of the polling thread
  (XPENDING and XCLAIM, then XREADGROUP, then the buffer that is drained from
  its end), `Receive` one turn of the projection loop. `Start` and `Stop` end a
  process: rows stay in PostgreSQL, cursors and the channel are lost, the next
  process has a new consumer name. Events of a key are published in the order
  of their numbers here; that publication can reorder them is the subject of
  `CommandDispatcher`.
* `SalesOrder`, `Invoice`, `Ledger`, `PurchaseOrder`: the aggregates of
  `crates/sales`, `invoicing`, `accounting` and `purchasing` with the row
  functions of their read models. `Can...` says when a command is accepted,
  `Apply...` and `...RowAfter` fold an event. Amounts are u64 with `MaxU64` as
  the largest; the line total of an invoice is cut to 64 bits as the code's cast
  does.
* `OrderFlows`: composes the four with the HTTP routes that drive them, the
  projection loop and the saga loop of `build_in_memory_services`. A dispatch
  decides and appends in one step, which is what `CommandDispatcher` is proved
  to implement (`SerialInventory`); its publication is a later step, so
  concurrent dispatches publish in any order, or fails (`PublishFails`), which
  leaves the event stored and answers the caller with an error.
  `create_purchase_order` is the several dispatches the route makes
  (`CreatePurchaseOrder`, `CreateAddsLine`, `CreateReplies`), between which other
  callers act; it ends with an error before an append (`CreateFails`) or after
  it, the last line included (`PublishFails`). The loop's two calls for an
  invoice event are one step (`Deliver`): `InvoiceModelsAgree` compares the
  reports between turns of the loop. `first` only records what happened.
* `DesktopSync`: the offline client. Actors are the handler of each command
  (`adjust_stock`), the background worker and `sync_now`; each await is the end
  of a step. `queue` is the status column of the SQLite table, `applied` counts
  what the server did, `mode` is `OfflineMode`. Replies are lost before or after
  the server acted, SQLite calls fail (and are only logged) or panic (`Panics`:
  the queue blocks on a runtime of its own inside the caller's, which ends the
  caller's task), the process exits and starts again. Cached bodies are abstract: whichever way the comparison of
  versions decides, the fetched body is stored.
* `ProjectionReplay`: replay jobs beside the live loop. `Page` and `LoadPage` are
  the offset pagination of `query_events` over a store that grows, `ClearRows`
  and `ClearCursors` the clear function, `ReplayEvent` the application of one
  event; `apply_envelope` is the separate calls it makes (`Begin`, `GetRow`,
  `UpsertRow`, `UpdateCursor`), which the loop and a replay interleave.
  `timeline` holds the events in the order of their clocks, which is the order
  pages are taken in; events with the same clock reading, which `query_events`
  lists in the order of a hash map, are left out. `inbox` is what the live loop
  will receive: an event may be published ahead of earlier ones of its aggregate.
  Queries fail, jobs are cancelled, processes restart.
* `Product`, `Party`, `User`: the aggregates of `crates/products`, `parties` and
  `auth` with the row functions of their directories. `Authorization`: the role
  mapping, `validate_claims`, `authorize` and the explanations of
  `crates/auth/src/authorize.rs`. `MasterData` composes them behind the routes
  of products, customers, suppliers and users: a request carries a token whose
  roles were true when it was issued, the clock ticks, events are published in
  any order. Updating and suspending a party are two steps: the guard asks the
  directory (`AskDirectory`), the dispatch comes later and does not ask again.
  Who issues tokens is external.
* `Receivables`, `Valuation`: the rows of `open_invoices.rs`,
  `customer_balances.rs` and `inventory_valuation.rs`. `Reports` composes them
  with invoices and items: no service hosts these projections, so a host is
  taken to hand over stored events in any order, to register customers before
  their invoices and to rebuild when it likes; `set_unit_cost` runs on another
  thread and is a read and a write, as is the application of an event there.
* `AnomalyRunner`: the thread of `inventory_anomaly_runner.rs` composed with
  `CommandDispatcher`: the loop applies an envelope (`LoopApplies`) and then
  triggers (`LoopTriggers`); the runner drains triggers, clears `pending`, reads
  the rows, emits an insight or fails and backs off. What is inferred is left
  out: an insight is known by how much of each stream it saw.
* `MCCommandDispatcher`, `MCAnomalyRunner`, `MCJobQueue`,
  `MCPostgresEventStore`, `MCRedisStreams`, `MCOrderFlows`, `MCDesktopSync`,
  `MCProjectionReplay`, `MCMasterData`, `MCReports`: constants for TLC.
* `OrderedLists`: the elements of a set in order (`Ascending`) and those of a
  list that are in a set (`Keeping`), by rank rather than by recursion, for the
  lists that `DesktopSync` and `RedisStreams` read. `Sums`: the sum of the
  values of a function, for the balances of `OrderFlows` and the amounts of
  `Reports`.
* `CommandDispatcherProofs`, `JobQueueProofs`, `PostgresEventStoreProofs`,
  `RedisStreamsProofs`, `OrderFlowsProofs`, `DesktopSyncProofs`,
  `MasterDataProofs`, `ReportsProofs`: theorems about the module of the same
  name. Lemmas about lists, sums and folds stand in the modules that use them.

Left out of the models: timestamps, error texts, JSON, logging, metrics, the
realtime broadcast. A `Key` stands for a (tenant, aggregate) pair, which the
code only compares.

## Runs

| run | checks | shows |
|---|---|---|
| `dispatch_concurrent` | types, no lost update, stock, a second commit only after a publication error, true replies, read model prefix, refinement of `SerialInventory` | three clients on two items with failing publication and retries after it and after conflicts |
| `dispatch_single_writer` | the read model catches up; insights see every event | one client at a time, bus that does not fail, the anomaly runner with failing runs behind the loop |
| `job_queue` | one executor per job, no job lost, runs bounded, one success, every job settles | an executor thread and a synchronous caller with a tenant filter, a job without handler, cancellation, dead-letter retry, panics |
| `postgres_append` | gap-free streams, whole batches, true replies, refinement of `EventLog`, every call returns | two batches of two events and two aggregate types overlap; broken connections, calls made again |
| `redis_delivery` | every entry received and the projection catches up, unless an entry got out of reach | one process at a time, lost replies, a restart, more entries than XPENDING's window |
| `redis_group` | no event applied twice | two processes of one group, one with a tenant filter, stopped and started again, lost replies, failed publications |
| `order_flows` | payments within totals, the two invoice reports agree, rows that caught up match the aggregate, balances add up to zero, 201 means all lines, an error the lines appended so far | every route of orders, invoices, ledger and purchases, published in any order or not at all |
| `desktop_sync` | Synced is applied, posted twice only for a reason, an accepted command is kept | handler, worker and sync_now on one queue; lost replies, failing and panicking SQLite calls, exits |
| `replay` | an undisturbed rebuild restores the rows, every replay ends | a replay job and the live loop; publication out of order, cancellation, failing queries, restarts |
| `master_data` | directories match, lost rights expire, explanations tell what the guard does, the kind guard holds for requests that asked once a party was listed | every route of products, customers, suppliers and users, stale tokens, requests between guard and dispatch, publication in any order |
| `reports` | the two reports of receivables agree with the invoices, open counts, stock values | delivery in any order, registrations, costs set meanwhile, rebuilds |
| `saga_inert` (violation) | a confirmed order is invoiced | the saga finds no order id in any event |

### Divergences met while modelling

The saga that never acts has a run (`saga_inert`). The others were met with the
same models and have no run of their own.

Write path, jobs and buses:

* After `DispatchError::Publish` the events are stored and nothing identifies the
  command: sending it again commits a second event, which `dispatch_concurrent`
  does. `command_dispatcher.rs:132` says "The events are already persisted, so
  retrying the command is idempotent". `CommitsRepeatOnlyAfterPublish` states
  what is left of it: no other error leads to a second commit.
* RetryNow, RetryAfter and a missing handler call `mark_failed`, which sets
  DeadLettered when attempts run out, but only the Failure arm of
  `executor.rs:321` calls `dead_letter`: such a job is in neither list.
  `types.rs:101` says "Exhausted retries, moved to DLQ".
* A batch from Redis is popped from its end (`redis_streams.rs:592`), so events
  of one stream arrive reversed; `envelope.rs:51` promises their order. The
  projection still catches up while what it refused is offered again
  (`CatchesUp`).
* XPENDING asks for the consumer's own name and every process has a new one
  (`redis_streams.rs:260`): what a stopped process had read stays with it,
  against `docs/REDIS_STREAMS_FLOW.md:85`.

* Append order and publication order differ, and a projection accepts any number
  as its first (`inventory_stock.rs:202`): a row built from event 2 alone is no
  state the item ever had. In memory, an event refused for a gap is not offered
  again (`services.rs:349`), so the read model stays behind. This is why
  `ReadModelCatchesUp` is checked with one writer.
* `claim_next` and `execute_one` both call `mark_running` (`executor.rs:173`):
  on that path one run counts as two attempts.
* A panicking handler leaves its job Running with nobody to take it over
  (`executor.rs:302`); `EveryJobSettles` excepts exactly these jobs (`Abandoned`).
* XPENDING looks at the first ten pending entries and nothing is acknowledged
  (`redis_streams.rs:259`): entries behind them are not redelivered, against
  `docs/REDIS_STREAMS_FLOW.md:79` ("If XACK never sent -> message redelivered").
  One whose reply is lost there, or that was refused there, is lost.
  `EveryEntryReceived` and `CatchesUp` except exactly the entries behind the
  window and those of a stopped consumer (`OutOfReach`).
* A consumer with a tenant filter drops other tenants' entries it was given
  (`redis_streams.rs:415`).
* `retry_count` is read and never written (`redis_streams.rs:428`): the
  dead-letter stream stays empty.
* When the publication of its last line fails, `create_purchase_order` answers an
  error although the order has all its lines (`purchases.rs:110`).
* An invoice line's total is cut to u64 before the overflow test
  (`invoice.rs:314`), so an invoice can be issued for less than its lines, also
  for zero, and then takes no payment.

Replay:

* Events are loaded first and the projection is cleared afterwards while the
  live loop goes on (`replay.rs:271`): an event applied between the two is
  cleared and not replayed; one applied right after the clear is accepted with
  any number, and the replayed ones are then ignored as duplicates.
  `docs/PROJECTION_REBUILD_FLOW.md:71` says "Read model and cursors now match
  event stream". `RebuildRestores` is therefore about replays nobody disturbed.
* A replay that fails or is cancelled after its clear leaves the rows of a prefix,
  and later live events are refused as gaps.
* The persistent services replay stock through `Handle::block_on` inside the
  runtime, which panics; aging, ledger and users cannot be replayed; a dry run
  validates nothing; `start_all_replays` answers 501; no service uses
  `PostgresCursorStore`.

Desktop:

* `sync_manager.rs:117` marks a command Syncing and says "will retry later";
  only Pending and Failed are listed, so it is not. An offline worker does not
  test connectivity again, nothing sets the mode back, and the backoff it
  computes is never slept.
* A failing insert into the queue is only logged (`command_queue.rs:125`): the
  user is told the command was accepted. `AcceptedIsKept` excepts these.
* Failed commands are sent after later ones, so "preserve ordering" does not
  hold. `main.rs` starts the worker without tenants, and `start` consumes it.
* The queue blocks on a runtime of its own inside async commands and the worker's
  task (`command_queue.rs:156`, `210`), which panics: the worker ends at its first
  `list_pending`. No property says that a queued command is taken up, because
  this code does not do it. The other properties are checked with calls that
  succeed, fail or panic. Tauri manages `Arc<AppState>` and the commands ask for
  `AppState`.

Master data and authorization:

* The guard that keeps `/customers` away from suppliers (`customers.rs:143`)
  passes while the party has no row yet, and an update delivered before the
  registration makes the row a Customer's for good. The dispatch does not ask
  again: a request that asked before the registration was delivered changes a
  party of the other kind also after it. The comment there says "so /customers
  can't mutate a supplier"; `KindGuard` is about requests that asked later.
* The users projection has no cursor and no rebuild; events that arrive in the
  other order stay applied in that order.
* Roles come from the token: a revoked role or a suspension takes effect when
  the token expires. Explanations ignore suspension altogether.
* The mapping grants `products.write` and the like, the routes ask for
  `products.create` and the like: only admins pass the routes that write.
* Unique SKUs, `can_be_sold` and `can_transact` are enforced nowhere; a suspended
  party cannot be reactivated.

Reports:

* "Number of open invoices" (`customer_balances.rs:28`): an invoice paid in full
  and voided later is taken off twice. `OpenCountExact` excepts such accounts.
* `register_invoice_customer` after the invoice resets the amounts of its
  mapping; a rebuild forgets all registrations, and one of the valuation all
  unit costs.
* Paid and void invoices stay in the open list and in the count of its summary;
  `open_invoices.rs` says they are filtered out in queries.
* `set_unit_cost` and `apply_envelope` overlapping lose one of the two changes.

### Bounds and fairness

Bounds. Three requests are enough for two concurrent writers and one that
observes the result of their race; two items show that streams do not disturb
each other; `MaxI64 = 3` with deltas -1, 0, 2, 3 reaches zero, the negative test
and the overflow. `MaxAttempts = 2` lets every request be retried once. Two jobs
and two executors reach every pair of holders; attempts 0 (`no_retry`) and 2
reach both ends of `should_retry`; one requeue resets the count once. Two
appends of two events reach every overlap of reading, inserting and committing
on one stream; two tries repeat a call whose COMMIT was not acknowledged. A
batch of 2 or 3 stands for 10 and two retries for 5. In `redis_delivery` four
entries meet a window of three, so that one is behind it, one reply is lost and
the process is restarted once. `MaxEvents`, `MaxQueued`,
`MaxUnpublished`, `MaxLostReplies` and `MaxStops` bound the events of a key, a
channel that timeouts would fill again and again, and the failures. In
`OrderFlows`, `MaxStreams = 2` takes every pair of the four kinds of aggregate
and `MaxEvents = 5` covers a purchase order created with two lines while another
caller adds a line and approves it, or an issued invoice with three payments and
a void; `MaxInFlight = 2` is enough to reverse any two publications; with
`MaxU64 = 7` the line 3 x 3 is cut to 2 and two lines of 6 are refused.
`DesktopSync` follows one command, because commands meet only in the order of
the list, with one retry, one fault and at most three applications; panics are
not bounded; the worker
may have no tenant. `ProjectionReplay` has two aggregates of one projection,
pages of one event, three events, two of them not yet received
(`MaxInbox`), one job and one fault: enough for an event to come before a page
already read; with two jobs TLC does not finish. `MasterData` allows three
events, one user, product and party, a token lifetime of one tick, and of each
party two kinds of requests between guard and dispatch (`MaxPassed`), each of
which stands for any number. `Reports` allows four events on two invoices and an item
(five were checked too); with `MaxU64 = 4` the two larger invoices together wrap.
In `dispatch_single_writer` the runner may fail once before it gives up, three
requests create and adjust one item.

Fairness. `HostSpec` of the dispatcher with the anomaly runner: a running
dispatch, the projection loop and the runner's thread go on (threads and tasks
are scheduled) and a backoff ends; nobody has to send or retry, and the runner's
60 s ticks are not relied on, because they would hide a lost trigger.
`FairSpec` of the job queue: executor threads poll for ever, handlers return and
time passes; nobody has to enqueue, cancel, requeue or delete. Panics may happen:
a job whose executor died with it counts as abandoned. `FairSpec` of the
PostgreSQL store: a call that was made goes on and a waiting INSERT is woken;
connections need not break. `FairSpec` of Redis Streams: polling threads and
projection loops go on, a stopped process is started again while names are left,
and every pending entry times out again and again (strong fairness, because only
the bound on the channel interrupts it). Polls are 100 ms apart and an entry's
timeout 60 s, so infinitely often a poll finds nothing idle and reads new
entries (strong fairness of `PollNew`). `FairSpec` of `OrderFlows`: a dispatch
publishes what it appended and the two loops take what they receive; callers
need not call; a publication may fail instead. Nothing is assumed of the desktop,
whose tasks may panic at any call of the queue.
`Spec` of the replay: a replay's task goes on; pages and events that keep
coming may not keep it from its end, since the bound on events stands for a
store that is read faster than it grows.

## Proofs

`CommandDispatcherProofs` proves, for any number of requests, items, retries and
any `MaxI64`:

* `TypeCorrect`, `NoLostUpdate`, `StockSafety`, `ProjectionPrefix`,
  `StreamsAppendOnly`, and `Refinement` (the dispatcher implements
  `SerialInventory`);
* `RepeatedCommits` and `RepliesAreTrue`, whatever errors clients answer with
  another try.

The argument. "Every event was decided on the current state" is not inductive:
one needs to know what a dispatch holds between its load and its append.
`InductiveInvariant` adds that streams are numbered 1, 2, 3 (`StreamsNumbered`),
so that equal versions mean equal streams; that what a dispatch loaded is a
prefix of the stream and what it rehydrated the state after that prefix
(`LoadedPrefix`); and that the channel holds only stored events and no cursor
runs ahead (`PublishedIsStored`). When `VersionMatches` holds at the append, the
prefix is the whole stream, so the aggregate is the current state. The same
invariant gives the refinement: an append is one `Execute` step, every other
step leaves the current items alone. It was model-checked before it was
proved and is no run's property now: its proof says more. `OutcomeInv` ties each
attempt's stage and reply to the presence of its event: attempts before the
current one were answered with an error that may be retried
(`AttemptsAnswered`), and the current one has its event in the store exactly
between its append and its end (`CurrentAttempt`). The proofs rest on `InventoryAssumption` and
`DispatcherAssumption` only.

`JobQueueProofs`, for any jobs, executors, filters, attempts and dead-letter
retries: `ExclusiveExecution`, `JobsAreKept`, `AttemptsBoundRuns`, `SuccessOnce`.
"Two executors never hold one job" is not inductive, because a cancelling caller
writes the row back without looking at it. `JobInv` adds that what an executor
holds is in the table with a status `claim_next` does not look for
(`HeldIsTaken`), that ids match and tables are disjoint, and that an executor's
count of attempts is never behind its handler's runs (`RunsCounted`).

`PostgresEventStoreProofs`, for any streams, calls, batches, tries and broken
connections: `WholeStreams`, `RepliesAreTrue` and
`LogRefinement` (the several round trips implement `EventLog`; COMMIT is the
abstract append, everything else a stutter). `StoreInv` needs what open
transactions hold: the first rows of their batch (`OpenRows`), which continue
the stream as committed once the first INSERT got through (`OpenFollows`), and
one transaction per stream is past that point (`OneWriter`), since it holds the
key the next one would need.

`RedisStreamsProofs`, for any instances, names, restarts, batch sizes and lost
replies: `RedeliveryAppliesOnce`. `RedisInv` adds that entries carry increasing
numbers, that an entry is pending with one consumer for ever (`Owned`: nothing
is acknowledged and no consumer claims another's), and that every number in a
row came from an entry of a consumer whose cursor, while it runs, is past it
(`RowsHaveOwners`).

`OrderFlowsProofs`, for any orders, invoices, purchase orders, lines, amounts
and any `MaxU64`: `InvoicesNeverOverpaid`, `ReportsAgree`,
`RowsFollowAggregates`, `AnsweredOrdersComplete`. A row says nothing by itself
about the envelopes that will change it, so `FlowInv` says that each stream has
a history of rows, from no row to what the aggregate folds to, that every
envelope on its way takes one row of it to the next (`Followed`), and that the
row of a projection that began with event 1 is the history's row at its cursor.
`InvoiceModelsAgree` holds without that condition for another reason: an invoice
read from a later event on has no total, so nothing is outstanding in either
report (`LateHasNoTotal`); elsewhere the two amounts of a payment fit the row
before it (`AddsUp`). `RoutesAdd` embeds the lines a route has added so far into
the lines of its order, also when the publication of one of them failed. That the saga changes nothing is part of the proof
(`SagaTurnKeeps`). The history is an unbounded quantifier, which TLC does not
evaluate; the other conjuncts were checked on the instance of `order_flows`.
`BalancesBalance` is about the sum of the account balances: `LedgerInv` says
that they are integers that add up to zero and that every entry on its way to
the loop is one `handle_post` accepts; applying an entry moves the sum by its
debits less its credits (`LineMovesSum`, `PostingMovesSum`). `FlowTypes` adds the
balances to the types `FlowInv` has.

`ReportsProofs`, for any finite sets of invoices, items and customers, any
`MaxU64` and `MaxI64`: `ReportTypes`, `RowsExact`, `CountsAreExact` and
`ReceivablesAreOne`. The valuation goes item by item (`ValuationInv`). There is
a list of levels, the stock after each event of the stream (`Levels`), none of
them negative. A row that began with event 1 shows the level at its cursor
(`Shown`), the rows that `apply_envelope` and `set_unit_cost` hold between
their read and their write are the row itself as long as nothing raced
(`Fresh`), and while nothing was applied there is no row, so no cost is being
set (`Places`). The receivables cannot go invoice by invoice, since invoices
share a customer's account. `ReceivablesInv` gives each invoice its history: the
states it went through, each decided on the one before and none paid beyond its
total (`IsHistory`, `Sound`). `Reflects` relates the accounts to one state per
invoice: the mapping knows total and paid of each, the count of an account is
the number of its open invoices unless one of them was paid and then voided, and,
while all totals together fit a u64, an account owes the sum of what is due on its
invoices and the accounts together the sum over all of them. An event of one
invoice keeps `Reflects` with that invoice one state further (`OneEvent`), a
registration before the first event keeps it (`RegisteredReflects`), and a
rebuild reaches it from nothing, stream after stream in whatever order
(`StreamReflects`, `RebuildReflects`). The invariant is that the accounts reflect
the states at the cursors, once every stream was begun at event 1. The
condition on the totals is needed: `+=` wraps in a release build, and a wrapped
account is not the sum of its invoices.

Sums, folds and rebuilds need induction. Its principle is proved here from the
library's fact that a nonempty set of numbers has a least member (`LeastNumber`,
`Climbing`, `Hereditary` and the lemmas after them): a fold over a list is the
last of a function on its places (`FoldStages`), a sum the last of a function on the
subsets (`SumUnfolds`), and a fact about either is a set of places or
subsets that has the first and with each the next.

`DesktopSyncProofs`, for any finite set of commands, tenants, retries, faults:
`SyncedMeansApplied`, `NoSilentRepeat`, `AcceptedStays`. `SyncInv` follows a
command nobody has a reason to excuse: at most one actor has it (`OneHolder`),
on a list that names it once (`ListsAreSound`), and it is not applied before that
actor's post succeeds (`FreshUntilAccepted`).

`MasterDataProofs`, for any products, parties, users, roles and token lifetime:
`DirectoriesAreFolds`, `LostPowerExpires`, `ExplanationsAreTrue`,
`KindIsGuarded`. `MasterInv` has the same kind of history of
rows (`Followed`), a directory's place in it (`CursorFollows`), the kind a listed
party shows (`KindShown`), and for tokens that they carry what their user still
has or the user lost something since they were issued (`TokensTold`). `GuardInv`
carries what the kind guard told a request to its dispatch: a registered party
keeps its kind, so what was true when the directory was asked still is.

Assumptions. Besides the types of the constants: commands of the desktop are a
finite set of numbers, in the order of their creation; ids of different kinds of
aggregate differ (they are UUIDs, invoices and items too), the default ledger's
is none of the others, the accounts, invoices and customers of an instance are
finite sets, and the administrator who bootstraps tokens is no user of the
model; each kind of absent value is no value of its type. TLC evaluates all of them on the runs'
instances. The bounds of the models (`MaxEvents`, `MaxQueued` and the like) are
any natural numbers in the proofs.

What the proofs found. The row functions of users, receivables and the replayed
stock had CASE arms that overlap, which TLC resolves and TLA+ does not; they are
IF and ELSE now, in the order of the code's match arms. `CanIssue` names the
lower bound of a total too, which every sum of cut line totals meets: seeing it
from the fold would take one more induction. No proof contradicted a run.

Only model-checked:

* liveness (`ReadModelCatchesUp`, `InsightFollows`, `EveryJobSettles`,
  `CallsReturn`, `EveryEntryReceived`, `CatchesUp`, `ReplayEnds`): fairness and ENABLED are beyond the prover;
* `RebuildRestores`: what a replay folds pages of a growing store into;
* `ConfirmedIsInvoiced`, which is violated.

## Plan

1. Inventory write path and read model, with proofs (done).
2. Background jobs, with proofs (done).
3. PostgreSQL event store: transactions and the unique index; refines
   `EventLog`, proved (done).
4. Redis Streams bus with a projection behind it: batches, pending entries,
   claims, dead letters, restart; `AppliedOnce` proved (done).
5. Sales orders, invoices, ledger and purchase orders behind their routes, with
   the saga, with proofs (done).
6. Projection replay beside the live loop (done).
7. Desktop queue, sync and cache against a lossy network, with proofs (done).
8. Products, parties, users and authorization behind their routes, with proofs;
   the reports without a service, with proofs; the anomaly runner (done).
9. Still to do: `RebuildRestores` as a theorem, along the same lines (a page of
   the store is a stretch of each stream, a replay the fold over its pages); and
   action properties of the detailed models that follow from the invariants
   above (a Synced or dead-lettered state is never left, a committed row never
   changes, cursors only advance).

## Not modelled

The statistics of the anomaly detector (floating point, beyond TLC); the later
reactions of the saga, which no event reaches; `rebuild_from_scratch` of the
sales, purchase, invoice and ledger read models as actions of their own (the
clear and fold that `ProjectionReplay` models for stock); `events/src/runner.rs`
and `workers/projection_worker.rs`, which repeat the service loop and are used
by no service; `store_snapshot` (no caller); failing statements of `PostgresTenantStore`, which are only
logged; queries over the event store and the live event stream of the API (they
change no state); the desktop frontend (user interface); identifiers and tracing
(no behaviour); Redis Pub/Sub (no state, no user).
