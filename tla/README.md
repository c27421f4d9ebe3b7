# Verification of the inventory platform

TLA+ models of the inventory platform, checked with TLC and proved with TLAPS: its
backend (FastAPI over Supabase and PostgreSQL, with RabbitMQ and Redis beside it), its
web client (React) and the stock list of its iOS app. The models are translations of
the code under `src/`; paths below are relative to the repository.

## 1. The system

| Component | Code | State it keeps | Operations |
|---|---|---|---|
| REST inventory handlers | `backend/app/api/routes/inventory.py`, `infrastructure/audit_helper.py` | the tables `inventory_items`, `inventory_transactions`, `audit_logs`; per running handler, what it has read | issue, restock, transfer, rollback, create, delete, list, get |
| Transaction service | `application/services/inventory_service.py`, `repositories/*.py`, `infrastructure/database/session.py` | the same tables through one SQLAlchemy session per request: row locks, identity map, uncommitted writes | issue, restock, transfer, rollback, create |
| Alert engine | `application/services/alert_engine.py` | the table `alerts`; an in-process dedup table with expiry times | record a change, evaluate the stock condition, notify |
| Alert routes | `api/routes/alerts.py` | `alerts.status` | acknowledge, resolve |
| Publisher and alert worker | `infrastructure/queue/publisher.py`, `workers/alert_worker.py` | durable queues, dead letters, idempotency and dedup keys in Redis | publish, consume, retry |
| Cache and rate limiter | `infrastructure/cache/redis_client.py`, `services/analytics_service.py` | Redis keys with a TTL | get, set, invalidate, count |
| Webhook engine | `infrastructure/webhooks/webhook_engine.py` | `webhook_deliveries` | deliver, compute the next retry; no caller |
| Authentication and roles | `auth/service.py`, `auth/jwt_handler.py`, `api/routes/auth.py` | `app_metadata` of the Supabase users, custom roles; claims inside issued tokens | login, assign a role, grant, revoke, invite, delete, bootstrap |
| Warehouse and bus routes | `api/routes/warehouses.py`, `buses.py` | one table each | create, update, list |
| Audit, analytics, health | `api/routes/audit.py`, `analytics.py`, `health.py` | none of their own | read |
| Web: stock pages | `web/src/pages/InventoryPage.tsx`, `WarehouseDetailPage.tsx`, `hooks/`, `components/ui/Modal.tsx` | the query cache, the open dialog with the row it was opened on, pending mutations | seven kinds of dialog, poll, invalidate, broadcast |
| Web: sessions and administration | `store/authStore.ts`, `router/index.tsx`, `pages/UsersPage.tsx`, `PermissionsPage.tsx`, `SettingsPage.tsx`, `LoginPage.tsx` | the stored session, its mirror in the store, the page on screen, dialogs | sign in, renew, log out, guard, change roles and permissions |
| Web: record pages | `pages/AlertsPage.tsx`, `BusesPage.tsx`, `WarehousesPage.tsx`, `components/layout/Header.tsx` | the query cache, the bus that waits, the create form | row buttons, filters, forms, the badge |
| Web: read-only pages | `pages/Dashboard.tsx`, `AnalyticsPage.tsx`, `TransactionsPage.tsx`, `AuditLogsPage.tsx` | the query cache | read |
| iOS client | `mobile-ios/BusOpsInventory` | the published item list, the load under way, the issue sheet | load, apply a change, issue |
| Android client | `mobile-android` | the same | the same, with paging |

How they interact. A handler of `routes/inventory.py` talks to the database through
PostgREST: each `await` is one HTTP call that the database executes and commits by
itself, and nothing ties the calls of one request together. After its own writes it
calls the alert engine inline. `InventoryService` does the same operations in one
database transaction with row locks, and publishes an event that the alert worker
consumes; the routes of this commit do not call it (`api/dependencies/services.py`
offers it, and the tests use it). Clients read through Supabase directly, write through
the API, and are told of changes by Supabase Realtime: the web client takes a broadcast
as a reason to fetch again, the mobile clients patch the list they hold with it.

What is hard here:

* *Interleaving.* Handlers read in one call, decide in Python and write in another.
* *Partial failure.* A handler that fails between two calls undoes nothing.
* *Locks.* The service relies on `FOR UPDATE NOWAIT`, on a lock order for transfers,
  and on what SQLAlchemy's identity map keeps across a locked read.
* *Ordering.* The service publishes before it commits.
* *Staleness.* Dedup tables, caches, tokens and client lists are copies, and a dialog
  keeps the row it was opened on.
* *Lost answers.* The web client gives up after 30 s and lets its user try again; the API
  may have done the work, or may still do it.
* *Late answers.* An answer can arrive after the dialog it belongs to was closed, after
  the page was left, after another button was pressed, or after a newer fetch.

`PROJECT.json` lists under `hazards` each of these at its line, with the properties that
would notice it going wrong, or the reason why none does: seven are flaws or omissions of the
code itself, which no property can exclude.

What makes each component correct:

* Handlers and service: quantities never negative; reserved units never given away; no
  unit issued twice; no update lost; every change has its row, every row its change;
  a rollback undoes once, also when it is tried again; the rows of an item read as an
  unbroken account; an audit entry reports what was done to the end.
* Service: every request is answered and leaves no lock.
* Events: an event says what its movement commits, and a refused request announces nothing.
* Alerts: a shortage is reported, and once per window.
* Roles: a grant or a revocation is lost only to an overlapping one; role, permissions and
  `is_superadmin` belong together; a revocation takes effect within the life of a token;
  the last manager of users keeps that right.
* Dialogs: one moves stock once; no button stays disabled for ever.
* Row buttons: the last click stands.
* Lists: what a user was told of is shown; the list on screen catches up with the database,
  and on the phone differs from it only for a reason.

## 2. The modules

| Module | Contents |
|---|---|
| `InventoryApi` | the REST handlers, one action per PostgREST call |
| `InventoryService` | the transaction service, one action per step that others can notice |
| `StockLedger` | the abstract promise: each movement changes quantity and account in one step |
| `LooseLedger` | what is left of it with rollback in use: a reversal rests on earlier readings of the account |
| `AlertEngine` | the inline alerts of the REST handlers and the dedup table of every process |
| `EventPipeline` | the event queue, the alert workers and their Redis keys |
| `EventDelivery` | the abstract promise: an event is in one place, goes back when its worker is lost, and is acknowledged after its alert |
| `ListQuery` | one entry of the web client's query cache, as operators |
| `StockScreens` | the two stock pages: lists, dialogs, requests, polling, broadcasts |
| `WebSession` | sessions, guards and pages of the web client, one tab per browser |
| `AccessControl` | the role handlers and the pages administrators use, on top of `WebSession` |
| `RecordScreens` | the pages with buttons in their rows, and the handlers behind them |
| `MobileStock` | the stock list of the iOS app and the Realtime feed that patches it |
| `M_proofs` for eight of them (all but `StockLedger`, `LooseLedger`, `EventDelivery`, `ListQuery`, `WebSession`) | theorems about `M`, for all constants |
| `MCM` for the same eight | small instances for TLC |

`AccessControl` extends `WebSession`, `StockScreens` and `RecordScreens` extend
`ListQuery`, `LooseLedger` extends `StockLedger`. `InventoryService` instantiates `LooseLedger`,
which brings both promises, and `EventPipeline` `EventDelivery`; both are shown to implement them. The web modules take the API
as one atomic movement per request, because `InventoryApi` has its interleavings; what they
add is that a request may be performed late or never, and that its answer may be lost.

### InventoryApi

State: `rows`, `deleted`, `qty` are `inventory_items` (keys present, keys gone,
quantities); `ledger` and `rolledBack` are `inventory_transactions` (the columns that
never change, and the keys whose status is `ROLLED_BACK`); `audit` is `audit_logs`;
`unrecorded` is a history, the rows that failed handlers owe the ledger, and `earlier` another,
the requests that were over when a request began;
`pc`, `req` and `seen` are a handler's position, its body and the quantities it has
read. Quantities are counted in thousandths, the scale of `NUMERIC(12,3)`; the rounding
of finer amounts is left out.

| Code | Actions |
|---|---|
| `issue_item` | `IssueRead`, `IssueUpdate` (the conditional UPDATE), `InsertTransaction`, `WriteAudit` |
| `restock_item` | `RestockRead`, `RestockUpdate`, `InsertTransaction`, `WriteAudit` |
| `transfer_item` | `TransferReadSource`, `TransferReadDest`, `TransferDebit`, `TransferCredit`, `InsertTransaction`, `InsertInbound`, `WriteAudit` |
| `rollback_transaction` | `RollbackReadTxn`, `RollbackReadItem`, `RollbackUpdate`, `RollbackMark`, `InsertTransaction`, `WriteAudit` |
| `create_item` | `CreateItem`, `WriteAudit` |
| `delete_item` | `DeleteCheck`, `DeleteRow`, `WriteAudit` |
| an exception in any call, the end of the process | `Fail` |

The Python code between two calls belongs to the step of the call before it. The CHECK
constraint (`SetQuantity`) and the foreign key (`Insert`, `DeleteRow`) are those of
`database/schema.sql`. `Uses` says which endpoints clients use on which item, so that
one run can hold an item that is only issued (where the issue path alone must be
enough) beside items on which everything happens.

### InventoryService

State: the committed tables (`rows`, `qty`, `history`, `rolledBack`, `audit`), the
`events` that reached the broker, the row locks `lockedBy`, and per session its `pc`,
its DTO `req` and the quantities `seen` in its identity map; `asOf` is a history, how long the
account was when a rollback found its original not undone. A session's flushed writes
are invisible under READ COMMITTED, so the model applies them at `Commit`.

| Code | Actions |
|---|---|
| `issue_item`, `restock_item` | `IssueItem`, `RestockItem` (lock or refusal, stock check), `PublishEvent`, `Commit` |
| `transfer_item` | `TransferLockFirst`, `TransferLockSecond` in the order of the keys, `Commit` |
| `rollback_transaction` | `ReadOriginal` (status and type, no lock), `LoadItem` (the SELECT of `selectinload`; the item enters the identity map), `LockForRollback`, `Commit` |
| `create_item` | `CreateItem` |
| `get_db` | `Commit`, `Abort`; a lost connection or process is `Crash` |

`get_by_id` is two SELECTs under READ COMMITTED, so that another session may commit between
them: the status may be of one moment and the quantity of a later one. The locked SELECT of a
rollback returns the object the identity map holds already; its
quantity is the one read before the lock (`populate_existing` is not set).

### StockLedger and LooseLedger

The abstract specification: `Issue`, `Restock`, `Transfer`, `Reverse` and `Open` each
change the quantities and append their entries in one indivisible step. It states what
the comments of `domain/models/transaction.py` and `repositories/inventory_repository.py`
promise. `InventoryService` maps `rows, qty, history, rolledBack` to its variables.

There are two promises. `Spec` of `StockLedger` is the strict one, which the service keeps as
long as rollback is not in use. `LooseSpec` of `LooseLedger` replaces `Reverse` by two steps.
Whoever finds an entry not undone may `Claim` it; the holder of a claim may `Undo` the entry
later, posting from some quantity that the item has had since the claim, and uses the claim up.
So an entry is undone a second time only on a claim from before the first, and the status and the
quantity may be of two different moments, as the two SELECTs of `get_by_id` allow. The service
keeps this promise with all operations in use, and it says exactly what the stale reads of a
rollback can do: issues, restocks and transfers stay indivisible, whatever rollbacks run beside
them. A session that has read its original and not ended holds a claim (`Claims`).

### AlertEngine

State: `now` is `time.monotonic()`; `dedup` is the table `_dedup` of every server process
(the expiry time of each key, 0 when it is absent) and `boots` how often the process was
started again; `alerts` is the table `alerts`; `lost`, `pc` and `job` are what became of
each call of `record_inventory_change`, where it is, and its arguments. An expired entry
and an absent one are the same to `_dedup_seen`, so the clean-up of a large table needs
no step.

| Code | Actions |
|---|---|
| `record_inventory_change` | `RecordChange`, `InsertChange` (the insert and, when it fails, the evaluation), `NotifyChange` |
| `evaluate_stock_condition` with `_dedup_seen` | `Evaluate`, part of the step after which no `await` comes before it; `InsertCondition`, `NotifyCondition` |
| the server process | `Restart`, which empties its table and ends its calls |

A call begins with any quantity its handler may have left: what handlers do to the stock
is `InventoryApi`. `NotifyOnEveryChange` is the setting of that name.

### EventPipeline

State: `payload` and `born` say what was published and when; `ready`, `unacked`, `acked`,
`dead` are where each message is (in `alerts.queue`, prefetched by a worker, settled, or
gone); `pc`, `hand` and `cut` are where a worker is, the message it handles, and whether
its connection has gone meanwhile; `done` and `dedup` are the Redis keys with their
expiry, `alerts` the table. `redis` is how Redis serves the workers: `sound`, `flaky` (any
call may fail, which `RedisClient` turns into None or nothing), or `none` (the process
never called `redis_client.connect()`, the case of `python -m app.workers.alert_worker`).
`interrupted` records which messages a fault took from a handler that had not finished.

| Code | Actions |
|---|---|
| `EventPublisher.publish` | `Publish`: queued, or dropped |
| `_declare_queue` | the time to live in `Deliver` and `Expire` |
| `run_alert_worker`, outer loop | `Connect`, and `Leave` inside the steps that end a connection |
| `run_alert_worker`, one message | `Take`, `CheckDone`, `SetDone`, `Ack`, `Reject` |
| `process_inventory_event` | `CheckDedup`, `Insert`, `SetDedup`, one per await |
| RabbitMQ and the hosts (external) | `Deliver`, `Crash`, `Disconnect`, with `TakeBack` of what was not settled |

A worker that loses its connection in the middle of a message finishes the handler, while
the queue hands the message to another: this is the interleaving the two keys are for.
The first exception rejects the message, and leaving the iterator gives the prefetched
ones back.

### EventDelivery

The abstract specification of the pipeline, without clock, Redis, connections and half-handled
events. `where` says in which place an event is: `"queue"`, a worker's name, `"acked"` or
`"dropped"`; `calls` which alert it calls for, if any; `raised` which alerts there are, in their
order. `Publish`, `Leave` (lent to a worker, or expired), `Return` (everything a worker had, but
for one event at most that it gives up), `Raise` and `Acknowledge` are single steps.
`EventPipeline` maps its four sets of messages to `where` (a message in two sets would be in two
places, which no action of `EventDelivery` allows), `payload` to `calls`, `alerts` to `raised`.

### ListQuery

One entry of React Query's cache with the options of `main.tsx`: its data, the request under
way, and whether it counts as out of date. `Ask`, `Polled`, `Mounted`, `Invalidated`,
`Answered` and `Arrived` are what the library does to an entry, modelled from how the pages use
it. Two of its rules matter: a poll or a mount joins a request that runs, and only an
invalidation restarts one, provided there is data to fall back on.

### StockScreens

State: `rows`, `stock`, `moved`, `version` are the database as one user sees it from outside;
`cache`, `view` and `visit` are the lists, the one on screen and how often a page was mounted;
`dialog` is the open dialog with the row it was opened on; `requests` is what was sent and is
not settled on both sides. `committed`, `unsure`, `acked`, `late` and `behind` are histories.

| Code | Actions |
|---|---|
| `useQuery` of the two pages | `Poll`, `Read`, `Arrive`, `FailFetch`, `ChangeList`, `Navigate` |
| `useRealtimeInventory` | `Broadcast` |
| the buttons of a row, the header, `useDialog` | `OpenRow`, `OpenAdd`, `CloseDialog` |
| the dialogs of `InventoryPage` | `IssueModal`, `RestockModal`, `AddItemModal`, `TransferModal`, `WriteOffDialog`, `DeleteDialog` |
| the dialogs of `WarehouseDetailPage` | `BusAssignModal`, `WarehouseTransferModal`, `DropStockDialog`, `WarehouseDeleteDialog` |
| the API | `Perform`, `Refuse`, and `OtherUserMoves` for everybody else |
| `onSuccess`, `onError`, the client's timeout | `Succeed`, `Fail`, `GiveUp` |

### WebSession and AccessControl

`WebSession`: `session` is what supabase-js keeps in local storage (a token carries the
metadata its user had when it was issued, and a time to expire), `signedIn` its mirror in
`useAuthStore`, `page` what the router shows. `AccessControl`: `users` and `customs` are the
metadata and the custom roles (a permission `*` grants all), `shown` the cached lists of each browser, `local` the dialog and
the mutation of its page, `requests` what is under way. `lastManaged` is a history, and so is `excused` of a request:
whether a bootstrap found no SuperAdmin, or more users than the page it looks at.

| Code | Actions |
|---|---|
| `LoginPage`, `initAuth`, `onAuthStateChange`, `RouteGuard` | `Login`, `Register`, `Renew`, `ReloadPage`, `LogOutButton`, `OpenPage` |
| `list_users`, `list_roles` | `ListUsers`, `ListRoles` |
| `UsersPage` | `RoleSelect`, `HandleDeleteUser`, `InviteUserModal`, `EditPermissionsModal`, `EditPhoneModal` |
| `PermissionsPage`, `SettingsPage` | `CreateRoleModal`, `RoleCardDelete`, `SettingsPage` |
| `get_current_user`, `require_permission`, the handlers' own checks | `Deny`, `Refuse`, `Begin` |
| `assign_role`, `update_user_permissions`, `update_profile` | `ReadUser` (all metadata), `WriteUser` (all metadata), `Break` between them |
| `create_user`, `delete_user`, the custom roles | `CreateUser`, `DeleteUser`, `CreateCustomRole`, `DeleteCustomRole` |
| `bootstrap_admin` | `BootstrapAdmin` (looks at one page of users, `PageSize`; which ones, the code does not say) |
| the page's `onSuccess`, `onError`, the timeout, the 401 of `api.ts` | `Succeed`, `Fail`, `GiveUp`, `Unauthorized` |

### RecordScreens

State: `status` of every alert, bus and warehouse; `cache` of every list (the four filters of
the alerts, the badge, the two others); `pendingBusId`; `form`; `requests`. `clicked`,
`excused` and `resolvedAt` are histories.

| Code | Actions |
|---|---|
| `AlertsPage`, `Header` | `AlertButton`, `FilterChips`, `Poll`, `Broadcast` |
| `BusesPage` | `BusButton`, `OpenForm`, `CreateBusModal` |
| `WarehousesPage` | `WarehouseButton`, `OpenForm`, `CreateWarehouseModal` |
| `alerts.py`, `buses.py`, `warehouses.py` | `Perform` (one unconditional UPDATE, or INSERT), `Refuse`; `OtherUser` |
| `onSuccess`, `onError`, `onSettled`, the timeout | `Succeed`, `Fail`, `GiveUp` |

### MobileStock

State: `published` is what the database's replication is set to publish, `rows` and `changes`
the table, in which the n-th change writes n; `events` and `channel` the Realtime feed; `items`
the entries the app's list has of each item, so that a doubled item could be seen; `load` the
load under way; `sheet` and `calls` the issue sheet and what it sent. `overtaken` and `excused`
are histories.

| Code | Actions |
|---|---|
| `InventoryRepository.fetchItems`, `InventoryViewModel.load` | `Refresh`, `Read`, `Arrive`, `LoadFails` |
| `InventoryRepository.applyChange` | `Receive` (with `Patched`) |
| Supabase Realtime, `RealtimeManager` | `Connect`, `Disconnect`, `Lose` |
| `InventoryViewModel.select`, `issueItem`, `IssueItemSheet` | `Select`, `Dismiss`, `Confirm`, `Answer` |
| the API | `Create`, `Update`, `Delete`, `Perform` |

`Told` holds the two ways a change fails to reach the list while the channel is up: its kind is
not published (`docs/inventory/supabase-setup.md` publishes updates only), or its record does
not decode, because `InventoryItem.quantity` is an `Int` and the column has decimals
(`Fractional`). A list with such a row does not decode either, so `Arrive` excludes it.

## 3. The runs

| Run | Question | Bounds |
|---|---|---|
| `api_full` | what survives all interleavings and failures of the handlers; whether rows and failed inserts account for the stock of an item that is only issued; whether a rollback tried again is refused, and an audit entry means a whole movement | 3 requests, 4 items of different use, amount 1, stock 2: two racing requests and one that follows (or that rolls back); 1.5 million states |
| `svc_ledger` | does the service implement `StockLedger`, so that the account is unbroken | 3 sessions, 2 items of which one is created on the way, amounts 1 and 2, stock 3; rollback not in use |
| `svc_full` | freshness of locked reads, truth of events, every request ends, the promise of `LooseLedger` beside rollbacks | 3 sessions, 2 items, all operations but creation, fair scheduling; 88 thousand states |
| `api_lost_update` | "to prevent lost updates" | 2 requests, 1 item: violated |
| `alerts_full` | once per window, and no silence without a reason | 3 calls, 2 processes that restart once, 1 item that runs out, runs low or has enough, window 2, clock up to 3; 3.4 million states |
| `pipeline_full` | does the pipeline implement `EventDelivery` (nothing lost or doubled, an alert before the acknowledgement), does an event alert once | 2 workers, 2 events of one shortage (or none), 1 fault, Redis sound or flaky, message and idempotency key live 2 ticks, dedup key 1, clock up to 3; 1.3 million states up to symmetry |
| `pipeline_settles` | every event is settled in the end | 1 worker, 2 events, 1 fault, flaky Redis |
| `pipeline_flood` | "so we don't flood operators" | 1 worker without Redis, 2 events, no fault: violated |
| `screens_full` | a dialog moves stock once; no list hides what its user was told; the list on screen catches up; every confirmation ends | 3 items (one with all dialogs that move stock, one to delete, one to add), 3 lists on 2 pages, 2 dialogs, 2 further events, 1 abandoned request the API still performs; 0.5 million states |
| `access_full` | role and permissions stay whole, writes are lost to overlaps only, a revocation takes effect, the last manager stays, rights come from managers only | 9 plans of who may do what to whom, 4 users, 2 browsers, 2 requests, 1 custom role, 3 users to the page the bootstrap looks at, a clock that passes the end of the first tokens; 0.4 million states |
| `records_full` | the last click stands, a button comes back, only a stale click reopens an alert, the lists on screen catch up | 8 small worlds of 1 alert, 2 buses and 2 warehouses, 2 to 4 events each, 1 abandoned request; 0.5 million states |
| `phone_full` | no item is listed twice, and a difference from the table has a reason | 2 items, 4 changes of which one writes a fraction, 2 loads, 2 issues, all events or updates only; 1.3 million states |

Every bound is small because requests are short: no property relates more than two
movements of one item and a third request that comes in between, and amounts only matter
through "enough or not". A request slot is used once, so no counter is unbounded. In
`alerts_full` the clock passes one whole window, so that a key is found valid, found
expired, and lost with its process; three calls are two that share a window and one that
follows, or two rivals and one in the other process. In `pipeline_full` two workers and
one fault are enough for a message to be handled twice at once, and two events for one
to be suppressed by the other or prefetched behind it; the clock goes one tick past the
life of a message and of the keys, and the order of the three lives is that of the code
(24 h, 24 h, 1 h). Prefetch is as large as the number of events, as in the code 10 is
more than a worker handles at once. Requests end and events run out, hence
`CHECK_DEADLOCK FALSE`. The runs of `InventoryApi` and `svc_ledger` use symmetry in the
requests, `pipeline_full` in the workers and the events, `phone_full` in the items; the runs with a
liveness property do not.

In the web modules what bounds a run is a budget of events that clicks, other users, failed
fetches and changes of page share. A dialog can be confirmed twice, which is what losing an
answer leads to; two dialogs can overlap; a fetch can be overtaken by an invalidation and by a
change of list. `AccessControl` and `RecordScreens` draw a plan at the start, because their
cases do not mix: two administrators who write the same user, a role changed while a session is
renewed or signed out, a platform without an administrator. Two requests suffice, since each
property relates one write to what fell between its read and it. In `phone_full` the four
changes and two loads let a load be overtaken and the item be heard of again, or not.

Fairness (`svc_full`): weak fairness of each session's own continuation. The event loop
resumes a coroutine whose call has returned, and no call waits for another session,
because a busy row is refused at once (`NOWAIT`). Crashes and new requests are not fair.

Fairness (`pipeline_settles`): weak fairness of each worker, which includes its outer
loop (every exception is caught, and it connects again), the broker's delivery to it,
and of the broker's expiry. One part is an assumption about operation, not about code:
that a worker process which ended is started again (the repository says only that it
"runs as a separate process" and deploys none). A call the worker awaits is answered or
fails: Redis has `socket_timeout`, the database and the broker end the connection.
Publishing, faults and the clock are not fair: the clock may stand still, so expiry is
no way out.

Fairness (`screens_full`, `records_full`): weak fairness of the poll of every list on screen
(`refetchInterval`; the browser is online and the tab in front), of each fetch's two halves
(PostgREST answers, and the answer arrives), and of the answer to a request, which comes with
the 30 s timeout of `api.ts` if not before. The user, the API, the other users and the channel
owe nothing: a request may never be performed, a fetch may fail as often as the bounds allow.
The lists catch up on the premise that broadcasts cease, because each one restarts the
request of the list on screen.

### Violated claims

* `restock_item`, `transfer_item` and `rollback_transaction` of the REST layer write a
  quantity computed from an earlier read without a condition: an update in between is
  lost (`api_lost_update`, `NoLostUpdate`).
* A worker started as its own process never connects Redis, so no alert is ever
  suppressed (`pipeline_flood`, `RepeatsAWindowApart`).

TLC refutes four more claims, which the modules state and no run repeats:

* The quantity is written before the transaction row, by another call: a failure in
  between leaves a change without a record (`ChangesAreRecorded` of `InventoryApi`).
* The status is checked and set in different calls: two rollbacks of one transaction
  both take effect (`RolledBackOnce` of `InventoryApi`). They have to overlap, or the first has to
  fail between its update and its mark, in which case a retry reverses the stock again;
  `RetriedRollbackRefused` shows that there is no third way.
* The alert engine records the key of a shortage before it inserts the alert; a failed
  insert silences the shortage for a whole window (`SuppressedIsDuplicate` of `AlertEngine`).
* A 401 that answers an old request signs out a session that has been renewed since
  (`api.ts:31`, `LoggedOutMeansExpired` of `AccessControl`).

`LedgerUnbroken` holds without rollback (`LedgerStaysUnbroken`). With it, it does not: the
service's rollback uses a quantity it read before its lock. What holds then is
`ImplementsLooseLedger`, and `AccountBrokenOnlyByRollback`: a row that does not continue the row
before it is the compensating row of a rollback.

### Divergences no run is about

Backend. A compensating row keeps the type
of its original, so the type does not give the direction (`transaction.py:55`); a REST
transfer of an item to itself sets the quantity to the larger value
(`routes/inventory.py:347`); `delete_item` deletes the row although `base.py:31` speaks
of soft deletes; the service's transfer writes no audit entry; the warehouse of a
transfer's destination item is never compared with the one the body names; the REST
rollback of a restock ignores what is reserved; a busy row is refused at once, so of
concurrent issues fewer may succeed than stock allows, while
`tests/concurrency/test_concurrent_issue.py:89` counts on "exactly 10" of 20; the worker
has no "exponential backoff retry" (`alert_worker.py:7`): the first failure rejects; no
queue is bound to the dead-letter exchange, so a rejected event is gone; the worker builds
`Alert(metadata=...)` although the column's attribute is `alert_metadata`, so the payload is
not stored.

The alert routes never look at the status they overwrite. The API turns a low-stock
threshold of 0 into the default. Nothing calls `invalidate_item_cache`, although
`redis_client.py` documents the invalidation, and nothing calls `rate_limit_check`, whose
window would not slide: every request re-arms its expiry. `create` handlers rely on
`.insert(...).select()`, which not every version of the client library has.

Web. A write-off sends the quantity of the row its dialog was opened on while the dialog says
"Stock will be set to zero" (`InventoryPage.tsx:637` and `:696`). The pages advise to write off
the stock of an item before it is deleted (`InventoryPage.tsx:676`, `WarehouseDetailPage.tsx:318`,
`routes/inventory.py:440`), but a write-off adds a row and an item with a row is never deleted.
The key `["transactions", item.id]` is invalidated by no mutation, nor is `["warehouse", id]` by
the toggles of the warehouse page; `listWarehouses` ignores its argument. The store's
`hasPermission` does not read `extra_permissions`, which the API counts; guards decide when a
page is mounted and not again; a sign-out keeps the query cache. The users page offers no custom
roles (`ROLES` lists the system's), its role select stays enabled while a change is pending, and
deleting a custom role leaves its permissions with those who have it. The dialogs let an empty
phone through, which the API answers with 422. "First user" of the bootstrap is whichever
`list_users` returns first, and "disabled automatically once any SuperAdmin already exists"
(`routes/auth.py:267`) holds only up to 100 users: it looks at the first page (272), and with a
SuperAdmin beyond it an anonymous call makes another one. The mutations of `AlertsPage` report no error.

Mobile. "Items list updates instantly" (`docs/architecture.md:53`) and "patches in-memory list,
no re-fetch" (`InventoryRepository.swift:48`) do not hold against a load that was answered
before a change and arrives after its event; `DifferenceExplained` says exactly where the list
may be wrong, and until when. `docs/inventory/supabase-setup.md` publishes updates of
`inventory_items` only, so that inserts and deletes never reach a phone. `issue_item` answers
with `transaction_id` and `status`; `Transaction` does not decode from that, so that a successful
issue looks like a failed one: the sheet stays open and confirming again issues again. A list that
is pulled down replaces itself with a spinner, which ends the task that reloads it. Nobody sets
`onAlertChange`. On Android the DTO takes whole quantities only while the column has decimals, a
search narrows the stored list and clearing it does not bring the rest back, and a page after the
first is appended to whatever the list holds by then.

## 4. What is proved

The theorems hold for every set of requests, items, users, lists and quantities that meets
the modules' assumptions (`ConstantsAssumption`, `SentinelAssumption`,
`ServiceAssumption`, `EngineAssumption`, `PipelineAssumption`, `StockScreensConstants`,
`WebSessionConstants`, `SentinelsApart`, `AccessControlConstants`, `RecordScreensConstants`,
`MobileStockConstants`, `PlacesAssumption`: types of the constants, distinct lock ranks, a window and a life of a
token of positive length, an idempotency key that lives as long as a message, the system roles
that the code defines, sentinels that are no values). tlapm checks every step.

`InventoryApi_proofs`:

* `TypeCorrect`, `WritesAreValid`: from `Local`, the invariant that says what a handler
  knows of its own work. `PendingWritesValid` alone is not inductive: that a later write
  is not negative follows from the check the handler made on its own copy, which the
  invariant must carry through the steps in between.
* `MarkComesFirst` (`CompensationFollowsMark`), `LegsInOrder` (`InboundHasOutbound`),
  `AuditTellsTheTruth` (`AuditMeansWhole`): from `Recorded`, which ties what
  a handler is about to write to what it has written (`Known`); it needs that rows and
  marks are never taken back (`Grows`).
* `ReservationsHold`: from `Reservations`. Stale reads do not break it, since every
  quantity that is read and found sufficient, and every sum written, is at least the
  reservation.
* `NoUnitTwice`: from `Units`. On an item that is only issued the quantity never rises,
  so a conditional UPDATE that finds the value it read excludes every issue in between.
* `IssuesAccountForTheStock`: from `Chained`. The rows of an item that is only issued, those
  still to be inserted and those that failed handlers never inserted (`unrecorded`) form one
  chain without forks that ends at the stock. The chain is inductive because a conditional UPDATE
  starts at the present quantity, which is its end, and because an insert, or its failure, moves
  a row from one part of the account to another. So a gap in the ledger is always the row of a
  failed handler, and a handler that raises an alert late still judges a quantity the item had.
* `RetriesAreRefused`: from `Retries`: a rollback that has passed the status check found its
  original without a mark, so no reversal of that original by a request that was over by then
  (`earlier`) had marked it, and one that is over marks nothing any more.
* `IssueIsExact`: an action property, from `Local` and the two ways a request can leave
  its conditional UPDATE.

`InventoryService_proofs`:

* `TypeCorrect`, `LockedReadsStayFresh`: from `Own`: a session that is past its locks
  has the rows it names, they exist, and (unless it is a rollback) what it loaded is
  what is committed. No step of another session touches a locked row (`Apart`).
* `LedgerStaysUnbroken`, with rollback not in use: from `Account`.
* `AccountBrokenOnlyByRollback`, for all operations: the same account, with a gap allowed before
  the row of a rollback.
* `EventsTellTheTruth`: from `EventsSent`: the session of an event is about to commit what the
  event says, has committed it, or has failed, and committed rows are never changed.
* `ServiceImplementsLedger`, with rollback not in use: `Commit` is the one step of
  `StockLedger` its operation stands for, `CreateItem` is `Open`, everything else
  stutters.
* `ServiceImplementsLooseLedger`, for all operations: from `Books`. A rollback that
  finds its original not undone takes a claim, and its commit is the step `Undo` on that claim. The
  invariant has to name the quantity it posts from: a rollback that has loaded the item knows
  its original (`Knows`), and an entry of the account no older than its claim (`asOf`) whose
  `after` is the quantity it holds (`SawAfter`). It knew that when it loaded, since the account ends at the quantity
  (`AccountBrokenOnlyByRollback`), and no later row takes it back.

`AlertEngine_proofs`:

* `TypeCorrect`, `AlertsOncePerWindow`, `SilenceHasAReason`: from `Table`. Once per window
  is not inductive: that a call may raise an alert follows from the table, so the
  invariant says that every call which decided to alert has its key there until its
  window ends or its process does (`Remembered`), and that every key was put there by
  such a call (`Owed`). `CallOK` says that a running call belongs to the present life of
  its process, which is what lets a restart empty the table.

`EventPipeline_proofs`:

* `TypeCorrect`, `NothingLostOrDoubled`: from `Placed`, which adds to `OnePlace` that a
  worker which is connected and busy holds its message among those delivered to it, and
  that a waiting worker has not been cut off (`Hands`).
* `AcknowledgedMeansAlerted`: from `Answered`: dedup keys, idempotency keys, and workers past
  the insert all presuppose a row (`Told`, `Fulfilled`). The key alone does not say so; the
  order of the four calls does.
* `PipelineImplementsDelivery`: from `Placed`, `Answered` and `Called` (only a shortage comes as
  far as an insert, and every row is about one). `Publish`, `Deliver` and `Expire`, `Ack`,
  `Insert` are each one step of `EventDelivery`; `Reject`, `Crash` and `Disconnect` are `Return`
  of whatever the worker had; the clock, the keys and the rest of the handler stutter. An
  acknowledgement on a lost connection stutters too, and an insert on one is a `Raise` for an
  event that another worker may have settled long ago.
* `AlertsOncePerEvent`: from `Once`. For an event no fault has struck, a row is guarded by a
  worker about to set the key, by the event being dead, or by a key that outlives the
  event (`OnceFor`); this is where `MessageTTL <= DoneTTL` is needed. Both are 24 hours in
  the code, and the key is set after the message was published.
* `OneWorkerSpacesAlerts` and `FaultlessWorkerSpacesAlerts` say where the comment of
  `alert_worker.py:36-38`, which `pipeline_flood` shows violated, does hold. With one worker and a
  sound Redis, two alerts of one condition are a window apart if the event of the first was
  acknowledged and no fault struck its worker; without faults that is all of them. From `Spaced`:
  every alert has left a dedup key that lives to the end of its window, or its worker is about to
  set it, or its event was struck by a fault or given up; a worker about to insert found no key. Each hypothesis is needed: TLC finds
  `RepeatsOfOneWorker` violated with two workers, which may both have read the key before one
  sets it, and without the exception for faults.

`StockScreens_proofs`, from `Screens`:

* `DialogsMoveOnce`: from `Once`. That a dialog has at most one committed movement is not
  inductive; what carries it is that a dialog all of whose answers arrived has at most one
  request, and while it is open nothing was committed for it but what that request will report.
* `ListsShowOwnChanges`: from `Fresh`: an answer on its way is as recent as the last change the
  user was told of, unless an invalidation missed it. It speaks of lists that have data and do not
  count as stale, and excepts those that were loading when the invalidation came and were not
  cancelled by it: a first load, or a request left behind off screen (`Misses`).
* `TypeCorrect` says that stock and amounts stay natural numbers. It does not say that a dialog
  asks for no more than there is: the write-off sends what its row had, and the API decides.

`AccessControl_proofs`, from `Access`:

* `RevocationTakesEffect`: what a token grants its user had when it was issued (`Bounded`), and a
  token lives `TokenTTL`.
* `WritesAreAtomic`: the metadata a handler has read is what the table holds until another
  write overlaps it (`Fresh`).
* `RolesStayWhole`: what a handler is about to write satisfies the property already (`HeldOK`), so
  that also a stale write back keeps it.
* `LastManagerKeeps`: a handler that was let through does not take the right from its own user
  (`BodyOK`), so the last manager loses it only to somebody who has lost it already.
* `RightsComeFromManagers`: the check of `require_permission` is made in the first step of a
  handler and the rights are written in its last, when the one who asked may have lost theirs.
  `HeldOK` carries the check in between: a handler that goes on to change a role, extra
  permissions or an account holds a token that grants `Manage`, and `HeldAuthority` adds that this
  was true of the table less than `TokenTTL` before the token ends. What is left is that no other
  handler adds rights, although all of them write: `update_user_profile` sends no `app_metadata`. A
  bootstrap is excepted only if it found no SuperAdmin among all users, or there were more users
  than its page holds (`BootstrapExcused`); with one page of users the docstring holds.

`RecordScreens_proofs`, from `Clicks`:

* `LastClickWins`: from `Calm`: for a record no other write can reach, what is on its way is what
  was last asked for, and the page that asked still waits, so that its button is disabled.
* `ButtonsComeBack`: from `Single`, for the one marker `pendingBusId`.
* `OnlyStaleClicksReopen`: from `Dated`, which relates what a list shows of an alert to when the
  alert was resolved.

`MobileStock_proofs`, from `IInv`:

* `DifferencesAreExplained` says nothing of an item with an event to come, hence is not inductive.
  `Follows` is: whatever is still to come of an item makes its entry right in the end. The
  published list follows for the items that are not excused, the answer of the load on its way
  for those that were not overtaken. It needs that the feed is in order (`Feed`): an insert comes
  before, a delete after all else of an item, and the last event of an item is what the table has.
* `TypeCorrect` includes that no item is listed twice, which depends on `Patched` alone.

`TypeCorrect` of every module comes from the same invariants.

Only model-checked: the liveness properties (`EveryRequestEnds`, `EveryEventSettles`,
`ListCatchesUp`, `PendingEnds`, `ScreenCatchesUp`), which are out of the prover's reach, and
the violated claims.

## 5. What is not modelled

* The list and get handlers of the API, which only read, and the read-only pages of the web
  client: what they show are lists like those of `ListQuery`, without dialogs.
* The Redis cache and rate limiter, `AnalyticsService` and the webhook engine have no caller, and
  so no behaviour that could go wrong yet. The Redis keys of the alert worker are in
  `EventPipeline`.
* The Android client patches a loaded list as the iOS app does, apart from the differences named
  above; the other screens of both apps load once and keep nothing.
* Of warehouses and buses, the fields besides the active flag and the status; of the web dialogs,
  the fields besides the quantity; signatures, passwords, SMS, e-mail, logging and layout.
* Decimal rounding: quantities count thousandths, finer amounts are left out.
* The web and mobile modules take the API as one step per request. A partial failure of a
  handler under a dialog is a refusal to the page; what it leaves in the tables is
  `InventoryApi`.

`PROJECT.json` gives the status and the reason for every component.

## 6. Plan

1. `InventoryApi`, `InventoryService`, `StockLedger`, their runs and proofs: done.
2. `AlertEngine`, its runs and proofs: done. Left: composing it with `InventoryApi`, so that
   the order of two alerts can be compared with the order of the writes they are about.
3. `EventPipeline`, `EventDelivery`, their runs and proofs: done. Left: the composition with the
   events of `InventoryService`.
4. `StockScreens`, `WebSession` with `AccessControl`, `RecordScreens`, `MobileStock`, their runs
   and proofs: done. Left: the Android list, which shares `Patched`, and `LedgerViews`, the paged
   lists of movements and audit entries with their client-side filters.
5. Theorems left: an abstract specification of `AccessControl` in which a change of a user is one
   step, implemented as long as no two of them overlap; one of the stock dialogs, in which a
   dialog is one movement.
