# Algotrade_backend in TLA+

TLA+ models of the Django/Celery backend in `src/`, the TLC configurations that
check them on small instances, and proofs, checked by TLAPS, that hold for every
value of the constants. The models are written from the code, not from its
documentation; where the two disagree, the disagreement is a *finding* (end of
this file) with a run that exhibits it.

## The system

A multi-user trading backend. Web workers serve REST requests (PostgreSQL at READ
COMMITTED, no `ATOMIC_REQUESTS`, so each statement commits on its own unless code
says `transaction.atomic()`). Celery workers run tasks; `config/settings.py:224-229`
sets no `acks_late`, so a broker message is acknowledged when a task *starts* and
the task of a dead worker is not run again. WebSocket consumers and trading agents
run in processes of their own. Redis is broker and pub/sub bus; the cache of Django is
`LocMemCache` (`config/settings.py:244-249`), a separate one in every process.

| component | state it keeps | operations | talks to |
|---|---|---|---|
| Exchange accounts (`apps/exchanges`) | `ExchangeAccount.last_sync_at`, `Wallet`, `WalletBalance`, `OrderHistory` | `place_order`, `cancel_order`, `sync_exchange_account`, their tasks, `link_bot`/`unlink_bot` and edits of an account, wallet deletion | the exchange through a connector; the audit service from every `post_save` receiver |
| Signals (`apps/signals`) | `Signal.status`, `SignalLog`, `SignalAlert` | `Signal.save` with its state machine, admin forms, `process_expired_signals`, alerts and their acknowledgement | its own receivers; the database |
| Connectors (`apps/connectors`) | `RateLimitState`, sessions, health rows | rate limiting, health-check tasks | the exchange |
| Market data (`apps/market_data`) | `MarketDataConfig.last_sync_at`, snapshots, sync logs, cache entry | historical sync task with retries, live ticks, look-ups through the cache | connectors; receivers that fill the cache |
| Settings and cache (`apps/core`) | `SystemSetting`, `CacheEntry`, Django's cache | cache-aside read, update, two-level get, set and invalidate, refresh task | the cache of its process |
| Message bus (`apps/core/messaging.py`) | in-memory queues, or Redis channels | publish, subscribe, broadcast | agents |
| WebSocket consumers (`apps/core/consumers.py`) | the channels of a connection | connect, disconnect, subscribe, unsubscribe | channel layer |
| Agents of `src/agents` | `AgentStatus`, `AgentMessage` | start, stop, pause, resume, publish, listen, `handle_message` (a heartbeat is written, and never reached) | Redis pub/sub |
| Agents of `apps/agents`, `apps/agent_runtime` | status rows, tasks of one event loop | start, stop, run loops | market data, Redis |
| Accounts (`apps/accounts`) | users with their lock and password, profiles with two-factor, API keys, sessions | registration, failed logins, password change and reset, two-factor, making, revoking and editing keys | its own receivers |
| Instruments (`apps/instruments`) | instrument rows, a JSON metadata column | metadata merge, details sync task, view sets and admin forms | connectors |
| Risk, trading, bots, strategies, backtesting, logging | rows | create, read, update and delete only | - |

### What is hard here

* *Stale reads.* Nothing in the code takes a lock that outlives a statement; most
  writers read a row, compute and write the whole row back.
* *Calls to the outside between database writes*: an answer may be lost, late,
  or fail to validate after the exchange has acted.
* *Retries* of whole tasks, after part of the work has committed.
* *Crashes* of a worker whose message has been acknowledged.
* *An answer that promises less than the code takes from it*: an accepted cancellation may be
  pending still.
* *Writers that go around a check*: `QuerySet.update` past `save()`, full-row
  saves past the acknowledgement rule, the lock and two-factor.
* *Rows that come back*: Django inserts a loaded row that it cannot update, so a save
  undoes a deletion (alerts, API keys, rate-limit rows).
* *Threads without locks*: the in-memory bus and the agents share Python objects.

`PROJECT.json` lists these under `hazards`, each at its line, with the properties
that cover it.

### The state of the commit

The repository is in the middle of a refactoring, and a few files do not parse
(`core/helpers.py:214`, `core/messaging.py:106`, `core/services.py:52`,
`exchanges/helpers.py:141`, `instruments/helpers.py:204`,
`instruments/tasks.py:153`). The models follow the functions' bodies as they are
written, with the obvious reading of such a line (a parameter written
`message_ Dict` is a parameter with that type). Helpers whose bodies at this
commit cannot do what their callers rely on are *parameters* of a model, so that
one module describes both the code as it is and the code once the helper works:

* `Normalized` (ExchangeOrders): `normalize_data_from_source` has no branch for
  `ORDER_HISTORY` or `BALANCE`, so at this commit it is `{}`.
* `AuditOutcomes` (ExchangeOrders): the `AuditService.log_action` that receivers and
  services call does not exist, so at this commit it is `{"raise"}`.
* `PendingLogs` (MarketDataSync): `trigger_historical_sync` inserts a
  `MarketDataSyncLog` without its `end_time`, which is NOT NULL and has no default, so
  at this commit it is `{FALSE}`. (Nor can the app start a task: `tasks.py` and
  `services.py` import each other, and `apps.connectors.service` does not exist.)
* `KeyPreset` (SignalLifecycle): `BaseModel` gives a new object its UUID key before
  its first save, while the migrations create `BigAutoField` keys that the INSERT
  assigns. `SignalLog.save` refuses a row that has a key, so the two behave quite
  differently; the model covers both.

## Modules

| module | models | checked by | proofs |
|---|---|---|---|
| `OrderStatus` | order statuses and the order in which an exchange goes through them | `MCExchangeOrders` | - |
| `OrderMirror` | abstract: what the `OrderHistory` table promises | `MCExchangeOrders` | `ExchangeOrdersProofs` (its consequence `MirrorIsTruthful`) |
| `ExchangeOrders` | one exchange account with every call that works on it | `MCExchangeOrders` | `ExchangeOrdersProofs` |
| `SignalLifecycle` | one signal, its log, its racing edits and the expiry task | `MCSignalLifecycle` | `SignalLifecycleProofs` |
| `MarketDataSync` | one OHLCV config: its snapshots, cache entry, `last_sync_at` and the synchronisations that work on them | `MCMarketDataSync` | `MarketDataSyncProofs` |
| `SettingsCache` | one system setting and the cache entry each process keeps of it | `MCSettingsCache` | `SettingsCacheProofs` |
| `Delivery` | abstract: what a publish/subscribe channel promises its listeners | `MCAgents` | `AgentsProofs` (its consequence `NoneTwice`) |
| `Agents` | one agent of `src/agents`, its objects, threads and messages | `MCAgents` | `AgentsProofs` |
| `UserLogin` | one user's lock and password | `MCServices` | `AccountsProofs` |
| `Registration` | the registrations of one address | `MCServices` | `AccountsProofs` |
| `TwoFactor` | the two-factor columns of one profile | `MCServices` | `AccountsProofs` |
| `ApiKeys` | API keys and the admin forms open on them | `MCServices` | `AccountsProofs` |
| `SignalAlerts` | the alerts of one signal and type | `MCServices` | `ServicesProofs` |
| `RateLimits` | the rate limiter for one account and endpoint | `MCServices` | `ServicesProofs` |
| `Instruments` | one instrument's metadata and its mapping | `MCServices` | `ServicesProofs` |
| `TopicBus` | one topic of the in-memory bus | `MCServices` | `CoreProofs` |
| `SocketGroups` | WebSocket connections and their groups | `MCServices` | `CoreProofs` |

The `MC*` modules hold the values the `.cfg` files need. `MCServices` extends the nine small
services (whose names therefore differ) and lets one of them, chosen at the start, take
all the steps: they share no state, so interleaving them would show nothing more (`ServicesProofs`
proves that each of the nine then behaves by its own specification).
Definitions whose comment says *mutant* are plausible bugs of the
definition after them; `PROJECT.json` says which property each one breaks.

### ExchangeOrders

*State.* `exch`, `changedAt`, `exBal` are the exchange, `clock` is `timezone.now()`;
`hist`, `lastSync`, `wallet`, `bal` are the rows of one account; `place`, `cancel`,
`sync`, `link` are the calls under way, each with a program counter and the values
the call holds in local variables. `late` and `missed` are histories: the orders that changed after
a sync fetched them (or that a first sync did not ask for), and those that a committed sync, or a
cancellation, has left or made out of date. So is `answered`: the orders for which `cancel_order` has had
an answer that validates.

*Steps.* A step ends where a call to the exchange, a transaction, or a statement in
autocommit mode ends, because there another worker may come in. `place_order` is
`PlaceSend` (or `PlaceRefused`), `PlaceWallet` (the `get_or_create`), then
`PlaceCreate` or `PlaceConflict`; `cancel_order` is `CancelSend` (or `CancelRefused`),
`CancelRecord`; `sync_exchange_account` is `SyncLoad`, `SyncBalances`, `SyncOrders`,
`SyncStamp` and `SyncCommit`, or `SyncFails` at any of these, which the task answers
with a retry (`Retried`). Each has a `Crash` step. The environment is
`ExchangeMoves` (orders placed, filled or cancelled on the exchange's own site),
`BalanceMoves`, `Tick`; `LinkLoad`/`LinkSave` are the requests that load the account's row and save all
of it (`link_bot`, `unlink_bot`, PUT and PATCH), and `WalletDelete` the wallet view.

A cancellation deserves a word. An exchange may cancel an order at once, take the cancellation as pending
(`PENDING_CANCEL`, one of `OrderHistory.STATUS_CHOICES`) and then cancel it, fill it or let it be, or
answer and leave the order as it is: `CancelSend` has all of these. `validate_exchange_response` takes any
dictionary for an answer, and `cancel_order` then writes CANCELED without reading a status in it: so
does `CancelRecord`, over whatever the row says by then. REJECTED and EXPIRED are not told from CANCELED, as
nothing in the code does.

*What must hold.* A row never shows a status that its order has not had, but for CANCELED where
`cancel_order` has had an answer; there it may be wrong for good
(the refinement `MirrorSpec`, which implies `RecordTruthful`). A placement that returns has
its row (`PlacedIsRecorded`); a sync is all or nothing although it is retried and
overlaps others (`SyncAllOrNothing`); only placements create rows
(`RowsComeFromPlacement`, the surprising one: a sync never imports an order). `last_sync_at`
is the time of the commit and not of the fetch, so rows need not catch up with the exchange.
`LagIsExplained` says what is left of that: with a working normalisation of orders, a row that is out of
date for a change *older* than `last_sync_at` (one no later sync asks for) is one of `missed`: overtaken by a
sync that committed, out of a first sync's reach, or called CANCELED while it was right (over a FILLED that a
sync had committed, say). Whatever overlapping syncs, retries and stale saves of the account do to
`last_sync_at`, there is no other way to lose a change.

### SignalLifecycle

*State.* `preset` (the kind of key), `row` and `log` (the tables), `edit` (POSTs of the
admin's change form under way: the status posted, and the two statuses a save
reads), and two history variables, `born` and `held`, for the properties.

*Steps.* `Create` is a first save. A save of an existing row is `EditOpen`,
`EditCheck` or `EditRefused` (the check of `save()`), `EditCapture` (the `pre_save`
receiver reads the status again), then `EditWrite` or `EditUnlogged`; `EditLost` is
the death of the process. The admin runs an edit in one transaction, but at READ
COMMITTED each SELECT sees what others have committed, so it needs one step per
SELECT; everything it writes appears at the COMMIT, in one step. `Expire` is the
single UPDATE of `process_expired_signals`. The task raises `NameError` after its
UPDATE (its module has no `logger`), which changes nothing any more.

*Left out* because it cannot change a signal: the admin's bulk actions
(`select_for_update` outside a transaction raises; PENDING to APPROVED is not
allowed; `timezone` is not imported).

*What must hold.* The check of the state machine reads a status without a lock and
the UPDATE writes every column, so a final status is not final. What is left of
the machine is `NoStageSkipped` (every status a signal has had follows another it
has had), `FinalLeftByStaleEdit` (only a stale edit leaves a final status),
`LogTruthful` and `EditsAreLogged`.

### MarketDataSync

*State.* `copies` (how many snapshot rows a candle has: there is no unique key),
`cursor` (`last_sync_at`), `cache` (the cache entry's candle), `log` (the status of each
run's sync log), `run` (the tasks under way, with their local variables), `clock`, and
`undone`, a history variable. A candle is named by the time the source publishes it.

*Steps.* `Trigger` or `TriggerRefused`; then, in the task, `Load` (the config, `since`),
`Fetch` or `FetchFails`, and for each record `Store` (the transaction with the row and the
receiver's cache write), `Recache` (the second cache write, after it) or `Skip` (a record
that raises, or does not normalise or validate); `Finish` (the sync log), `SaveCursor`.
`Fail` is an exception that reaches the task's own handlers and is answered with a
retry, `Crash` the death of the worker. `Cleanup` is `cleanup_old_snapshots_task`.

`StoreUndone` deserves a word. The receiver runs inside the transaction that inserts
the snapshot, and `update_cache_for_config` swallows its exceptions. Django marks a
transaction in which `Model.save` failed for rollback (and PostgreSQL ends one with a
failed statement that way in any case): the `atomic` block ends without the row and
without an exception, and the task goes on as if the record were stored.

*What must hold.* Readers take the cache's word for the latest candle
(`CacheWasStored`); `last_sync_at` decides what is ever fetched again, so it must not
pass a record that a failed attempt has not dealt with (`CursorAccounts`); retries
and overlaps multiply rows, but by no more than the attempts (`OncePerAttempt`).

### SettingsCache

*State.* `row` (the `SystemSetting` row), `cache` (the entry of each process; LocMemCache
shares nothing), `op` (the call each thread is in). Entries and readers carry `why`, a
history of what made them out of date.

*Steps.* `get_system_setting_value` is `GetStart` (the cache), `GetRow` or `GetDefault` (the
query), `Fill` (`cache.set`); a caller's default is cached even with `use_cache=False`,
and a cached None is no entry. `update_system_setting` is `SetFirst`
(`update_or_create`), `SetAgain` (it saves a row it did not create a second time),
`Clear`; or `SetFails`, when the second save raises and the entry stays. `Around` is the
admin and `setup_system_defaults`, which delete no entry; `Expire` the timeout;
`Restart` the end of a process. The `post_save` receiver that should delete the entry is
never connected (its module imports `CacheService` from where it is not), and
`refresh_system_settings_cache_task` writes keys nobody reads.

*What must hold.* A cache-aside read without locks can keep an old value.
`StaleIsExplained` lists all the ways this code can; `StaleHeals` says that each of them
ends with the timeout.

### Agents and Delivery

*State.* `row` is `AgentStatus.state`, `obj` the `BaseAgent` objects (one in a process, shared by its
threads), `thr` the call each thread is in, `post`, `processed` and `sent` the messages published
for the agent: their rows, and the order in which Redis had them. `read` is a
position on that channel; `done` (the position of the last message handed over, and how many were
since the subscription), `why`, `handled` and `cut` are histories.

*Steps.* `Create` is the constructor, which copies the row's state. `Start`, `Stop`, `Pause` and
`Resume` set the state of the object; `SaveRead`, `SaveWrite` and `SaveFails` are `save()`, which reads
that state, shared with other threads, before it writes it. `Subscribe` follows a start:
`pubsub.listen()` never returns, so `start()` reaches neither its heartbeat nor `run()`. `Take` marks
every row with the message's sender and correlation id as processed, and then `Handle` or `HandleRaises` is the
callback. `Log`, `Send`, `SendFails` are `publish`. `Crash` is the death of an object's process at any
point; `Create` may follow.

*What must hold.* The channel that threads make of Redis is a `Delivery`: in order, nothing twice to
one subscription, nothing older than it (`DeliverySpec`, with the mapping
`sent <- sent, upTo <- done`, and joining at `Subscribe`). `processed` says less than its name
(`ProcessedIsAccounted`), but never misses what was handled (`HandledIsMarked`). An agent can say
RUNNING and hear nothing, and `DeafIsExplained` lists the ways; the first is that the row of
an agent whose process died says RUNNING, so that the next `start()` does nothing.

### UserLogin, Registration, TwoFactor, ApiKeys

Each keeps the rows of one user and the calls under way with what they have loaded. A step is a
statement: calls load a row in one, and save it in another, and others come in between.

*UserLogin.* `Fail` and `Reset` are `increment_` and `reset_failed_login_attempts`, which save three
columns (`SaveLock`); `EditProfile`, `Change` and `Confirm` are views that load a user and save every
column (`SaveProfile`, `SavePassword`). Times are in half hours; the lock is for 1, 2 and then
4 of them. The columns of the lock stay in step although updates are lost
(`LockIsEarned`); what a whole-row save undoes is a lock or a newer password, and only if it is
stale (`UndoneByStaleSave`); a reset token is for the hash it was made with, so it is used
once, unless saves overlap (`TokenIsUsedOnce`).

*Registration.* `Validate` compares addresses without case, `InsertUser` with it, so that overlapping
registrations can make two users of one address (`TwinsOverlapped`). The receiver makes the profile
(`Receive`, `ReceiveFails`) and the serializer makes it again (`MakeProfile`), which the primary key
refuses: a registration succeeds only where the receiver failed (`ProfilesAreExplained`).

*TwoFactor.* `Enable` clears the backup codes; `Update` can switch two-factor on through
the profile's serializer, or save an old profile over it, and `AdminForm` posts both columns
(`CodesAreSpent`).

*ApiKeys.* `Revoke` deletes; `OpenForm`, `PostForm` and `SaveForm` are the admin, whose save inserts a row
that has gone in between (`RevokedStaysGone`).

### SignalAlerts, RateLimits, Instruments

*SignalAlerts.* `Acknowledge` and `Edit` load an alert nobody has acknowledged; `SaveAlert` writes all of it,
later. `DeleteUser` sets the `acknowledged_by` of a user's alerts to NULL (`"unsigned"`). `AcknowledgedOnce` says
who can replace an acknowledgement: a request that loaded the alert before it, or who deletes the user.

*RateLimits.* `_check_rate_limit` statement by statement: `Get` and `GetInserts` are `get_or_create`, `Look`
compares the row's window with now, `DeleteRow`, `CreateRow`, `Count` do the rest. The window is an
hour and begins on the hour, so its start is in the past but for one microsecond: `Look` nearly
always takes the row for an old one and starts again at zero. `LimitIsForgotten` says what is left
of the limit. `EditRow` is the view set and the admin form of these rows, which can insert a second row of
the window as well, or any count; more than the limit does nothing that the limit does not. `NextWindow` is a step between calls; a call that runs over the hour holds a
row of the old window, to which nothing else refers.

*Instruments.* `Read` and `SaveMetadata` are the metadata task, `Fetch` and `SaveDetails` the details
task, `TaskFails` their retries. `EditLoads`, `SaveEdit` and `EditFails` are the requests to the two view sets and the
admin forms (the form of an instrument has its mappings inline): they save every column as they loaded it,
but for the columns posted. `LossIsExplained`: a key is lost, or older details come back, only where a request posts
that very column, or a writer saves a row that it had read before another saved it. The second
needs no two tasks: a PATCH of an instrument's name does it.

### TopicBus and SocketGroups

*TopicBus.* Publishers and subscribers are threads that share a dict of lists. A step is a Python
statement. That one statement (`self._queues[topic].append(...)`) looks the list up and then
changes it is taken as one step; separately, the append could reach a list that was just replaced,
which is one more way to lose the message and needs the same replacing publisher.
`Rejects` is a `JSONDecodeError` out of the handler, which ends the loop where any other
exception does not. `OnlyReplacingLoses`: messages are lost, and all loops ended by `pop(0)`, only through
two publishers that both made the list. `BusDelivery`: the subscribers of a topic together are one listener
of a `Delivery`, so what is not lost is taken in order, and by one of them only.

*SocketGroups.* A consumer handles one event at a time, and each `await` of the channel layer may fail,
with or without effect, or be cancelled (`Cut`, `Leaves`). `GroupsAreRemembered`: `self.channels` is what the
channel layer has, but for the groups of such calls; this is what `disconnect` relies on.

## Runs

| run | module, cfg | question | answer |
|---|---|---|---|
| `orders_tasks` | `MCExchangeOrders`, `ExchangeOrdersTasks` | a placement, a cancellation and a retried sync, every outcome of every call, a pending cancellation included | `OrderMirror` implemented (so rows truthful, but for CANCELED after an answer), placements recorded, syncs atomic, tasks end |
| `orders_overlap` | `MCExchangeOrders`, `ExchangeOrdersOverlap` | two overlapping syncs with a placement, a cancellation and a save of the account | only placements make rows, a change is passed over only in the named ways |
| `orders_placed` | `MCExchangeOrders`, `ExchangeOrdersPlaced` | with the helpers as they are, is a placed order recorded? | no (finding) |
| `orders_import` | `MCExchangeOrders`, `ExchangeOrdersImport` | with working helpers, does a sync import an order? | no (finding) |
| `signal_status` | `MCSignalLifecycle`, `SignalLifecycle` | three racing edits and the expiry task, both kinds of key | stages kept, log truthful |
| `signal_log` | `MCSignalLifecycle`, `SignalLifecycleLog` | is every change of status logged? | no (finding) |
| `history_sync` | `MCMarketDataSync`, `MarketDataSync` | two overlapping synchronisations, one retry each, every outcome of every step | cache and `last_sync_at` agree with what was stored |
| `history_cache` | `MCMarketDataSync`, `MarketDataSyncCache` | may a failing cache write be ignored? | no (finding) |
| `settings_cache` | `MCSettingsCache`, `SettingsCache` | two processes, three threads that read and update one setting | staleness has four causes, and heals |
| `agents` | `MCAgents`, `Agents` | two threads call one agent, which may die, while two messages of one conversation come in | flags accounted for, deafness explained, `Delivery` implemented, loops end, listeners keep up |
| `agent_stop` | `MCAgents`, `AgentsStop` | does `stop()` stop the agent? | no (finding) |
| `services` | `MCServices`, `Services` | nine small services with overlapping requests | what is lost, undone or left over has the named causes and no other |

*Bounds.* ExchangeOrders: one order is enough for the order properties, because a row is only
ever written from answers about its own order, and the proofs cover any number; two
syncs show overtaking, and one retry shows both ends of the retry limit; in `orders_overlap`, a clock of
two values tells an old `last_sync_at` from a new one, and `Window = 0` lets a first sync
leave out an order (`LagIsExplained` was also checked with `MaxClock = 3` and `Window = 1`). Each of the two runs
leaves out what its properties do not tell apart: `orders_overlap` the balances and failing audits,
`orders_tasks` the clock, which no status depends on (`MaxClock = 1`); the proofs have both. SignalLifecycle: all eight statuses;
three edits let one edit be overtaken twice between its two reads. MarketDataSync:
two runs overlap at every step, one retry shows both ends of the limit, and two
candles are enough for a record to fail after one is stored; `Keep = 0` makes the first
one old enough for the clean-up while the second is being fetched. SettingsCache: two
threads of one process and one of another interfere in every way a pair can; two values
tell old from new, and the state space needs no bound. Agents: two threads let a stop, a pause or
a second start overlap with the listener; one object that is made anew after each crash shows
every order of death and rebirth; two messages with one correlation id are the case in which a
row is marked for another's sake; `MaxCalls = 2` calls between rebirths let a call follow
another. Services: two requests overlap in every way a pair can; three registrations, two of one spelling, make
two users and refuse a third; `LockAt = 2` (5 in the code) has attempts below, at and above the lock, and
`MaxFails = 3` reaches the longer locks; weights 1 and 2 with `Limit = 1` are an
endpoint that fits and one that never will, and three rows are two of one window and one more inserted
anew; four messages let a list be replaced while it
holds one and another waits. Instruments have two tasks of each kind and one request, which overlaps
each: `UpdateTries = 2` as in the code shows both ends of the retries, `SyncTries = 1` (4 in the code) leaves
them out where they would show the same again.

*Fairness* is assumed in `orders_tasks`, `settings_cache` and `agents`. In the first, only of workers: weak fairness of
`PlaceStep`, `CancelStep` and `SyncStep` says that a worker that holds a task goes on
with it (each step is a bounded call: HTTP requests have time-outs and Celery has no
other reason to stop). Nothing is assumed of the exchange, the clock, users or
crashes. `EveryTaskEnds` counts a lost worker as an end. In the second, weak fairness of
`Continue(t)` says that a call that has begun goes on, and of `Expire(p)` that an entry's
timeout passes; no new call, update or restart is promised. In the third, weak fairness of `Saving(t)`,
`RunEnds(t)` and `Listening(t)` says that a thread goes on with the statement it has come to: nobody is
promised to call, to publish or to crash, and a listener with nothing to take just waits.

*Deadlock* is not checked in runs of a fixed set of calls, which really end, nor in `services`, where
registrations end and a bound may be reached.

## Proofs

The `*Proofs` modules prove, for every value of the constants, all the safety properties
the passing runs check, action properties and both refinements included. What is proved beyond them: the
strengthenings, a third refinement (`BusImplementsDelivery`), consequences of the abstract
specifications, and the composition of the nine services.

*ExchangeOrders.* `RecordTruthful` is not inductive: a row is written from a value that
a call carries. `Truthful` adds that everything a call will still write is
truthful (`PlaceTruthful`, `CancelTruthful`, `SyncTruthful`). It is preserved
because an exchange never takes back a status (`PastGrows`: the past of an order only
grows, and NEW aside an open status tells nothing of the order in which the open ones came), because an
answer to a cancellation is never forgotten (`answered`), which is all that `CancelTruthful` says of a
cancellation about to be recorded, and because each row is written by one of three steps (`HistWriters`). From
it follow `RecordsAreTruthful`, `CallsAreTruthful` and the refinement
`ImplementsMirror`. `PlacementsAreRecorded` needs that no row is ever taken away
(`RowsStay`). `MirrorIsTruthful` proves from `OrderMirror` alone that rows are truthful in this sense: the run of the
tasks therefore checks the refinement and not `RecordTruthful` besides.

`LagsAreExplained` needs the strengthening `LagInv`, since `LagIsExplained` speaks of the past of `last_sync_at` only
through its present value. `LagInv` says (a) that `UpToDate` holds of every time that is `last_sync_at` or may be written to it again (a
sync's `since`, what a request has loaded with the account): an order that changed before it has the right row or is in
`missed`; and that the clock has passed these times and the one a sync is about to write (`at`); (b) that what a sync has fetched is
what the exchange says, or the order is in the sync's `late` (`FetchedNow`). (a) is needed because a
retry or a stale save writes back an *old* time: it was a `last_sync_at` once, but the rows it is read with
are today's (`TimesAreCopied`, `StepKeepsUpToDate`). (b) makes the commit right (`CommitKeepsUpToDate`): an order
that the sync asked for is written as it is, one that it did not ask for changed before its `since`,
for which (a) holds, and everything else is in `late`, of which the commit puts in `missed` what it
leaves out of date. A cancellation that writes over a right row puts it in `missed`, and over a wrong one leaves
(a) as it was. Here the bound of the query matters: with `>` for `>=` an order that changes in
the instant of the last commit is lost without any overlap, which is the mutant of this property.

*SignalLifecycle.* The invariant `Inv` joins `TypeOK`, the three state properties and
`EditsHeld`: what an edit has read is a status the signal has had, and the check it
passed was made from there. The machine's checks are stale but each was true
of *some* status held, and statuses held are never forgotten (`HeldGrows`): this
is why no stage is skipped.

*MarketDataSync.* `Inv` joins `TypeOK`, `CacheWasStored` and `RunAccounts`: what an attempt
has dealt with is stored or left out, and the record at hand is one it may put in
the cache. It is preserved because only the clean-up deletes rows, only of old
candles, and an old candle stays old (`OldStays`, `StoredStays`, `KeptStays`). `OncePerAttempt` counts: the
rows of a candle are at most the attempts begun so far. Its strengthening `CopiesSpent` says that those rows are
also at most the attempts that are past that candle, a finite set of pairs of a run and the
number of an attempt, which grows by one exactly when a candle is stored
(`CopiesPerAttempt`); it needs finitely many runs (`RunsAssumption`).

*SettingsCache.* `StaleIsExplained` is not inductive alone: a reader carries a value
between its query and `cache.set`. `CallsInv` adds that this value is current or that
its reader was overtaken; it holds because each of the three steps that write the row
overtakes every reader (`WriteKeepsInv`), and all others leave the row as it is.

*Agents.* `TypedInv` joins `TypeOK` with the fact that no listener reads past the channel
(`ReadsInv`). `HandledIsMarked` needs that what is in a thread's hand is marked (`Marked`), and holds
because `Take` is the only step that puts something there. `ProcessedIsAccounted` holds because what accounts for a
mark is never forgotten (`ExplanationLasts`), `DeafIsExplained` because each step that makes an agent
deaf is one of the causes (`HearsStep`). `ImplementsDelivery` maps each step that sends, joins or hands over a
message to the step of `Delivery`, and shows that all others leave the channel alone (`ChannelStep`). `NoneTwice` is
a consequence of `Delivery` itself: what a subscription was handed is counted by its place on the channel.

*AccountsProofs.* For the user, `LocksAreEarned` holds for rows because it holds for everything a call has loaded: a save
writes columns that were together in the row at some time. `TokensAreUsedOnce` and `StaleSavesUndo`
add that what a call holds is what the row holds, unless it is marked stale. `TwoFactorInv` says the same of
the two-factor columns, unless they were posted; `KeysInv` that a posted form of a key that is gone was posted before it went.
`RegInv` follows a registration: a user has a profile or a receiver that failed, and stems from a
registration that had validated before there was a user.

*CoreProofs.* `ReplacingLoses`: as long as no list was replaced, some loop still listens (`SomeoneListens`) and every
message that was appended waits, is in a subscriber's hand or was handled (`AllAccounted`).
`BusImplementsDelivery` maps what was appended to `sent`, and what was ever taken (its greatest number and
how many) to `upTo` of a single listener. It needs `InOrder`: what waits is in rising order and after
everything that was taken, of which there is a last one; only `Pop` takes, from the front, and only `PubAppend`
adds, at the back, while a replaced list takes away what was never taken. `BusDelivery` is
stated by this theorem alone; no run lists it. `GroupsRemembered`: what a
consumer remembers and what the layer has agree on all groups that no call left in doubt, and a closing
consumer is in no group it will not leave (`Agrees`).

*ServicesProofs.* For alerts, the invariant (`AlertsInv`) says that a call that is
not stale holds what is current, so that its save undoes nothing. For instruments, `InstrumentsInv` says of each
writer and each row it will save that it was posted the column, or is stale, or covers what the row holds now
(`Covers`: all its keys, details no older); it holds because a save makes stale everyone else who has read
the row (`SaveKeeps`), and the exchange's details only grow newer. `LossExplained` follows, and rests on nothing
about the number of tasks, requests or retries. `LimitsInv` says that without an
overlap and a posted row there is one row of the window at most (`Alone`), and that every call of a window that began late
counts from zero (`FromZero`). Then the nine are put together: `ServicesAreAlone` proves that the
composed specification implies each of the nine (a step of one is a stutter of the others), from
which `ServicesTypeCorrect` and `ServicesKeepTheirPromises` transfer to it all that was proved of each.

Assumed: the named ASSUMEs on the constants, nothing else. Only model-checked: the liveness properties
`EveryTaskEnds`, `StaleHeals`, `StoppedLoopsEnd` and `ListenersKeepUp`, which are out of the prover's reach.

## Findings

1. *A placed order gets no row* (`orders_placed`): after `place_order` the order is live
   on the exchange, but the row cannot be inserted and the call reports failure.
2. *A sync never imports an order* (`orders_import`): `update_or_create` and then
   `bulk_create` insert the same row; the whole sync rolls back.
3. *An expired signal is not logged* (`signal_log`): the expiry task updates the table
   around `save()`.
4. *The optional cache can undo a snapshot* (`history_cache`): see `StoreUndone`.
5. *`stop()` leaves the listener running* (`agent_stop`): it sets the object's state and
   `_running`, which the loop of `subscribe()` never reads; an agent that was stopped goes on to take and mark messages.

## Plan

Everything above is modelled, checked and proved. What is left, in this order:

* `MarketDataSync`: ticks and order books, which share the cache entry with nothing that tells
  them apart, and the deletion of a config while its run is under way.
* `SettingsCache`: the `CacheEntry` table and `CacheService`, the second level of the cache.
* `ExchangeOrders`: the views that create and delete an account during a sync.
* `Instruments`: the creation and deletion of an instrument and its mappings.

## Not modelled, and why

* Live market-data agents (`apps/agents/market_data_agent.py`): `_run_loop` creates its
  tasks and returns, so `asyncio.run` cancels them at once, and the synchronous ORM
  call in their handlers raises in an event loop: nothing they do reaches the database.
* The admin's bulk actions on signals and the connectors' commented-out clients: they
  raise before they change anything, or are not there.
* Registries, encryption, serializers, forms, and apps that are only create, read,
  update and delete (risk, trading, bots, strategies, backtesting, logging): no logic
  of their own that interleaves.
* Sessions (`apps/accounts`): `UserSession.ip_address` may not be NULL and no writer gives it a value, so
  no session row is ever inserted, and the login view raises where it tries.
* Editing an API key through its view: the serializer declares a field that its `Meta.fields` lacks, so
  it raises an `AssertionError`. `verify_api_key` calls a method the model does not have, and
  `create_user_with_profile` passes columns that users lack. The admin form of a user, which can
  write the columns of the lock at will.
* The admin forms of the exchanges app. `OrderHistoryAdmin` lets a person type any status into a row, or delete
  it: no property of a mirror survives that, so it is outside `ExchangeOrders`, whose promises are about the
  program's own writers. The form of an account saves in a transaction in which the `post_save` handler
  raises (its `update_fields` is None), so it rolls back. `sync_account_data` calls a method of the service on its
  class, without an instance, and raises before it does anything.
* `agents.py:297` of the instruments app, which means to write the mapping: it queries the database in
  a coroutine, where Django raises.
* Edits of an endpoint's limit or weight (`RateLimits` has them constant), and the expiry of a WebSocket
  connection from its groups, by default a day after `group_add`, in the channel layer's library: a consumer
  that stays that long is in none of its groups, while `self.channels` still names them.
* `apps/agents` and `apps/agent_runtime` beyond that: `run_agent_task` starts an agent and stops it at
  once. The heartbeat of `src/agents` is never reached, because the listener before it does not return.
* The Redis, RabbitMQ and Celery branches of `core/messaging.py`: the first hands everything to the
  library, the others are stubs. `SimpleRateLimitMiddleware` is not installed in `MIDDLEWARE`.
* `instruments/consumers.py` repeats the shape of core's consumers, and `exchanges/consumers.py` inherits them.
  Watchlists and indicators are single inserts and deletes.
* HTTP, authentication, permissions and the layout of messages.
