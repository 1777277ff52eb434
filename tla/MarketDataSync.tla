-------------------------- MODULE MarketDataSync --------------------------
(***************************************************************************)
(* One OHLCV MarketDataConfig of the market_data app: its snapshots, its   *)
(* cache entry and last_sync_at, and the historical synchronisations that  *)
(* work on them: trigger_historical_sync, the task                         *)
(* fetch_and_store_historical_data_task with its retries, and the clean-up *)
(* of old snapshots.                                                       *)
(*                                                                         *)
(* A candle is named by the time the source publishes it.  A step ends     *)
(* where a call of the source or a transaction ends.                       *)
(*                                                                         *)
(* trigger_historical_sync inserts a MarketDataSyncLog without its         *)
(* end_time, a column that is NOT NULL.  PendingLogs tells whether the     *)
(* database may take such a row.                                           *)
(***************************************************************************)
EXTENDS Integers, FiniteSets

CONSTANTS
  Runs,          \* calls of trigger_historical_sync
  MaxRetries,    \* retries of a task
  MaxClock,      \* bound on the clock
  Day, Keep,     \* what a first run looks back; days_to_keep
  Limit,         \* candles the source returns at most
  PendingLogs    \* subset of BOOLEAN: may a log have no end_time

ASSUME BoundAssumption ==
  /\ MaxRetries \in Nat /\ MaxClock \in Nat \ {0}
  /\ Day \in Nat /\ Keep \in Nat /\ Limit \in Nat
ASSUME RunsAssumption == IsFiniteSet(Runs)
ASSUME LogAssumption == PendingLogs \subseteq BOOLEAN

VARIABLES
  clock,    \* timezone.now()
  copies,   \* number of MarketDataSnapshot rows of each candle
  cursor,   \* MarketDataConfig.last_sync_at, 0 for null
  cache,    \* MarketDataCache.latest_snapshot, 0 for {}
  log,      \* status of each run's MarketDataSyncLog, or "NONE"
  undone,   \* history: candles whose row was rolled back unnoticed
  run       \* the runs under way

database == <<copies, cursor, cache, log>>
vars == <<clock, database, undone, run>>

Candles == 1..MaxClock
Done == {"ok", "error", "lost", "refused"}
Blank(pc, tries) == [pc |-> pc, tries |-> tries, since |-> 0, raw |-> {}, todo |-> {},
                     skipped |-> {}, cur |-> 0, counted |-> FALSE, end |-> 0]

RunStates ==
  [pc : {"idle", "load", "fetch", "store", "recache", "cursor"} \cup Done,
   tries : 0..MaxRetries,
   since : (0 - Day)..MaxClock,  \* since_timestamp
   raw : SUBSET Candles,         \* raw_data
   todo : SUBSET Candles,        \* what the loop has not come to
   skipped : SUBSET Candles,     \* history: records this attempt gave no row
   cur : 0..MaxClock,            \* the record at hand
   counted : BOOLEAN,            \* records_synced_count > 0
   end : 0..MaxClock]            \* end_time

TypeOK ==
  /\ clock \in 1..MaxClock
  /\ copies \in [Candles -> Nat]
  /\ cursor \in 0..MaxClock
  /\ cache \in 0..MaxClock
  /\ log \in [Runs -> {"NONE", "PENDING", "SUCCESS", "PARTIAL", "FAILED"}]
  /\ undone \in SUBSET Candles
  /\ run \in [Runs -> RunStates]

\* A new config: its post_save handler has made an empty cache entry.
Init ==
  /\ clock = 1
  /\ copies = [t \in Candles |-> 0]
  /\ cursor = 0 /\ cache = 0
  /\ log = [r \in Runs |-> "NONE"] /\ undone = {}
  /\ run = [r \in Runs |-> Blank("idle", 0)]

-----------------------------------------------------------------------------
(* Time                                                                    *)

\* The source publishes a candle.
Tick ==
  /\ clock < MaxClock
  /\ clock' = clock + 1
  /\ UNCHANGED <<database, undone, run>>

\* A candle so old that the clean-up may have deleted it.
Old(t) == t < clock - Keep

\* cleanup_old_snapshots_task; cache entries stay.
Cleanup ==
  /\ \E t \in Candles : Old(t) /\ copies[t] > 0
  /\ copies' = [t \in Candles |-> IF Old(t) THEN 0 ELSE copies[t]]
  /\ UNCHANGED <<clock, cursor, cache, log, run, undone>>

-----------------------------------------------------------------------------
(* trigger_historical_sync                                                 *)

TriggerRefused(r) ==
  /\ run[r].pc = "idle"
  /\ FALSE \in PendingLogs
  /\ run' = [run EXCEPT ![r].pc = "refused"]
  /\ UNCHANGED <<clock, database, undone>>

\* The log is inserted; then the broker may refuse the task.
Trigger(r) ==
  /\ run[r].pc = "idle"
  /\ TRUE \in PendingLogs
  /\ log' = [log EXCEPT ![r] = "PENDING"]
  /\ \E pc \in {"load", "refused"} : run' = [run EXCEPT ![r].pc = pc]
  /\ UNCHANGED <<clock, copies, cursor, cache, undone>>

-----------------------------------------------------------------------------
(* fetch_and_store_historical_data_task                                    *)

Load(r) ==
  /\ run[r].pc = "load"
  /\ run' = [run EXCEPT ![r].pc = "fetch",
                        ![r].since = IF cursor = 0 THEN clock - Day ELSE cursor]
  /\ UNCHANGED <<clock, database, undone>>

\* The first Limit candles published from a time on.
Published(since) == {t \in Candles : since <= t /\ t <= clock}
Fetched(since) ==
  {t \in Published(since) : Cardinality({u \in Published(since) : u <= t}) <= Limit}

Fetch(r) ==
  /\ run[r].pc = "fetch"
  /\ run' = [run EXCEPT ![r].pc = "store",
                        ![r].raw = Fetched(run[r].since),
                        ![r].todo = Fetched(run[r].since)]
  /\ UNCHANGED <<clock, database, undone>>

\* The source fails: the task gives up without a retry.
FetchFails(r) ==
  /\ run[r].pc = "fetch"
  /\ log' = [log EXCEPT ![r] = "FAILED"]
  /\ run' = [run EXCEPT ![r] = Blank("error", run[r].tries)]
  /\ UNCHANGED <<clock, copies, cursor, cache, undone>>

StoreTorn(r) ==                   \* mutant: the cache is outside the transaction
  /\ run[r].pc = "store"
  /\ \E t \in run[r].todo :
        /\ cache' = t
        /\ copies' \in {copies, [copies EXCEPT ![t] = @ + 1]}
        /\ run' = [run EXCEPT ![r].pc = "recache", ![r].cur = t]
  /\ UNCHANGED <<clock, cursor, log, undone>>

\* process_received_snapshot_data inserts a row; the post_save handler puts
\* it in the cache, in the same transaction.
Store(r) ==
  /\ run[r].pc = "store"
  /\ \E t \in run[r].todo :
        /\ copies' = [copies EXCEPT ![t] = @ + 1]
        /\ cache' = t
        /\ run' = [run EXCEPT ![r].pc = "recache", ![r].cur = t]
  /\ UNCHANGED <<clock, cursor, log, undone>>

\* If the write of the cache fails, its exception is swallowed, but the
\* transaction is marked for rollback: it ends without the row and without
\* an exception.
StoreUndone(r) ==
  /\ run[r].pc = "store"
  /\ \E t \in run[r].todo :
        /\ undone' = undone \cup {t}
        /\ run' = [run EXCEPT ![r].pc = "recache", ![r].cur = t,
                              ![r].skipped = @ \cup {t}]
  /\ UNCHANGED <<clock, database>>

\* After the transaction it is put there once more; a failure is swallowed.
Recache(r) ==
  /\ run[r].pc = "recache"
  /\ cache' \in {cache, run[r].cur}
  /\ run' = [run EXCEPT ![r].pc = "store", ![r].todo = @ \ {run[r].cur},
                        ![r].cur = 0, ![r].counted = TRUE]
  /\ UNCHANGED <<clock, copies, cursor, log, undone>>

\* A record that raises is not counted; one that does not normalise or
\* validate returns, and is counted although it has no row.
Skip(r) ==
  /\ run[r].pc = "store"
  /\ \E t \in run[r].todo, counted \in {run[r].counted, TRUE} :
        run' = [run EXCEPT ![r].todo = @ \ {t}, ![r].skipped = @ \cup {t},
                           ![r].counted = counted]
  /\ UNCHANGED <<clock, database, undone>>

FinishEarly(r) ==                 \* mutant: the loop stops at the first bad record
  /\ run[r].pc = "store"
  /\ run[r].todo = {} \/ run[r].skipped # {}
  /\ log' = [log EXCEPT ![r] = IF run[r].counted THEN "SUCCESS" ELSE "PARTIAL"]
  /\ run' = [run EXCEPT ![r].pc = "cursor", ![r].end = clock]
  /\ UNCHANGED <<clock, copies, cursor, cache, undone>>

Finish(r) ==
  /\ run[r].pc = "store"
  /\ run[r].todo = {}
  /\ log' = [log EXCEPT ![r] = IF run[r].counted THEN "SUCCESS" ELSE "PARTIAL"]
  /\ run' = [run EXCEPT ![r].pc = "cursor", ![r].end = clock]
  /\ UNCHANGED <<clock, copies, cursor, cache, undone>>

SaveCursor(r) ==
  /\ run[r].pc = "cursor"
  /\ cursor' = run[r].end
  /\ run' = [run EXCEPT ![r] = Blank("ok", run[r].tries)]
  /\ UNCHANGED <<clock, copies, cache, log, undone>>

RetriedPastLimit(r) ==            \* mutant: one retry too many
  IF run[r].tries <= MaxRetries
  THEN Blank("load", run[r].tries + 1)
  ELSE Blank("error", MaxRetries)

RetriedUncounted(r) ==            \* mutant: retries are not counted
  Blank("load", run[r].tries)

\* Celery runs the task again, MaxRetries times at most.
Retried(r) ==
  IF run[r].tries < MaxRetries
  THEN Blank("load", run[r].tries + 1)
  ELSE Blank("error", MaxRetries)

\* Anything else that raises, outside the handling of one record: the log is
\* marked, unless it has not been read or that fails too.
Fail(r) ==
  /\ run[r].pc \in {"load", "fetch", "store", "cursor"}
  /\ \/ UNCHANGED log
     \/ run[r].pc # "load" /\ log' = [log EXCEPT ![r] = "FAILED"]
  /\ run' = [run EXCEPT ![r] = Retried(r)]
  /\ UNCHANGED <<clock, copies, cursor, cache, undone>>

\* The worker dies, and nobody runs its task again.
Crash(r) ==
  /\ run[r].pc \notin Done \cup {"idle"}
  /\ run' = [run EXCEPT ![r] = Blank("lost", run[r].tries)]
  /\ UNCHANGED <<clock, database, undone>>

-----------------------------------------------------------------------------
RunStep(r) == Load(r) \/ Fetch(r) \/ FetchFails(r) \/ Store(r) \/ StoreUndone(r)
              \/ Recache(r) \/ Skip(r) \/ Finish(r) \/ SaveCursor(r) \/ Fail(r)

Next ==
  \/ Tick
  \/ Cleanup
  \/ \E r \in Runs : TriggerRefused(r) \/ Trigger(r) \/ RunStep(r) \/ Crash(r)

Spec == Init /\ [][Next]_vars

-----------------------------------------------------------------------------
(* Properties                                                              *)

\* A candle has a row, or is old enough to have lost it.
Stored(t) == copies[t] > 0 \/ Old(t)

\* The run has stored a candle, or left it out.
Accounted(r, t) == Stored(t) \/ t \in run[r].skipped

\* get_latest_snapshot_for_instrument returns what the cache has without a
\* look at the table.  Though runs overlap, fail half-way and are retried, it
\* is a candle that was stored, unless a failing write of the cache has
\* undone its row (services.py:123-142, signals.py:139).
CacheWasStored == cache = 0 \/ Stored(cache) \/ cache \in undone

\* What the comment at services.py:219 takes for granted: a failing write of
\* the cache, which is optional, may be ignored.
CacheIsOptional == cache = 0 \/ Stored(cache)

\* last_sync_at moves only past records that are stored or were left out one
\* by one, by the very attempt that moves it (tasks.py:80-114): an attempt
\* that failed leaves it behind what it missed, for the retry to start there.
CursorAccounts ==
  [][cursor' # cursor =>
       \E r \in Runs : /\ run[r].pc = "cursor"
                       /\ cursor' = run[r].end
                       /\ \A t \in run[r].raw : Accounted(r, t)]_vars

\* Snapshots have no unique key, so a retry, or a run that overlaps another,
\* stores a candle again; but no attempt stores it twice (models.py:127-174):
\* there are never more copies than attempts.
Attempts == {a \in Runs \X (0..MaxRetries) : a[2] <= run[a[1]].tries}
OncePerAttempt == \A t \in Candles : copies[t] <= Cardinality(Attempts)

=============================================================================
