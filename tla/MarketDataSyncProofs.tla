------------------------ MODULE MarketDataSyncProofs ------------------------
(***************************************************************************)
(* Proofs about MarketDataSync, for any number of runs, retries and        *)
(* candles, any limits, and either kind of sync log.                       *)
(***************************************************************************)
EXTENDS MarketDataSync, FiniteSetTheorems, TLAPS

\* A candle that has been stored, or was and is not.
Kept(t) == Stored(t) \/ t \in undone

\* What a run under way knows of the records it has dealt with.
RunAccounts(r) ==
  /\ run[r].pc \in {"store", "recache", "cursor"} =>
       \A t \in run[r].raw \ run[r].todo : Accounted(r, t)
  /\ run[r].pc = "recache" => /\ run[r].cur \in Candles /\ Kept(run[r].cur)
                              /\ Accounted(r, run[r].cur)
  /\ run[r].pc = "cursor" => run[r].todo = {}

Inv == TypeOK /\ CacheWasStored /\ \A r \in Runs : RunAccounts(r)

-----------------------------------------------------------------------------
(* Typing                                                                  *)

\* The fields of a run that has no work at hand.
LEMMA BlankFields ==
  ASSUME NEW pc, NEW n
  PROVE  /\ Blank(pc, n).pc = pc /\ Blank(pc, n).tries = n
         /\ Blank(pc, n).raw = {} /\ Blank(pc, n).todo = {}
  BY DEF Blank

\* A run that has not started, or has ended.
LEMMA BlankType ==
  ASSUME NEW pc \in {"idle", "load"} \cup Done, NEW n \in 0..MaxRetries
  PROVE  Blank(pc, n) \in RunStates
<1>1. 0 \in (0 - Day)..MaxClock /\ 0 \in 0..MaxClock
  BY BoundAssumption
<1>2. QED
  BY <1>1 DEF Blank, RunStates

\* What a run looks like when it starts again or gives up.
LEMMA RetriedType ==
  ASSUME TypeOK, NEW r \in Runs
  PROVE  /\ Retried(r) \in RunStates
         /\ Retried(r).pc \in {"load", "error"}
<1>1. run[r].tries \in 0..MaxRetries
  BY DEF TypeOK, RunStates
<1>2. CASE run[r].tries < MaxRetries
  <2>1. run[r].tries + 1 \in 0..MaxRetries
    BY <1>1, <1>2, BoundAssumption
  <2>2. QED
    BY <1>2, <2>1, BlankType, BlankFields DEF Retried
<1>3. CASE ~(run[r].tries < MaxRetries)
  <2>1. MaxRetries \in 0..MaxRetries
    BY BoundAssumption
  <2>2. QED
    BY <1>3, <2>1, BlankType, BlankFields DEF Retried, Done
<1>4. QED
  BY <1>2, <1>3

\* The initial states satisfy the invariant.
LEMMA InitInv == Init => Inv
<1> SUFFICES ASSUME Init PROVE Inv
  OBVIOUS
<1>1. Blank("idle", 0) \in RunStates
  BY BlankType, BoundAssumption
<1>2. TypeOK
  BY <1>1, BoundAssumption DEF Init, TypeOK, Candles
<1>3. \A r \in Runs : RunAccounts(r)
  BY BlankFields DEF Init, RunAccounts
<1>4. QED
  BY <1>2, <1>3 DEF Init, Inv, CacheWasStored

-----------------------------------------------------------------------------
(* What a step may do to a run                                             *)

\* A step changes one run at most, and each action of it has this effect.
LEMMA RunWriters ==
  ASSUME TypeOK, [Next]_vars
  PROVE  \/ UNCHANGED run
         \/ \E r \in Runs, me \in RunStates :
              /\ run' = [run EXCEPT ![r] = me]
              /\ \/ me.pc \in {"idle", "load", "fetch"} \cup Done
                 \/ Fetch(r) \/ Store(r) \/ StoreUndone(r) \/ Recache(r) \/ Skip(r) \/ Finish(r)
<1> USE BoundAssumption
<1> DEFINE Goal == \E r \in Runs, me \in RunStates :
                     /\ run' = [run EXCEPT ![r] = me]
                     /\ \/ me.pc \in {"idle", "load", "fetch"} \cup Done
                        \/ Fetch(r) \/ Store(r) \/ StoreUndone(r) \/ Recache(r) \/ Skip(r) \/ Finish(r)
<1>1. ASSUME NEW r \in Runs PROVE run[r] \in RunStates
  BY DEF TypeOK
<1>2. ASSUME NEW r \in Runs, TriggerRefused(r) PROVE Goal
  <2>1. [run[r] EXCEPT !.pc = "refused"] \in RunStates
    BY <1>1 DEF RunStates, Done
  <2>2. [run[r] EXCEPT !.pc = "refused"].pc = "refused"
    BY <1>1 DEF RunStates
  <2>3. run' = [run EXCEPT ![r] = [run[r] EXCEPT !.pc = "refused"]]
    BY <1>2 DEF TriggerRefused, TypeOK
  <2>4. QED
    BY <2>1, <2>2, <2>3 DEF Done
<1>3. ASSUME NEW r \in Runs, Trigger(r) PROVE Goal
  <2>1. PICK pc \in {"load", "refused"} : run' = [run EXCEPT ![r].pc = pc]
    BY <1>3 DEF Trigger
  <2>2. [run[r] EXCEPT !.pc = pc] \in RunStates
    BY <1>1 DEF RunStates, Done
  <2>3. [run[r] EXCEPT !.pc = pc].pc = pc
    BY <1>1 DEF RunStates
  <2>4. run' = [run EXCEPT ![r] = [run[r] EXCEPT !.pc = pc]]
    BY <2>1 DEF TypeOK
  <2>5. QED
    BY <2>2, <2>3, <2>4 DEF Done
<1>4. ASSUME NEW r \in Runs, Load(r) PROVE Goal
  <2> DEFINE since == IF cursor = 0 THEN clock - Day ELSE cursor
             me == [run[r] EXCEPT !.pc = "fetch", !.since = since]
  <2>1. since \in (0 - Day)..MaxClock
    BY DEF TypeOK
  <2>2. me \in RunStates
    BY <1>1, <2>1 DEF RunStates
  <2>3. me.pc = "fetch"
    BY <1>1 DEF RunStates
  <2>4. run' = [run EXCEPT ![r] = me]
    BY <1>4 DEF Load, TypeOK
  <2>5. QED
    BY <2>2, <2>3, <2>4
<1>5. ASSUME NEW r \in Runs, Fetch(r) PROVE Goal
  <2> DEFINE got == Fetched(run[r].since)
             me == [run[r] EXCEPT !.pc = "store", !.raw = got, !.todo = got]
  <2>1. got \in SUBSET Candles
    BY DEF Fetched, Published
  <2>2. me \in RunStates
    BY <1>1, <2>1 DEF RunStates
  <2>3. run' = [run EXCEPT ![r] = me]
    BY <1>5 DEF Fetch, TypeOK
  <2>4. QED
    BY <1>5, <2>2, <2>3
<1>6. ASSUME NEW r \in Runs, Store(r) PROVE Goal
  <2>1. PICK t \in run[r].todo : run' = [run EXCEPT ![r].pc = "recache", ![r].cur = t]
    BY <1>6 DEF Store
  <2>2. t \in 0..MaxClock
    BY <1>1 DEF RunStates, Candles
  <2>3. [run[r] EXCEPT !.pc = "recache", !.cur = t] \in RunStates
    BY <1>1, <2>2 DEF RunStates
  <2>4. run' = [run EXCEPT ![r] = [run[r] EXCEPT !.pc = "recache", !.cur = t]]
    BY <2>1 DEF TypeOK
  <2>5. QED
    BY <1>6, <2>3, <2>4
<1>6a. ASSUME NEW r \in Runs, StoreUndone(r) PROVE Goal
  <2>1. PICK t \in run[r].todo :
          run' = [run EXCEPT ![r].pc = "recache", ![r].cur = t, ![r].skipped = @ \cup {t}]
    BY <1>6a DEF StoreUndone
  <2> DEFINE me == [run[r] EXCEPT !.pc = "recache", !.cur = t, !.skipped = @ \cup {t}]
  <2>2. t \in 0..MaxClock /\ run[r].skipped \cup {t} \in SUBSET Candles
    BY <1>1, <2>1 DEF RunStates, Candles
  <2>3. me \in RunStates
    BY <1>1, <2>2 DEF RunStates
  <2>4. run' = [run EXCEPT ![r] = me]
    BY <2>1 DEF TypeOK
  <2>5. QED
    BY <1>6a, <2>3, <2>4
<1>7. ASSUME NEW r \in Runs, Recache(r) PROVE Goal
  <2> DEFINE me == [run[r] EXCEPT !.pc = "store", !.todo = @ \ {run[r].cur},
                                  !.cur = 0, !.counted = TRUE]
  <2>0. run[r].todo \ {run[r].cur} \in SUBSET Candles /\ 0 \in 0..MaxClock
    BY <1>1 DEF RunStates
  <2>1. me \in RunStates
    BY <1>1, <2>0 DEF RunStates
  <2>2. run' = [run EXCEPT ![r] = me]
    BY <1>7 DEF Recache, TypeOK
  <2>3. QED
    BY <1>7, <2>1, <2>2
<1>8. ASSUME NEW r \in Runs, Skip(r) PROVE Goal
  <2>1. PICK t \in run[r].todo, counted \in {run[r].counted, TRUE} :
          run' = [run EXCEPT ![r].todo = @ \ {t}, ![r].skipped = @ \cup {t},
                             ![r].counted = counted]
    BY <1>8 DEF Skip
  <2> DEFINE me == [run[r] EXCEPT !.todo = @ \ {t}, !.skipped = @ \cup {t},
                                  !.counted = counted]
  <2>a. /\ run[r].todo \ {t} \in SUBSET Candles
        /\ run[r].skipped \cup {t} \in SUBSET Candles
        /\ counted \in BOOLEAN
    BY <1>1, <2>1 DEF RunStates
  <2>2. me \in RunStates
    BY <1>1, <2>a DEF RunStates
  <2>3. run' = [run EXCEPT ![r] = me]
    BY <2>1 DEF TypeOK
  <2>4. QED
    BY <1>8, <2>2, <2>3
<1>9. ASSUME NEW r \in Runs, Finish(r) PROVE Goal
  <2>0. clock \in 0..MaxClock
    BY DEF TypeOK
  <2>1. [run[r] EXCEPT !.pc = "cursor", !.end = clock] \in RunStates
    BY <1>1, <2>0 DEF RunStates
  <2>2. run' = [run EXCEPT ![r] = [run[r] EXCEPT !.pc = "cursor", !.end = clock]]
    BY <1>9 DEF Finish, TypeOK
  <2>3. QED
    BY <1>9, <2>1, <2>2
<1>10. ASSUME NEW r \in Runs, NEW pc \in {"ok", "error", "lost"},
              run' = [run EXCEPT ![r] = Blank(pc, run[r].tries)]
       PROVE  Goal
  <2>1. run[r].tries \in 0..MaxRetries
    BY <1>1 DEF RunStates
  <2>2. Blank(pc, run[r].tries) \in RunStates
    BY <2>1, BlankType DEF Done
  <2>3. Blank(pc, run[r].tries).pc \in Done
    BY BlankFields DEF Done
  <2>4. QED
    BY <1>10, <2>2, <2>3
<1>11. ASSUME NEW r \in Runs, Fail(r) PROVE Goal
  BY <1>11, RetriedType DEF Fail, Done
<1>12. ASSUME NEW r \in Runs, RunStep(r) \/ Crash(r) PROVE Goal
  BY <1>4, <1>5, <1>6, <1>6a, <1>7, <1>8, <1>9, <1>10, <1>11, <1>12
  DEF RunStep, FetchFails, SaveCursor, Crash
<1>13. QED
  BY <1>2, <1>3, <1>12 DEF Next, Tick, Cleanup, vars

\* Every step keeps the type.
LEMMA NextType == TypeOK /\ [Next]_vars => TypeOK'
<1> SUFFICES ASSUME TypeOK, [Next]_vars PROVE TypeOK'
  OBVIOUS
<1> USE BoundAssumption
<1>1. run' \in [Runs -> RunStates]
  BY RunWriters DEF TypeOK
<1>2. ASSUME NEW r \in Runs, Store(r)
      PROVE  /\ copies' \in [Candles -> Nat] /\ cache' \in 0..MaxClock
             /\ UNCHANGED <<clock, cursor, log, undone>>
  <2>1. PICK t \in run[r].todo : copies' = [copies EXCEPT ![t] = @ + 1] /\ cache' = t
    BY <1>2 DEF Store
  <2>2. t \in Candles /\ t \in 0..MaxClock /\ copies[t] + 1 \in Nat
    BY DEF TypeOK, RunStates, Candles
  <2>3. copies' \in [Candles -> Nat]
    BY <2>1, <2>2 DEF TypeOK
  <2> QED BY <1>2, <2>1, <2>2, <2>3 DEF Store
<1>3. ASSUME NEW r \in Runs, Recache(r)
      PROVE  cache' \in 0..MaxClock /\ UNCHANGED <<clock, copies, cursor, log, undone>>
  BY <1>3 DEF Recache, TypeOK, RunStates
<1>4. ASSUME NEW r \in Runs, SaveCursor(r)
      PROVE  cursor' \in 0..MaxClock /\ UNCHANGED <<clock, copies, cache, log, undone>>
  BY <1>4 DEF SaveCursor, TypeOK, RunStates
<1>5. CASE Tick
  BY <1>1, <1>5 DEF Tick, TypeOK, database
<1>6. CASE Cleanup
  BY <1>1, <1>6 DEF Cleanup, TypeOK
<1>7. ASSUME NEW r \in Runs, TriggerRefused(r) \/ Trigger(r) \/ Crash(r) PROVE TypeOK'
  BY <1>1, <1>7 DEF TriggerRefused, Trigger, Crash, TypeOK, database
<1>8. ASSUME NEW r \in Runs, RunStep(r) PROVE TypeOK'
  <2>1. CASE Load(r) \/ Fetch(r) \/ Skip(r)
    BY <1>1, <2>1 DEF Load, Fetch, Skip, TypeOK, database
  <2>2. CASE FetchFails(r) \/ Finish(r) \/ Fail(r)
    BY <1>1, <2>2 DEF FetchFails, Finish, Fail, TypeOK
  <2>3. CASE StoreUndone(r)
    BY <1>1, <2>3 DEF StoreUndone, TypeOK, RunStates, database
  <2>4. QED
    BY <1>1, <1>2, <1>3, <1>4, <1>8, <2>1, <2>2, <2>3 DEF RunStep, TypeOK
<1>9. CASE UNCHANGED vars
  BY <1>9 DEF vars, database, TypeOK
<1>10. QED
  BY <1>5, <1>6, <1>7, <1>8, <1>9 DEF Next

-----------------------------------------------------------------------------
(* What becomes of a candle                                                *)

\* Time only passes, so an old candle stays old.
LEMMA OldStays ==
  ASSUME TypeOK, [Next]_vars, NEW t \in Candles, Old(t)
  PROVE  Old(t)'
<1>1. clock' = clock \/ clock' = clock + 1
  BY DEF Next, Tick, Cleanup, TriggerRefused, Trigger, RunStep, Crash, Load, Fetch,
         FetchFails, Store, StoreUndone, Recache, Skip, Finish, SaveCursor, Fail, vars
<1>2. QED
  BY <1>1, BoundAssumption DEF Old, TypeOK, Candles

\* A row goes only when its candle is old.
LEMMA StoredStays ==
  ASSUME TypeOK, [Next]_vars, NEW t \in Candles, Stored(t)
  PROVE  Stored(t)'
<1>1. CASE Old(t)
  BY <1>1, OldStays DEF Stored
<1>2. CASE ~Old(t)
  <2>1. copies[t] > 0 /\ copies \in [Candles -> Nat]
    BY <1>2 DEF Stored, TypeOK
  <2>2. ASSUME NEW r \in Runs, Store(r) PROVE copies'[t] > 0
    BY <2>1, <2>2 DEF Store
  <2>3. CASE Cleanup
    BY <1>2, <2>1, <2>3 DEF Cleanup, Stored
  <2>4. CASE copies' = copies
    BY <2>1, <2>4 DEF Stored
  <2>5. QED
    BY <2>2, <2>3, <2>4
    DEF Stored, Next, Tick, TriggerRefused, Trigger, RunStep, Crash, Load, Fetch,
        FetchFails, StoreUndone, Recache, Skip, Finish, SaveCursor, Fail, vars, database
<1>3. QED
  BY <1>1, <1>2

\* What was undone is remembered.
LEMMA KeptStays ==
  ASSUME TypeOK, [Next]_vars, NEW t \in Candles, Kept(t)
  PROVE  Kept(t)'
<1>1. undone \subseteq undone'
  BY DEF Next, Tick, Cleanup, TriggerRefused, Trigger, RunStep, Crash, Load, Fetch,
         FetchFails, Store, StoreUndone, Recache, Skip, Finish, SaveCursor, Fail, vars
<1>2. QED
  BY <1>1, StoredStays DEF Kept

\* What a run has stored is kept.
LEMMA StoreKeeps ==
  ASSUME TypeOK, TypeOK', NEW r \in Runs, Store(r)
  PROVE  run'[r].cur \in Candles /\ cache' = run'[r].cur /\ copies'[cache'] > 0
<1>1. PICK t \in run[r].todo :
        /\ copies' = [copies EXCEPT ![t] = @ + 1]
        /\ cache' = t
        /\ run' = [run EXCEPT ![r].pc = "recache", ![r].cur = t]
  BY DEF Store
<1>2. t \in Candles /\ run'[r].cur = t
  BY <1>1 DEF TypeOK, RunStates
<1>3. QED
  BY <1>1, <1>2 DEF TypeOK

-----------------------------------------------------------------------------
(* The cache and the cursor                                                *)

\* The cache stays a candle that was stored.
LEMMA CacheStep == Inv /\ TypeOK' /\ [Next]_vars => CacheWasStored'
<1> SUFFICES ASSUME Inv, TypeOK', [Next]_vars PROVE CacheWasStored'
  OBVIOUS
<1>0. TypeOK /\ CacheWasStored
  BY DEF Inv
<1>1. cache = 0 \/ (cache \in Candles /\ Kept(cache))
  BY <1>0 DEF CacheWasStored, Kept, TypeOK, Candles
<1>a. \A t \in Candles : Kept(t) => Kept(t)'
  BY <1>0, KeptStays
<1>2. CASE cache' = cache
  BY <1>1, <1>2, <1>a DEF CacheWasStored, Kept, Stored, Old
<1>3. ASSUME NEW r \in Runs, Store(r) PROVE CacheWasStored'
  BY <1>0, <1>3, StoreKeeps DEF CacheWasStored, Stored
<1>4. ASSUME NEW r \in Runs, Recache(r), cache' # cache PROVE CacheWasStored'
  <2>1. cache' = run[r].cur /\ run[r].pc = "recache"
    BY <1>4 DEF Recache
  <2>2. run[r].cur \in Candles /\ Kept(run[r].cur)
    BY <2>1 DEF Inv, RunAccounts
  <2>3. QED
    BY <2>1, <2>2, <1>a DEF CacheWasStored, Kept, Stored, Old
<1>5. QED
  BY <1>2, <1>3, <1>4
  DEF Next, Tick, Cleanup, TriggerRefused, Trigger, RunStep, Crash, Load, Fetch,
      FetchFails, StoreUndone, Skip, Finish, SaveCursor, Fail, vars, database

\* What a run knows of its records stays true.
LEMMA AccountsStep ==
  ASSUME Inv, TypeOK', [Next]_vars, NEW r \in Runs
  PROVE  RunAccounts(r)'
<1>0. TypeOK /\ RunAccounts(r)
  BY DEF Inv
<1>a. ASSUME NEW t \in Candles, Accounted(r, t), run'[r].skipped = run[r].skipped
      PROVE  Accounted(r, t)'
  BY <1>0, <1>a, StoredStays DEF Accounted
<1>b. run[r].raw \subseteq Candles /\ run[r].todo \subseteq Candles
  BY <1>0 DEF TypeOK, RunStates
<1>1. CASE run'[r] = run[r]
  <2>0. \A u \in Candles : Kept(u) => Kept(u)'
    BY <1>0, KeptStays
  <2>1. run[r].pc = "recache" => Kept(run[r].cur)' /\ Accounted(r, run[r].cur)'
    BY <1>0, <1>1, <1>a, <2>0 DEF RunAccounts, Kept, Stored, Old
  <2>2. run[r].pc \in {"store", "recache", "cursor"} =>
          \A t \in run[r].raw \ run[r].todo : Accounted(r, t)'
    BY <1>0, <1>1, <1>a, <1>b DEF RunAccounts
  <2>3. QED
    BY <1>0, <1>1, <2>1, <2>2 DEF RunAccounts, Kept, Accounted, Stored, Old
<1>2. CASE run'[r].pc \in {"idle", "load", "fetch"} \cup Done
  BY <1>2 DEF RunAccounts, Done
<1>3. CASE Fetch(r)
  <2>1. /\ run'[r].pc = "store"
        /\ run'[r].raw = run'[r].todo
    BY <1>0, <1>3 DEF Fetch, TypeOK, RunStates
  <2>2. QED
    BY <2>1 DEF RunAccounts
<1>4. CASE Store(r)
  <2>1. /\ run'[r].pc = "recache" /\ run'[r].raw = run[r].raw
        /\ run'[r].todo = run[r].todo /\ run'[r].skipped = run[r].skipped
        /\ run[r].pc = "store"
    BY <1>0, <1>4 DEF Store, TypeOK, RunStates
  <2>2. \A t \in run[r].raw \ run[r].todo : Accounted(r, t)'
    BY <1>0, <1>a, <1>b, <2>1 DEF RunAccounts
  <2>3. run'[r].cur \in Candles /\ copies'[run'[r].cur] > 0
    BY <1>0, <1>4, StoreKeeps
  <2>4. QED
    BY <2>1, <2>2, <2>3 DEF RunAccounts, Kept, Accounted, Stored
<1>4a. CASE StoreUndone(r)
  <2>1. PICK t \in run[r].todo :
          /\ undone' = undone \cup {t}
          /\ run' = [run EXCEPT ![r].pc = "recache", ![r].cur = t,
                                ![r].skipped = @ \cup {t}]
    BY <1>4a DEF StoreUndone
  <2>2. /\ run'[r].pc = "recache" /\ run'[r].raw = run[r].raw
        /\ run'[r].todo = run[r].todo /\ run'[r].cur = t
        /\ run'[r].skipped = run[r].skipped \cup {t}
        /\ run[r].pc = "store" /\ UNCHANGED <<copies, clock>>
    BY <1>0, <1>4a, <2>1 DEF StoreUndone, TypeOK, RunStates, database
  <2>3. \A u \in run'[r].raw \ run'[r].todo : Accounted(r, u)'
    BY <1>0, <2>2 DEF RunAccounts, Accounted, Stored, Old
  <2>4. t \in Candles
    BY <1>b
  <2>5. t \in undone' /\ t \in run'[r].skipped
    BY <2>1, <2>2, Zenon
  <2>6. QED
    BY <2>2, <2>3, <2>4, <2>5 DEF RunAccounts, Kept, Accounted
<1>5. CASE Recache(r)
  <2>1. /\ run'[r].pc = "store" /\ run'[r].raw = run[r].raw
        /\ run'[r].todo = run[r].todo \ {run[r].cur}
        /\ run'[r].skipped = run[r].skipped
        /\ run[r].pc = "recache"
    BY <1>0, <1>5 DEF Recache, TypeOK, RunStates
  <2>2. run[r].cur \in Candles /\ Accounted(r, run[r].cur)
    BY <1>0, <2>1 DEF RunAccounts
  <2>3. \A t \in run'[r].raw \ run'[r].todo : Accounted(r, t)'
    BY <1>0, <1>a, <1>b, <2>1, <2>2 DEF RunAccounts
  <2>4. QED
    BY <2>1, <2>3 DEF RunAccounts
<1>6. CASE Skip(r)
  <2>1. PICK u \in run[r].todo, counted \in {run[r].counted, TRUE} :
          run' = [run EXCEPT ![r].todo = @ \ {u}, ![r].skipped = @ \cup {u},
                             ![r].counted = counted]
    BY <1>6 DEF Skip
  <2>2. /\ run'[r].pc = "store" /\ run'[r].raw = run[r].raw
        /\ run'[r].todo = run[r].todo \ {u}
        /\ run'[r].skipped = run[r].skipped \cup {u}
        /\ run[r].pc = "store" /\ UNCHANGED <<copies, clock>>
    BY <1>0, <1>6, <2>1 DEF Skip, TypeOK, RunStates, database
  <2>3. \A t \in run'[r].raw \ run'[r].todo : Accounted(r, t)'
    BY <1>0, <2>2 DEF RunAccounts, Accounted, Stored, Old
  <2>4. QED
    BY <2>2, <2>3 DEF RunAccounts
<1>7. CASE Finish(r)
  <2>1. /\ run'[r].pc = "cursor" /\ run'[r].raw = run[r].raw
        /\ run'[r].todo = run[r].todo /\ run'[r].skipped = run[r].skipped
        /\ run[r].pc = "store" /\ run[r].todo = {}
    BY <1>0, <1>7 DEF Finish, TypeOK, RunStates
  <2>2. \A t \in run[r].raw \ run[r].todo : Accounted(r, t)'
    BY <1>0, <1>a, <1>b, <2>1 DEF RunAccounts
  <2>3. QED
    BY <2>1, <2>2 DEF RunAccounts
<1>8. QED
  <2>1. \/ UNCHANGED run
        \/ \E q \in Runs, me \in RunStates :
             /\ run' = [run EXCEPT ![q] = me]
             /\ \/ me.pc \in {"idle", "load", "fetch"} \cup Done
                \/ Fetch(q) \/ Store(q) \/ StoreUndone(q) \/ Recache(q) \/ Skip(q) \/ Finish(q)
    BY <1>0, RunWriters
  <2>2. CASE UNCHANGED run
    BY <1>1, <2>2
  <2>3. ASSUME NEW q \in Runs, NEW me \in RunStates,
               run' = [run EXCEPT ![q] = me],
               \/ me.pc \in {"idle", "load", "fetch"} \cup Done
               \/ Fetch(q) \/ Store(q) \/ StoreUndone(q) \/ Recache(q) \/ Skip(q) \/ Finish(q)
        PROVE  RunAccounts(r)'
    <3>1. CASE q # r
      BY <1>0, <1>1, <2>3, <3>1 DEF TypeOK
    <3>2. CASE q = r /\ me.pc \in {"idle", "load", "fetch"} \cup Done
      BY <1>0, <1>2, <2>3, <3>2 DEF TypeOK
    <3>3. QED
      BY <1>3, <1>4, <1>4a, <1>5, <1>6, <1>7, <2>3, <3>1, <3>2
  <2>4. QED
    BY <2>1, <2>2, <2>3

-----------------------------------------------------------------------------
(* Theorems                                                                *)

\* The inductive invariant holds for ever.
THEOREM InvAlways == Spec => []Inv
<1>1. Inv /\ [Next]_vars => Inv'
  BY NextType, CacheStep, AccountsStep DEF Inv
<1>2. QED
  BY InitInv, <1>1, PTL DEF Spec

\* Every variable keeps its type; in particular a task is retried MaxRetries
\* times at most (tasks.py:22).
THEOREM TypeCorrect == Spec => []TypeOK
<1>1. Inv => TypeOK
  BY DEF Inv
<1>2. QED
  BY <1>1, InvAlways, PTL

\* What the cache shows was stored (services.py:113-136, signals.py:147).
THEOREM CacheIsStored == Spec => []CacheWasStored
<1>1. Inv => CacheWasStored
  BY DEF Inv
<1>2. QED
  BY <1>1, InvAlways, PTL

\* last_sync_at moves only past records the run has dealt with (tasks.py:80-114).
THEOREM CursorMovesPastDealtWith == Spec => CursorAccounts
<1>1. Inv /\ [Next]_vars =>
        [cursor' # cursor =>
           \E r \in Runs : /\ run[r].pc = "cursor"
                           /\ cursor' = run[r].end
                           /\ \A t \in run[r].raw : Accounted(r, t)]_vars
  <2> SUFFICES ASSUME Inv, [Next]_vars, cursor' # cursor
               PROVE  \E r \in Runs : /\ run[r].pc = "cursor"
                                      /\ cursor' = run[r].end
                                      /\ \A t \in run[r].raw : Accounted(r, t)
    OBVIOUS
  <2>1. PICK r \in Runs : SaveCursor(r)
    BY DEF Next, Tick, Cleanup, TriggerRefused, Trigger, RunStep, Crash, Load, Fetch,
           FetchFails, Store, StoreUndone, Recache, Skip, Finish, Fail, vars, database
  <2>2. run[r].pc = "cursor" /\ cursor' = run[r].end
    BY <2>1 DEF SaveCursor
  <2>3. \A t \in run[r].raw : Accounted(r, t)
    BY <2>2 DEF Inv, RunAccounts
  <2>4. QED
    BY <2>2, <2>3
<1>2. QED
  BY <1>1, InvAlways, PTL DEF Spec, CursorAccounts

-----------------------------------------------------------------------------
(* Copies                                                                  *)

\* The attempt me has not come to candle t.
Free(me, t) ==
  \/ me.pc \in {"idle", "load", "fetch"}
  \/ me.pc \in {"store", "recache"} /\ t \in me.todo /\ (me.pc = "recache" => t # me.cur)

\* The attempts that may have stored candle t: earlier ones of a run, and the
\* one under way if it has come to t.
Spent(runs, t) ==
  {a \in Runs \X (0..MaxRetries) :
     \/ a[2] < runs[a[1]].tries
     \/ a[2] = runs[a[1]].tries /\ ~Free(runs[a[1]], t)}

CopiesSpent == \A t \in Candles : copies[t] <= Cardinality(Spent(run, t))

LEMMA SpentIsFinite ==
  ASSUME NEW runs, NEW t
  PROVE  IsFiniteSet(Spent(runs, t)) /\ Cardinality(Spent(runs, t)) \in Nat
<1>1. IsFiniteSet(0..MaxRetries)
  BY FS_Interval, BoundAssumption
<1>2. IsFiniteSet(Runs \X (0..MaxRetries))
  BY <1>1, FS_Product, RunsAssumption
<1>3. Spent(runs, t) \in SUBSET (Runs \X (0..MaxRetries))
  BY DEF Spent
<1>4. IsFiniteSet(Spent(runs, t))
  BY <1>2, <1>3, FS_Subset
<1>5. QED
  BY <1>4, FS_CardinalityType

\* A run goes on with its attempt, and comes to more candles, or it begins
\* another attempt.
Onward(old, new) ==
  \/ new.tries = old.tries /\ \A t \in Candles : Free(new, t) => Free(old, t)
  \/ new.tries > old.tries

LEMMA EndIsOnward ==
  ASSUME NEW old, NEW new, NEW pc \in Done, new = Blank(pc, old.tries)
  PROVE  Onward(old, new)
BY BlankFields DEF Onward, Free, Done

\* Every step takes one run onward at most.
LEMMA RunsGoOnward ==
  ASSUME TypeOK, NEW r \in Runs, TriggerRefused(r) \/ Trigger(r) \/ RunStep(r) \/ Crash(r)
  PROVE  (\A s \in Runs \ {r} : run'[s] = run[s]) /\ Onward(run[r], run'[r])
<1>0. run[r] \in RunStates /\ run \in [Runs -> RunStates]
  BY DEF TypeOK
<1>1. \A s \in Runs \ {r} : run'[s] = run[s]
  BY <1>0 DEF TriggerRefused, Trigger, RunStep, Crash, Load, Fetch, FetchFails, Store,
     StoreUndone, Recache, Skip, Finish, SaveCursor, Fail
<1>3. CASE TriggerRefused(r)
  BY <1>0, <1>3 DEF TriggerRefused, Onward, Free, RunStates
<1>4. CASE Trigger(r)
  BY <1>0, <1>4 DEF Trigger, Onward, Free, RunStates
<1>5. CASE Load(r)
  BY <1>0, <1>5 DEF Load, Onward, Free, RunStates
<1>6. CASE Fetch(r)
  BY <1>0, <1>6 DEF Fetch, Onward, Free, RunStates
<1>7. CASE FetchFails(r) \/ SaveCursor(r) \/ Crash(r)
  <2>1. PICK pc \in Done : run'[r] = Blank(pc, run[r].tries)
    BY <1>0, <1>7 DEF FetchFails, SaveCursor, Crash, Done
  <2>2. QED
    BY <1>1, <2>1, EndIsOnward
<1>8. CASE Store(r)
  BY <1>0, <1>8 DEF Store, Onward, Free, RunStates
<1>9. CASE StoreUndone(r)
  BY <1>0, <1>9 DEF StoreUndone, Onward, Free, RunStates
<1>10. CASE Recache(r)
  BY <1>0, <1>10 DEF Recache, Onward, Free, RunStates
<1>11. CASE Skip(r)
  BY <1>0, <1>11 DEF Skip, Onward, Free, RunStates
<1>12. CASE Finish(r)
  BY <1>0, <1>12 DEF Finish, Onward, Free, RunStates
<1>13. CASE Fail(r)
  <2>1. run'[r] = Retried(r)
    BY <1>0, <1>13 DEF Fail
  <2>2. run[r].tries \in 0..MaxRetries
    BY <1>0 DEF RunStates
  <2>3. CASE run[r].tries < MaxRetries
    <3>1. run'[r].tries = run[r].tries + 1
      BY <2>1, <2>3, BlankFields DEF Retried
    <3>2. run'[r].tries > run[r].tries
      BY <2>2, <3>1
    <3>3. QED
      BY <1>1, <3>2 DEF Onward
  <2>4. CASE ~(run[r].tries < MaxRetries)
    <3>1. run[r].tries = MaxRetries
      BY <2>2, <2>4, BoundAssumption
    <3>2. run'[r] = Blank("error", run[r].tries)
      BY <2>1, <2>4, <3>1 DEF Retried
    <3>3. "error" \in Done
      BY DEF Done
    <3>4. QED
      BY <1>1, <3>2, <3>3, EndIsOnward
  <2>5. QED
    BY <2>3, <2>4
<1>14. QED
  BY <1>1, <1>3, <1>4, <1>5, <1>6, <1>7, <1>8, <1>9, <1>10, <1>11, <1>12, <1>13 DEF RunStep

\* So an attempt that may have stored a candle is never taken off again.
LEMMA SpentGrows ==
  ASSUME TypeOK, TypeOK', [Next]_vars, NEW t \in Candles
  PROVE  Spent(run, t) \subseteq Spent(run', t)
<1>1. CASE UNCHANGED run
  BY <1>1
<1>2. ASSUME NEW r \in Runs, TriggerRefused(r) \/ Trigger(r) \/ RunStep(r) \/ Crash(r)
      PROVE  Spent(run, t) \subseteq Spent(run', t)
  <2>1. (\A s \in Runs \ {r} : run'[s] = run[s]) /\ Onward(run[r], run'[r])
    BY <1>2, RunsGoOnward
  <2>2. run[r].tries \in Nat /\ run'[r].tries \in Nat
    BY BoundAssumption DEF TypeOK, RunStates
  <2>3. SUFFICES ASSUME NEW a \in Runs \X (0..MaxRetries), a \in Spent(run, t)
                 PROVE  a \in Spent(run', t)
    BY DEF Spent
  <2>4. CASE a[1] # r
    BY <2>1, <2>3, <2>4 DEF Spent
  <2>5. CASE a[1] = r
    <3>1. a[2] \in Nat
      BY BoundAssumption
    <3>2. QED
      BY <2>1, <2>2, <2>3, <2>5, <3>1 DEF Spent, Onward
  <2>6. QED
    BY <2>4, <2>5
<1>3. QED
  BY <1>1, <1>2 DEF Next, Tick, Cleanup, vars

\* Storing a candle takes one attempt more.
LEMMA StoreSpends ==
  ASSUME TypeOK, TypeOK', NEW r \in Runs, Store(r), NEW t \in run[r].todo, run'[r].cur = t,
         NEW u \in Candles, u = t
  PROVE  <<r, run[r].tries>> \in Spent(run', u) \ Spent(run, u)
<1>1. run[r] \in RunStates /\ run[r].tries \in 0..MaxRetries
  BY DEF TypeOK, RunStates
<1>2. run'[r].pc = "recache" /\ run'[r].tries = run[r].tries /\ run[r].pc = "store"
  BY <1>1 DEF Store, TypeOK, RunStates
<1>3. Free(run[r], t) /\ ~Free(run'[r], t)
  BY <1>2 DEF Free
<1>4. QED
  BY <1>1, <1>2, <1>3, BoundAssumption DEF Spent

LEMMA CopiesStep ==
  ASSUME TypeOK, TypeOK', CopiesSpent, [Next]_vars
  PROVE  CopiesSpent'
<1>1. SUFFICES ASSUME NEW t \in Candles PROVE copies'[t] <= Cardinality(Spent(run', t))
  BY DEF CopiesSpent
<1>2. /\ IsFiniteSet(Spent(run', t)) /\ IsFiniteSet(Spent(run, t))
      /\ Cardinality(Spent(run', t)) \in Nat /\ Cardinality(Spent(run, t)) \in Nat
  BY SpentIsFinite
<1>3. Cardinality(Spent(run, t)) <= Cardinality(Spent(run', t))
  BY <1>2, SpentGrows, FS_Subset
<1>4. copies[t] \in Nat /\ copies'[t] \in Nat /\ copies[t] <= Cardinality(Spent(run, t))
  BY DEF TypeOK, CopiesSpent
<1>5. CASE copies'[t] <= copies[t]
  BY <1>2, <1>3, <1>4, <1>5
<1>6. ASSUME NEW r \in Runs, Store(r), copies'[t] > copies[t]
      PROVE  copies'[t] <= Cardinality(Spent(run', t))
  <2>1. PICK u \in run[r].todo : /\ copies' = [copies EXCEPT ![u] = @ + 1]
                                 /\ run' = [run EXCEPT ![r].pc = "recache", ![r].cur = u]
    BY <1>6 DEF Store
  <2>2. u = t /\ copies'[t] = copies[t] + 1
    BY <1>4, <1>6, <2>1 DEF TypeOK
  <2>3. run'[r].cur = u
    BY <2>1 DEF TypeOK, RunStates
  <2> DEFINE a == <<r, run[r].tries>>
  <2>4. a \in Spent(run', t) /\ a \notin Spent(run, t)
    BY <1>6, <2>1, <2>2, <2>3, StoreSpends
  <2>5. Spent(run, t) \cup {a} \in SUBSET Spent(run', t)
    BY <2>4, SpentGrows
  <2> HIDE DEF a
  <2>6. Cardinality(Spent(run, t) \cup {a}) = Cardinality(Spent(run, t)) + 1
    BY <1>2, <2>4, FS_AddElement
  <2>7. Cardinality(Spent(run, t) \cup {a}) <= Cardinality(Spent(run', t))
    BY <1>2, <2>5, FS_Subset
  <2>8. QED
    BY <1>2, <1>4, <2>2, <2>6, <2>7
<1>7. CASE copies' = copies
  BY <1>4, <1>5, <1>7
<1>8. CASE Cleanup
  <2>1. copies' = [u \in Candles |-> IF Old(u) THEN 0 ELSE copies[u]]
    BY <1>8 DEF Cleanup
  <2>2. copies'[t] = 0 \/ copies'[t] = copies[t]
    BY <2>1
  <2>3. QED
    BY <1>4, <1>5, <2>2
<1>9. copies' = copies \/ Cleanup \/ \E r \in Runs : Store(r)
  BY DEF Next, Tick, TriggerRefused, Trigger, RunStep, Crash, Load, Fetch, FetchFails,
         StoreUndone, Recache, Skip, Finish, SaveCursor, Fail, vars, database
<1>10. copies'[t] <= copies[t] \/ copies'[t] > copies[t]
  BY <1>4
<1>11. QED
  BY <1>5, <1>6, <1>7, <1>8, <1>9, <1>10

\* However runs overlap and are retried, a candle has as many copies as there
\* were attempts at most (models.py:127-174, tasks.py:22).
THEOREM CopiesPerAttempt == Spec => []OncePerAttempt
<1>1. Init => CopiesSpent
  <2> SUFFICES ASSUME Init, NEW t \in Candles PROVE copies[t] <= Cardinality(Spent(run, t))
    BY DEF CopiesSpent
  <2>1. copies[t] = 0 /\ Cardinality(Spent(run, t)) \in Nat
    BY SpentIsFinite DEF Init
  <2>2. QED
    BY <2>1
<1>2. TypeOK /\ TypeOK' /\ CopiesSpent /\ [Next]_vars => CopiesSpent'
  BY CopiesStep
<1>3. TypeOK /\ CopiesSpent => OncePerAttempt
  <2> SUFFICES ASSUME TypeOK, CopiesSpent, NEW t \in Candles
               PROVE  copies[t] <= Cardinality(Attempts)
    BY DEF OncePerAttempt
  <2>1. Spent(run, t) \in SUBSET Attempts
    <3>1. \A r \in Runs : run[r].tries \in Nat
      BY BoundAssumption DEF TypeOK, RunStates
    <3>2. ASSUME NEW a \in Runs \X (0..MaxRetries), a \in Spent(run, t)
          PROVE  a[2] <= run[a[1]].tries
      <4>1. a[1] \in Runs /\ a[2] \in Nat /\ run[a[1]].tries \in Nat
        BY <3>1, BoundAssumption
      <4>2. a[2] < run[a[1]].tries \/ a[2] = run[a[1]].tries
        BY <3>2 DEF Spent
      <4>3. QED
        BY <4>1, <4>2
    <3>3. Spent(run, t) \subseteq Runs \X (0..MaxRetries)
      BY DEF Spent
    <3>4. QED
      BY <3>2, <3>3 DEF Attempts
  <2>2. IsFiniteSet(Runs \X (0..MaxRetries))
    <3>1. IsFiniteSet(0..MaxRetries)
      BY FS_Interval, BoundAssumption
    <3>2. QED
      BY <3>1, FS_Product, RunsAssumption
  <2>3. IsFiniteSet(Attempts)
    <3>1. Attempts \in SUBSET (Runs \X (0..MaxRetries))
      BY DEF Attempts
    <3>2. QED
      BY <2>2, <3>1, FS_Subset
  <2>4. Cardinality(Spent(run, t)) <= Cardinality(Attempts)
    BY <2>1, <2>3, FS_Subset
  <2>5. /\ Cardinality(Attempts) \in Nat /\ Cardinality(Spent(run, t)) \in Nat
        /\ copies[t] \in Nat /\ copies[t] <= Cardinality(Spent(run, t))
    BY <2>3, FS_CardinalityType, SpentIsFinite DEF TypeOK, CopiesSpent
  <2>6. QED
    BY <2>4, <2>5
<1>4. QED
  BY <1>1, <1>2, <1>3, TypeCorrect, PTL DEF Spec

=============================================================================
