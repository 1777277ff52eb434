------------------------ MODULE ExchangeOrdersProofs ------------------------
(***************************************************************************)
(* Proofs about ExchangeOrders, for any number of orders, tasks and        *)
(* retries, any bounds and whatever the two broken helpers do.             *)
(***************************************************************************)
EXTENDS ExchangeOrders, TLAPS

-----------------------------------------------------------------------------
(* Typing                                                                  *)

\* A sync before its first fetch, or after its last step.
LEMMA IdleType ==
  ASSUME NEW pc \in {"load"} \cup Done, NEW n \in 0..MaxRetries
  PROVE  Idle(pc, n) \in SyncStates
<1>1. NoOrders \in [Orders -> Status \cup {Absent}] /\ NoBalances \in [Assets -> 0..MaxBal]
  BY BoundAssumption DEF NoOrders, NoBalances
<1>2. 0 \in 0..MaxClock
  BY BoundAssumption
<1>3. QED
  BY <1>1, <1>2 DEF Idle, SyncStates

\* What a sync looks like when it starts again or gives up.
LEMMA RetriedType ==
  ASSUME TypeOK, NEW s \in Syncers
  PROVE  Retried(s) \in SyncStates
<1>1. sync[s].tries \in 0..MaxRetries
  BY DEF TypeOK, SyncStates
<1>2. CASE sync[s].tries < MaxRetries
  <2>1. sync[s].tries + 1 \in 0..MaxRetries
    BY <1>1, <1>2, BoundAssumption
  <2>2. QED
    BY <1>2, <2>1, IdleType DEF Retried
<1>3. CASE ~(sync[s].tries < MaxRetries)
  <2>1. MaxRetries \in 0..MaxRetries
    BY BoundAssumption
  <2>2. QED
    BY <1>3, <2>1, IdleType DEF Retried, Done
<1>4. QED
  BY <1>2, <1>3

\* A placement that ends, with the order it has recorded or none.
LEMMA PlaceEndsType ==
  ASSUME TypeOK, NEW p \in Placers, NEW pc \in Done, NEW order \in Orders \cup {NoOrder},
         PlaceEnds(p, pc, order)
  PROVE  place' \in [Placers -> PlaceStates]
BY DEF TypeOK, PlaceEnds, PlaceStates, Status, Open

\* A change of an order is late for the syncs that have fetched.
LEMMA LateType ==
  ASSUME TypeOK, NEW o \in Orders, NEW st \in Status, Moves(o, st)
  PROVE  late' \in [Syncers -> SUBSET Orders]
BY DEF TypeOK, Moves

\* The initial states are of the type.
LEMMA InitType == Init => TypeOK
<1> SUFFICES ASSUME Init PROVE TypeOK
  OBVIOUS
<1>1. Idle("load", 0) \in SyncStates
  BY IdleType, BoundAssumption
<1>2. wallet \in BOOLEAN
  BY DEF Init
<1>3. /\ place \in [Placers -> PlaceStates]
      /\ cancel \in [Cancellers -> CancelStates]
      /\ link \in [Linkers -> LinkStates]
  BY BoundAssumption DEF Init, PlaceStates, CancelStates, LinkStates, Status, Open
<1>4. /\ exch \in [Orders -> Status \cup {Absent}]
      /\ hist \in [Orders -> Status \cup {Absent}]
      /\ changedAt \in [Orders -> 0..MaxClock]
      /\ exBal \in [Assets -> 0..MaxBal] /\ bal \in [Assets -> 0..MaxBal]
      /\ clock \in 1..MaxClock /\ lastSync \in 0..MaxClock
      /\ answered \subseteq Orders
  BY BoundAssumption DEF Init, NoOrders, NoBalances
<1>5. QED
  BY <1>1, <1>2, <1>3, <1>4 DEF Init, TypeOK

\* Every step of every actor keeps the type.
LEMMA NextType == TypeOK /\ [Next]_vars => TypeOK'
<1> SUFFICES ASSUME TypeOK, [Next]_vars
             PROVE  TypeOK'
  OBVIOUS
<1> USE BoundAssumption, OrderAssumption
<1>1. ASSUME NEW o \in Orders, ExchangeMoves(o)
      PROVE  TypeOK'
  BY <1>1 DEF TypeOK, ExchangeMoves, Opens, Moves, database
<1>2. ASSUME NEW a \in Assets, BalanceMoves(a)
      PROVE  TypeOK'
  BY <1>2 DEF TypeOK, BalanceMoves, database
<1>3. CASE Tick
  BY <1>3 DEF TypeOK, Tick, database
<1>4. ASSUME NEW p \in Placers, PlaceStep(p) \/ PlaceCrash(p)
      PROVE  TypeOK'
  <2>0. ASSUME NEW pc \in {"ok", "error", "lost"}, NEW order \in Orders \cup {NoOrder},
               PlaceEnds(p, pc, order)
        PROVE  place' \in [Placers -> PlaceStates]
    BY <2>0, PlaceEndsType DEF Done
  <2>1. CASE PlaceRefused(p)
    <3>1. place' \in [Placers -> PlaceStates]
      BY <2>0, <2>1 DEF PlaceRefused
    <3>2. QED
      BY <2>1, <3>1 DEF TypeOK, PlaceRefused, exchange, database
  <2>2. CASE PlaceSend(p)
    <3>1. PICK o \in Orders, st \in Status :
            /\ Opens(o, st)
            /\ \/ PlaceEnds(p, "error", NoOrder)
               \/ \E id \in {o, NoOrder} : place' =
                    [place EXCEPT ![p] = [pc |-> "wallet", order |-> id, status |-> st]]
      BY <2>2 DEF PlaceSend
    <3>2. place' \in [Placers -> PlaceStates]
      <4>1. place \in [Placers -> PlaceStates]
        BY DEF TypeOK
      <4>2. CASE PlaceEnds(p, "error", NoOrder)
        BY <2>0, <4>2
      <4>3. ASSUME NEW id \in {o, NoOrder}, place' =
                     [place EXCEPT ![p] = [pc |-> "wallet", order |-> id, status |-> st]]
            PROVE  place' \in [Placers -> PlaceStates]
        BY <4>1, <4>3 DEF PlaceStates
      <4> QED BY <3>1, <4>2, <4>3
    <3>3. exch' \in [Orders -> Status \cup {Absent}] /\ changedAt' \in [Orders -> 0..MaxClock]
      BY <3>1 DEF TypeOK, Opens, Moves
    <3>4. late' \in [Syncers -> SUBSET Orders]
      BY <3>1, LateType DEF Opens
    <3>5. UNCHANGED <<exBal, clock, answered, database, cancel, sync, link>>
      BY <2>2, <3>1 DEF PlaceSend, Opens, Moves
    <3>6. QED
      BY <3>2, <3>3, <3>4, <3>5 DEF TypeOK, database
  <2>3. CASE PlaceWallet(p)
    <3>1. wallet' \in BOOLEAN
      BY <2>3 DEF TypeOK, PlaceWallet
    <3>2. place' \in [Placers -> PlaceStates]
      <4>1. place' = [place EXCEPT ![p].pc = "create"] \/ PlaceEnds(p, "error", NoOrder)
        BY <2>3 DEF PlaceWallet
      <4>2. CASE place' = [place EXCEPT ![p].pc = "create"]
        BY <4>2 DEF TypeOK, PlaceStates
      <4> QED BY <2>0, <4>1, <4>2
    <3>3. QED
      BY <2>3, <3>1, <3>2 DEF TypeOK, PlaceWallet, exchange
  <2>4. CASE PlaceConflict(p)
    <3>1. place' \in [Placers -> PlaceStates]
      BY <2>0, <2>4 DEF PlaceConflict
    <3> QED BY <2>4, <3>1 DEF TypeOK, PlaceConflict, exchange, database
  <2>5. CASE PlaceCreate(p)
    <3>0. place[p].order \in Orders \cup {NoOrder}
      BY DEF TypeOK, PlaceStates
    <3>1. place' \in [Placers -> PlaceStates]
      BY <2>0, <2>5, <3>0 DEF PlaceCreate
    <3>2. hist' \in [Orders -> Status \cup {Absent}]
      BY <2>5 DEF TypeOK, PlaceStates, PlaceCreate
    <3> QED BY <2>5, <3>1, <3>2 DEF TypeOK, PlaceCreate, exchange
  <2>6. CASE PlaceCrash(p)
    <3>1. place' \in [Placers -> PlaceStates]
      BY <2>0, <2>6 DEF PlaceCrash
    <3> QED BY <2>6, <3>1 DEF TypeOK, PlaceCrash, exchange, database
  <2>7. QED
    BY <1>4, <2>1, <2>2, <2>3, <2>4, <2>5, <2>6 DEF PlaceStep
<1>5. ASSUME NEW c \in Cancellers, CancelStep(c) \/ CancelCrash(c)
      PROVE  TypeOK'
  <2>1. CASE CancelRefused(c)
    BY <2>1 DEF TypeOK, CancelRefused, CancelEnds, CancelStates, Done, exchange, database
  <2>2. CASE CancelSend(c)
    <3>1. /\ cancel' \in [Cancellers -> CancelStates]
          /\ answered' \subseteq Orders
      BY <2>2 DEF CancelSend, CancelEnds, TypeOK, CancelStates, Done
    <3>2. UNCHANGED <<database, place, sync, link>>
      BY <2>2 DEF CancelSend
    <3>3. \/ UNCHANGED <<exch, changedAt, exBal, clock, late>>
          \/ \E o \in Orders, st \in Status : Moves(o, st)
      BY <2>2 DEF CancelSend, Status, Open, Final
    <3>4. CASE UNCHANGED <<exch, changedAt, exBal, clock, late>>
      BY <3>1, <3>2, <3>4 DEF TypeOK, database
    <3>5. ASSUME NEW o \in Orders, NEW st \in Status, Moves(o, st)
          PROVE  TypeOK'
      <4>1. late' \in [Syncers -> SUBSET Orders]
        BY <3>5, LateType
      <4>2. /\ exch' = [exch EXCEPT ![o] = st]
            /\ changedAt' = [changedAt EXCEPT ![o] = clock]
            /\ UNCHANGED <<exBal, clock>>
        BY <3>5 DEF Moves
      <4> QED BY <3>1, <3>2, <4>1, <4>2 DEF TypeOK, database
    <3> QED BY <3>3, <3>4, <3>5
  <2>3. CASE CancelRecord(c)
    <3>1. hist' \in [Orders -> Status \cup {Absent}] /\ missed' \subseteq Orders
      BY <2>3 DEF TypeOK, CancelRecord, Status, Final
    <3>2. cancel' \in [Cancellers -> CancelStates]
      BY <2>3 DEF TypeOK, CancelRecord, CancelEnds, CancelStates, Done
    <3>3. QED
      BY <2>3, <3>1, <3>2 DEF TypeOK, CancelRecord, exchange
  <2>4. CASE CancelCrash(c)
    BY <2>4 DEF TypeOK, CancelCrash, CancelEnds, CancelStates, Done, exchange, database
  <2>5. QED
    BY <1>5, <2>1, <2>2, <2>3, <2>4 DEF CancelStep
<1>6. ASSUME NEW s \in Syncers, SyncStep(s) \/ SyncCrash(s)
      PROVE  TypeOK'
  <2>0. Retried(s) \in SyncStates
    BY RetriedType
  <2> DEFINE me == sync[s]
  <2>a. /\ me \in SyncStates
        /\ me = [pc |-> me.pc, tries |-> me.tries, since |-> me.since, at |-> me.at,
                 orders |-> me.orders, bal |-> me.bal]
    BY DEF TypeOK, SyncStates
  <2>b. ASSUME NEW r \in SyncStates, sync' = [sync EXCEPT ![s] = r],
               UNCHANGED <<exchange, database, place, cancel, link>>
        PROVE  TypeOK'
    BY <2>b DEF TypeOK, exchange, database
  <2>1. CASE SyncLoad(s)
    <3>1. [me EXCEPT !.pc = "balances", !.since = lastSync] \in SyncStates
      BY <2>a DEF TypeOK, SyncStates
    <3>2. sync' = [sync EXCEPT ![s] = [me EXCEPT !.pc = "balances", !.since = lastSync]]
      BY <2>1 DEF SyncLoad, TypeOK
    <3>3. QED
      BY <2>b, <2>1, <3>1, <3>2 DEF SyncLoad
  <2>2. CASE SyncBalances(s)
    <3>1. [me EXCEPT !.pc = "orders", !.bal = exBal] \in SyncStates
      BY <2>a DEF TypeOK, SyncStates
    <3>2. sync' = [sync EXCEPT ![s] = [me EXCEPT !.pc = "orders", !.bal = exBal]]
      BY <2>2 DEF SyncBalances, TypeOK
    <3>3. QED
      BY <2>b, <2>2, <3>1, <3>2 DEF SyncBalances
  <2>3. CASE SyncOrders(s)
    <3> DEFINE since == IF me.since = 0 THEN clock - Window ELSE me.since
               seen == [o \in Orders |-> IF ChangedSince(o, since) THEN exch[o] ELSE Absent]
    <3>1. seen \in [Orders -> Status \cup {Absent}]
      BY DEF TypeOK
    <3>2. [me EXCEPT !.pc = "stamp", !.orders = seen] \in SyncStates
      BY <2>a, <3>1 DEF SyncStates
    <3>3. sync' = [sync EXCEPT ![s] = [me EXCEPT !.pc = "stamp", !.orders = seen]]
      BY <2>3 DEF SyncOrders, TypeOK
    <3>4. sync' \in [Syncers -> SyncStates]
      BY <3>2, <3>3 DEF TypeOK
    <3>5. late' \in [Syncers -> SUBSET Orders]
      BY <2>3 DEF SyncOrders, TypeOK
    <3>6. QED
      BY <2>3, <3>4, <3>5 DEF SyncOrders, TypeOK, database
  <2>4. CASE SyncStamp(s)
    <3>0. clock \in 0..MaxClock
      BY DEF TypeOK
    <3>1. [me EXCEPT !.pc = "commit", !.at = clock] \in SyncStates
      BY <2>a, <3>0 DEF SyncStates
    <3>2. sync' = [sync EXCEPT ![s] = [me EXCEPT !.pc = "commit", !.at = clock]]
      BY <2>4 DEF SyncStamp, TypeOK
    <3>3. QED
      BY <2>b, <2>4, <3>1, <3>2 DEF SyncStamp
  <2>5. CASE SyncCommit(s)
    <3>1. Idle("ok", 0) \in SyncStates
      BY IdleType, BoundAssumption DEF Done
    <3>2. sync' \in [Syncers -> SyncStates]
      BY <2>0, <2>5, <3>1 DEF SyncCommit, TypeOK
    <3>3. /\ lastSync' \in 0..MaxClock
          /\ bal' \in [Assets -> 0..MaxBal]
          /\ hist' \in [Orders -> Status \cup {Absent}]
      BY <2>a, <2>5 DEF SyncCommit, TypeOK, SyncStates
    <3>4. missed' \subseteq Orders
      BY <2>5 DEF SyncCommit, TypeOK, Overtaken
    <3>5. QED
      BY <2>5, <3>2, <3>3, <3>4 DEF SyncCommit, TypeOK, exchange
  <2>6. CASE SyncFails(s)
    BY <2>0, <2>b, <2>6 DEF SyncFails
  <2>7. CASE SyncCrash(s)
    <3>1. Idle("lost", 0) \in SyncStates
      BY IdleType, BoundAssumption DEF Done
    <3>2. QED
      BY <2>b, <2>7, <3>1 DEF SyncCrash
  <2>8. QED
    BY <1>6, <2>1, <2>2, <2>3, <2>4, <2>5, <2>6, <2>7 DEF SyncStep
<1>7. ASSUME NEW l \in Linkers, LinkStep(l)
      PROVE  TypeOK'
  <2>1. CASE LinkLoad(l)
    BY <2>1 DEF TypeOK, LinkLoad, LinkStates, exchange, database
  <2>2. CASE LinkSave(l)
    <3>1. lastSync' \in 0..MaxClock
      BY <2>2 DEF LinkSave, TypeOK, LinkStates
    <3>2. link' \in [Linkers -> LinkStates]
      BY <2>2 DEF LinkSave, TypeOK, LinkStates, Done
    <3>3. QED
      BY <2>2, <3>1, <3>2 DEF TypeOK, LinkSave, exchange
  <2>3. QED
    BY <1>7, <2>1, <2>2 DEF LinkStep
<1>8. CASE WalletDelete
  <2>1. wallet' \in BOOLEAN
    BY <1>8 DEF WalletDelete
  <2>2. bal' \in [Assets -> 0..MaxBal]
    BY <1>8 DEF WalletDelete, NoBalances
  <2>3. QED
    BY <1>8, <2>1, <2>2 DEF TypeOK, WalletDelete, exchange
<1>9. CASE UNCHANGED vars
  BY <1>9 DEF TypeOK, vars, exchange, database
<1>10. QED
  BY <1>1, <1>2, <1>3, <1>4, <1>5, <1>6, <1>7, <1>8, <1>9 DEF Next

\* Every variable stays in its type, with any number of tasks and retries.
THEOREM TypeCorrect == Spec => []TypeOK
  BY InitType, NextType, PTL DEF Spec

-----------------------------------------------------------------------------
(* What a step may do to each part of the state                            *)

\* Only accepted, filled or cancelled orders change on the exchange.
LEMMA ExchangeWriters ==
  ASSUME [Next]_vars
  PROVE  \/ exch' = exch
         \/ \E q \in Orders, st \in Status :
              Moves(q, st) /\ (exch[q] = Absent \/ st \in Successors(exch[q]))
<1>1. ASSUME NEW q \in Orders, ExchangeMoves(q)
      PROVE  \E st \in Status : Moves(q, st) /\ (exch[q] = Absent \/ st \in Successors(exch[q]))
  BY <1>1 DEF ExchangeMoves, Opens
<1>2. ASSUME NEW p \in Placers, PlaceStep(p) \/ PlaceCrash(p)
      PROVE  \/ exch' = exch
             \/ \E q \in Orders, st \in Status : Moves(q, st) /\ exch[q] = Absent
  BY <1>2 DEF PlaceStep, PlaceCrash, PlaceRefused, PlaceSend, PlaceWallet,
              PlaceConflict, PlaceCreate, Opens, exchange
<1>3. ASSUME NEW c \in Cancellers, CancelStep(c) \/ CancelCrash(c)
      PROVE  \/ exch' = exch
             \/ \E q \in Orders, st \in Status : Moves(q, st) /\ st \in Successors(exch[q])
  <2>1. {"PENDING_CANCEL", "CANCELED"} \subseteq Status
    BY DEF Status, Open, Final
  <2> QED BY <1>3, <2>1 DEF CancelStep, CancelCrash, CancelRefused, CancelSend, CancelRecord, exchange
<1>4. ASSUME NEW s \in Syncers, SyncStep(s) \/ SyncCrash(s)
      PROVE  exch' = exch
  BY <1>4 DEF SyncStep, SyncCrash, SyncLoad, SyncBalances, SyncOrders, SyncStamp,
              SyncCommit, SyncFails, exchange
<1>5. ASSUME NEW l \in Linkers, LinkStep(l)
      PROVE  exch' = exch
  BY <1>5 DEF LinkStep, LinkLoad, LinkSave, exchange
<1>6. CASE Tick \/ WalletDelete \/ (\E a \in Assets : BalanceMoves(a)) \/ UNCHANGED vars
  BY <1>6 DEF Tick, WalletDelete, BalanceMoves, exchange, vars
<1>7. QED
  BY <1>1, <1>2, <1>3, <1>4, <1>5, <1>6 DEF Next

\* The exchange moves orders forward only.
LEMMA ExchangeForward ==
  ASSUME TypeOK, [Next]_vars, NEW o \in Orders
  PROVE  exch'[o] = exch[o] \/ exch[o] = Absent \/ exch'[o] \in Successors(exch[o])
<1>1. ASSUME NEW q \in Orders, NEW st \in Status, Moves(q, st),
             exch[q] = Absent \/ st \in Successors(exch[q])
      PROVE  exch'[o] = exch[o] \/ exch[o] = Absent \/ exch'[o] \in Successors(exch[o])
  BY <1>1 DEF Moves, TypeOK
<1>2. QED
  BY <1>1, ExchangeWriters

\* The past of an order only grows.
LEMMA PastGrows ==
  ASSUME TypeOK, TypeOK', [Next]_vars, NEW o \in Orders
  PROVE  PastOf(exch[o]) \subseteq PastOf(exch'[o])
<1>1. exch[o] \in Status \cup {Absent} /\ exch'[o] \in Status \cup {Absent}
  BY DEF TypeOK
<1>2. QED
  BY <1>1, ExchangeForward DEF PastOf, Successors, Status, Open, Final, Absent

\* An answer stays answered, and only an answer that cancel_order has had is.
LEMMA AnswersStay ==
  ASSUME [Next]_vars
  PROVE  \/ answered' = answered
         \/ \E c \in Cancellers : CancelSend(c) /\ answered \subseteq answered'
  BY DEF Next, vars, exchange, ExchangeMoves, BalanceMoves, Tick,
         PlaceStep, PlaceCrash, PlaceRefused, PlaceSend, PlaceWallet, PlaceConflict, PlaceCreate,
         CancelStep, CancelCrash, CancelRefused, CancelSend, CancelRecord, SyncStep, SyncCrash,
         SyncLoad, SyncBalances, SyncOrders, SyncStamp, SyncCommit, SyncFails, LinkStep, LinkLoad,
         LinkSave, WalletDelete

\* A status is in its own past.
LEMMA OwnPast == \A st \in Status : st \in PastOf(st)
  BY DEF PastOf, Status, Open, Final

\* Only three actions write rows.
LEMMA HistWriters ==
  ASSUME [Next]_vars
  PROVE  \/ hist' = hist
         \/ \E p \in Placers : PlaceCreate(p)
         \/ \E c \in Cancellers : CancelRecord(c)
         \/ \E s \in Syncers : SyncCommit(s)
  BY DEF Next, vars, exchange, database, ExchangeMoves, Opens, Moves, BalanceMoves, Tick,
         PlaceStep, PlaceCrash, PlaceRefused, PlaceSend, PlaceWallet, PlaceConflict,
         CancelStep, CancelCrash, CancelRefused, CancelSend, SyncStep, SyncCrash,
         SyncLoad, SyncBalances, SyncOrders, SyncStamp, SyncFails, LinkStep, LinkLoad,
         LinkSave, WalletDelete

\* No step takes a row away.
LEMMA RowsStay ==
  ASSUME TypeOK, [Next]_vars, NEW o \in Orders, hist[o] # Absent
  PROVE  hist'[o] # Absent
<1>1. ASSUME NEW p \in Placers, PlaceCreate(p)
      PROVE  hist'[o] # Absent
  BY <1>1 DEF PlaceCreate, TypeOK, PlaceStates, Status, Open, Final, Absent
<1>2. ASSUME NEW c \in Cancellers, CancelRecord(c)
      PROVE  hist'[o] # Absent
  BY <1>2 DEF CancelRecord, TypeOK, Absent
<1>3. ASSUME NEW s \in Syncers, SyncCommit(s)
      PROVE  hist'[o] # Absent
  BY <1>3 DEF SyncCommit, FetchedOrders
<1>4. QED
  BY <1>1, <1>2, <1>3, HistWriters

\* Only place_order and its steps change a placement.
LEMMA PlaceWriters ==
  ASSUME [Next]_vars
  PROVE  place' = place \/ \E q \in Placers : PlaceStep(q) \/ PlaceCrash(q)
  BY DEF Next, vars, ExchangeMoves, BalanceMoves, Tick, CancelStep, CancelCrash,
         CancelRefused, CancelSend, CancelRecord, SyncStep, SyncCrash, SyncLoad,
         SyncBalances, SyncOrders, SyncStamp, SyncCommit, SyncFails, LinkStep, LinkLoad,
         LinkSave, WalletDelete

\* Only the task that runs a sync changes it.
LEMMA SyncWriters ==
  ASSUME [Next]_vars
  PROVE  sync' = sync \/ \E q \in Syncers : SyncStep(q) \/ SyncCrash(q)
  BY DEF Next, vars, ExchangeMoves, BalanceMoves, Tick, PlaceStep, PlaceCrash,
         PlaceRefused, PlaceSend, PlaceWallet, PlaceConflict, PlaceCreate, CancelStep,
         CancelCrash, CancelRefused, CancelSend, CancelRecord, LinkStep, LinkLoad,
         LinkSave, WalletDelete

-----------------------------------------------------------------------------
(* The rows are truthful                                                   *)

\* What the calls carry, and what the rows say, is a status the order has or
\* had.  A row is written from what a call carries, so RecordTruthful is not
\* inductive by itself.
Truthful == RecordTruthful /\ InFlightTruthful

\* Nothing is recorded or under way at first, so nothing is untrue.
LEMMA InitTruthful == Init => Truthful
  BY DEF Init, Truthful, RecordTruthful, InFlightTruthful, PlaceTruthful, CancelTruthful,
         SyncTruthful, NoOrders, Idle

\* Rows stay truthful: what is written was, and the past of an order only grows.
LEMMA RecordStaysTruthful ==
  ASSUME TypeOK, TypeOK', Truthful, [Next]_vars
  PROVE  RecordTruthful'
<1> SUFFICES ASSUME NEW o \in Orders, hist'[o] # Absent
             PROVE  hist'[o] \in PastOf(exch'[o]) \/ (hist'[o] = "CANCELED" /\ o \in answered')
  BY DEF RecordTruthful
<1>1. CASE hist'[o] = hist[o]
  BY <1>1, PastGrows, AnswersStay DEF Truthful, RecordTruthful
<1>2. ASSUME NEW p \in Placers, PlaceCreate(p), hist'[o] # hist[o]
      PROVE  hist'[o] \in PastOf(exch'[o])
  <2>1. place[p].order = o /\ hist'[o] = place[p].status /\ place[p].pc = "create" /\ o # NoOrder
    BY <1>2, OrderAssumption DEF PlaceCreate, TypeOK
  <2>2. QED
    BY <2>1, PastGrows DEF Truthful, InFlightTruthful, PlaceTruthful
<1>3. ASSUME NEW c \in Cancellers, CancelRecord(c), hist'[o] # hist[o]
      PROVE  hist'[o] = "CANCELED" /\ o \in answered'
  <2>1. cancel[c].order = o /\ hist'[o] = "CANCELED" /\ cancel[c].pc = "record"
    BY <1>3 DEF CancelRecord, TypeOK
  <2>2. QED
    BY <2>1, AnswersStay DEF Truthful, InFlightTruthful, CancelTruthful
<1>4. ASSUME NEW s \in Syncers, SyncCommit(s), hist'[o] # hist[o]
      PROVE  hist'[o] \in PastOf(exch'[o])
  <2>1. hist'[o] = sync[s].orders[o] /\ sync[s].orders[o] # Absent
    BY <1>4 DEF SyncCommit, FetchedOrders
  <2>2. QED
    BY <2>1, PastGrows DEF Truthful, InFlightTruthful, SyncTruthful
<1>5. QED
  BY <1>1, <1>2, <1>3, <1>4, HistWriters

\* What a placement carries stays truthful.
LEMMA PlaceStaysTruthful ==
  ASSUME TypeOK, TypeOK', Truthful, [Next]_vars
  PROVE  PlaceTruthful'
<1> SUFFICES ASSUME NEW p \in Placers,
                    place'[p].pc \in {"wallet", "create"}, place'[p].order # NoOrder
             PROVE  place'[p].status \in PastOf(exch'[place'[p].order])
  BY DEF PlaceTruthful
<1>1. \/ /\ place[p].pc \in {"wallet", "create"}
         /\ place'[p].order = place[p].order /\ place'[p].status = place[p].status
      \/ place'[p].order \in Orders /\ place'[p].status = exch'[place'[p].order]
  <2>1. CASE place' = place
    BY <2>1
  <2>2. ASSUME NEW q \in Placers, PlaceSend(q)
        PROVE  \/ place'[p] = place[p]
               \/ place'[p].order \in Orders /\ place'[p].status = exch'[place'[p].order]
    <3>1. PICK o \in Orders, st \in Status :
            /\ Moves(o, st)
            /\ \/ PlaceEnds(q, "error", NoOrder)
               \/ \E id \in {o, NoOrder} : place' =
                    [place EXCEPT ![q] = [pc |-> "wallet", order |-> id, status |-> st]]
      BY <2>2 DEF PlaceSend, Opens
    <3>2. exch'[o] = st
      BY <3>1 DEF Moves, TypeOK
    <3>3. CASE PlaceEnds(q, "error", NoOrder)
      BY <3>3 DEF TypeOK, PlaceEnds
    <3>4. CASE \E id \in {o, NoOrder} : place' =
                 [place EXCEPT ![q] = [pc |-> "wallet", order |-> id, status |-> st]]
      BY <3>2, <3>4 DEF TypeOK
    <3>5. QED
      BY <3>1, <3>3, <3>4
  <2>3. ASSUME NEW q \in Placers, place[q].pc = "wallet",
               place' = [place EXCEPT ![q].pc = "create"]
        PROVE  \/ place'[p] = place[p]
               \/ /\ place[p].pc \in {"wallet", "create"}
                  /\ place'[p].order = place[p].order /\ place'[p].status = place[p].status
    BY <2>3 DEF TypeOK, PlaceStates
  <2>4. ASSUME NEW q \in Placers, NEW pc \in Done, NEW order, PlaceEnds(q, pc, order)
        PROVE  place'[p] = place[p]
    BY <2>4 DEF PlaceEnds, TypeOK, Done
  <2>5. ASSUME NEW q \in Placers, \/ PlaceRefused(q) \/ PlaceCrash(q) \/ PlaceWallet(q)
                                  \/ PlaceConflict(q) \/ PlaceCreate(q)
        PROVE  \/ \E pc \in Done, order \in Orders \cup {NoOrder} : PlaceEnds(q, pc, order)
               \/ place[q].pc = "wallet" /\ place' = [place EXCEPT ![q].pc = "create"]
    BY <2>5 DEF PlaceRefused, PlaceCrash, PlaceWallet, PlaceConflict, PlaceCreate, Done,
                TypeOK, PlaceStates
  <2>6. QED
    BY <2>1, <2>2, <2>3, <2>4, <2>5, PlaceWriters DEF PlaceStep
<1>2. place'[p].order \in Orders
  BY DEF TypeOK, PlaceStates
<1>3. CASE place'[p].order \in Orders /\ place'[p].status = exch'[place'[p].order]
  <2>1. place'[p].status \in Status
    BY DEF TypeOK, PlaceStates
  <2>2. QED
    BY <1>3, <2>1, OwnPast
<1>4. CASE /\ place[p].pc \in {"wallet", "create"}
           /\ place'[p].order = place[p].order /\ place'[p].status = place[p].status
  <2>1. place[p].status \in PastOf(exch[place[p].order])
    BY <1>4 DEF Truthful, InFlightTruthful, PlaceTruthful
  <2>2. QED
    BY <1>2, <1>4, <2>1, PastGrows
<1>5. QED
  BY <1>1, <1>3, <1>4

\* What a cancellation carries stays truthful.
LEMMA CancelStaysTruthful ==
  ASSUME TypeOK, TypeOK', Truthful, [Next]_vars
  PROVE  CancelTruthful'
<1> SUFFICES ASSUME NEW c \in Cancellers, cancel'[c].pc = "record"
             PROVE  cancel'[c].order # NoOrder /\ cancel'[c].order \in answered'
  BY DEF CancelTruthful
<1>1. CASE cancel'[c] = cancel[c]
  BY <1>1, AnswersStay DEF Truthful, InFlightTruthful, CancelTruthful
<1>2. ASSUME NEW d \in Cancellers, CancelSend(d), cancel'[c] # cancel[c]
      PROVE  cancel'[c].order # NoOrder /\ cancel'[c].order \in answered'
  <2>1. PICK o \in Orders :
          \/ CancelEnds(d, "error")
          \/ /\ cancel' = [cancel EXCEPT ![d] = [pc |-> "record", order |-> o]]
             /\ answered' = answered \cup {o}
    BY <1>2 DEF CancelSend
  <2>2. cancel'[c].order = o /\ answered' = answered \cup {o}
    BY <1>2, <2>1 DEF TypeOK, CancelEnds
  <2>3. QED
    BY <2>2, OrderAssumption
<1>3. ASSUME NEW d \in Cancellers, CancelRefused(d) \/ CancelRecord(d) \/ CancelCrash(d)
      PROVE  cancel'[c] = cancel[c]
  <2>1. PICK pc \in Done : CancelEnds(d, pc)
    BY <1>3 DEF CancelRefused, CancelRecord, CancelCrash, Done
  <2> QED BY <2>1 DEF CancelEnds, TypeOK, Done
<1>4. cancel' = cancel \/ \E d \in Cancellers : CancelStep(d) \/ CancelCrash(d)
  BY DEF Next, vars, ExchangeMoves, BalanceMoves, Tick, PlaceStep, PlaceCrash,
         PlaceRefused, PlaceSend, PlaceWallet, PlaceConflict, PlaceCreate, SyncStep,
         SyncCrash, SyncLoad, SyncBalances, SyncOrders, SyncStamp, SyncCommit, SyncFails,
         LinkStep, LinkLoad, LinkSave, WalletDelete
<1>5. QED
  BY <1>1, <1>2, <1>3, <1>4 DEF CancelStep

\* What a sync has fetched stays truthful.
LEMMA SyncStaysTruthful ==
  ASSUME TypeOK, TypeOK', Truthful, [Next]_vars
  PROVE  SyncTruthful'
<1> SUFFICES ASSUME NEW s \in Syncers, NEW o \in Orders, sync'[s].orders[o] # Absent
             PROVE  sync'[s].orders[o] \in PastOf(exch'[o])
  BY DEF SyncTruthful
<1>1. CASE sync'[s].orders = sync[s].orders
  BY <1>1, PastGrows DEF Truthful, InFlightTruthful, SyncTruthful
<1>2. CASE sync'[s].orders[o] = exch[o] /\ exch' = exch
  BY <1>2, OwnPast DEF TypeOK
<1>3. ASSUME NEW q \in Syncers, SyncOrders(q)
      PROVE  \/ sync'[s].orders = sync[s].orders
             \/ sync'[s].orders[o] = exch[o] /\ exch' = exch
  <2>1. DOMAIN sync = Syncers /\ exch' = exch
    BY <1>3 DEF SyncOrders, TypeOK, exchange
  <2>2. CASE s # q
    BY <1>3, <2>1, <2>2 DEF SyncOrders
  <2>3. CASE s = q
    <3>1. sync[s] \in SyncStates BY DEF TypeOK
    <3>2. PICK n : sync' = [sync EXCEPT ![s].pc = "stamp",
                                        ![s].orders = [x \in Orders |->
                                          IF ChangedSince(x, n) THEN exch[x] ELSE Absent]]
      BY <1>3, <2>3 DEF SyncOrders
    <3>3. sync'[s].orders = [x \in Orders |-> IF ChangedSince(x, n) THEN exch[x] ELSE Absent]
      BY <2>1, <3>1, <3>2 DEF SyncStates
    <3>4. sync'[s].orders[o] = exch[o]
      BY <3>3
    <3> QED BY <2>1, <3>4
  <2>4. QED
    BY <2>2, <2>3
<1>4. ASSUME NEW q \in Syncers, SyncLoad(q) \/ SyncBalances(q) \/ SyncStamp(q)
      PROVE  sync'[s].orders = sync[s].orders
  <2>1. CASE SyncLoad(q)
    BY <2>1 DEF SyncLoad, TypeOK, SyncStates
  <2>2. CASE SyncBalances(q)
    BY <2>2 DEF SyncBalances, TypeOK, SyncStates
  <2>3. CASE SyncStamp(q)
    BY <2>3 DEF SyncStamp, TypeOK, SyncStates
  <2>4. QED
    BY <1>4, <2>1, <2>2, <2>3
<1>5. ASSUME NEW q \in Syncers, SyncCommit(q) \/ SyncFails(q) \/ SyncCrash(q)
      PROVE  sync'[s].orders = sync[s].orders
  <2>0. \A pc, n : Idle(pc, n).orders = NoOrders
    BY DEF Idle
  <2>1. PICK r : sync' = [sync EXCEPT ![q] = r] /\ r.orders = NoOrders
    <3>1. Retried(q).orders = NoOrders
      BY <2>0 DEF Retried
    <3>2. QED
      BY <1>5, <2>0, <3>1 DEF SyncCommit, SyncFails, SyncCrash
  <2>2. s # q
    BY <2>1 DEF TypeOK, NoOrders
  <2>3. QED
    BY <2>1, <2>2 DEF TypeOK
<1>6. QED
  BY <1>1, <1>2, <1>3, <1>4, <1>5, SyncWriters DEF SyncStep

\* Every step keeps rows and calls truthful.
LEMMA NextTruthful == TypeOK /\ TypeOK' /\ Truthful /\ [Next]_vars => Truthful'
  BY RecordStaysTruthful, PlaceStaysTruthful, CancelStaysTruthful, SyncStaysTruthful
  DEF Truthful, InFlightTruthful

\* Rows, and what the calls under way will write to rows, are always truthful.
THEOREM TruthfulAlways == Spec => []Truthful
  BY TypeCorrect, InitTruthful, NextTruthful, PTL DEF Spec

\* A row shows a status its order has or had, however the calls interleave, or
\* it is CANCELED and the exchange has answered a cancellation of its order.
THEOREM RecordsAreTruthful == Spec => []RecordTruthful
<1>1. Truthful => RecordTruthful
  BY DEF Truthful
<1>2. QED
  BY <1>1, TruthfulAlways, PTL

\* So does everything a call still carries: a cancellation that is about to
\* write CANCELED has had an answer.
THEOREM CallsAreTruthful == Spec => []InFlightTruthful
<1>1. Truthful => InFlightTruthful
  BY DEF Truthful
<1>2. QED
  BY <1>1, TruthfulAlways, PTL

-----------------------------------------------------------------------------
(* The account implements the mirror                                       *)

\* What the mirror says of statuses is what the module says of them.
LEMMA MirrorStatuses ==
  /\ Mirror!Status = Status /\ Mirror!Absent = Absent
  /\ \A st : Mirror!Successors(st) = Successors(st) /\ Mirror!PastOf(st) = PastOf(st)
BY DEF Mirror!Status, Mirror!Open, Mirror!Final, Mirror!Absent, Mirror!Successors, Mirror!PastOf,
       Status, Open, Final, Absent, Successors, PastOf

\* The initial states are initial states of the mirror.
LEMMA InitMirror == Init => Mirror!Init
  BY MirrorStatuses DEF Init, Mirror!Init, NoOrders

\* The order an exchange step moves is the only one it changes.
LEMMA MirrorMoves ==
  ASSUME TypeOK, NEW o \in Orders, NEW st \in Status, Moves(o, st),
         UNCHANGED <<answered, hist>>, exch[o] = Absent \/ st \in Successors(exch[o])
  PROVE  Mirror!Next
  BY MirrorStatuses DEF Moves, Mirror!Next, Mirror!ExchangeMoves

\* The exchange's side of a cancellation that is answered is an answer in the
\* mirror; one whose answer is lost is a step of the exchange, or none.
LEMMA MirrorAnswers ==
  ASSUME TypeOK, NEW c \in Cancellers, CancelSend(c)
  PROVE  [Mirror!Next]_<<exch, answered, hist>>
<1>1. PICK o \in Orders :
        /\ exch[o] # Absent
        /\ \/ \E st \in {"PENDING_CANCEL", "CANCELED"} \cap Successors(exch[o]) : Moves(o, st)
           \/ UNCHANGED exch
        /\ answered' = answered \/ answered' = answered \cup {o}
  BY DEF CancelSend
<1>2. hist' = hist
  BY DEF CancelSend, database
<1>3. exch \in [Orders -> Status \cup {Absent}]
  BY DEF TypeOK
<1>4. CASE answered' = answered
  <2>1. {"PENDING_CANCEL", "CANCELED"} \subseteq Status
    BY DEF Status, Open, Final
  <2> QED BY <1>1, <1>2, <1>4, <2>1, MirrorMoves
<1>5. CASE answered' = answered \cup {o}
  <2>1. \E st \in {exch[o]} \cup (Successors(exch[o]) \cap {"PENDING_CANCEL", "CANCELED"}) :
          exch' = [exch EXCEPT ![o] = st]
    <3>1. CASE UNCHANGED exch
      BY <1>3, <3>1
    <3>2. ASSUME NEW st \in {"PENDING_CANCEL", "CANCELED"} \cap Successors(exch[o]), Moves(o, st)
          PROVE  exch' = [exch EXCEPT ![o] = st]
      BY <3>2 DEF Moves
    <3> QED BY <1>1, <3>1, <3>2
  <2>2. Mirror!Answers(o)
    BY <1>1, <1>2, <1>5, <2>1, MirrorStatuses DEF Mirror!Answers
  <2> QED BY <2>2 DEF Mirror!Next
<1> QED BY <1>1, <1>4, <1>5

\* Every step is a step of the mirror or leaves it as it is.
LEMMA NextMirror ==
  ASSUME TypeOK, TypeOK', Truthful, Truthful', [Next]_vars
  PROVE  [Mirror!Next]_<<exch, answered, hist>>
<1>1. CASE \E c \in Cancellers : CancelSend(c)
  BY <1>1, MirrorAnswers
<1>2. CASE hist' # hist
  <2>1. exch' = exch /\ answered' = answered
    BY <1>2, HistWriters DEF PlaceCreate, CancelRecord, SyncCommit, exchange
  <2>2. \A o \in Orders : hist'[o] = hist[o] \/ hist'[o] \in Mirror!Showable(o)
    <3> TAKE o \in Orders
    <3>1. hist'[o] = Absent => hist[o] = Absent
      BY RowsStay
    <3>2. CASE hist'[o] # Absent
      BY <2>1, <3>2, MirrorStatuses DEF Truthful, RecordTruthful, Mirror!Showable
    <3> QED BY <3>1, <3>2
  <2> QED BY <2>1, <2>2, MirrorStatuses DEF TypeOK, Mirror!Next, Mirror!Write
<1>3. CASE hist' = hist /\ answered' = answered
  <2>1. CASE exch' = exch
    BY <1>3, <2>1
  <2>2. ASSUME NEW o \in Orders, NEW st \in Status, Moves(o, st),
               exch[o] = Absent \/ st \in Successors(exch[o])
        PROVE  Mirror!Next
    BY <1>3, <2>2, MirrorMoves
  <2> QED BY <2>1, <2>2, ExchangeWriters
<1> QED BY <1>1, <1>2, <1>3, AnswersStay

\* Whatever the tasks, the exchange and the users do, the rows stay a mirror
\* of the exchange as OrderMirror describes it: nothing is shown that never
\* was, but CANCELED where a cancellation has been answered.
THEOREM ImplementsMirror == Spec => MirrorSpec
<1>1. Spec => Mirror!Init /\ [][Mirror!Next]_<<exch, answered, hist>>
  BY InitMirror, NextMirror, TypeCorrect, TruthfulAlways, PTL DEF Spec
<1>2. QED
  BY <1>1, PTL DEF MirrorSpec, Mirror!Spec

\* RecordTruthful holds of whatever implements OrderMirror, so a run that
\* checks MirrorSpec checks it.
THEOREM MirrorIsTruthful == MirrorSpec => []RecordTruthful
<1> DEFINE Typed == /\ exch \in [Orders -> Status \cup {Absent}]
                    /\ hist \in [Orders -> Status \cup {Absent}]
           Inv == Typed /\ RecordTruthful
<1>1. Mirror!Init => Inv
  BY MirrorStatuses DEF Mirror!Init, RecordTruthful
<1>2. ASSUME Inv, [Mirror!Next]_<<exch, answered, hist>> PROVE Inv'
  <2>1. CASE UNCHANGED <<exch, answered, hist>>
    BY <1>2, <2>1 DEF RecordTruthful
  <2>2. ASSUME NEW o \in Orders, Mirror!ExchangeMoves(o) \/ Mirror!Answers(o) PROVE Inv'
    <3>1. PICK st \in Status :
            /\ st = exch[o] \/ exch[o] = Absent \/ st \in Successors(exch[o])
            /\ exch' = [exch EXCEPT ![o] = st]
      <4>1. CASE Mirror!ExchangeMoves(o)
        BY <4>1, MirrorStatuses DEF Mirror!ExchangeMoves
      <4>2. CASE Mirror!Answers(o)
        <5>1. exch[o] \in Status /\ {"PENDING_CANCEL", "CANCELED"} \subseteq Status
          BY <1>2, <4>2, MirrorStatuses DEF Mirror!Answers, Status, Open, Final
        <5> QED BY <4>2, <5>1, MirrorStatuses DEF Mirror!Answers
      <4> QED BY <2>2, <4>1, <4>2
    <3>2. hist' = hist /\ answered \subseteq answered'
      BY <2>2 DEF Mirror!ExchangeMoves, Mirror!Answers
    <3>3. exch[o] \in Status \cup {Absent}
      BY <1>2
    <3>4. PastOf(exch[o]) \subseteq PastOf(st)
      BY <3>1, <3>3 DEF PastOf, Successors, Status, Open, Final, Absent
    <3>5. /\ exch' \in [Orders -> Status \cup {Absent}] /\ exch'[o] = st
          /\ \A p \in Orders \ {o} : exch'[p] = exch[p]
      BY <1>2, <3>1
    <3>6. \A p \in Orders : PastOf(exch[p]) \subseteq PastOf(exch'[p])
      BY <3>4, <3>5
    <3> QED BY <1>2, <3>2, <3>5, <3>6 DEF RecordTruthful
  <2>3. CASE Mirror!Write
    BY <1>2, <2>3, MirrorStatuses DEF Mirror!Write, Mirror!Showable, RecordTruthful
  <2> QED BY <1>2, <2>1, <2>2, <2>3 DEF Mirror!Next
<1>3. Inv => RecordTruthful
  OBVIOUS
<1> QED
  <2>1. Inv /\ [Mirror!Next]_<<exch, answered, hist>> => Inv'
    BY <1>2
  <2> HIDE DEF Inv
  <2> QED BY <1>1, <1>3, <2>1, PTL DEF MirrorSpec, Mirror!Spec

-----------------------------------------------------------------------------
(* Placements are recorded, and only placements make rows                  *)

\* No placement has returned at first.
LEMMA InitRecorded == Init => PlacedIsRecorded
  BY DEF Init, PlacedIsRecorded

\* Every step keeps the rows of placements that have returned.
LEMMA NextRecorded ==
  ASSUME TypeOK, TypeOK', PlacedIsRecorded, [Next]_vars
  PROVE  PlacedIsRecorded'
<1> SUFFICES ASSUME NEW p \in Placers, place'[p].pc = "ok"
             PROVE  place'[p].order # NoOrder /\ hist'[place'[p].order] # Absent
  BY DEF PlacedIsRecorded
<1>1. CASE place'[p] = place[p]
  <2>1. place[p].order \in Orders /\ hist[place[p].order] # Absent
    BY <1>1 DEF PlacedIsRecorded, TypeOK, PlaceStates
  <2>2. QED
    BY <1>1, <2>1, RowsStay, OrderAssumption
<1>2. ASSUME NEW q \in Placers, PlaceCreate(q), place'[p] # place[p]
      PROVE  place'[p].order # NoOrder /\ hist'[place'[p].order] # Absent
  <2>1. place[q].order \in Orders
    BY <1>2 DEF TypeOK, PlaceStates, PlaceCreate, Insertable
  <2>2. place'[p].order = place[q].order
    BY <1>2 DEF TypeOK, PlaceCreate, PlaceEnds
  <2>3. hist'[place[q].order] = place[q].status /\ place[q].status # Absent
    BY <1>2, <2>1 DEF PlaceCreate, TypeOK, PlaceStates, Status, Open, Final, Absent
  <2>4. QED
    BY <2>1, <2>2, <2>3, OrderAssumption
<1>3. ASSUME NEW q \in Placers, NEW pc \in {"error", "lost"}, PlaceEnds(q, pc, NoOrder)
      PROVE  place'[p] = place[p]
  BY <1>3 DEF PlaceEnds, TypeOK
<1>4. ASSUME NEW q \in Placers, PlaceWallet(q)
      PROVE  place'[p] = place[p]
  <2>1. CASE place' = [place EXCEPT ![q].pc = "create"]
    BY <2>1 DEF TypeOK, PlaceStates
  <2> QED BY <1>3, <1>4, <2>1 DEF PlaceWallet
<1>5. ASSUME NEW q \in Placers, PlaceSend(q)
      PROVE  place'[p] = place[p]
  <2>1. ASSUME NEW id, NEW st,
               place' = [place EXCEPT ![q] = [pc |-> "wallet", order |-> id, status |-> st]]
        PROVE  place'[p] = place[p]
    BY <2>1 DEF TypeOK
  <2> QED BY <1>3, <1>5, <2>1 DEF PlaceSend
<1>6. QED
  BY <1>1, <1>2, <1>3, <1>4, <1>5, PlaceWriters
  DEF PlaceStep, PlaceRefused, PlaceConflict, PlaceCrash

\* When place_order returns normally its order has a row, and keeps it.
THEOREM PlacementsAreRecorded == Spec => []PlacedIsRecorded
  BY TypeCorrect, InitRecorded, NextRecorded, PTL DEF Spec

\* A step that makes a row is the create step of a placement.
LEMMA StepPlacesRows ==
  ASSUME TypeOK, [Next]_vars, NEW o \in Orders, hist[o] = Absent, hist'[o] # Absent
  PROVE  \E p \in Placers : /\ place[p].pc = "create" /\ place[p].order = o
                            /\ place'[p].pc \in {"ok", "error"}
<1>1. ASSUME NEW p \in Placers, PlaceCreate(p)
      PROVE  /\ place[p].pc = "create" /\ place[p].order = o
             /\ place'[p].pc \in {"ok", "error"}
  BY <1>1 DEF PlaceCreate, PlaceEnds, TypeOK, PlaceStates
<1>2. ASSUME NEW c \in Cancellers, CancelRecord(c)
      PROVE  hist'[o] = Absent
  BY <1>2 DEF CancelRecord, TypeOK
<1>3. ASSUME NEW s \in Syncers, SyncCommit(s)
      PROVE  hist'[o] = Absent
  BY <1>3 DEF SyncCommit, AllHaveRows
<1>4. QED
  BY <1>1, <1>2, <1>3, HistWriters

\* No sync, cancel or retry ever makes a row: only a placement does.
THEOREM OnlyPlacementsMakeRows == Spec => RowsComeFromPlacement
<1>1. TypeOK /\ [Next]_vars =>
        [\A o \in Orders : hist[o] = Absent /\ hist'[o] # Absent =>
           \E p \in Placers : /\ place[p].pc = "create" /\ place[p].order = o
                              /\ place'[p].pc \in {"ok", "error"}]_vars
  BY StepPlacesRows
<1>2. QED
  BY <1>1, TypeCorrect, PTL DEF Spec, RowsComeFromPlacement

-----------------------------------------------------------------------------
(* A sync's transaction is all or nothing                                  *)

\* A step that ends the transaction of a sync writes all of it or nothing.
LEMMA StepAllOrNothing ==
  ASSUME TypeOK, [Next]_vars, NEW s \in Syncers,
         sync[s].pc = "commit", sync'[s] # sync[s]
  PROVE  \/ UNCHANGED database
         \/ /\ lastSync' = sync[s].at
            /\ \A o \in FetchedOrders(s) : hist'[o] = sync[s].orders[o]
            /\ \A a \in FetchedAssets(s) : bal'[a] = sync[s].bal[a]
<1>1. PICK q \in Syncers : SyncStep(q) \/ SyncCrash(q)
  BY SyncWriters
<1>2. CASE SyncCommit(q)
  <2>1. q = s
    BY <1>2 DEF SyncCommit, TypeOK
  <2>2. FetchedOrders(s) \subseteq Orders /\ FetchedAssets(s) \subseteq Assets
    BY DEF FetchedOrders, FetchedAssets
  <2>3. QED
    BY <1>2, <2>1, <2>2 DEF SyncCommit
<1>3. CASE ~SyncCommit(q)
  BY <1>1, <1>3 DEF SyncStep, SyncLoad, SyncBalances, SyncOrders, SyncStamp, SyncFails,
                    SyncCrash
<1>4. QED
  BY <1>2, <1>3

\* last_sync_at, the orders and the balances of a sync are written together
\* or not at all.
THEOREM SyncsAreAtomic == Spec => SyncAllOrNothing
<1>1. TypeOK /\ [Next]_vars =>
        [\A s \in Syncers : sync[s].pc = "commit" /\ sync'[s] # sync[s] =>
           \/ UNCHANGED database
           \/ /\ lastSync' = sync[s].at
              /\ \A o \in FetchedOrders(s) : hist'[o] = sync[s].orders[o]
              /\ \A a \in FetchedAssets(s) : bal'[a] = sync[s].bal[a]]_vars
  BY StepAllOrNothing
<1>2. QED
  BY <1>1, TypeCorrect, PTL DEF Spec, SyncAllOrNothing

-----------------------------------------------------------------------------
(* What a sync leaves out of date                                          *)

\* A change of order o before time t is in its row, or was missed.
UpToDate(o, t) ==
  exch[o] # Absent /\ changedAt[o] < t => hist[o] = exch[o] \/ o \in missed

\* What a sync has fetched, it has fetched as it is now, but for late orders
\* and those that have not changed since the last sync.
FetchedNow(s) ==
  sync[s].pc \in {"stamp", "commit"} =>
    \A o \in Orders : exch[o] # Absent =>
      \/ o \in late[s]
      \/ sync[s].orders[o] = exch[o]
      \/ /\ sync[s].orders[o] = Absent
         /\ sync[s].since # 0 /\ changedAt[o] < sync[s].since

\* Every time that is last_sync_at, or is kept by a sync or a view that may
\* make it so, is past, and the changes before it are accounted for.
LagInv ==
  /\ lastSync <= clock /\ \A o \in Orders : UpToDate(o, lastSync)
  /\ \A s \in Syncers :
       /\ FetchedNow(s) /\ sync[s].at <= clock
       /\ sync[s].since <= clock /\ \A o \in Orders : UpToDate(o, sync[s].since)
  /\ \A l \in Linkers :
       /\ link[l].seen <= clock /\ \A o \in Orders : UpToDate(o, link[l].seen)

\* Before the first change there is nothing to account for.
LEMMA NothingBefore ==
  ASSUME TypeOK, NEW o \in Orders
  PROVE  UpToDate(o, 0)
BY DEF TypeOK, UpToDate

LEMMA InitLag == Init => LagInv
<1> SUFFICES ASSUME Init PROVE LagInv
  OBVIOUS
<1>1. TypeOK
  BY InitType
<1>2. Idle("load", 0).pc = "load" /\ Idle("load", 0).since = 0 /\ Idle("load", 0).at = 0
  BY DEF Idle
<1>3. \A o \in Orders : UpToDate(o, 0)
  BY <1>1, NothingBefore
<1> QED BY <1>2, <1>3 DEF Init, LagInv, FetchedNow

\* What a commit writes to the row of an order, and what it is said to miss.
LEMMA CommitIs ==
  ASSUME TypeOK, "ORDER_HISTORY" \in Normalized, NEW s \in Syncers, SyncCommit(s),
         NEW o \in Orders
  PROVE  /\ exch' = exch /\ changedAt' = changedAt
         /\ hist'[o] = IF sync[s].orders[o] # Absent THEN sync[s].orders[o] ELSE hist[o]
         /\ \/ hist'[o] = exch[o]
            \/ o \in missed' <=> o \in missed \/ o \in Overtaken(s)
BY DEF SyncCommit, FetchedOrders, exchange

\* A commit keeps accounted for what was, and adds the time it writes.
LEMMA CommitKeepsUpToDate ==
  ASSUME TypeOK, "ORDER_HISTORY" \in Normalized, NEW s \in Syncers, SyncCommit(s),
         NEW o \in Orders, FetchedNow(s), NEW t \in Nat,
         UpToDate(o, t) \/ (t = sync[s].at /\ UpToDate(o, sync[s].since))
  PROVE  exch'[o] # Absent /\ changedAt'[o] < t => hist'[o] = exch'[o] \/ o \in missed'
<1> SUFFICES ASSUME exch[o] # Absent, changedAt[o] < t, hist'[o] # exch[o]
             PROVE  o \in missed \/ o \in Overtaken(s)
  BY CommitIs
<1>1. sync[s].pc = "commit"
  BY DEF SyncCommit
<1>2. CASE o \in late[s] /\ (t = sync[s].at \/ hist[o] = exch[o])
  BY <1>2 DEF Overtaken
<1>3. CASE o \in late[s] /\ t # sync[s].at /\ hist[o] # exch[o]
  BY <1>3 DEF UpToDate
<1>4. CASE o \notin late[s]
  <2>1. sync[s].orders[o] # exch[o]
    BY CommitIs
  <2>2. sync[s].orders[o] = Absent /\ changedAt[o] < sync[s].since
    BY <1>1, <1>4, <2>1 DEF FetchedNow
  <2>3. hist[o] # exch[o]
    BY <2>2, CommitIs
  <2> QED BY <2>2, <2>3 DEF UpToDate
<1> QED BY <1>2, <1>3, <1>4

\* Only a step of the exchange changes orders, and only three steps rows.
LEMMA RowAndChangeWriters ==
  ASSUME [Next]_vars
  PROVE  \/ UNCHANGED <<exch, changedAt, hist, missed>>
         \/ \E q \in Orders, st \in Status : Moves(q, st) /\ UNCHANGED <<hist, missed>>
         \/ \E p \in Placers : PlaceCreate(p)
         \/ \E c \in Cancellers : CancelRecord(c)
         \/ \E s \in Syncers : SyncCommit(s)
<1> DEFINE Unmoved == UNCHANGED <<exch, changedAt, hist, missed>>
           Moved == \E q \in Orders, st \in Status : Moves(q, st) /\ UNCHANGED <<hist, missed>>
<1>1. ASSUME NEW q \in Orders, ExchangeMoves(q) PROVE Moved
  BY <1>1 DEF ExchangeMoves, Opens, database
<1>2. ASSUME NEW p \in Placers, PlaceStep(p) \/ PlaceCrash(p)
      PROVE  Unmoved \/ Moved \/ PlaceCreate(p)
  BY <1>2 DEF PlaceStep, PlaceCrash, PlaceRefused, PlaceSend, PlaceWallet, PlaceConflict, Opens,
              exchange, database
<1>3. ASSUME NEW c \in Cancellers, CancelStep(c) \/ CancelCrash(c)
      PROVE  Unmoved \/ Moved \/ CancelRecord(c)
  <2>1. {"PENDING_CANCEL", "CANCELED"} \subseteq Status
    BY DEF Status, Open, Final
  <2> QED BY <1>3, <2>1 DEF CancelStep, CancelCrash, CancelRefused, CancelSend, exchange, database
<1>4. ASSUME NEW s \in Syncers, SyncStep(s) \/ SyncCrash(s)
      PROVE  Unmoved \/ SyncCommit(s)
  BY <1>4 DEF SyncStep, SyncCrash, SyncLoad, SyncBalances, SyncOrders, SyncStamp, SyncFails,
              exchange, database
<1>5. ASSUME NEW l \in Linkers, LinkStep(l) PROVE Unmoved
  BY <1>5 DEF LinkStep, LinkLoad, LinkSave, exchange, database
<1>6. CASE Tick \/ WalletDelete \/ (\E a \in Assets : BalanceMoves(a)) \/ UNCHANGED vars
  BY <1>6 DEF Tick, WalletDelete, BalanceMoves, exchange, database, vars
<1> QED BY <1>1, <1>2, <1>3, <1>4, <1>5, <1>6 DEF Next

\* Every step keeps accounted for what was.
LEMMA StepKeepsUpToDate ==
  ASSUME TypeOK, LagInv, "ORDER_HISTORY" \in Normalized, [Next]_vars,
         NEW o \in Orders, NEW t \in Nat, t <= clock, UpToDate(o, t)
  PROVE  exch'[o] # Absent /\ changedAt'[o] < t => hist'[o] = exch'[o] \/ o \in missed'
<1>1. ASSUME NEW p \in Placers, PlaceCreate(p)
      PROVE  exch'[o] # Absent /\ changedAt'[o] < t => hist'[o] = exch'[o] \/ o \in missed'
  BY <1>1 DEF PlaceCreate, Insertable, exchange, UpToDate, TypeOK
<1>2. ASSUME NEW c \in Cancellers, CancelRecord(c)
      PROVE  exch'[o] # Absent /\ changedAt'[o] < t => hist'[o] = exch'[o] \/ o \in missed'
  BY <1>2 DEF CancelRecord, exchange, UpToDate
<1>3. ASSUME NEW s \in Syncers, SyncCommit(s)
      PROVE  exch'[o] # Absent /\ changedAt'[o] < t => hist'[o] = exch'[o] \/ o \in missed'
  BY <1>3, CommitKeepsUpToDate DEF LagInv
<1>4. ASSUME NEW q \in Orders, NEW st \in Status, Moves(q, st), hist' = hist, missed' = missed
      PROVE  exch'[o] # Absent /\ changedAt'[o] < t => hist'[o] = exch'[o] \/ o \in missed'
  BY <1>4 DEF Moves, UpToDate, TypeOK
<1>5. CASE UNCHANGED <<exch, changedAt, hist, missed>>
  BY <1>5 DEF UpToDate
<1> QED BY <1>1, <1>2, <1>3, <1>4, <1>5, RowAndChangeWriters

\* Only a step of the exchange or a fetch says what is late.
LEMMA LateWriters ==
  ASSUME [Next]_vars
  PROVE  \/ UNCHANGED <<exch, changedAt, late>>
         \/ \E q \in Orders, st \in Status : Moves(q, st)
         \/ \E q \in Syncers : SyncOrders(q)
<1> DEFINE Unmoved == UNCHANGED <<exch, changedAt, late>>
           Moved == \E q \in Orders, st \in Status : Moves(q, st)
<1>1. ASSUME NEW q \in Orders, ExchangeMoves(q) PROVE Moved
  BY <1>1 DEF ExchangeMoves, Opens
<1>2. ASSUME NEW p \in Placers, PlaceStep(p) \/ PlaceCrash(p) PROVE Unmoved \/ Moved
  BY <1>2 DEF PlaceStep, PlaceCrash, PlaceRefused, PlaceSend, PlaceWallet, PlaceConflict,
              PlaceCreate, Opens, exchange
<1>3. ASSUME NEW c \in Cancellers, CancelStep(c) \/ CancelCrash(c) PROVE Unmoved \/ Moved
  <2>1. {"PENDING_CANCEL", "CANCELED"} \subseteq Status
    BY DEF Status, Open, Final
  <2> QED BY <1>3, <2>1 DEF CancelStep, CancelCrash, CancelRefused, CancelSend, CancelRecord, exchange
<1>4. ASSUME NEW s \in Syncers, SyncStep(s) \/ SyncCrash(s) PROVE Unmoved \/ SyncOrders(s)
  BY <1>4 DEF SyncStep, SyncCrash, SyncLoad, SyncBalances, SyncStamp, SyncCommit, SyncFails, exchange
<1>5. ASSUME NEW l \in Linkers, LinkStep(l) PROVE Unmoved
  BY <1>5 DEF LinkStep, LinkLoad, LinkSave, exchange
<1>6. CASE Tick \/ WalletDelete \/ (\E a \in Assets : BalanceMoves(a)) \/ UNCHANGED vars
  BY <1>6 DEF Tick, WalletDelete, BalanceMoves, exchange, vars
<1> QED BY <1>1, <1>2, <1>3, <1>4, <1>5, <1>6 DEF Next

\* A step of one sync leaves the others alone.
LEMMA OthersSync ==
  ASSUME TypeOK, NEW q \in Syncers, SyncStep(q) \/ SyncCrash(q), NEW s \in Syncers, s # q
  PROVE  sync'[s] = sync[s]
BY DEF SyncStep, SyncCrash, SyncLoad, SyncBalances, SyncOrders, SyncStamp, SyncCommit, SyncFails,
       TypeOK

\* A sync that starts again or ends keeps no time.
LEMMA RetriedIs ==
  ASSUME NEW s \in Syncers
  PROVE  /\ Retried(s).since = 0 /\ Retried(s).at = 0 /\ Retried(s).pc \in {"load", "error"}
         /\ \A pc, n : Idle(pc, n).since = 0 /\ Idle(pc, n).at = 0 /\ Idle(pc, n).pc = pc
BY DEF Retried, Idle

\* A step of a sync, by what it does to the sync itself.
LEMMA OwnSync ==
  ASSUME TypeOK, NEW s \in Syncers, SyncStep(s) \/ SyncCrash(s)
  PROVE  /\ sync'[s].since \in {sync[s].since, 0, lastSync}
         /\ sync'[s].at \in {sync[s].at, 0, clock}
         /\ sync'[s].pc \in {"stamp", "commit"} /\ ~SyncOrders(s) =>
              /\ sync[s].pc \in {"stamp", "commit"}
              /\ sync'[s].orders = sync[s].orders /\ sync'[s].since = sync[s].since
<1> DEFINE Stands == /\ sync'[s].since \in {sync[s].since, 0, lastSync}
                     /\ sync'[s].at \in {sync[s].at, 0, clock}
                     /\ sync'[s].pc \in {"stamp", "commit"} /\ ~SyncOrders(s) =>
                          /\ sync[s].pc \in {"stamp", "commit"}
                          /\ sync'[s].orders = sync[s].orders /\ sync'[s].since = sync[s].since
<1>0. sync \in [Syncers -> SyncStates] /\ sync[s] \in SyncStates
  BY DEF TypeOK
<1>1. CASE SyncLoad(s)
  BY <1>0, <1>1 DEF SyncLoad, SyncStates
<1>2. CASE SyncBalances(s)
  BY <1>0, <1>2 DEF SyncBalances, SyncStates
<1>3. CASE SyncOrders(s)
  BY <1>0, <1>3 DEF SyncOrders, SyncStates
<1>4. CASE SyncStamp(s)
  BY <1>0, <1>4 DEF SyncStamp, SyncStates
<1>5. CASE SyncCommit(s) \/ SyncFails(s) \/ SyncCrash(s)
  <2>1. PICK r : /\ sync' = [sync EXCEPT ![s] = r]
                 /\ r.since = 0 /\ r.at = 0 /\ r.pc \in {"load"} \cup Done
    BY <1>5, RetriedIs DEF SyncCommit, SyncFails, SyncCrash, Done
  <2> QED BY <1>0, <2>1 DEF Done
<1> QED BY <1>1, <1>2, <1>3, <1>4, <1>5 DEF SyncStep

\* A fetch takes each order as it is, leaves it as late, or has reason not to.
LEMMA FetchIs ==
  ASSUME TypeOK, NEW s \in Syncers, SyncOrders(s), NEW o \in Orders
  PROVE  /\ exch' = exch /\ changedAt' = changedAt
         /\ \/ o \in late'[s]
            \/ sync'[s].orders[o] = exch[o]
            \/ /\ sync'[s].orders[o] = Absent
               /\ sync'[s].since # 0 /\ changedAt[o] < sync'[s].since
<1>0. sync \in [Syncers -> SyncStates] /\ sync[s] \in SyncStates /\ DOMAIN late = Syncers
  BY DEF TypeOK
<1> DEFINE since == IF sync[s].since = 0 THEN clock - Window ELSE sync[s].since
           seen == [x \in Orders |-> IF ChangedSince(x, since) THEN exch[x] ELSE Absent]
<1>1. since \in Int /\ changedAt[o] \in Int
  BY <1>0, BoundAssumption DEF TypeOK, SyncStates
<1>2. exch' = exch /\ changedAt' = changedAt
  BY DEF SyncOrders
<1>3. sync'[s].orders = seen /\ sync'[s].since = sync[s].since
  BY <1>0 DEF SyncOrders, SyncStates
<1>4. late'[s] = {x \in Orders : sync[s].since = 0 /\ ~ChangedSince(x, since)}
  BY <1>0 DEF SyncOrders
<1>5. CASE ChangedSince(o, since)
  BY <1>2, <1>3, <1>5
<1>6. CASE ~ChangedSince(o, since) /\ sync[s].since = 0
  BY <1>2, <1>4, <1>6
<1>7. CASE ~ChangedSince(o, since) /\ sync[s].since # 0
  <2>1. changedAt[o] < sync[s].since
    BY <1>1, <1>7 DEF ChangedSince
  <2> QED BY <1>2, <1>3, <1>7, <2>1
<1> QED BY <1>5, <1>6, <1>7

\* A sync that has fetched, and not just now, keeps what it has fetched.
LEMMA StillFetched ==
  ASSUME TypeOK, [Next]_vars, NEW s \in Syncers, ~SyncOrders(s),
         sync'[s].pc \in {"stamp", "commit"}
  PROVE  /\ sync[s].pc \in {"stamp", "commit"}
         /\ sync'[s].orders = sync[s].orders /\ sync'[s].since = sync[s].since
BY SyncWriters, OthersSync, OwnSync

\* An order that changes after a sync has fetched is late for it.
LEMMA LateGrows ==
  ASSUME TypeOK, [Next]_vars, NEW s \in Syncers, ~SyncOrders(s), NEW o \in Orders,
         sync[s].pc \in {"stamp", "commit"}
  PROVE  \/ exch'[o] = exch[o] /\ changedAt'[o] = changedAt[o] /\ late[s] \subseteq late'[s]
         \/ o \in late'[s]
<1>1. ASSUME NEW q \in Orders, NEW st \in Status, Moves(q, st)
      PROVE  \/ exch'[o] = exch[o] /\ changedAt'[o] = changedAt[o] /\ late[s] \subseteq late'[s]
             \/ o \in late'[s]
  BY <1>1 DEF Moves, TypeOK
<1>2. ASSUME NEW q \in Syncers, SyncOrders(q)
      PROVE  exch' = exch /\ changedAt' = changedAt /\ late'[s] = late[s]
  BY <1>2 DEF SyncOrders, TypeOK
<1>3. \/ UNCHANGED <<exch, changedAt, late>>
      \/ \E q \in Orders, st \in Status : Moves(q, st)
      \/ \E q \in Syncers : SyncOrders(q)
  BY LateWriters
<1> QED BY <1>1, <1>2, <1>3

\* The times that are kept are only copied from one another and the clock.
LEMMA TimesAreCopied ==
  ASSUME TypeOK, [Next]_vars
  PROVE  /\ clock <= clock'
         /\ \/ lastSync' = lastSync
            \/ \E s \in Syncers : SyncCommit(s) /\ lastSync' = sync[s].at
            \/ \E l \in Linkers : lastSync' = link[l].seen
         /\ \A s \in Syncers : /\ sync'[s].since \in {sync[s].since, 0, lastSync}
                               /\ sync'[s].at \in {sync[s].at, 0, clock}
         /\ \A l \in Linkers : link'[l].seen \in {link[l].seen, 0, lastSync}
<1>0. clock' = clock \/ Tick
  BY DEF Next, vars, exchange, ExchangeMoves, Opens, Moves, BalanceMoves,
     PlaceStep, PlaceCrash, PlaceRefused, PlaceSend, PlaceWallet, PlaceConflict, PlaceCreate,
     CancelStep, CancelCrash, CancelRefused, CancelSend, CancelRecord, SyncStep, SyncCrash,
     SyncLoad, SyncBalances, SyncOrders, SyncStamp, SyncCommit, SyncFails, LinkStep, LinkLoad,
     LinkSave, WalletDelete
<1>1. clock <= clock'
  BY <1>0, BoundAssumption DEF TypeOK, Tick
<1>2. \/ lastSync' = lastSync
      \/ \E s \in Syncers : SyncCommit(s) /\ lastSync' = sync[s].at
      \/ \E l \in Linkers : lastSync' = link[l].seen
  BY DEF Next, vars, database, ExchangeMoves, BalanceMoves, Tick,
     PlaceStep, PlaceCrash, PlaceRefused, PlaceSend, PlaceWallet, PlaceConflict, PlaceCreate,
     CancelStep, CancelCrash, CancelRefused, CancelSend, CancelRecord, SyncStep, SyncCrash,
     SyncLoad, SyncBalances, SyncOrders, SyncStamp, SyncCommit, SyncFails, LinkStep, LinkLoad,
     LinkSave, WalletDelete
<1>3. ASSUME NEW s \in Syncers
      PROVE  /\ sync'[s].since \in {sync[s].since, 0, lastSync}
             /\ sync'[s].at \in {sync[s].at, 0, clock}
  <2>1. CASE sync' = sync
    BY <2>1
  <2>2. ASSUME NEW q \in Syncers, SyncStep(q) \/ SyncCrash(q), s # q
        PROVE  sync'[s] = sync[s]
    BY <2>2, OthersSync
  <2>3. CASE SyncStep(s) \/ SyncCrash(s)
    BY <2>3, OwnSync
  <2> QED BY <2>1, <2>2, <2>3, SyncWriters
<1>4. ASSUME NEW l \in Linkers
      PROVE  link'[l].seen \in {link[l].seen, 0, lastSync}
  <2>1. link' = link \/ \E k \in Linkers : LinkLoad(k) \/ LinkSave(k)
    BY DEF Next, vars, ExchangeMoves, BalanceMoves, Tick, PlaceStep, PlaceCrash, PlaceRefused,
       PlaceSend, PlaceWallet, PlaceConflict, PlaceCreate, CancelStep, CancelCrash, CancelRefused,
       CancelSend, CancelRecord, SyncStep, SyncCrash, SyncLoad, SyncBalances, SyncOrders,
       SyncStamp, SyncCommit, SyncFails, LinkStep, WalletDelete
  <2>2. ASSUME NEW k \in Linkers, LinkLoad(k) \/ LinkSave(k)
        PROVE  link'[l].seen \in {link[l].seen, 0, lastSync}
    BY <2>2 DEF LinkLoad, LinkSave, TypeOK, LinkStates
  <2> QED BY <2>1, <2>2
<1> QED BY <1>1, <1>2, <1>3, <1>4

\* What a sync has fetched stays accounted for until it commits.
LEMMA FetchedStays ==
  ASSUME TypeOK, LagInv, [Next]_vars, NEW s \in Syncers
  PROVE  FetchedNow(s)'
<1> SUFFICES ASSUME sync'[s].pc \in {"stamp", "commit"}, NEW o \in Orders, exch'[o] # Absent
             PROVE  \/ o \in late'[s]
                    \/ sync'[s].orders[o] = exch'[o]
                    \/ /\ sync'[s].orders[o] = Absent
                       /\ sync'[s].since # 0 /\ changedAt'[o] < sync'[s].since
  BY DEF FetchedNow
<1>0. FetchedNow(s)
  BY DEF LagInv
<1>1. CASE SyncOrders(s)
  BY <1>1, FetchIs
<1>2. CASE ~SyncOrders(s)
  <2>1. /\ sync[s].pc \in {"stamp", "commit"}
        /\ sync'[s].orders = sync[s].orders /\ sync'[s].since = sync[s].since
    BY <1>2, StillFetched
  <2>2. \/ exch'[o] = exch[o] /\ changedAt'[o] = changedAt[o] /\ late[s] \subseteq late'[s]
        \/ o \in late'[s]
    BY <1>2, <2>1, LateGrows
  <2> QED BY <1>0, <2>1, <2>2 DEF FetchedNow
<1> QED BY <1>1, <1>2

LEMMA NextLag ==
  "ORDER_HISTORY" \in Normalized /\ TypeOK /\ TypeOK' /\ LagInv /\ [Next]_vars => LagInv'
<1> SUFFICES ASSUME "ORDER_HISTORY" \in Normalized, TypeOK, TypeOK', LagInv, [Next]_vars
             PROVE  LagInv'
  OBVIOUS
<1> DEFINE Kept(t) == t \in Nat /\ t <= clock' /\ \A o \in Orders :
             exch'[o] # Absent /\ changedAt'[o] < t => hist'[o] = exch'[o] \/ o \in missed'
<1>0. /\ clock \in Nat /\ clock' \in Nat /\ lastSync \in Nat
      /\ \A s \in Syncers : sync[s].since \in Nat /\ sync[s].at \in Nat
      /\ \A l \in Linkers : link[l].seen \in Nat
  BY BoundAssumption DEF TypeOK, SyncStates, LinkStates
<1>1. ASSUME NEW t \in Nat, t <= clock, \A o \in Orders : UpToDate(o, t)
      PROVE  Kept(t)
  BY <1>0, <1>1, StepKeepsUpToDate, TimesAreCopied
<1>2. Kept(0)
  BY <1>0, <1>1, NothingBefore
<1>3. Kept(lastSync)
  BY <1>0, <1>1 DEF LagInv
<1>4. ASSUME NEW s \in Syncers PROVE Kept(sync[s].since)
  BY <1>0, <1>1 DEF LagInv
<1>5. ASSUME NEW l \in Linkers PROVE Kept(link[l].seen)
  BY <1>0, <1>1 DEF LagInv
<1>6. ASSUME NEW s \in Syncers, SyncCommit(s) PROVE Kept(sync[s].at)
  <2>1. sync[s].at <= clock'
    BY <1>0, TimesAreCopied DEF LagInv
  <2> QED BY <1>0, <1>6, <2>1, CommitKeepsUpToDate DEF LagInv
<1>7. Kept(lastSync')
  BY <1>3, <1>5, <1>6, TimesAreCopied
<1>8. ASSUME NEW s \in Syncers
      PROVE  FetchedNow(s)' /\ sync'[s].at <= clock' /\ Kept(sync'[s].since)
  <2>1. sync'[s].at <= clock'
    BY <1>0, TimesAreCopied DEF LagInv
  <2>2. Kept(sync'[s].since)
    BY <1>2, <1>3, <1>4, TimesAreCopied
  <2> QED BY <2>1, <2>2, FetchedStays
<1>9. ASSUME NEW l \in Linkers PROVE Kept(link'[l].seen)
  BY <1>2, <1>3, <1>5, TimesAreCopied
<1> QED BY <1>7, <1>8, <1>9 DEF LagInv, UpToDate

\* Whatever the calls and the exchange do, and however often last_sync_at is
\* set back by a stale save: a change before it is in the row of its order, but
\* for what a sync has left or made out of date (services.py:86, 97), and what a
\* cancel_order has called CANCELED when it was right (services.py:421).
THEOREM LagsAreExplained == Spec => []LagIsExplained
<1>1. CASE "ORDER_HISTORY" \in Normalized
  <2>1. LagInv => LagIsExplained
    BY DEF LagInv, UpToDate, LagIsExplained
  <2>2. TypeOK /\ TypeOK' /\ LagInv /\ [Next]_vars => LagInv'
    BY <1>1, NextLag
  <2> QED BY <2>1, <2>2, InitLag, TypeCorrect, PTL DEF Spec
<1>2. CASE ~("ORDER_HISTORY" \in Normalized)
  <2>1. LagIsExplained
    BY <1>2 DEF LagIsExplained
  <2> QED BY <2>1, PTL
<1> QED BY <1>1, <1>2

=============================================================================
