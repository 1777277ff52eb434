--------------------------- MODULE ExchangeOrders ---------------------------
(***************************************************************************)
(* One exchange account of the exchanges app: the orders and balances the  *)
(* exchange keeps, the database rows that mirror them, and the calls that  *)
(* work between the two: ExchangeService.place_order and cancel_order, run *)
(* once by their Celery tasks, ExchangeService.sync_exchange_account, run  *)
(* with retries by its task, and the views that save the account's row.    *)
(*                                                                         *)
(* A step ends where a call to the exchange, a transaction or a statement  *)
(* in autocommit mode ends, so calls interleave as worker processes do.    *)
(*                                                                         *)
(* Two helpers of the service have no working definition at this commit,   *)
(* so what they do is a parameter: Normalized is the kinds of payload that *)
(* normalize_data_from_source gives the fields the service reads (neither  *)
(* of the two has a branch of its own), and AuditOutcomes is how a call of *)
(* AuditService.log_action may end (the class has no such method).         *)
(***************************************************************************)
EXTENDS OrderStatus, Integers, FiniteSets

CONSTANTS
  Orders, NoOrder,     \* order ids the exchange may hand out; no id
  Assets, MaxBal,      \* assets, and the bound on a balance; 0 is "not listed"
  MaxClock, Window,    \* bound on the clock; the day a first sync looks back
  Placers, Cancellers, \* runs of place_order_task and of cancel_order_task
  Syncers, MaxRetries, \* runs of sync_exchange_account_task; retries of each
  Linkers,             \* requests that load the account row and save all of it
  Normalized,          \* kinds of payload that normalisation supports
  AuditOutcomes        \* how an audit call may end

ASSUME OrderAssumption == NoOrder \notin Orders
ASSUME BoundAssumption ==
  /\ MaxBal \in Nat /\ MaxClock \in Nat \ {0} /\ Window \in Nat
  /\ MaxRetries \in Nat
ASSUME HelperAssumption ==
  /\ Normalized \subseteq {"BALANCE", "ORDER_HISTORY"}
  /\ AuditOutcomes \subseteq {"ok", "raise"} /\ AuditOutcomes # {}

VARIABLES
  exch,       \* status of each order on the exchange
  changedAt,  \* when the exchange last changed the order
  exBal,      \* balance of each asset on the exchange
  clock,      \* timezone.now()
  hist,       \* status in the OrderHistory row of each order, or Absent
  lastSync,   \* ExchangeAccount.last_sync_at, 0 for null
  wallet,     \* whether the account's SPOT Wallet row exists
  bal,        \* WalletBalance rows of that wallet, 0 for no row
  answered,   \* history: orders for which cancel_order had a valid answer
  late,       \* history: orders each sync has not fetched as they are now
  missed,     \* history: orders whose row a sync or a cancel has made or left wrong
  place, cancel, sync, link   \* the calls under way

exchange == <<exch, changedAt, exBal, clock, answered, late>>
database == <<hist, lastSync, wallet, bal, missed>>
vars == <<exchange, database, place, cancel, sync, link>>

Done == {"ok", "error", "lost"}

NoOrders == [o \in Orders |-> Absent]
NoBalances == [a \in Assets |-> 0]
Idle(pc, tries) == [pc |-> pc, tries |-> tries, since |-> 0, at |-> 0,
                    orders |-> NoOrders, bal |-> NoBalances]

PlaceStates == [pc : {"send", "wallet", "create"} \cup Done,
                order : Orders \cup {NoOrder}, status : Status]
CancelStates == [pc : {"send", "record"} \cup Done, order : Orders \cup {NoOrder}]
SyncStates == [pc : {"load", "balances", "orders", "stamp", "commit"} \cup Done,
               tries : 0..MaxRetries, since : 0..MaxClock, at : 0..MaxClock,
               orders : [Orders -> Status \cup {Absent}], bal : [Assets -> 0..MaxBal]]
LinkStates == [pc : {"load", "save"} \cup Done, seen : 0..MaxClock]

TypeOK ==
  /\ exch \in [Orders -> Status \cup {Absent}]
  /\ changedAt \in [Orders -> 0..MaxClock]
  /\ exBal \in [Assets -> 0..MaxBal]
  /\ clock \in 1..MaxClock
  /\ hist \in [Orders -> Status \cup {Absent}]
  /\ lastSync \in 0..MaxClock
  /\ wallet \in BOOLEAN
  /\ bal \in [Assets -> 0..MaxBal]
  /\ answered \subseteq Orders
  /\ late \in [Syncers -> SUBSET Orders]
  /\ missed \subseteq Orders
  /\ place \in [Placers -> PlaceStates]
  /\ cancel \in [Cancellers -> CancelStates]
  /\ sync \in [Syncers -> SyncStates]
  /\ link \in [Linkers -> LinkStates]

\* The account is new.  Its post_save handler made the SPOT wallet in a
\* get_or_create, which rolls back when the wallet's own audit call raises.
Init ==
  /\ exch = NoOrders /\ changedAt = [o \in Orders |-> 0]
  /\ exBal = NoBalances /\ clock = 1
  /\ answered = {} /\ late = [s \in Syncers |-> {}]
  /\ hist = NoOrders /\ lastSync = 0 /\ bal = NoBalances /\ missed = {}
  /\ wallet \in {a = "ok" : a \in AuditOutcomes}
  /\ place = [p \in Placers |-> [pc |-> "send", order |-> NoOrder, status |-> "NEW"]]
  /\ cancel = [c \in Cancellers |-> [pc |-> "send", order |-> NoOrder]]
  /\ sync = [s \in Syncers |-> Idle("load", 0)]
  /\ link = [l \in Linkers |-> [pc |-> "load", seen |-> 0]]

-----------------------------------------------------------------------------
(* The exchange                                                            *)

\* The exchange gives order o the status st.
Moves(o, st) ==
  /\ exch' = [exch EXCEPT ![o] = st]
  /\ changedAt' = [changedAt EXCEPT ![o] = clock]
  /\ late' = [s \in Syncers |->
                late[s] \cup (IF sync[s].pc \in {"stamp", "commit"} THEN {o} ELSE {})]
  /\ UNCHANGED <<exBal, clock>>

\* It accepts a new order; one that meets a counterparty at once is FILLED.
Opens(o, st) ==
  /\ exch[o] = Absent
  /\ st \in {"NEW", "PARTIALLY_FILLED", "FILLED"}
  /\ Moves(o, st)

\* An order placed on the exchange's own site, or filled or cancelled there.
ExchangeMoves(o) ==
  /\ \E st \in Status : (Opens(o, st) \/ (st \in Successors(exch[o]) /\ Moves(o, st)))
  /\ UNCHANGED <<answered, database, place, cancel, sync, link>>

BalanceMoves(a) ==
  /\ \E n \in 0..MaxBal : n # exBal[a] /\ exBal' = [exBal EXCEPT ![a] = n]
  /\ UNCHANGED <<exch, changedAt, clock, answered, late, database, place, cancel, sync, link>>

Tick ==
  /\ clock < MaxClock
  /\ clock' = clock + 1
  /\ UNCHANGED <<exch, changedAt, exBal, answered, late, database, place, cancel, sync, link>>

-----------------------------------------------------------------------------
(* place_order                                                             *)

\* The call ends; order is what it has recorded.
PlaceEnds(p, pc, order) ==
  place' = [place EXCEPT ![p] = [pc |-> pc, order |-> order, status |-> "NEW"]]

\* A required parameter is missing, or the exchange refuses the order.
PlaceRefused(p) ==
  /\ place[p].pc = "send"
  /\ PlaceEnds(p, "error", NoOrder)
  /\ UNCHANGED <<exchange, database, cancel, sync, link>>

\* The exchange accepts the order; then its answer is lost or does not
\* validate, or place_order goes on with the order id that normalisation
\* finds in it, which may be none.
PlaceSend(p) ==
  /\ place[p].pc = "send"
  /\ \E o \in Orders, st \in Status :
        /\ Opens(o, st)
        /\ \/ PlaceEnds(p, "error", NoOrder)
           \/ \E id \in {o, NoOrder} :
                /\ id = o => "ORDER_HISTORY" \in Normalized
                /\ place' = [place EXCEPT ![p] =
                               [pc |-> "wallet", order |-> id, status |-> st]]
  /\ UNCHANGED <<answered, database, cancel, sync, link>>

\* Wallet.objects.get_or_create: a transaction, which the post_save handler
\* of a new wallet rolls back when its audit call raises.
PlaceWallet(p) ==
  /\ place[p].pc = "wallet"
  /\ \/ wallet /\ place' = [place EXCEPT ![p].pc = "create"] /\ UNCHANGED wallet
     \/ /\ ~wallet /\ "ok" \in AuditOutcomes
        /\ wallet' = TRUE
        /\ place' = [place EXCEPT ![p].pc = "create"]
     \/ /\ ~wallet /\ "raise" \in AuditOutcomes
        /\ PlaceEnds(p, "error", NoOrder)
        /\ UNCHANGED wallet
  /\ UNCHANGED <<exchange, hist, lastSync, bal, missed, cancel, sync, link>>

\* OrderHistory.objects.create cannot insert an order without an id, nor a
\* second row for an order (unique_together).
Insertable(o) == o # NoOrder /\ hist[o] = Absent

PlaceConflictSwallowed(p) ==      \* mutant: "except IntegrityError: pass"
  /\ place[p].pc = "create"
  /\ ~Insertable(place[p].order)
  /\ PlaceEnds(p, "ok", place[p].order)
  /\ UNCHANGED <<exchange, database, cancel, sync, link>>

PlaceConflict(p) ==
  /\ place[p].pc = "create"
  /\ ~Insertable(place[p].order)
  /\ PlaceEnds(p, "error", NoOrder)
  /\ UNCHANGED <<exchange, database, cancel, sync, link>>

\* The row is inserted in autocommit mode: it stays when the audit call of
\* the post_save handler, or place_order's own, raises.
PlaceCreate(p) ==
  /\ place[p].pc = "create"
  /\ Insertable(place[p].order)
  /\ hist' = [hist EXCEPT ![place[p].order] = place[p].status]
  /\ \/ "ok" \in AuditOutcomes /\ PlaceEnds(p, "ok", place[p].order)
     \/ "raise" \in AuditOutcomes /\ PlaceEnds(p, "error", NoOrder)
  /\ UNCHANGED <<exchange, lastSync, wallet, bal, missed, cancel, sync, link>>

\* The worker dies.  Its broker message was acknowledged when the task
\* began, so nobody runs the task again.
PlaceCrash(p) ==
  /\ place[p].pc \notin Done
  /\ PlaceEnds(p, "lost", NoOrder)
  /\ UNCHANGED <<exchange, database, cancel, sync, link>>

-----------------------------------------------------------------------------
(* cancel_order                                                            *)

CancelEnds(c, pc) == cancel' = [cancel EXCEPT ![c] = [pc |-> pc, order |-> NoOrder]]

CancelRefusedRecorded(c) ==       \* mutant: the exchange's refusal is ignored
  /\ cancel[c].pc = "send"
  /\ \E o \in Orders : cancel' = [cancel EXCEPT ![c] = [pc |-> "record", order |-> o]]
  /\ UNCHANGED <<exchange, database, place, sync, link>>

\* The exchange knows no such open order, or the request does not reach it.
CancelRefused(c) ==
  /\ cancel[c].pc = "send"
  /\ CancelEnds(c, "error")
  /\ UNCHANGED <<exchange, database, place, sync, link>>

\* The exchange cancels the order, takes the cancellation as pending, or
\* leaves the order, filled perhaps, as it is.  If its answer arrives and
\* validates, cancel_order goes on without reading a status in it.
CancelSend(c) ==
  /\ cancel[c].pc = "send"
  /\ \E o \in Orders :
        /\ exch[o] # Absent
        /\ \/ \E st \in {"PENDING_CANCEL", "CANCELED"} \cap Successors(exch[o]) : Moves(o, st)
           \/ UNCHANGED <<exch, changedAt, exBal, clock, late>>
        /\ \/ CancelEnds(c, "error") /\ UNCHANGED answered
           \/ /\ cancel' = [cancel EXCEPT ![c] = [pc |-> "record", order |-> o]]
              /\ answered' = answered \cup {o}
  /\ UNCHANGED <<database, place, sync, link>>

\* The row, if there is one, is CANCELED whatever it says now and whatever
\* the order is; otherwise a warning is logged and the call succeeds all the
\* same.  A row that was right may be wrong now.
CancelRecord(c) ==
  /\ cancel[c].pc = "record"
  /\ hist' = [hist EXCEPT ![cancel[c].order] = IF @ = Absent THEN Absent ELSE "CANCELED"]
  /\ missed' = missed \cup {o \in Orders : hist[o] = exch[o] /\ hist'[o] # exch[o]}
  /\ \E a \in AuditOutcomes : CancelEnds(c, IF a = "ok" THEN "ok" ELSE "error")
  /\ UNCHANGED <<exchange, lastSync, wallet, bal, place, sync, link>>

CancelCrash(c) ==
  /\ cancel[c].pc \notin Done
  /\ CancelEnds(c, "lost")
  /\ UNCHANGED <<exchange, database, place, sync, link>>

-----------------------------------------------------------------------------
(* sync_exchange_account, as its task runs it                              *)

RetriedPastLimit(s) ==            \* mutant: one retry too many
  IF sync[s].tries <= MaxRetries
  THEN Idle("load", sync[s].tries + 1)
  ELSE Idle("error", 0)

RetriedUncounted(s) ==            \* mutant: retries are not counted
  Idle("load", sync[s].tries)

\* A sync that raised: Celery runs the task again, MaxRetries times at most.
Retried(s) ==
  IF sync[s].tries < MaxRetries
  THEN Idle("load", sync[s].tries + 1)
  ELSE Idle("error", MaxRetries)

\* The account row is read, then the account info is fetched.
SyncLoad(s) ==
  /\ sync[s].pc = "load"
  /\ sync' = [sync EXCEPT ![s].pc = "balances", ![s].since = lastSync]
  /\ UNCHANGED <<exchange, database, place, cancel, link>>

SyncBalances(s) ==
  /\ sync[s].pc = "balances"
  /\ sync' = [sync EXCEPT ![s].pc = "orders", ![s].bal = exBal]
  /\ UNCHANGED <<exchange, database, place, cancel, link>>

ChangedAfter(o, since) ==         \* mutant: the bound itself is left out
  changedAt[o] > since
ChangedSince(o, since) == changedAt[o] >= since

\* Orders changed since the last sync, or in the last day before a first one.
SyncOrders(s) ==
  /\ sync[s].pc = "orders"
  /\ LET since == IF sync[s].since = 0 THEN clock - Window ELSE sync[s].since
     IN  /\ sync' = [sync EXCEPT ![s].pc = "stamp",
                     ![s].orders = [o \in Orders |->
                        IF ChangedSince(o, since) THEN exch[o] ELSE Absent]]
         /\ late' = [late EXCEPT ![s] =
                       {o \in Orders : sync[s].since = 0 /\ ~ChangedSince(o, since)}]
  /\ UNCHANGED <<exch, changedAt, exBal, clock, answered, database, place, cancel, link>>

\* last_sync_at = timezone.now(), before the transaction takes its locks.
SyncStamp(s) ==
  /\ sync[s].pc = "stamp"
  /\ sync' = [sync EXCEPT ![s].pc = "commit", ![s].at = clock]
  /\ UNCHANGED <<exchange, database, place, cancel, link>>

\* What a sync has to write: orders and balances whose payload normalises.
FetchedOrders(s) ==
  {o \in Orders : "ORDER_HISTORY" \in Normalized /\ sync[s].orders[o] # Absent}
FetchedAssets(s) ==
  {a \in Assets : "BALANCE" \in Normalized /\ sync[s].bal[a] # 0}

AllRowsAccepted(s) == TRUE        \* mutant: new orders are inserted once

\* A new order, which update_or_create has inserted, is inserted once more
\* by bulk_create, and that violates the primary key.
AllHaveRows(s) == \A o \in FetchedOrders(s) : hist[o] # Absent

\* Orders that s has not fetched as they are, and that have changed before
\* the time it writes to last_sync_at or whose row is right until it writes.
Overtaken(s) ==
  {o \in late[s] : changedAt[o] < sync[s].at \/ hist[o] = exch[o]}

\* The transaction commits only if every audit call in it returns and every
\* fetched order has a row.  After it the sync's own audit call may raise.
SyncCommit(s) ==
  /\ sync[s].pc = "commit"
  /\ "ok" \in AuditOutcomes
  /\ AllHaveRows(s)
  /\ lastSync' = sync[s].at
  /\ wallet' = TRUE
  /\ bal' = [a \in Assets |-> IF a \in FetchedAssets(s) THEN sync[s].bal[a] ELSE bal[a]]
  /\ hist' = [o \in Orders |->
                IF o \in FetchedOrders(s) THEN sync[s].orders[o] ELSE hist[o]]
  /\ missed' = {o \in missed \cup Overtaken(s) : hist'[o] # exch[o]}
  /\ \/ sync' = [sync EXCEPT ![s] = Idle("ok", 0)]
     \/ "raise" \in AuditOutcomes /\ sync' = [sync EXCEPT ![s] = Retried(s)]
  /\ UNCHANGED <<exchange, place, cancel, link>>

SyncFailsStamped(s) ==            \* mutant: last_sync_at is saved first
  /\ sync[s].pc = "commit" /\ ~AllHaveRows(s)
  /\ lastSync' = sync[s].at
  /\ sync' = [sync EXCEPT ![s] = Retried(s)]
  /\ UNCHANGED <<exchange, hist, wallet, bal, missed, place, cancel, link>>

\* A call to the exchange fails or does not validate, or the transaction
\* rolls back: the task is retried, with nothing of this attempt kept.
SyncFails(s) ==
  /\ \/ sync[s].pc \in {"load", "balances", "orders"}
     \/ sync[s].pc = "commit" /\ "raise" \in AuditOutcomes
     \/ sync[s].pc = "commit" /\ ~AllHaveRows(s)
  /\ sync' = [sync EXCEPT ![s] = Retried(s)]
  /\ UNCHANGED <<exchange, database, place, cancel, link>>

SyncCrash(s) ==
  /\ sync[s].pc \notin Done
  /\ sync' = [sync EXCEPT ![s] = Idle("lost", 0)]
  /\ UNCHANGED <<exchange, database, place, cancel, link>>

-----------------------------------------------------------------------------
(* link_bot, unlink_bot, PUT and PATCH of an account; the wallet's delete   *)

\* The view reads the whole account row ...
LinkLoad(l) ==
  /\ link[l].pc = "load"
  /\ link' = [link EXCEPT ![l] = [pc |-> "save", seen |-> lastSync]]
  /\ UNCHANGED <<exchange, database, place, cancel, sync>>

\* ... and account.save() writes it all back, last_sync_at too.  The
\* post_save handler then raises, its update_fields being None: the row stays.
LinkSave(l) ==
  /\ link[l].pc = "save"
  /\ lastSync' = link[l].seen
  /\ link' = [link EXCEPT ![l] = [pc |-> "error", seen |-> 0]]
  /\ UNCHANGED <<exchange, hist, wallet, bal, missed, place, cancel, sync>>

\* Deleting the wallet takes its balances along; a pre_delete handler that
\* raises leaves everything.
WalletDelete ==
  /\ wallet /\ "ok" \in AuditOutcomes
  /\ wallet' = FALSE
  /\ bal' = NoBalances
  /\ UNCHANGED <<exchange, hist, lastSync, missed, place, cancel, sync, link>>

-----------------------------------------------------------------------------
PlaceStep(p) == PlaceRefused(p) \/ PlaceSend(p) \/ PlaceWallet(p)
                \/ PlaceConflict(p) \/ PlaceCreate(p)
CancelStep(c) == CancelRefused(c) \/ CancelSend(c) \/ CancelRecord(c)
SyncStep(s) == SyncLoad(s) \/ SyncBalances(s) \/ SyncOrders(s) \/ SyncStamp(s)
               \/ SyncCommit(s) \/ SyncFails(s)
LinkStep(l) == LinkLoad(l) \/ LinkSave(l)

Next ==
  \/ \E o \in Orders : ExchangeMoves(o)
  \/ \E a \in Assets : BalanceMoves(a)
  \/ Tick
  \/ \E p \in Placers : PlaceStep(p) \/ PlaceCrash(p)
  \/ \E c \in Cancellers : CancelStep(c) \/ CancelCrash(c)
  \/ \E s \in Syncers : SyncStep(s) \/ SyncCrash(s)
  \/ \E l \in Linkers : LinkStep(l)
  \/ WalletDelete

\* A worker that has a task goes on with it; the exchange, the clock and the
\* users owe nothing.
Fairness ==
  /\ \A p \in Placers : WF_vars(PlaceStep(p))
  /\ \A c \in Cancellers : WF_vars(CancelStep(c))
  /\ \A s \in Syncers : WF_vars(SyncStep(s))

Spec == Init /\ [][Next]_vars
FairSpec == Spec /\ Fairness

-----------------------------------------------------------------------------
(* Properties                                                              *)

\* A row of OrderHistory shows a status its order has or had on the exchange,
\* although place_order and overlapping syncs write rows from answers that
\* other steps may have overtaken (services.py:263-285, 337).  Only where
\* cancel_order has had an answer may it show CANCELED without that being so,
\* for as long as no sync corrects it (services.py:415-423).
RecordTruthful ==
  \A o \in Orders :
    \/ hist[o] \in {Absent} \cup PastOf(exch[o])
    \/ hist[o] = "CANCELED" /\ o \in answered

\* What the calls under way will write stays truthful until they write it:
\* a status that the exchange has answered is in the order's past for good.
PlaceTruthful ==
  \A p \in Placers : place[p].pc \in {"wallet", "create"} /\ place[p].order # NoOrder
    => place[p].status \in PastOf(exch[place[p].order])
CancelTruthful ==
  \A c \in Cancellers : cancel[c].pc = "record" =>
    cancel[c].order # NoOrder /\ cancel[c].order \in answered
SyncTruthful ==
  \A s \in Syncers, o \in Orders :
    sync[s].orders[o] = Absent \/ sync[s].orders[o] \in PastOf(exch[o])
InFlightTruthful == PlaceTruthful /\ CancelTruthful /\ SyncTruthful

\* place_order returns normally only if the order it placed has a row, and
\* no later sync, cancel or wallet deletion takes the row away.
PlacedIsRecorded ==
  \A p \in Placers : place[p].pc = "ok" =>
       place[p].order # NoOrder /\ hist[place[p].order] # Absent

\* Only place_order makes rows: a sync fetches the orders it missed, and
\* rolls back rather than keep one of them (services.py:263-275).
RowsComeFromPlacement ==
  [][\A o \in Orders : hist[o] = Absent /\ hist'[o] # Absent =>
       \E p \in Placers : /\ place[p].pc = "create" /\ place[p].order = o
                          /\ place'[p].pc \in {"ok", "error"}]_vars

\* The transaction of a sync is all or nothing: last_sync_at moves only
\* together with every fetched order and balance (services.py:93-104), so a
\* retry that starts from last_sync_at misses nothing a failed attempt saw.
SyncAllOrNothing ==
  [][\A s \in Syncers : sync[s].pc = "commit" /\ sync'[s] # sync[s] =>
       \/ UNCHANGED database
       \/ /\ lastSync' = sync[s].at
          /\ \A o \in FetchedOrders(s) : hist'[o] = sync[s].orders[o]
          /\ \A a \in FetchedAssets(s) : bal'[a] = sync[s].bal[a]]_vars

\* last_sync_at is the time of the commit, and the next sync asks for what has
\* changed since (services.py:86, 97).  However syncs, retries and the linking
\* views' stale saves move it, a change older than it is in the row of its
\* order, but for orders that a sync which committed has left or made out of
\* date, because they changed after its fetch, or earlier than the day that a
\* first sync asks for, and those whose right row a cancel_order has called
\* CANCELED.
LagIsExplained ==
  "ORDER_HISTORY" \in Normalized =>
    \A o \in Orders : exch[o] # Absent /\ changedAt[o] < lastSync =>
      hist[o] = exch[o] \/ o \in missed

\* Every task that is not lost with its worker ends, retries included.
EveryTaskEnds ==
  /\ \A p \in Placers : <>(place[p].pc \in Done)
  /\ \A c \in Cancellers : <>(cancel[c].pc \in Done)
  /\ \A s \in Syncers : <>(sync[s].pc \in Done)

\* The rows mirror the exchange as OrderMirror says.
Mirror == INSTANCE OrderMirror WITH
  Orders <- Orders, exch <- exch, answered <- answered, hist <- hist
MirrorSpec == Mirror!Spec

\* What test_place_order_success says (tests/test_exchanges/test_services.py:
\* 62-65): once the exchange's answer has arrived, place_order returns it and
\* the order has a row.
AnswerIsRecorded ==
  [][\A p \in Placers :
       place[p].pc \in {"wallet", "create"} /\ place'[p].pc \in {"ok", "error"}
         => place'[p].pc = "ok" /\ hist'[place[p].order] # Absent]_vars

\* What the docstring of _update_order_history says (services.py:224): a sync
\* that has fetched an order, and meets no other failure, leaves a row for it.
FetchedIsRecorded ==
  [][\A s \in Syncers : \A o \in FetchedOrders(s) :
       sync[s].pc = "commit" /\ sync'[s].pc \notin {"commit", "lost"}
         => hist'[o] # Absent]_vars

=============================================================================
