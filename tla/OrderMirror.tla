---------------------------- MODULE OrderMirror ----------------------------
(***************************************************************************)
(* What the order side of the exchanges app promises, whatever its calls,  *)
(* retries and failures do: OrderHistory is a mirror of the exchange.  A   *)
(* row is about an order the exchange really has, it shows a status that   *)
(* order has or had, and rows are never deleted.  The mirror may be        *)
(* late, and it may go back to an older status: the code does both.        *)
(*                                                                         *)
(* There is one thing it may show that never was: an order whose           *)
(* cancellation the exchange has answered, in whatever way, may be shown   *)
(* CANCELED for good, while it is pending and after it is filled.          *)
(***************************************************************************)
EXTENDS OrderStatus

CONSTANT Orders        \* order ids the exchange may hand out

VARIABLES exch,        \* status of each order on the exchange
          answered,    \* orders whose cancellation the exchange has answered
          hist         \* status each OrderHistory row shows

TypeOK ==
  /\ exch \in [Orders -> Status \cup {Absent}]
  /\ answered \subseteq Orders
  /\ hist \in [Orders -> Status \cup {Absent}]

Init ==
  /\ exch = [o \in Orders |-> Absent]
  /\ answered = {}
  /\ hist = [o \in Orders |-> Absent]

\* The exchange accepts an order, fills it or cancels it.
ExchangeMoves(o) ==
  /\ \E st \in Status :
        /\ exch[o] = Absent \/ st \in Successors(exch[o])
        /\ exch' = [exch EXCEPT ![o] = st]
  /\ UNCHANGED <<answered, hist>>

\* The exchange answers a cancellation: it is done, it is pending, or the
\* order stays as it is.
Answers(o) ==
  /\ exch[o] # Absent
  /\ \E st \in {exch[o]} \cup (Successors(exch[o]) \cap {"PENDING_CANCEL", "CANCELED"}) :
        exch' = [exch EXCEPT ![o] = st]
  /\ answered' = answered \cup {o}
  /\ UNCHANGED hist

\* What the row of order o may show.
Showable(o) == PastOf(exch[o]) \cup (IF o \in answered THEN {"CANCELED"} ELSE {})

\* Some rows are written.
Write ==
  /\ hist' \in [Orders -> Status \cup {Absent}]
  /\ \A o \in Orders : hist'[o] = hist[o] \/ hist'[o] \in Showable(o)
  /\ UNCHANGED <<exch, answered>>

Next == (\E o \in Orders : ExchangeMoves(o) \/ Answers(o)) \/ Write

Spec == Init /\ [][Next]_<<exch, answered, hist>>

=============================================================================
