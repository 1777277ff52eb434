---------------------------- MODULE OrderStatus ----------------------------
(***************************************************************************)
(* Statuses of an order (OrderHistory.STATUS_CHOICES), and the order in    *)
(* which an exchange moves an order through them.  REJECTED and EXPIRED    *)
(* are left out: they end an order exactly as CANCELED does.               *)
(*                                                                         *)
(* An order whose cancellation is pending may still be filled, and the     *)
(* cancellation may come to nothing.  Such an order is PARTIALLY_FILLED    *)
(* again, never NEW: so its status tells which ones it may have had.       *)
(***************************************************************************)

Open == {"NEW", "PARTIALLY_FILLED", "PENDING_CANCEL"}
Final == {"FILLED", "CANCELED"}
Status == Open \cup Final

\* No such order on the exchange, or no row in OrderHistory.
Absent == "ABSENT"

\* Statuses the exchange may give next to an order whose status is st.
Successors(st) ==
  IF st \in Open THEN Status \ {"NEW", st} ELSE {}

\* Statuses an order whose status is st may have had, its present one included.
PastOf(st) ==
  CASE st = "NEW"              -> {"NEW"}
    [] st \in Open \ {"NEW"}   -> Open
    [] st \in Final            -> Open \cup {st}
    [] OTHER                   -> {}

=============================================================================
