------------------------- MODULE MCExchangeOrders -------------------------
(***************************************************************************)
(* ExchangeOrders for TLC.                                                 *)
(***************************************************************************)
EXTENDS ExchangeOrders, TLC

\* The helpers as the service's code relies on them, and as they are.
BothPayloads == {"BALANCE", "ORDER_HISTORY"}
AnyAudit == {"ok", "raise"}
AuditWorks == {"ok"}
AuditRaises == {"raise"}
NoPayload == {}

\* Overlapping syncs are alike.
SyncerSymmetry == Permutations(Syncers)

=============================================================================
