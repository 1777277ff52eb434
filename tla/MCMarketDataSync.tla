-------------------------- MODULE MCMarketDataSync -------------------------
(***************************************************************************)
(* MarketDataSync for TLC.                                                 *)
(***************************************************************************)
EXTENDS MarketDataSync, TLC

\* A database that takes a log without its end_time, and one that may not.
TakesPending == {TRUE}
EitherLog == BOOLEAN

\* Overlapping runs are alike.
RunSymmetry == Permutations(Runs)

=============================================================================
