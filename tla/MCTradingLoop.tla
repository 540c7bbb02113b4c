---------------------------- MODULE MCTradingLoop ----------------------------
(* Limits close to the base size: a few fills reach every branch. *)
EXTENDS TradingLoop
=============================================================================
