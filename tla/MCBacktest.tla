------------------------------ MODULE MCBacktest ------------------------------
(* Rows before and after the period, unsorted, and at the same time in one *)
(* file and in both; fills that open, add, reduce, close and flip, with    *)
(* prices and averages that are no whole numbers.                          *)
EXTENDS Backtest

MCBookFiles == {<<>>, <<2, 1, 1>>}
MCTradeFiles == {<<>>, <<0, 2, 4>>}
MCFillChoices ==
  {[side |-> "bid", price |-> 13, qty |-> 10], [side |-> "bid", price |-> 7, qty |-> 3],
   [side |-> "ask", price |-> 7, qty |-> 10], [side |-> "ask", price |-> 12, qty |-> 17]}
MCEquityChoices == {-1, 2}
=============================================================================
