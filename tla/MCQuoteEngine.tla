---------------------------- MODULE MCQuoteEngine ----------------------------
(* Prices around 2,500, a spread of 40 bps: a calm book, one with more     *)
(* bids, one that has lost its asks, and one that has lost its bids and    *)
(* whose asks are twice the default price: the default is far from both.   *)
EXTENDS QuoteEngine

MCMarkets ==
  {[bid |-> 2495, ask |-> 2505, bidVolume |-> 2, askVolume |-> 2],
   [bid |-> 2495, ask |-> 2505, bidVolume |-> 3, askVolume |-> 2],
   [bid |-> 2495, ask |-> 0,     bidVolume |-> 2, askVolume |-> 0],
   [bid |-> 0,    ask |-> 10250, bidVolume |-> 0, askVolume |-> 2]}
=============================================================================
