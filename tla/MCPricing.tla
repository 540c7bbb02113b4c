------------------------------ MODULE MCPricing ------------------------------
(***************************************************************************)
(* The exchange's bid at 10,002 and its ask at 10,001 never exist at the   *)
(* same time, but a book that replays old events may hold both.            *)
(***************************************************************************)
EXTENDS Payloads

MCBidLevels == {-1, -2}
MCAskLevels == {1, 2}
MCStart     == 2

QuantitiesAt ==   \* at levels -2, -1, 1, 2, from MCStart on
  << <<1, 0, 1, 0>>, <<1, 0, 2, 1>>, <<1, 2, 0, 1>>, <<2, 2, 0, 3>>, <<0, 1, 0, 3>>, <<2, 0, 1, 3>> >>

Column(l) == CASE l = -2 -> 1 [] l = -1 -> 2 [] l = 1 -> 3 [] l = 2 -> 4

MCHistory ==
  [id \in MCStart .. MaxId |->
     [l \in MCBidLevels \cup MCAskLevels |-> QuantitiesAt[id - MCStart + 1][Column(l)]]]

MCPriceOf ==
  [l \in MCBidLevels \cup MCAskLevels |->
     CASE l = -2 -> 9990 [] l = -1 -> 10002 [] l = 1 -> 10001 [] l = 2 -> 10006]

(* The best level of each side. *)
MCTopLevels ==
  [id \in MCStart .. MaxId |->
     LET has(S) == {l \in S : MCHistory[id][l] # 0}
     IN  {l \in has(MCBidLevels) : \A m \in has(MCBidLevels) : m <= l}
         \cup {l \in has(MCAskLevels) : \A m \in has(MCAskLevels) : l <= m}]

MCTrades ==
  {[time |-> 0, price |-> 10000, quantity |-> 1, side |-> side, aggressor |-> TRUE] :
     side \in {"buy", "sell"}}

MCSymbol == <<1, 19, 2, 20, 18, 3, 19>>   \* BTCUSDT

-----------------------------------------------------------------------------
(* Symbols around the places where the codec changes: the end of a word,   *)
(* the lengths at which the schemes give up, and the characters that are   *)
(* special to a scheme (A, F, Z, 0, 9 and the dash).                       *)
Tails == (UNION {[1 .. n -> {0, 5, 25, 26, 35}] : n \in 0 .. 3}) \cup {<<36>>, <<0, 36>>}

MCSymbols ==
  {s \in {[i \in 1 .. n |-> c] \o tail : n \in {0, 8, 11, 14, 16, 17, 18, 22, 28},
                                          c \in {3, 6, 30}, tail \in Tails} : Encodable(s)}

MCSides        == UNION {[1 .. n -> {<<1, 1>>, <<2, 0>>}] : n \in 0 .. CountLimit}
MCNumbers(max) == UNION {[1 .. n -> {0, 5, 9}] : n \in 0 .. max}
MCWholes       == MCNumbers(2)
MCFractions    == MCNumbers(3)
=============================================================================
