------------------------------ MODULE QuoteSizing ------------------------------
(***************************************************************************)
(* How the strategy sizes a two-sided quote from its inventory             *)
(* (InventoryManager and QuoteEngine::generate_quotes) and what the risk   *)
(* manager accepts.  Quantities are integers in the code's fixed point;    *)
(* the floating-point factors are exact fractions here.  Fair value,       *)
(* spread, skew and confidence are data: any prices that pass the price    *)
(* checks are possible, so only sizes and the kill switch remain.          *)
(***************************************************************************)
EXTENDS FixedPoint

CONSTANTS
  MaxPosition,   \* max_position_size
  MaxOrder,      \* max_order_size
  BaseSize,      \* base_quote_size
  Tolerance      \* the 0.1 units around the target (0) that count as neutral

ASSUME SizingAssumption ==
  /\ MaxPosition \in Nat \ {0} /\ MaxOrder \in Nat \ {0}
  /\ BaseSize \in Nat \ {0} /\ Tolerance \in Nat

Drift == {"falling", "flat", "rising"}   \* below -5, above 5 bps, or between

(* utilization > percent/100 *)
UsedAbove(q, percent) == 100 * Magnitude(q) > percent * MaxPosition

(* recommended_action: urgency exceeds 1 at 80% and 0.7 at 71%. *)
Action(q, drift) ==
  CASE UsedAbove(q, 80) -> "emergency"
    [] ~UsedAbove(q, 80) /\ UsedAbove(q, 71) -> "aggressive"
    [] OTHER ->
         LET adverse   == IF q > 0 THEN "falling" ELSE "rising"
             favorable == IF q > 0 THEN "rising" ELSE "falling"
         IN  CASE Magnitude(q) > Tolerance /\ drift = adverse   -> "aggressive"
               [] Magnitude(q) > Tolerance /\ drift = favorable -> "accumulate"
               [] OTHER -> "passive"

Tenths(action) ==     \* size_urgency; passive stands for neutral too
  CASE action = "emergency" -> 20 [] action = "aggressive" -> 15
    [] action = "passive" -> 10   [] action = "accumulate" -> 8

(* size_factor, as a numerator over 6 * MaxPosition: 1 up to half of the   *)
(* limit, then down to 1/2 at 80% and to 0 at the limit, negative beyond.  *)
SizeFactor(q) ==
  LET used == Magnitude(q) IN
  CASE 2 * used < MaxPosition -> 6 * MaxPosition
    [] 2 * used >= MaxPosition /\ 5 * used < 4 * MaxPosition -> 11 * MaxPosition - 10 * used
    [] OTHER -> 15 * (MaxPosition - used)

Reduced(q) == Truncated(BaseSize * SizeFactor(q), 6 * MaxPosition)

Eager(q, drift) == (BaseSize * Tenths(Action(q, drift))) \div 10

(* Faulty variant: long and short are taken for each other. *)
QuoteInverted(q, drift) ==
  [bid |-> IF q < 0 THEN Reduced(q) ELSE Eager(q, drift),
   ask |-> IF q > 0 THEN Reduced(q) ELSE Eager(q, drift)]

(* Faulty variant: both sides are reduced. *)
QuoteReduced(q, drift) ==
  [bid |-> IF q # 0 THEN Reduced(q) ELSE Eager(q, drift),
   ask |-> IF q # 0 THEN Reduced(q) ELSE Eager(q, drift)]

(* The side that would grow the position is reduced. *)
Quote(q, drift) ==
  [bid |-> IF q > 0 THEN Reduced(q) ELSE Eager(q, drift),
   ask |-> IF q < 0 THEN Reduced(q) ELSE Eager(q, drift)]

(* Faulty variant: the sizes are not looked at. *)
AcceptsAnySize(q, quote) == Magnitude(q) <= MaxPosition

(* check_quote, as far as sizes go: one bad side rejects the whole quote.  *)
Accepted(q, quote) ==
  /\ Magnitude(q) <= MaxPosition
  /\ Magnitude(quote.bid) \in 1 .. MaxOrder
  /\ Magnitude(quote.ask) \in 1 .. MaxOrder

(* The quotes that fit a position, whatever the drift. *)
Allowed ==
  [q \in Int |-> {quote \in {Quote(q, drift) : drift \in Drift} : Accepted(q, quote)}]
=============================================================================
