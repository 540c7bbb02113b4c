------------------------------- MODULE Payloads -------------------------------
(***************************************************************************)
(* What the codecs are given: a program puts a symbol or a batch on a      *)
(* stream, or finds a decimal in the exchange's JSON, one item at a time,  *)
(* while the consumer of Pricing has not started.                          *)
(***************************************************************************)
EXTENDS Pricing

CONSTANTS
  Symbols,  \* what programs and exchange name as symbols
  Sides,    \* the levels of one side of a batch, as price and quantity
  Wholes,   \* digits of a decimal before its point
  Fractions \* and after it

ASSUME PayloadAssumption ==
  /\ \A s \in Symbols : s \in Seq(0 .. 36) /\ Encodable(s)
  /\ Sides \subseteq Seq(Int \X Int)
  /\ Wholes \subseteq Seq(0 .. 9) /\ Fractions \subseteq Seq(0 .. 9)

VARIABLE item

PayloadsInit == PricingInit /\ item = [kind |-> "none"]

Handle(new) == item' = new /\ UNCHANGED <<vars, pricingVars>>

PayloadsNext ==
  \/ item.kind = "none" /\ PricingNext /\ UNCHANGED item
  \/ /\ item.kind = "none" /\ kind = "pricing" /\ now = StartId /\ ~running
     /\ \/ \E s \in Symbols : Handle([kind |-> "symbol", text |-> s])
        \/ \E bids, asks \in Sides : Handle([kind |-> "batch", bids |-> bids, asks |-> asks])
        \/ \E negative \in BOOLEAN, whole \in Wholes, fraction \in Fractions :
             Handle([kind |-> "decimal", negative |-> negative, whole |-> whole, fraction |-> fraction])

PayloadsSpec == PayloadsInit /\ [][PayloadsNext]_<<vars, pricingVars, item>>

-----------------------------------------------------------------------------
(* compressed_string.rs: decode(from_str(s)) is s for the symbols that the *)
(* scheme can tell from its padding and codes, and for no other: a         *)
(* receiver that compares the decoded symbol with its own skips the rest.  *)
SymbolsSurvive == item.kind = "symbol" => ((Received(item.text) = item.text) <=> Lossless(item.text))

(* orderbook_message.rs: from_bytes gives back the levels of each side in  *)
(* their order if the counts fit, and otherwise takes something else for   *)
(* them without an error.                                                  *)
BatchesSurvive ==
  item.kind = "batch" =>
    LET m == BatchFromBytes(BatchToBytes(item.bids, item.asks)) IN
    (m.valid /\ m.bids = item.bids /\ m.asks = item.asks)
      <=> (Len(item.bids) < CountLimit /\ Len(item.asks) < CountLimit)

(* fixed_point.rs: a decimal is cut off, towards zero, after DECIMAL_PLACES *)
(* digits, however many it has.                                             *)
DecimalsAreExact ==
  item.kind = "decimal" =>
    LET read   == Parsed(item.negative, item.whole, item.fraction)
        value  == Number(item.whole \o item.fraction) * PowerOfTen(Decimals)
        unit   == PowerOfTen(Len(item.fraction))
    IN  /\ Magnitude(read) * unit <= value /\ value < (Magnitude(read) + 1) * unit
        /\ read # 0 => (item.negative <=> read < 0)
=============================================================================
