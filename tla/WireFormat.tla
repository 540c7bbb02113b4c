------------------------------ MODULE WireFormat ------------------------------
(***************************************************************************)
(* The messages of mm_binary/src/messages.rs: a header of eight bytes,     *)
(* words of eight bytes, the checksum, padding.  `new' fills everything in *)
(* but the checksum, which is 0 at that moment, computes it over the first *)
(* `covered' bytes and stores it; from_bytes computes it over the same     *)
(* bytes of what arrived, where the field holds the checksum.              *)
(*                                                                         *)
(* Words are data: which ones there are matters, since they come before    *)
(* the checksum, and their values do not.  Messages arrive whole, and in   *)
(* buffers that are aligned to 16 bytes.                                   *)
(***************************************************************************)
EXTENDS Integers, Sequences

Symbol == <<"symbol_low", "symbol_high", "timestamp">>

MarketDataMessage ==
  [words   |-> Symbol \o <<"bid_price", "ask_price", "bid_size", "ask_size">>,
   covered |-> 64]

PricingOutputMessage ==
  [words |-> Symbol \o <<"fair_value", "confidence_score", "volatility">>, covered |-> 56]

HeartbeatMessage == [words |-> <<"timestamp", "sequence">>, covered |-> 24]

CollectorStateMessage == [words |-> <<"timestamp", "messages_received">>, covered |-> 24]

TradeMessage ==
  [words |-> Symbol \o <<"trade_id", "price", "quantity">>, covered |-> 56]

QuoteMessage ==
  [words   |-> Symbol \o <<"bid_price", "bid_size", "ask_price", "ask_size",
                           "fair_value", "inventory", "confidence">>,
   covered |-> 88]

PositionMessage ==
  [words   |-> Symbol \o <<"quantity", "avg_entry_price", "unrealized_pnl", "realized_pnl">>,
   covered |-> 56]

(* Covers the checksum's own field, unlike the others. *)
OrderFillMessage ==
  [words |-> Symbol \o <<"order_id", "fill_price", "fill_quantity">>, covered |-> 64]

Messages ==
  {MarketDataMessage, PricingOutputMessage, HeartbeatMessage, CollectorStateMessage,
   TradeMessage, QuoteMessage, PositionMessage, OrderFillMessage}

ChecksumAt(message) == 8 + 8 * Len(message.words)

(* calculate_crc32c is linear in what it covers.  A checksum is vanishing  *)
(* if it may stand in a covered field for 0 without a change of the        *)
(* result: 0 itself and, in software_crc32c, whose table is made from the  *)
(* unreflected polynomial, seven others.                                   *)
Checksum == {"vanishing", "other"}

(* from_bytes accepts what new made with that checksum. *)
Readable(message, checksum) ==
  message.covered <= ChecksumAt(message) \/ checksum = "vanishing"
=============================================================================
