-------------------------------- MODULE Pricing --------------------------------
(***************************************************************************)
(* The pricing engine (mm_pricing): a consumer of the same depth stream as *)
(* the strategy's, without a sync state.  It applies every batch of its    *)
(* symbol to the snapshot it began with, reads trades from a stream of     *)
(* their own, which it polls first, and publishes a fair value now and     *)
(* then.                                                                   *)
(*                                                                         *)
(* Consumers share nothing but the stream, so one is looked at at a time:  *)
(* `kind' says whether book, queue and ready are those of a consumer with  *)
(* a sync state (DepthFeed) or of the pricing engine.                      *)
(***************************************************************************)
EXTENDS DepthFeed, Signals, Codecs

CONSTANTS
  PriceOf,    \* PriceOf[level]
  MaxLevels,  \* max_levels a side: trim_book removes the levels furthest out
  Depth,      \* the depth of the market in coins that the confidence asks for
  Symbol,     \* the symbol of the program and of the stream
  Trades,     \* trades that may come in
  TradesMax   \* bound of the model: trades kept

ASSUME PricingAssumption ==
  /\ PriceOf \in [Levels -> Nat \ {0}] /\ MaxLevels \in Nat \ {0}
  /\ Encodable(Symbol)
  /\ IsFiniteSet(BidLevels) /\ IsFiniteSet(AskLevels)
  /\ Trades \subseteq [time : Nat, price : Nat, quantity : Nat, side : {"buy", "sell"},
                      aggressor : BOOLEAN]
  /\ TradesMax \in Nat

VARIABLES
  kind,
  est,       \* DriftEstimator, which is never shown the order book
  published  \* the last output: [fair, confidence, bid, ask], where bid and ask
             \* are what it was made of; <<>> before the first

pricingVars == <<kind, est, published>>

PricingInit ==
  /\ Init
  /\ kind \in {"syncing", "pricing"}
  /\ est = NewEstimator
  /\ published = <<>>

Syncing == kind = "syncing" /\ Next /\ UNCHANGED pricingVars

(* The exchange and the collector go on, and the first snapshot is read. *)
World ==
  /\ \/ ExchangeUpdate \/ Boot
     \/ \E c \in Conns : \E u \in (pos[c] + 1) .. now : Forward(c, u) \/ Lose(c, u)
  /\ UNCHANGED pricingVars

-----------------------------------------------------------------------------
BestBid(b) ==
  CHOOSE l \in BidLevels : b[l] # 0 /\ \A k \in BidLevels : b[k] # 0 => PriceOf[k] <= PriceOf[l]
BestAsk(b) ==
  CHOOSE l \in AskLevels : b[l] # 0 /\ \A k \in AskLevels : b[k] # 0 => PriceOf[k] >= PriceOf[l]

(* trim_book: on each side the levels that MaxLevels others are better than. *)
Trimmed(b) ==
  LET better(l) == IF l \in BidLevels THEN {k \in BidLevels : b[k] # 0 /\ PriceOf[k] > PriceOf[l]}
                                      ELSE {k \in AskLevels : b[k] # 0 /\ PriceOf[k] < PriceOf[l]}
  IN  [l \in Levels |-> IF Cardinality(better(l)) >= MaxLevels THEN 0 ELSE b[l]]

Market(b) ==
  [bid |-> PriceOf[BestBid(b)], ask |-> PriceOf[BestAsk(b)],
   bidVolume |-> b[BestBid(b)], askVolume |-> b[BestAsk(b)]]

(* Faulty variant: a basis point for a thousandth. *)
FairValueTenfold(m) == ApplyRate(MicroPrice(m), 10 * DriftRate(est, m))

(* publish_pricing_output *)
FairValue(m) == ApplyRate(MicroPrice(m), DriftRate(est, m))

(* In tenths; a book that is crossed for a moment counts as tight. *)
PricingConfidence(m) ==
  LET tight(rate, share) == /\ SpreadRate(m) < rate
                            /\ 10 * (m.bidVolume + m.askVolume) > share * Depth
  IN  CASE tight(50, 10) -> 9
        [] tight(100, 5) /\ ~tight(50, 10) -> 7
        [] tight(200, 1) /\ ~tight(100, 5) /\ ~tight(50, 10) -> 5
        [] OTHER -> 3

-----------------------------------------------------------------------------
(* The symbol of a batch, decoded, against the program's own. *)
OwnSymbol == Received(Symbol) = Symbol

(* Twice a second, before either stream is looked at.  If a side is        *)
(* missing there is an error, which is logged.                             *)
PublishPrice ==
  /\ ready /\ TwoSided(book)
  /\ LET m == Market(book) IN
     published' = [fair |-> FairValue(m), confidence |-> PricingConfidence(m),
                   bid |-> m.bid, ask |-> m.ask]
  /\ UNCHANGED <<vars, kind, est>>

(* A trade; the market data is looked at again when there is no other. *)
TakeTrade(trade) ==
  /\ running
  /\ est' = AddTrade(est, trade)
  /\ Len(est'.trades) <= TradesMax
  /\ UNCHANGED <<vars, kind, published>>

(* A batch of another symbol is taken off the stream and skipped. *)
ApplyOwn(k) ==
  /\ Poll(k)
  /\ IF OwnSymbol
     THEN /\ book' = Trimmed(ApplyBatch(book, queue[k]))
          /\ ready' = (ready \/ TwoSided(book'))
     ELSE UNCHANGED <<book, ready>>
  /\ UNCHANGED <<now, pos, running, sync, recent, pricingVars>>

PricingStep ==
  /\ kind = "pricing"
  /\ \/ PublishPrice
     \/ \E trade \in Trades : TakeTrade(trade)
     \/ \E k \in 1 .. PollLimit : ApplyOwn(k)

PricingNext == Syncing \/ (kind = "pricing" /\ World) \/ PricingStep

PricingSpec == PricingInit /\ [][PricingNext]_<<vars, pricingVars>>

-----------------------------------------------------------------------------
Drained == running /\ queue = <<>> /\ \A c \in Conns : pos[c] = now

(* With racing connections, no loss and a symbol that its codec keeps: once*)
(* the stream is drained, the replayed and reordered events and those older*)
(* than the snapshot have left no level in the pricing engine's book that  *)
(* the exchange has not; levels may be missing, because they were trimmed  *)
(* or too deep for the snapshot.                                           *)
NoPhantomLevels ==
  kind = "pricing" /\ OwnSymbol /\ Drained => \A l \in Levels : book[l] \in {0, History[now][l]}

(* The fair value stays within 2 bps of the book it was made of (as long   *)
(* as the spread is no more than 28 bps), also of a crossed one: the drift *)
(* that the signals can add up to is 1.3 bps and a 20th of half a spread.  *)
FairNearBook ==
  published # <<>> /\ Magnitude(published.ask - published.bid) * Whole <= 280 * published.bid =>
    /\ published.fair >= SubtractRate(Min({published.bid, published.ask}), 20) - 1
    /\ published.fair <= ApplyRate(Max({published.bid, published.ask}), 20) + 1
=============================================================================
