----------------------------- MODULE QuoteEngine -----------------------------
(***************************************************************************)
(* The strategy's quote engine: drift estimator, inventory skew, spread,   *)
(* ladder and risk check, from the order book's top to what is published   *)
(* (QuoteEngine of mm_strategy and publish_quotes of its main program).    *)
(*                                                                         *)
(* The book is the environment's: any of Markets may be its top when a     *)
(* quote is due, one side may be missing.  Fills change the position as    *)
(* TradingLoop has it, any of FillSizes here.                              *)
(***************************************************************************)
EXTENDS QuoteSizing, Signals

CONSTANTS
  Markets,       \* tops of the book: [bid, ask, bidVolume, askVolume], a price of
                 \* 0 for a side that is missing
  DefaultPrice,  \* what publish_quotes takes for a missing side
  MinSpread,     \* min_spread_bps, as a rate
  VolatilityFactor,
  SkewPerUnit,   \* inventory_skew_factor: rate per unit of the position
  MinConfidence, \* min_confidence, in 1/Scale
  Levels,        \* num_levels of a ladder; the program quotes one level
  Spacing,       \* level_spacing_bps, as a rate
  TradesArrive,  \* whether trades reach the strategy's stream
  TradePrices, TradeSizes, FillSizes,
  TimeMax,       \* bounds of the model: times of trades,
  TradesMax,     \* trades that are kept
  MaxExposure    \* and positions

ASSUME EngineAssumption ==
  /\ Markets \subseteq [bid : Nat, ask : Nat, bidVolume : Nat, askVolume : Nat]
  /\ \A m \in Markets : /\ m.bid = 0 <=> m.bidVolume = 0
                        /\ m.ask = 0 <=> m.askVolume = 0
  /\ DefaultPrice \in Nat \ {0} /\ MinSpread \in Nat /\ VolatilityFactor \in Nat
  /\ SkewPerUnit \in Nat /\ MinConfidence \in Nat
  /\ Levels \in Nat \ {0} /\ Spacing \in Nat /\ TradesArrive \in BOOLEAN
  /\ TradePrices \subseteq Nat \ {0} /\ TradeSizes \subseteq Nat \ {0} /\ FillSizes \subseteq Nat
  /\ TimeMax \in Nat /\ TradesMax \in Nat /\ MaxExposure \in Nat

VARIABLES
  est,        \* DriftEstimator
  volatility, \* volatility_ema, of returns in basis points
  lastMid,    \* last_mid_price, 0 for none
  position,
  killed,
  out         \* what this step publishes: a ladder of quotes, or nothing

vars == <<est, volatility, lastMid, position, killed, out>>

Init ==
  /\ est = NewEstimator /\ volatility = NewEMA /\ lastMid = 0
  /\ position = 0 /\ killed = FALSE /\ out = <<>>

-----------------------------------------------------------------------------
(* publish_quotes: a missing side has the default price and no volume. *)
MarketState(m) ==
  [m EXCEPT !.bid = IF @ = 0 THEN DefaultPrice ELSE @,
            !.ask = IF @ = 0 THEN DefaultPrice ELSE @]

UpdatedVolatility(m) ==
  IF lastMid = 0 THEN volatility
  ELSE Updated(volatility, ReturnAlpha,
         Truncated(Magnitude(MidPrice(m) - lastMid) * 10000, lastMid))

(* recommended_action distinguishes drifts of 5 bps and more. *)
DriftClass(rate) ==
  CASE rate < -50 -> "falling" [] rate > 50 -> "rising" [] OTHER -> "flat"

(* inventory_skew_bps: half as much again against the drift, 0.7 with it. *)
SkewRate(q, drift) ==
  LET base == q * SkewPerUnit
      adjusted == 100 * Magnitude(q) > Coin /\ Magnitude(drift) > 1
  IN  CASE adjusted /\ q * drift < 0  -> Truncated(base * 3, 2)
        [] adjusted /\ q * drift >= 0 -> Truncated(base * 7, 10)
        [] OTHER -> base

(* Faulty variant: the market's spread is not looked at. *)
BaseSpreadOfVolatility(m, vol) == Max({MinSpread, vol * VolatilityFactor * 10})

(* calculate_base_spread_bps *)
BaseSpread(m, vol) ==
  Max({MinSpread, vol * VolatilityFactor * 10, SpreadRate(m)})

SpreadTenths(action) ==
  CASE action = "emergency" -> 5 [] action = "aggressive" -> 7
    [] action = "passive" -> 10  [] action = "accumulate" -> 12

(* The quote generate_quotes makes of a market state, before the check. *)
BaseQuote(m, e, vol) ==
  LET drift  == DriftRate(e, m)
      fair   == ApplyRate(MidPrice(m), drift)
      skew   == SkewRate(position, drift)
      spread == Truncated(BaseSpread(m, vol) * SpreadTenths(Action(position, DriftClass(drift))), 10)
      sizes  == Quote(position, DriftClass(drift))
  IN  [bid |-> SubtractRate(fair, Truncated(spread - skew, 2)), bidSize |-> sizes.bid,
       ask |-> ApplyRate(fair, Truncated(spread + skew, 2)),    askSize |-> sizes.ask,
       fair |-> fair, confidence |-> Confidence(e)]

(* check_quote with its price checks: uncrossed, within 10% of the mark,   *)
(* and confident enough.                                                   *)
CheckQuote(quote, mark) ==
  /\ ~killed
  /\ Accepted(position, [bid |-> quote.bidSize, ask |-> quote.askSize])
  /\ quote.bid < quote.ask
  /\ 10 * Magnitude(quote.bid - mark) <= mark
  /\ 10 * Magnitude(quote.ask - mark) <= mark
  /\ quote.confidence >= MinConfidence

(* Faulty variant: the ask is moved the same way as the bid. *)
LevelSameWay(base, level) ==
  [base EXCEPT !.bid = SubtractRate(@, Spacing * level), !.ask = SubtractRate(@, Spacing * level),
               !.bidSize = @ \div (level + 1), !.askSize = @ \div (level + 1),
               !.confidence = @ \div (level + 1)]

(* generate_ladder_quotes: level 0 is the base quote itself. *)
Level(base, level) ==
  [base EXCEPT !.bid = SubtractRate(@, Spacing * level), !.ask = ApplyRate(@, Spacing * level),
               !.bidSize = @ \div (level + 1), !.askSize = @ \div (level + 1),
               !.confidence = @ \div (level + 1)]

(* The levels before the first that the risk manager refuses. *)
Ladder(base, n, mark) ==
  LET good == {k \in 1 .. n : \A l \in 0 .. k - 1 : CheckQuote(Level(base, l), mark)}
  IN  [i \in 1 .. Max(good \cup {0}) |-> Level(base, i - 1)]

(* A quote is due: the models learn from the market in any case, and a     *)
(* killed engine stops there.                                              *)
GenerateQuotes(top, n) ==
  LET m   == MarketState(top)
      e   == UpdateMarketState(est, m)
      vol == UpdatedVolatility(m)
  IN
  /\ est' = e /\ volatility' = vol /\ lastMid' = MidPrice(m)
  /\ \E base \in {BaseQuote(m, e, vol.value)} :
       out' = IF killed THEN <<>> ELSE Ladder(base, n, MidPrice(m))
  /\ UNCHANGED <<position, killed>>

(* A trade message on the strategy's stream; trades of two connections may *)
(* come out of order.                                                      *)
ReceiveTrade(trade) ==
  /\ TradesArrive
  /\ est' = AddTrade(est, trade)
  /\ Len(est'.trades) <= TradesMax
  /\ out' = <<>>
  /\ UNCHANGED <<volatility, lastMid, position, killed>>

(* Fills change the position (update_position). *)
ReceiveFill(change) ==
  /\ position + change \in -MaxExposure .. MaxExposure
  /\ position' = position + change
  /\ out' = <<>>
  /\ UNCHANGED <<est, volatility, lastMid, killed>>

(* A stale heartbeat; resume has no caller. *)
Kill ==
  /\ killed' = TRUE
  /\ out' = <<>>
  /\ UNCHANGED <<est, volatility, lastMid, position>>

Trades ==
  [time : 0 .. TimeMax, price : TradePrices, quantity : TradeSizes,
   side : {"buy", "sell"}, aggressor : BOOLEAN]

Next ==
  \/ \E m \in Markets, n \in {1, Levels} : GenerateQuotes(m, n)
  \/ \E trade \in Trades : ReceiveTrade(trade)
  \/ \E size \in FillSizes : ReceiveFill(size) \/ ReceiveFill(-size)
  \/ Kill

Spec == Init /\ [][Next]_vars

-----------------------------------------------------------------------------
EMAs == [value : Int, initialized : BOOLEAN]

TypeOK ==
  /\ est \in [seen : BOOLEAN, bidVolume : Nat, askVolume : Nat, flow : EMAs,
              trades : Seq(Trades), lastPrice : Nat, volatility : EMAs]
  /\ volatility \in EMAs /\ lastMid \in Nat
  /\ position \in -MaxExposure .. MaxExposure /\ killed \in BOOLEAN
  /\ out \in Seq([bid : Nat, ask : Nat, bidSize : Nat \ {0}, askSize : Nat \ {0},
                  fair : Int, confidence : Nat])

(* drift_estimator.rs, "Remove old trades outside window": whatever came   *)
(* in whichever order, the oldest trade kept is no newer than the latest   *)
(* arrival and at most a window older; so trades in order are all recent.  *)
WindowIsRecent ==
  est.trades # <<>> =>
    Last(est.trades).time - Head(est.trades).time \in 0 .. Window

(* A ladder nests: from level to level the bid falls, the ask rises and    *)
(* the sizes shrink, and no level crosses another.                         *)
LadderNests ==
  \A i, j \in DOMAIN out : i < j =>
    /\ out[j].bid <= out[i].bid /\ out[i].bid < out[i].ask /\ out[i].ask <= out[j].ask
    /\ out[j].bidSize <= out[i].bidSize /\ out[j].askSize <= out[i].askSize

(* asymmetric_sizes shrinks the side that would grow the position fast     *)
(* enough: if the base sizes of a ladder's levels come to no more than 0.4 *)
(* of the limit, all of them filled on one side never take the position    *)
(* past the limit, although each level is checked by itself.               *)
LadderFitsLimit ==
  LET n == Len(out) IN
  out # <<>> /\ 5 * n * BaseSize <= 2 * MaxPosition =>
    /\ position + Total([i \in 1 .. n |-> out[i].bidSize]) <= MaxPosition
    /\ position - Total([i \in 1 .. n |-> out[i].askSize]) >= -MaxPosition

(* The first level of what is published, as far as sizes go. *)
Quoting == INSTANCE Quoter WITH
  offers <- IF out = <<>> THEN <<>> ELSE <<[bid |-> out[1].bidSize, ask |-> out[1].askSize]>>

(* Whatever the market, the trades and the signals: the engine publishes   *)
(* nothing that the strategy of TradingLoop, which knows no prices, could  *)
(* not.                                                                    *)
ImplementsQuoter == Quoting!QuoterSpec

(* A side is missing, and what publish_quotes takes for its price lies     *)
(* beyond the other side, by a factor of two.                              *)
FarDefault(m) ==
  \/ m.bid # 0 /\ m.ask = 0 /\ DefaultPrice >= 2 * m.bid
  \/ m.ask # 0 /\ m.bid = 0 /\ m.ask >= 2 * DefaultPrice

(* A book without one of its sides is quoted around the middle of a real   *)
(* price and the default price of 50,000, whose spread is what keeps such  *)
(* a quote from being published: made that wide it is refused.  (A default *)
(* price on the wrong side of the real one makes no spread at all, and an  *)
(* empty book has none either: these are quoted.)                          *)
OneSidedIsRefused ==
  [][out' # <<>> =>
       ~ \E m \in Markets, n \in {1, Levels} : FarDefault(m) /\ GenerateQuotes(m, n)]_vars

(* The order flow and the trades point the same way, each by as much as    *)
(* min_confidence asks for, and by more than 0.1.                          *)
SignalsAreClear(e) ==
  LET enough(x) == x >= MinConfidence /\ 10 * x > Scale
      imbalance == TradeImbalance(e.trades)
  IN  \/ enough(e.flow.value) /\ enough(imbalance)
      \/ enough(-e.flow.value) /\ enough(-imbalance)

(* Drift, spread and skew come to no more than 5% of the price, and the    *)
(* spread to a basis point and ten units of the price at least.            *)
MarketIsCalm(m, e, vol) ==
  LET drift  == DriftRate(e, m)
      spread == BaseSpread(m, vol)
  IN  /\ Magnitude(drift) + spread + Magnitude(SkewRate(position, drift)) <= Whole \div 20
      /\ spread >= 10 /\ MidPrice(m) * spread >= 10 * Whole

(* The sizes leave room: 0.8 of the base size is something, twice the base *)
(* size is within the order limit, and the reduced side is not at nothing. *)
SizesLeaveRoom ==
  /\ BaseSize >= 2 /\ 2 * BaseSize <= MaxOrder
  /\ Magnitude(position) <= MaxPosition /\ Reduced(position) >= 1

(* The engine does quote: whenever trades and order flow agree, the market *)
(* is calm and both sizes are there, the quote passes every check of the   *)
(* risk manager and is published.  And where the position is urgent, the   *)
(* side that unwinds it (inventory_manager.rs:139, "Long position: eager   *)
(* to sell, reluctant to buy") has half as much again as the base size.    *)
QuotesWhenClear ==
  [][~killed /\ SizesLeaveRoom /\ SignalsAreClear(est') =>
       \A top \in Markets, n \in {1, Levels} :
         MarketIsCalm(MarketState(top), est', volatility'.value) /\ GenerateQuotes(top, n) =>
           /\ out' # <<>>
           /\ UsedAbove(position, 71) =>
                (IF position > 0 THEN out'[1].askSize ELSE out'[1].bidSize)
                  >= (3 * BaseSize) \div 2]_vars
=============================================================================
