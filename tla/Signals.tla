-------------------------------- MODULE Signals --------------------------------
(***************************************************************************)
(* The market signals: MarketState of mm_types and the DriftEstimator of   *)
(* mm_strategy, which mm_strategy and mm_pricing each keep one of.         *)
(*                                                                         *)
(* Prices and volumes are integers in the code's fixed point.  What the    *)
(* code keeps in f64 is an integer here: a signal (imbalance, order flow,  *)
(* confidence) counts in 1/Scale, a rate in tenths of a basis point,       *)
(* each cut off towards zero.  Averages that are only written (the price   *)
(* change, the buy and sell volume) are left out.                          *)
(***************************************************************************)
EXTENDS FixedPoint

CONSTANTS
  Scale,       \* steps a signal of 1.0 is divided into
  Coin,        \* volume units of one coin
  FlowAlpha,   \* weight of a new order flow in its average, in percent
  ReturnAlpha, \* the same of a new return in the volatility
  Window       \* trade_flow_window_secs

ASSUME SignalsAssumption ==
  /\ Scale \in Nat \ {0} /\ Scale % 10 = 0
  /\ Coin \in Nat \ {0} /\ Window \in Nat
  /\ FlowAlpha \in 1 .. 100 /\ ReturnAlpha \in 1 .. 100

-----------------------------------------------------------------------------
(* EMA: the first value is taken as it is. *)
NewEMA == [value |-> 0, initialized |-> FALSE]

Updated(ema, alpha, x) ==
  [value |-> IF ema.initialized
             THEN Truncated(alpha * x + (100 - alpha) * ema.value, 100) ELSE x,
   initialized |-> TRUE]

-----------------------------------------------------------------------------
(* MarketState: [bid, ask, bidVolume, askVolume].                          *)
MidPrice(m) == Truncated(m.bid + m.ask, 2)

SpreadRate(m) == Truncated((m.ask - m.bid) * Whole, MidPrice(m))

MicroPrice(m) ==
  IF m.bidVolume + m.askVolume = 0 THEN MidPrice(m)
  ELSE Truncated(m.bid * m.askVolume + m.ask * m.bidVolume, m.bidVolume + m.askVolume)

OrderbookImbalance(m) ==
  IF m.bidVolume + m.askVolume = 0 THEN 0
  ELSE Truncated((m.askVolume - m.bidVolume) * Scale, m.bidVolume + m.askVolume)

-----------------------------------------------------------------------------
(* The estimator's state.  A price of 0 stands for `no trade yet'. *)
NewEstimator ==
  [seen |-> FALSE, bidVolume |-> 0, askVolume |-> 0, flow |-> NewEMA,
   trades |-> <<>>, lastPrice |-> 0, volatility |-> NewEMA]

(* OrderFlowImbalance::update: the first state only gives the volumes to compare with. *)
UpdateMarketState(est, m) ==
  LET change == (m.bidVolume - est.bidVolume) - (m.askVolume - est.askVolume) IN
  [est EXCEPT !.seen = TRUE, !.bidVolume = m.bidVolume, !.askVolume = m.askVolume,
              !.flow = IF est.seen THEN Updated(@, FlowAlpha, Truncated(change * Scale, Coin))
                                   ELSE @]

(* Faulty variant: the age in milliseconds against a window in seconds. *)
ExpiredInMillis(trade, time) ==
  trade.time > time \/ (time - trade.time) \div 1000 > Window

(* The age is an unsigned difference: that of a trade which is newer than  *)
(* the one just added wraps to an enormous one.                            *)
Expired(trade, time) == trade.time > time \/ time - trade.time > Window

(* Trades are taken from the front until one has not expired. *)
Recent(trades, time) ==
  LET first == CHOOSE i \in DOMAIN trades :
                 /\ ~Expired(trades[i], time)
                 /\ \A j \in 1 .. i - 1 : Expired(trades[j], time)
  IN  SubSeq(trades, first, Len(trades))

(* add_trade, of the estimator and of its TradeFlowAnalyzer; returns count *)
(* in basis points.                                                        *)
AddTrade(est, trade) ==
  [est EXCEPT
     !.trades = Recent(Append(@, trade), trade.time),
     !.lastPrice = trade.price,
     !.volatility =
        IF est.lastPrice > 0
        THEN Updated(@, ReturnAlpha,
               Truncated(Magnitude(trade.price - est.lastPrice) * 10000, est.lastPrice))
        ELSE @]

(* The volume of the aggressive trades on a side. *)
Volume(trades, side) ==
  Total([i \in DOMAIN trades |->
           IF trades[i].aggressor /\ trades[i].side = side THEN trades[i].quantity ELSE 0])

(* aggressive_trade_imbalance *)
TradeImbalance(trades) ==
  LET buys  == Volume(trades, "buy")
      sells == Volume(trades, "sell")
  IN  IF buys + sells = 0 THEN 0 ELSE Truncated((buys - sells) * Scale, buys + sells)

(* estimate_drift_bps: a tenth of the order flow, half of the trade        *)
(* imbalance, 0.8 of the book's and 0.05 of the micro-price's distance.    *)
DriftRate(est, m) ==
  LET signals == est.flow.value + 5 * TradeImbalance(est.trades) + 8 * OrderbookImbalance(m)
  IN  Truncated(signals, Scale)
        + Truncated((MicroPrice(m) - MidPrice(m)) * 5000, MidPrice(m))

(* The order flow and the trades point the same way, by more than 0.1 each. *)
SignalsAgree(flow, imbalance) ==
  \/ 10 * flow > Scale /\ 10 * imbalance > Scale
  \/ 10 * flow < -Scale /\ 10 * imbalance < -Scale

(* confidence: never below 0.1, and no more than that without agreement.   *)
Confidence(est) ==
  LET flow      == est.flow.value
      imbalance == TradeImbalance(est.trades)
      strength  == (Magnitude(flow) + Magnitude(imbalance)) \div 2
  IN  IF SignalsAgree(flow, imbalance)
      THEN Max({Scale \div 10, Min({strength, Scale})}) ELSE Scale \div 10
=============================================================================
