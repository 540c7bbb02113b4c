--------------------------- MODULE QuoteEngineProofs ---------------------------
(***************************************************************************)
(* Theorems about QuoteEngine, for every market, limit, window and ladder. *)
(* A ladder is made of levels of one base quote, each of them accepted by  *)
(* the risk manager; what the base quote is made of, the sizes and the     *)
(* signals, decides what can be published.                                 *)
(***************************************************************************)
EXTENDS QuoteEngine, SumTheorems

-----------------------------------------------------------------------------
(* The sizes of one quote. *)

LEMMA SizesAreIntegers ==
  ASSUME NEW q \in Int, NEW drift
  PROVE  Reduced(q) \in Int /\ Eager(q, drift) \in Nat /\ Eager(q, drift) <= 2 * BaseSize
<1> USE SizingAssumption
<1>1. Magnitude(q) \in Nat
  BY DEF Magnitude
<1>2. SizeFactor(q) \in Int
  BY <1>1 DEF SizeFactor
<1>3. BaseSize * SizeFactor(q) \in Int
  BY <1>2
<1>4. Reduced(q) \in Int
  BY <1>3 DEF Reduced, Truncated
<1>5. Tenths(Action(q, drift)) \in {20, 15, 10, 8}
  BY DEF Tenths, Action
<1>6. Eager(q, drift) \in Nat /\ Eager(q, drift) <= 2 * BaseSize
  BY <1>5 DEF Eager
<1> QED
  BY <1>4, <1>6

(* What size_factor leaves of n base sizes never exceeds the room between  *)
(* the position and the limit: on all three pieces it is at most 15/6 of   *)
(* the part of the limit that is left.                                     *)
LEMMA ReducedFits ==
  ASSUME NEW q \in Int, Magnitude(q) <= MaxPosition,
         NEW n \in Nat, 5 * n * BaseSize <= 2 * MaxPosition
  PROVE  n * Reduced(q) <= MaxPosition - Magnitude(q)
<1> DEFINE u == Magnitude(q)
           factor == SizeFactor(q)
           room == MaxPosition - u
<1> USE SizingAssumption
<1>1. u \in Nat /\ room \in Nat
  BY DEF Magnitude
<1>2. factor \in Nat /\ factor <= 15 * room
  BY <1>1 DEF SizeFactor
<1> HIDE DEF u, factor, room
<1>3. BaseSize * factor \in Nat
  BY <1>2
<1>4. n * ((BaseSize * factor) \div (6 * MaxPosition)) <= room
  BY <1>1, <1>2, SharesFit
<1>5. Reduced(q) = (BaseSize * factor) \div (6 * MaxPosition)
  BY <1>3 DEF Reduced, Truncated, factor
<1> QED
  BY <1>4, <1>5 DEF room, u

(* Within the limit the reduced side never turns negative. *)
LEMMA ReducedIsNatural ==
  ASSUME NEW q \in Int, Magnitude(q) <= MaxPosition
  PROVE  Reduced(q) \in Nat
<1> DEFINE factor == SizeFactor(q)
<1> USE SizingAssumption
<1>1. Magnitude(q) \in Nat
  BY DEF Magnitude
<1>2. factor \in Nat
  BY <1>1 DEF SizeFactor
<1> HIDE DEF factor
<1>3. BaseSize * factor \in Nat /\ 6 * MaxPosition \in Nat \ {0}
  BY <1>2
<1>4. Truncated(BaseSize * factor, 6 * MaxPosition) >= 0 /\ Truncated(BaseSize * factor, 6 * MaxPosition) \in Int
  BY <1>3, TruncatedSign
<1> QED
  BY <1>4 DEF Reduced, factor

(* n quotes of these sizes, filled on one side. *)
LEMMA QuotesFit ==
  ASSUME NEW q \in Int, NEW drift, Magnitude(q) <= MaxPosition,
         NEW n \in Nat, 5 * n * BaseSize <= 2 * MaxPosition
  PROVE  /\ q + n * Quote(q, drift).bid <= MaxPosition
         /\ q - n * Quote(q, drift).ask >= -MaxPosition
<1>1. n * Reduced(q) <= MaxPosition - Magnitude(q) /\ n * Reduced(q) \in Int
  BY ReducedFits, SizesAreIntegers
<1>2. n * Eager(q, drift) <= MaxPosition /\ n * Eager(q, drift) \in Int
  <2> DEFINE size == Eager(q, drift)
  <2>1. size \in Nat /\ size <= 2 * BaseSize
    BY SizesAreIntegers
  <2> HIDE DEF size
  <2>2. size * n <= (2 * BaseSize) * n
    BY <2>1, SizingAssumption, ProductGrows
  <2>3. n * size \in Int /\ n * size = size * n /\ n * BaseSize \in Nat
        /\ (2 * BaseSize) * n = 2 * (n * BaseSize) /\ 5 * (n * BaseSize) <= 2 * MaxPosition
    BY <2>1, SizingAssumption
  <2>4. n * size <= MaxPosition /\ n * size \in Int
    BY <2>2, <2>3, SizingAssumption
  <2> QED BY <2>4 DEF size
<1>3. Quote(q, drift).bid = (IF q > 0 THEN Reduced(q) ELSE Eager(q, drift))
      /\ Quote(q, drift).ask = (IF q < 0 THEN Reduced(q) ELSE Eager(q, drift))
  BY DEF Quote
<1> DEFINE reduced == n * Reduced(q)
           eager == n * Eager(q, drift)
<1>4. /\ n * Quote(q, drift).bid = (IF q > 0 THEN reduced ELSE eager)
      /\ n * Quote(q, drift).ask = (IF q < 0 THEN reduced ELSE eager)
  BY <1>3
<1>5. reduced \in Int /\ eager \in Int /\ reduced <= MaxPosition - Magnitude(q) /\ eager <= MaxPosition
  BY <1>1, <1>2
<1> HIDE DEF reduced, eager
<1> QED
  BY <1>4, <1>5, SizingAssumption DEF Magnitude

(* At the limit one side has nothing left, beyond it the check refuses. *)
LEMMA LimitRefuses ==
  ASSUME NEW q \in Int, NEW drift, Magnitude(q) >= MaxPosition
  PROVE  ~Accepted(q, [bid |-> Quote(q, drift).bid, ask |-> Quote(q, drift).ask])
<1> USE SizingAssumption
<1>1. SUFFICES ASSUME Magnitude(q) = MaxPosition
               PROVE  Quote(q, drift).bid = 0 \/ Quote(q, drift).ask = 0
  BY DEF Accepted, Magnitude
<1>2. SizeFactor(q) = 0
  BY <1>1 DEF SizeFactor
<1>3. Reduced(q) = 0
  BY <1>2 DEF Reduced, Truncated
<1>4. q > 0 \/ q < 0
  BY <1>1 DEF Magnitude
<1> QED
  BY <1>3, <1>4 DEF Quote

-----------------------------------------------------------------------------
(* A ladder is made of the levels of the base quote, all accepted.         *)
IsLadder(quotes, base, mark) ==
  \E k \in Nat : /\ quotes = [i \in 1 .. k |-> Level(base, i - 1)]
                 /\ \A l \in Nat : l < k => CheckQuote(Level(base, l), mark)

LEMMA LadderLevels ==
  ASSUME NEW base, NEW n \in Nat, NEW mark
  PROVE  IsLadder(Ladder(base, n, mark), base, mark)
<1> DEFINE good == {k \in 1 .. n : \A l \in 0 .. k - 1 : CheckQuote(Level(base, l), mark)}
           last == Max(good \cup {0})
<1>1. Ladder(base, n, mark) = [i \in 1 .. last |-> Level(base, i - 1)]
  BY DEF Ladder
<1>2. last \in good \cup {0}
  <2> DEFINE T == good \cup {0}
  <2>1. T \subseteq 0 .. n /\ T # {}
    OBVIOUS
  <2> HIDE DEF T
  <2>2. Max(T) \in T
    BY <2>1, GreatestIsMax
  <2> QED
    BY <2>2 DEF T
<1>3. last \in Nat /\ \A l \in Nat : l < last => l \in 0 .. last - 1
  <2>1. last \in 0 .. n
    BY <1>2
  <2> HIDE DEF last
  <2> QED
    BY <2>1
<1>4. \A l \in 0 .. last - 1 : CheckQuote(Level(base, l), mark)
  <2>1. CASE last \in good
    BY <2>1
  <2>2. CASE last = 0
    BY <2>2
  <2> QED
    BY <1>2, <2>1, <2>2
<1> HIDE DEF last
<1> QED
  BY <1>1, <1>3, <1>4, Zenon DEF IsLadder

(* What is published are levels of the quote made of this market.          *)
LEMMA PublishedLadder ==
  ASSUME NEW top \in Markets, NEW n \in {1, Levels}, GenerateQuotes(top, n), out' # <<>>
  PROVE  LET m == MarketState(top)
             e == UpdateMarketState(est, m)
         IN  IsLadder(out', BaseQuote(m, e, UpdatedVolatility(m).value), MidPrice(m))
<1> DEFINE m == MarketState(top)
           e == UpdateMarketState(est, m)
           base == BaseQuote(m, e, UpdatedVolatility(m).value)
<1>1. n \in Nat
  BY EngineAssumption
<1>2. out' = Ladder(base, n, MidPrice(m))
  BY Zenon DEF GenerateQuotes
<1> HIDE DEF base, m
<1>3. IsLadder(Ladder(base, n, MidPrice(m)), base, MidPrice(m))
  BY <1>1, LadderLevels
<1> QED
  BY <1>2, <1>3 DEF base, m

(* What is published begins with the quote made of this market, accepted   *)
(* by the risk manager.                                                    *)
LEMMA PublishedIsChecked ==
  ASSUME NEW top \in Markets, NEW n \in {1, Levels}, GenerateQuotes(top, n), out' # <<>>
  PROVE  LET m     == MarketState(top)
             e     == UpdateMarketState(est, m)
             first == Level(BaseQuote(m, e, UpdatedVolatility(m).value), 0)
         IN  out'[1] = first /\ CheckQuote(first, MidPrice(m))
<1> DEFINE m == MarketState(top)
           e == UpdateMarketState(est, m)
           base == BaseQuote(m, e, UpdatedVolatility(m).value)
           mark == MidPrice(m)
<1>1. IsLadder(out', base, mark)
  BY PublishedLadder
<1> HIDE DEF base, mark
<1>2. PICK k \in Nat : /\ out' = [i \in 1 .. k |-> Level(base, i - 1)]
                       /\ \A l \in Nat : l < k => CheckQuote(Level(base, l), mark)
  BY <1>1 DEF IsLadder
<1>3. k # 0
  <2>1. k = 0 => out' = <<>>
    <3>1. 1 .. 0 = {}
      OBVIOUS
    <3> QED
      BY <1>2, <3>1
  <2> QED
    BY <2>1
<1>4. 1 \in 1 .. k /\ 0 < k /\ 1 - 1 = 0
  BY <1>3
<1>5. out'[1] = Level(base, 0) /\ CheckQuote(Level(base, 0), mark)
  BY <1>2, <1>4
<1> QED
  BY <1>5 DEF base, mark

-----------------------------------------------------------------------------
(* The position is an integer. *)
PositionIsInt == position \in Int

LEMMA PositionStaysInt ==
  ASSUME PositionIsInt, [Next]_vars
  PROVE  PositionIsInt'
<1>1. ASSUME NEW m \in Markets, NEW n \in {1, Levels}, GenerateQuotes(m, n)
      PROVE  PositionIsInt'
  <2>1. position' = position
    BY <1>1, Zenon DEF GenerateQuotes
  <2> QED
    BY <2>1 DEF PositionIsInt
<1>2. ASSUME NEW trade \in Trades, ReceiveTrade(trade)
      PROVE  PositionIsInt'
  BY <1>2 DEF ReceiveTrade, PositionIsInt
<1>3. ASSUME NEW size \in FillSizes, ReceiveFill(size) \/ ReceiveFill(-size)
      PROVE  PositionIsInt'
  BY <1>3, EngineAssumption DEF ReceiveFill, PositionIsInt
<1>4. CASE Kill
  BY <1>4 DEF Kill, PositionIsInt
<1>5. CASE UNCHANGED vars
  BY <1>5 DEF vars, PositionIsInt
<1> QED
  BY <1>1, <1>2, <1>3, <1>4, <1>5 DEF Next

(* The first quote a step publishes has the sizes QuoteSizing gives for    *)
(* the position, which the step leaves alone, and they were accepted.      *)
LEMMA FirstQuote ==
  ASSUME PositionIsInt, NEW top \in Markets, NEW n \in {1, Levels},
         GenerateQuotes(top, n), out' # <<>>
  PROVE  /\ position' = position /\ ~killed
         /\ \E drift \in Drift :
              /\ Accepted(position, [bid |-> Quote(position, drift).bid,
                                     ask |-> Quote(position, drift).ask])
              /\ out'[1].bidSize = Quote(position, drift).bid
              /\ out'[1].askSize = Quote(position, drift).ask
<1> DEFINE m == MarketState(top)
           e == UpdateMarketState(est, m)
           base == BaseQuote(m, e, UpdatedVolatility(m).value)
           first == Level(base, 0)
           drift == DriftClass(DriftRate(e, m))
           q == Quote(position, drift)
<1>1. out'[1] = first /\ CheckQuote(first, MidPrice(m))
  BY PublishedIsChecked
<1>2. base.bidSize = q.bid /\ base.askSize = q.ask
  BY Zenon DEF BaseQuote
<1>3. q.bid \in Int /\ q.ask \in Int
  BY SizesAreIntegers DEF PositionIsInt, Quote
<1>4. first.bidSize = base.bidSize \div (0 + 1) /\ first.askSize = base.askSize \div (0 + 1)
  <2>1. DOMAIN base = {"bid", "bidSize", "ask", "askSize", "fair", "confidence"}
    BY DEF BaseQuote
  <2> QED
    BY <2>1 DEF Level
<1>5. first.bidSize = q.bid /\ first.askSize = q.ask
  BY <1>2, <1>3, <1>4
<1>6. Accepted(position, [bid |-> first.bidSize, ask |-> first.askSize])
  BY <1>1, Zenon DEF CheckQuote
<1>7. position' = position /\ ~killed
  BY <1>1, Zenon DEF GenerateQuotes, CheckQuote
<1>9. drift \in Drift
  BY DEF DriftClass, Drift
<1> HIDE DEF first, q, drift
<1>8. /\ Accepted(position, [bid |-> q.bid, ask |-> q.ask])
      /\ out'[1].bidSize = q.bid /\ out'[1].askSize = q.ask
  BY <1>1, <1>5, <1>6
<1> QED
  BY <1>7, <1>8, <1>9, Zenon DEF q

(* Only a quote that is due is published. *)
LEMMA OnlyWhenDue ==
  ASSUME [Next]_vars, out' # <<>>
  PROVE  \/ \E top \in Markets, n \in {1, Levels} : GenerateQuotes(top, n)
         \/ UNCHANGED vars
<1>1. ASSUME NEW trade \in Trades, ReceiveTrade(trade) PROVE FALSE
  BY <1>1 DEF ReceiveTrade
<1>2. ASSUME NEW size \in FillSizes, ReceiveFill(size) \/ ReceiveFill(-size) PROVE FALSE
  BY <1>2 DEF ReceiveFill
<1>3. CASE Kill
  BY <1>3 DEF Kill
<1> QED
  BY <1>1, <1>2, <1>3 DEF Next

-----------------------------------------------------------------------------
(* The code at variance with its comments.  inventory_manager.rs:139-141   *)
(* wants a long position "eager to sell", with "full size on ask", and 190 *)
(* logs "Emergency unwind required - position limit breached".  In fact at *)
(* the limit and beyond nothing is published, not even the side that would *)
(* unwind: the other side's size is zero or the position check refuses.    *)
LimitSilences == Magnitude(position) >= MaxPosition => out = <<>>

(* check_position_limit and asymmetric_sizes together: at the position     *)
(* limit and beyond it nothing is published, for any limits and base size. *)
THEOREM SilentAtLimit == Spec => []LimitSilences
<1>1. Init => PositionIsInt /\ LimitSilences
  BY DEF Init, PositionIsInt, LimitSilences
<1>2. PositionIsInt /\ LimitSilences /\ [Next]_vars => PositionIsInt' /\ LimitSilences'
  <2> SUFFICES ASSUME PositionIsInt, LimitSilences, [Next]_vars
               PROVE  PositionIsInt' /\ LimitSilences'
    OBVIOUS
  <2>1. CASE out' = <<>>
    BY <2>1, PositionStaysInt DEF LimitSilences
  <2>2. ASSUME NEW top \in Markets, NEW n \in {1, Levels}, GenerateQuotes(top, n), out' # <<>>
        PROVE  LimitSilences'
    <3>1. position' = position /\ ~(Magnitude(position) >= MaxPosition)
      BY <2>2, FirstQuote, LimitRefuses DEF PositionIsInt
    <3> QED
      BY <3>1 DEF LimitSilences, Magnitude
  <2>3. CASE UNCHANGED vars
    BY <2>3, PositionStaysInt DEF vars, LimitSilences, Magnitude
  <2> QED
    BY <2>1, <2>2, <2>3, OnlyWhenDue, PositionStaysInt
<1> QED
  BY <1>1, <1>2, PTL DEF Spec

-----------------------------------------------------------------------------
(* What is published, as Quoter sees it.                                   *)
Offers == IF out = <<>> THEN <<>> ELSE <<[bid |-> out[1].bidSize, ask |-> out[1].askSize]>>

LEMMA OffersRunOut ==
  Len(Offers) \in 0 .. Len(Offers) /\ SubSeq(Offers, Len(Offers) + 1, Len(Offers)) = <<>>
<1> DEFINE pair == [bid |-> out[1].bidSize, ask |-> out[1].askSize]
<1>1. Offers \in {<<>>, <<pair>>}
  BY DEF Offers
<1> HIDE DEF pair
<1>2. <<pair>> \in Seq({pair}) /\ <<>> \in Seq({pair})
  OBVIOUS
<1>3. \A s \in Seq({pair}) : /\ Len(s) \in 0 .. Len(s)
                            /\ SubSeq(s, Len(s) + 1, Len(s)) = <<>>
  OBVIOUS
<1> QED BY <1>1, <1>2, <1>3

(* Nothing is published by a step: the ladder of the last one is gone.     *)
LEMMA NothingOffered ==
  ASSUME position' \in Int, killed' \in BOOLEAN, killed => killed', out' = <<>>
  PROVE  Quoting!Learn
<1>1. Offers' = <<>>
  BY DEF Offers
<1> QED BY <1>1, OffersRunOut DEF Quoting!Learn, Quoting!Without, Offers

LEMMA EngineQuotes ==
  ASSUME PositionIsInt, PositionIsInt', killed \in BOOLEAN, [Next]_vars
  PROVE  /\ Quoting!QuoterNext \/ UNCHANGED <<position, killed, Offers>>
         /\ killed' \in BOOLEAN
<1>1. killed' \in BOOLEAN /\ (killed => killed')
  BY DEF Next, GenerateQuotes, ReceiveTrade, ReceiveFill, Kill, vars
<1>2. CASE out' = <<>>
  BY <1>1, <1>2, NothingOffered DEF PositionIsInt, Quoting!QuoterNext
<1>3. ASSUME NEW top \in Markets, NEW n \in {1, Levels}, GenerateQuotes(top, n), out' # <<>>
      PROVE  Quoting!Offer
  <2>1. PICK drift \in Drift :
          /\ Accepted(position, [bid |-> Quote(position, drift).bid,
                                 ask |-> Quote(position, drift).ask])
          /\ out'[1].bidSize = Quote(position, drift).bid
          /\ out'[1].askSize = Quote(position, drift).ask
    BY <1>3, FirstQuote
  <2>2. position' = position /\ ~killed /\ killed' = killed
    BY <1>3, FirstQuote DEF GenerateQuotes
  <2>3. Quote(position, drift) = [bid |-> Quote(position, drift).bid,
                                  ask |-> Quote(position, drift).ask]
    BY DEF Quote
  <2>4. Quote(position, drift) \in Allowed[position]
    BY <2>1, <2>3 DEF Allowed, PositionIsInt
  <2>5. Offers' = <<Quote(position, drift)>>
    BY <1>3, <2>1, <2>3 DEF Offers
  <2>6. Len(Offers) \in 0 .. Len(Offers) /\ SubSeq(Offers, Len(Offers) + 1, Len(Offers)) = <<>>
    BY OffersRunOut
  <2>7. Offers' = Append(<<>>, Quote(position, drift))
    BY <2>5
  <2> QED BY <2>2, <2>4, <2>6, <2>7 DEF Quoting!Offer, Quoting!Without, Offers
<1>4. CASE UNCHANGED vars
  BY <1>1, <1>4 DEF vars, Offers
<1> QED BY <1>1, <1>2, <1>3, <1>4, OnlyWhenDue DEF Quoting!QuoterNext

(* Whatever the market, the signals and the number of levels, the engine   *)
(* quotes as Quoter says: the first level has the sizes of the position,   *)
(* and a killed engine publishes nothing.                                  *)
THEOREM EngineIsQuoter == Spec => ImplementsQuoter
<1>1. Init => Quoting!QuoterInit /\ PositionIsInt /\ killed \in BOOLEAN
  <2> SUFFICES ASSUME Init PROVE Quoting!QuoterInit /\ PositionIsInt /\ killed \in BOOLEAN
    OBVIOUS
  <2>1. position = 0 /\ killed = FALSE /\ out = <<>>
    BY DEF Init
  <2>2. Offers = <<>>
    BY <2>1 DEF Offers
  <2>3. Quoting!QuoterInit
    BY <2>1, <2>2, Zenon DEF Quoting!QuoterInit, Offers
  <2>4. killed \in BOOLEAN
    BY <2>1, Zenon
  <2>5. PositionIsInt
    BY <2>1 DEF PositionIsInt
  <2> QED BY <2>3, <2>4, <2>5, Zenon
<1>2. PositionIsInt /\ killed \in BOOLEAN /\ [Next]_vars
        => PositionIsInt' /\ (killed \in BOOLEAN)'
  BY PositionStaysInt, EngineQuotes
<1>3. PositionIsInt /\ PositionIsInt' /\ killed \in BOOLEAN /\ [Next]_vars
        => [Quoting!QuoterNext]_<<position, killed, Offers>>
  BY EngineQuotes
<1> QED
  BY <1>1, <1>2, <1>3, PTL DEF Spec, ImplementsQuoter, Quoting!QuoterSpec, Offers

-----------------------------------------------------------------------------
(* What a trade leaves of the window. *)
LEMMA RecentKeeps ==
  ASSUME NEW trades \in Seq(Trades), NEW trade \in Trades
  PROVE  LET kept == Recent(Append(trades, trade), trade.time)
         IN  /\ kept \in Seq(Trades) /\ kept # <<>>
             /\ Last(kept).time - Head(kept).time \in 0 .. Window
<1> DEFINE all == Append(trades, trade)
           IsFirst(i) == /\ ~Expired(all[i], trade.time)
                         /\ \A j \in 1 .. i - 1 : Expired(all[j], trade.time)
           first == CHOOSE i \in DOMAIN all : IsFirst(i)
           fresh == {i \in DOMAIN all : ~Expired(all[i], trade.time)}
<1>1. all \in Seq(Trades) /\ all[Len(all)] = trade /\ Len(all) \in DOMAIN all
  OBVIOUS
<1>2. trade.time \in Nat
  BY DEF Trades
<1>3. Len(all) \in fresh
  BY <1>1, <1>2, SignalsAssumption DEF Expired
<1>4. \E i \in DOMAIN all : IsFirst(i)
  <2>1. PICK i \in fresh : \A j \in fresh : i <= j
    <3>1. fresh \subseteq Nat /\ fresh # {}
      BY <1>1, <1>3
    <3> HIDE DEF fresh
    <3> QED
      BY <3>1, LeastExists
  <2>2. \A j \in 1 .. i - 1 : j \in DOMAIN all /\ j \notin fresh
    BY <1>1, <2>1
  <2> QED
    BY <2>1, <2>2
<1>5. first \in DOMAIN all /\ IsFirst(first)
  BY <1>4, Zenon
<1>6. Recent(all, trade.time) = SubSeq(all, first, Len(all))
  BY DEF Recent
<1> HIDE DEF first
<1> DEFINE kept == SubSeq(all, first, Len(all))
<1>7. kept \in Seq(Trades) /\ kept # <<>> /\ Head(kept) = all[first] /\ Last(kept) = trade
  <2>1. /\ \A s \in Seq(Trades) : \A f \in 1 .. Len(s) :
             LET tail == SubSeq(s, f, Len(s))
             IN  tail \in Seq(Trades) /\ Len(tail) = Len(s) - f + 1
        /\ \A s \in Seq(Trades) : DOMAIN s = 1 .. Len(s) /\ Len(s) \in Nat
    OBVIOUS
  <2>2. \A s \in Seq(Trades) : \A f \in 1 .. Len(s) :
          LET tail == SubSeq(s, f, Len(s))
          IN  /\ tail # <<>> /\ Head(tail) = s[f]
              /\ tail[Len(tail)] = s[Len(s)]
    <3> SUFFICES ASSUME NEW s \in Seq(Trades), NEW f \in 1 .. Len(s)
                 PROVE  LET tail == SubSeq(s, f, Len(s))
                        IN  /\ tail # <<>> /\ Head(tail) = s[f]
                            /\ tail[Len(tail)] = s[Len(s)]
      OBVIOUS
    <3> DEFINE tail == SubSeq(s, f, Len(s))
    <3>1. tail \in Seq(Trades) /\ Len(tail) = Len(s) - f + 1 /\ Len(s) \in Nat
      BY <2>1
    <3>2. \A i \in 1 .. Len(tail) : tail[i] = s[f + i - 1]
      BY <3>1
    <3>3. Len(tail) \in Nat \ {0} /\ f + Len(tail) - 1 = Len(s)
      BY <3>1
    <3> HIDE DEF tail
    <3>4. tail # <<>> /\ Head(tail) = tail[1]
      <4>1. \A t \in Seq(Trades) : Len(t) # 0 => t # <<>> /\ Head(t) = t[1]
        OBVIOUS
      <4>2. Len(tail) # 0
        BY <3>3
      <4> QED BY <3>1, <4>1, <4>2, Zenon
    <3>5. tail[1] = s[f] /\ tail[Len(tail)] = s[Len(s)]
      <4>1. 1 \in 1 .. Len(tail) /\ Len(tail) \in 1 .. Len(tail) /\ f + 1 - 1 = f
        BY <3>3
      <4>2. tail[1] = s[f + 1 - 1] /\ tail[Len(tail)] = s[f + Len(tail) - 1]
        BY <3>2, <4>1, Zenon
      <4> QED BY <3>3, <4>1, <4>2, Zenon
    <3> QED BY <3>4, <3>5 DEF tail
  <2> HIDE DEF all
  <2>3. first \in 1 .. Len(all)
    BY <1>1, <1>5, <2>1, Zenon
  <2> QED
    BY <1>1, <2>1, <2>2, <2>3, Zenon DEF Last
<1>8. all[first].time \in Nat
  <2>1. \A s \in Seq(Trades) : \A i \in DOMAIN s : s[i] \in Trades
    OBVIOUS
  <2> HIDE DEF all
  <2>2. all[first] \in Trades
    BY <1>1, <1>5, <2>1
  <2> QED
    BY <2>2 DEF Trades
<1>9. trade.time - all[first].time \in 0 .. Window
  BY <1>2, <1>5, <1>8, SignalsAssumption DEF Expired
<1> QED
  BY <1>6, <1>7, <1>9

WindowInv == "trades" \in DOMAIN est /\ est.trades \in Seq(Trades) /\ WindowIsRecent

(* add_trade takes from the front of the window whatever is too old or     *)
(* seems to come from the future: in whatever order trades arrive, the     *)
(* oldest one kept is within the window of the latest.                     *)
THEOREM WindowStaysRecent == Spec => []WindowIsRecent
<1>1. Init => WindowInv
  BY DEF Init, WindowInv, NewEstimator, WindowIsRecent
<1>2. WindowInv /\ [Next]_vars => WindowInv'
  <2> SUFFICES ASSUME WindowInv, [Next]_vars
               PROVE  WindowInv'
    OBVIOUS
  <2>1. ASSUME NEW top \in Markets, NEW n \in {1, Levels}, GenerateQuotes(top, n)
        PROVE  WindowInv'
    <3>1. est' = UpdateMarketState(est, MarketState(top))
      BY <2>1, Zenon DEF GenerateQuotes
    <3>2. DOMAIN est' = DOMAIN est /\ est'.trades = est.trades
      BY <3>1 DEF UpdateMarketState, WindowInv
    <3> QED
      BY <3>2 DEF WindowInv, WindowIsRecent
  <2>2. ASSUME NEW trade \in Trades, ReceiveTrade(trade)
        PROVE  WindowInv'
    <3>1. est' = AddTrade(est, trade)
      BY <2>2 DEF ReceiveTrade
    <3>2. DOMAIN est' = DOMAIN est
          /\ est'.trades = Recent(Append(est.trades, trade), trade.time)
      BY <3>1 DEF AddTrade, WindowInv
    <3> QED
      BY <3>2, RecentKeeps DEF WindowInv, WindowIsRecent
  <2>3. CASE est' = est
    BY <2>3 DEF WindowInv, WindowIsRecent
  <2> QED
    BY <2>1, <2>2, <2>3 DEF Next, ReceiveFill, Kill, vars
<1>3. WindowInv => WindowIsRecent
  BY DEF WindowInv
<1> QED
  BY <1>1, <1>2, <1>3, PTL DEF Spec

-----------------------------------------------------------------------------
(* The signals. *)

LEMMA VolumeFacts ==
  ASSUME NEW trades \in Seq(Trades), NEW side
  PROVE  /\ Volume(trades, side) \in Nat
         /\ Volume(trades, side) > 0
              => \E i \in DOMAIN trades : trades[i].aggressor /\ trades[i].side = side
<1> DEFINE Counts(i) == trades[i].aggressor /\ trades[i].side = side
           n == Len(trades)
           t == [i \in 1 .. n |-> IF Counts(i) THEN trades[i].quantity ELSE 0]
<1>1. n \in Nat /\ DOMAIN trades = 1 .. n /\ \A i \in 1 .. n : trades[i] \in Trades
  OBVIOUS
<1>2. \A i \in 1 .. n : trades[i].quantity \in Nat
  BY <1>1, EngineAssumption DEF Trades
<1>3. t \in [1 .. n -> Nat]
  BY <1>2
<1>4. Volume(trades, side) = Total(t)
  BY <1>1 DEF Volume
<1>5. \A k \in 1 .. n : t[k] > 0 => Counts(k)
  BY <1>3
<1> HIDE DEF t, Counts
<1>6. Total(t) \in Nat /\ (Total(t) > 0 => \E k \in 1 .. n : t[k] > 0)
  BY <1>1, <1>3, TotalOfNaturals
<1> QED
  BY <1>1, <1>4, <1>5, <1>6 DEF Counts

LEMMA ImbalanceFacts ==
  ASSUME NEW trades \in Seq(Trades)
  PROVE  LET x == TradeImbalance(trades)
             Aggressive(side) ==
               \E i \in DOMAIN trades : trades[i].aggressor /\ trades[i].side = side
         IN  /\ x \in Int
             /\ x > 0 => Aggressive("buy")
             /\ x < 0 => Aggressive("sell")
<1> DEFINE buys == Volume(trades, "buy")
           sells == Volume(trades, "sell")
           x == TradeImbalance(trades)
<1>1. buys \in Nat /\ sells \in Nat
  BY VolumeFacts
<1>2. x = IF buys + sells = 0 THEN 0 ELSE Truncated((buys - sells) * Scale, buys + sells)
  BY DEF TradeImbalance
<1> HIDE DEF buys, sells, x
<1>3. x \in Int /\ (x > 0 => buys > 0) /\ (x < 0 => sells > 0)
  <2>1. CASE buys + sells = 0
    BY <1>2, <2>1
  <2>2. CASE buys + sells # 0
    <3> DEFINE y == (buys - sells) * Scale
    <3>1. y \in Int /\ buys + sells \in Nat \ {0}
      BY <1>1, <2>2, SignalsAssumption
    <3>2. buys - sells <= 0 => y <= 0
      BY <1>1, SignalsAssumption
    <3>3. buys - sells >= 0 => y >= 0
      BY <1>1, SignalsAssumption
    <3>4. x = Truncated(y, buys + sells)
      BY <1>2, <2>2
    <3> HIDE DEF y
    <3>5. x \in Int /\ (y <= 0 => x <= 0) /\ (y >= 0 => x >= 0)
      BY <3>1, <3>4, TruncatedSign
    <3> QED
      BY <1>1, <3>2, <3>3, <3>5
  <2> QED
    BY <2>1, <2>2
<1>4. (buys > 0 => \E i \in DOMAIN trades : trades[i].aggressor /\ trades[i].side = "buy")
  BY VolumeFacts DEF buys
<1>5. (sells > 0 => \E i \in DOMAIN trades : trades[i].aggressor /\ trades[i].side = "sell")
  BY VolumeFacts DEF sells
<1> QED
  BY <1>3, <1>4, <1>5 DEF x

Estimators ==
  [seen : BOOLEAN, bidVolume : Nat, askVolume : Nat, flow : EMAs,
   trades : Seq(Trades), lastPrice : Nat, volatility : EMAs]

LEMMA UpdatedType ==
  ASSUME NEW ema \in EMAs, NEW alpha \in 1 .. 100, NEW x \in Int
  PROVE  Updated(ema, alpha, x) \in EMAs
<1> DEFINE y == alpha * x + (100 - alpha) * ema.value
<1>1. y \in Int
  BY DEF EMAs
<1> HIDE DEF y
<1>2. Truncated(y, 100) \in Int
  BY <1>1, TruncatedSign
<1> QED
  BY <1>2 DEF Updated, EMAs, y

LEMMA EstimatorTypes ==
  ASSUME NEW e \in Estimators
  PROVE  /\ \A m : m.bidVolume \in Nat /\ m.askVolume \in Nat => UpdateMarketState(e, m) \in Estimators
         /\ \A trade \in Trades : AddTrade(e, trade) \in Estimators
<1>1. ASSUME NEW m, m.bidVolume \in Nat, m.askVolume \in Nat
      PROVE  UpdateMarketState(e, m) \in Estimators
  <2> DEFINE change == (m.bidVolume - e.bidVolume) - (m.askVolume - e.askVolume)
             flow == IF e.seen THEN Updated(e.flow, FlowAlpha, Truncated(change * Scale, Coin)) ELSE e.flow
  <2>1. change * Scale \in Int
    BY <1>1, SignalsAssumption DEF Estimators
  <2>2. Truncated(change * Scale, Coin) \in Int
    BY <2>1, SignalsAssumption, TruncatedSign
  <2>3. flow \in EMAs
    BY <2>2, SignalsAssumption, UpdatedType DEF Estimators
  <2>4. UpdateMarketState(e, m) =
          [e EXCEPT !.seen = TRUE, !.bidVolume = m.bidVolume, !.askVolume = m.askVolume, !.flow = flow]
    BY DEF UpdateMarketState, Estimators
  <2> HIDE DEF flow
  <2> QED
    BY <1>1, <2>3, <2>4 DEF Estimators
<1>2. ASSUME NEW trade \in Trades PROVE AddTrade(e, trade) \in Estimators
  <2> DEFINE trades == Recent(Append(e.trades, trade), trade.time)
             x == Magnitude(trade.price - e.lastPrice) * 10000
             vol == IF e.lastPrice > 0 THEN Updated(e.volatility, ReturnAlpha, Truncated(x, e.lastPrice))
                                       ELSE e.volatility
  <2>1. trades \in Seq(Trades)
    BY RecentKeeps DEF Estimators
  <2>2. trade.price \in Nat /\ e.lastPrice \in Nat
    BY EngineAssumption DEF Trades, Estimators
  <2>3. x \in Int
    BY <2>2 DEF Magnitude
  <2> HIDE DEF x
  <2>4. e.lastPrice > 0 => Truncated(x, e.lastPrice) \in Int
    BY <2>2, <2>3, TruncatedSign
  <2>5. vol \in EMAs
    BY <2>4, SignalsAssumption, UpdatedType DEF Estimators
  <2>6. AddTrade(e, trade) = [e EXCEPT !.trades = trades, !.lastPrice = trade.price, !.volatility = vol]
    BY DEF AddTrade, Estimators, x
  <2> HIDE DEF trades, vol
  <2> QED
    BY <2>1, <2>2, <2>5, <2>6 DEF Estimators
<1> QED
  BY <1>1, <1>2


MarketStates ==
  [bid : Nat \ {0}, ask : Nat \ {0}, bidVolume : Nat, askVolume : Nat]

LEMMA MarketIsReal ==
  ASSUME NEW top \in Markets
  PROVE  LET m == MarketState(top) IN m \in MarketStates /\ MidPrice(m) \in Nat \ {0}
<1> DEFINE m == MarketState(top)
<1>1. top \in [bid : Nat, ask : Nat, bidVolume : Nat, askVolume : Nat]
  BY EngineAssumption
<1>2. DefaultPrice \in Nat \ {0}
  BY EngineAssumption
<1>3. m \in MarketStates
  BY <1>1, <1>2 DEF MarketState, MarketStates
<1> HIDE DEF m
<1>4. MidPrice(m) \in Nat \ {0}
  BY <1>3 DEF MidPrice, Truncated, MarketStates
<1> QED
  BY <1>3, <1>4 DEF m

LEMMA DriftIsTyped ==
  ASSUME NEW e \in Estimators, NEW m \in MarketStates, MidPrice(m) \in Nat \ {0}
  PROVE  DriftRate(e, m) \in Int
<1> DEFINE imbalance == OrderbookImbalance(m)
           micro == MicroPrice(m)
           all == m.bidVolume + m.askVolume
<1>1. m.bid \in Nat /\ m.ask \in Nat /\ m.bidVolume \in Nat /\ m.askVolume \in Nat /\ all \in Nat
  BY DEF MarketStates
<1>2. imbalance \in Int
  <2>1. CASE all = 0
    BY <2>1 DEF OrderbookImbalance
  <2>2. CASE all # 0
    <3>1. all \in Nat \ {0} /\ (m.askVolume - m.bidVolume) * Scale \in Int
      BY <1>1, <2>2, SignalsAssumption
    <3>2. imbalance = Truncated((m.askVolume - m.bidVolume) * Scale, all)
      BY <2>2 DEF OrderbookImbalance
    <3> QED BY <3>1, <3>2, TruncatedSign
  <2> QED BY <2>1, <2>2
<1>3. micro \in Int
  <2>1. CASE all = 0
    BY <2>1 DEF MicroPrice
  <2>2. CASE all # 0
    <3>1. all \in Nat \ {0} /\ m.bid * m.askVolume + m.ask * m.bidVolume \in Int
      BY <1>1, <2>2
    <3>2. micro = Truncated(m.bid * m.askVolume + m.ask * m.bidVolume, all)
      BY <2>2 DEF MicroPrice
    <3> QED BY <3>1, <3>2, TruncatedSign
  <2> QED BY <2>1, <2>2
<1> DEFINE signals == e.flow.value + 5 * TradeImbalance(e.trades) + 8 * imbalance
           distance == (micro - MidPrice(m)) * 5000
<1> HIDE DEF imbalance, micro
<1>4. TradeImbalance(e.trades) \in Int /\ e.flow.value \in Int
  BY ImbalanceFacts DEF Estimators, EMAs
<1>5. signals \in Int /\ distance \in Int
  BY <1>2, <1>3, <1>4
<1>6. DriftRate(e, m) = Truncated(signals, Scale) + Truncated(distance, MidPrice(m))
  BY DEF DriftRate, imbalance, micro
<1> HIDE DEF signals, distance
<1>7. Truncated(signals, Scale) \in Int /\ Truncated(distance, MidPrice(m)) \in Int
  BY <1>5, SignalsAssumption, TruncatedSign
<1> QED
  BY <1>6, <1>7

LEMMA RatesAreTyped ==
  ASSUME NEW price \in Int, NEW rate \in Int
  PROVE  ApplyRate(price, rate) \in Int /\ SubtractRate(price, rate) \in Int
<1> DEFINE x == price * rate
<1>1. x \in Int /\ Whole \in Nat \ {0}
  BY DEF Whole
<1> HIDE DEF x
<1>2. Truncated(x, Whole) \in Int
  BY <1>1, TruncatedSign
<1> QED
  BY <1>2 DEF ApplyRate, SubtractRate, x

LEMMA SkewIsTyped ==
  ASSUME NEW q \in Int, NEW drift \in Int
  PROVE  SkewRate(q, drift) \in Int
<1> DEFINE base == q * SkewPerUnit
<1>1. base \in Int
  BY EngineAssumption
<1> HIDE DEF base
<1>2. Truncated(base * 3, 2) \in Int /\ Truncated(base * 7, 10) \in Int
  BY <1>1, TruncatedSign
<1> QED
  BY <1>1, <1>2 DEF SkewRate, base

LEMMA SpreadIsTyped ==
  ASSUME NEW m \in MarketStates, MidPrice(m) \in Nat \ {0}, NEW vol \in Int
  PROVE  BaseSpread(m, vol) \in Int
<1> DEFINE x == (m.ask - m.bid) * Whole
<1>1. x \in Int
  BY DEF MarketStates, Whole
<1> HIDE DEF x
<1>2. Truncated(x, MidPrice(m)) \in Int
  BY <1>1, TruncatedSign
<1>3. SpreadRate(m) \in Int
  BY <1>2 DEF SpreadRate, x
<1> DEFINE y == vol * VolatilityFactor * 10
<1>4. MinSpread \in Int /\ y \in Int
  BY EngineAssumption
<1>5. BaseSpread(m, vol) = Max({MinSpread, y, SpreadRate(m)})
  BY DEF BaseSpread
<1> HIDE DEF y
<1>6. Max({MinSpread, y, SpreadRate(m)}) \in {MinSpread, y, SpreadRate(m)}
  BY <1>3, <1>4, MaxOfThree
<1> QED
  BY <1>3, <1>4, <1>5, <1>6

LEMMA ConfidenceIsTyped ==
  ASSUME NEW e \in Estimators
  PROVE  /\ Confidence(e) \in Nat
         /\ ~SignalsAgree(e.flow.value, TradeImbalance(e.trades)) => Confidence(e) = Scale \div 10
<1> DEFINE x == TradeImbalance(e.trades)
           strength == (Magnitude(e.flow.value) + Magnitude(x)) \div 2
<1>1. x \in Int /\ e.flow.value \in Int
  BY ImbalanceFacts DEF Estimators, EMAs
<1>2. Scale \div 10 \in Nat /\ Scale \in Nat
  BY SignalsAssumption
<1>3. Confidence(e) = IF SignalsAgree(e.flow.value, x)
                      THEN Max({Scale \div 10, Min({strength, Scale})}) ELSE Scale \div 10
  BY DEF Confidence
<1>4. strength \in Nat
  <2> HIDE DEF x
  <2> QED BY <1>1 DEF Magnitude
<1> DEFINE capped == Max({Scale \div 10, Min({strength, Scale})})
<1>5. capped \in Nat
  <2> HIDE DEF strength
  <2>1. Min({strength, Scale}) \in Nat
    BY <1>2, <1>4, MinOfTwo
  <2> DEFINE least == Scale \div 10
             most == Min({strength, Scale})
  <2> HIDE DEF least, most
  <2>2. least \in Nat /\ most \in Nat
    BY <1>2, <2>1 DEF least, most
  <2>3. Max({least, most}) \in {least, most}
    BY <2>2, MaxOfTwo
  <2> QED BY <2>2, <2>3 DEF least, most
<1> HIDE DEF strength, capped
<1>6. Confidence(e) = IF SignalsAgree(e.flow.value, x) THEN capped ELSE Scale \div 10
  BY <1>3 DEF capped
<1> HIDE DEF x
<1>7. Confidence(e) \in Nat
  BY <1>2, <1>5, <1>6
<1> QED
  BY <1>6, <1>7, Zenon DEF x

Quotes ==
  [bid : Int, ask : Int, bidSize : Int, askSize : Int, fair : Int, confidence : Nat]

LEMMA BaseIsTyped ==
  ASSUME NEW e \in Estimators, NEW m \in MarketStates, MidPrice(m) \in Nat \ {0},
         NEW vol \in Int, position \in Int
  PROVE  LET base == BaseQuote(m, e, vol)
         IN  /\ base \in Quotes
             /\ base.confidence = Confidence(e)
             /\ Magnitude(position) <= MaxPosition => base.bidSize \in Nat /\ base.askSize \in Nat
<1> DEFINE drift == DriftRate(e, m)
           fair == ApplyRate(MidPrice(m), drift)
           skew == SkewRate(position, drift)
           tenths == SpreadTenths(Action(position, DriftClass(drift)))
           spread == Truncated(BaseSpread(m, vol) * tenths, 10)
           sizes == Quote(position, DriftClass(drift))
<1>1. drift \in Int
  BY DriftIsTyped
<1>2. fair \in Int
  BY <1>1, RatesAreTyped
<1>3. skew \in Int
  BY <1>1, SkewIsTyped
<1>4. tenths \in {5, 7, 10, 12}
  BY DEF SpreadTenths, Action
<1>5. spread \in Int
  <2> HIDE DEF tenths
  <2>1. BaseSpread(m, vol) * tenths \in Int
    BY <1>4, SpreadIsTyped
  <2> QED BY <2>1, TruncatedSign
<1>6. /\ sizes.bid \in Int /\ sizes.ask \in Int
      /\ Magnitude(position) <= MaxPosition => sizes.bid \in Nat /\ sizes.ask \in Nat
  <2>1. Reduced(position) \in Int /\ \A d : Eager(position, d) \in Nat
    BY SizesAreIntegers
  <2>2. Magnitude(position) <= MaxPosition => Reduced(position) \in Nat
    BY ReducedIsNatural
  <2> QED BY <2>1, <2>2 DEF Quote
<1>7. BaseQuote(m, e, vol) =
        [bid |-> SubtractRate(fair, Truncated(spread - skew, 2)), bidSize |-> sizes.bid,
         ask |-> ApplyRate(fair, Truncated(spread + skew, 2)),    askSize |-> sizes.ask,
         fair |-> fair, confidence |-> Confidence(e)]
  BY Zenon DEF BaseQuote
<1> HIDE DEF fair, skew, spread, sizes
<1>8. Truncated(spread - skew, 2) \in Int /\ Truncated(spread + skew, 2) \in Int
  BY <1>3, <1>5, TruncatedSign
<1>9. /\ SubtractRate(fair, Truncated(spread - skew, 2)) \in Int
      /\ ApplyRate(fair, Truncated(spread + skew, 2)) \in Int
  BY <1>2, <1>8, RatesAreTyped
<1>10. Confidence(e) \in Nat
  BY ConfidenceIsTyped
<1> QED
  BY <1>2, <1>6, <1>7, <1>9, <1>10 DEF Quotes

-----------------------------------------------------------------------------
(* The types. *)

StateIsTyped ==
  /\ est \in Estimators /\ volatility \in EMAs /\ lastMid \in Nat
  /\ position \in -MaxExposure .. MaxExposure /\ killed \in BOOLEAN

LEMMA StartIsTyped == Init => StateIsTyped
<1>1. NewEMA \in EMAs
  BY DEF NewEMA, EMAs
<1>2. NewEstimator \in Estimators
  BY <1>1 DEF NewEstimator, Estimators
<1>3. 0 \in -MaxExposure .. MaxExposure /\ 0 \in Nat
  BY EngineAssumption
<1> QED
  BY <1>1, <1>2, <1>3, Zenon DEF Init, StateIsTyped

LEMMA VolatilityIsTyped ==
  ASSUME StateIsTyped, NEW m, MidPrice(m) \in Nat
  PROVE  UpdatedVolatility(m) \in EMAs
<1> DEFINE x == Magnitude(MidPrice(m) - lastMid) * 10000
<1>1. CASE lastMid = 0
  BY <1>1 DEF UpdatedVolatility, StateIsTyped
<1>2. CASE lastMid # 0
  <2>1. lastMid \in Nat \ {0} /\ x \in Int
    BY <1>2 DEF StateIsTyped, Magnitude
  <2>2. UpdatedVolatility(m) = Updated(volatility, ReturnAlpha, Truncated(x, lastMid))
    BY <1>2 DEF UpdatedVolatility
  <2> HIDE DEF x
  <2>3. Truncated(x, lastMid) \in Int
    BY <2>1, TruncatedSign
  <2> QED
    BY <2>2, <2>3, UpdatedType, SignalsAssumption DEF StateIsTyped
<1> QED
  BY <1>1, <1>2

LEMMA StateStaysTyped ==
  ASSUME StateIsTyped, [Next]_vars
  PROVE  StateIsTyped'
<1>1. ASSUME NEW top \in Markets, NEW n \in {1, Levels}, GenerateQuotes(top, n)
      PROVE  StateIsTyped'
  <2> DEFINE m == MarketState(top)
  <2>1. m.bidVolume \in Nat /\ m.askVolume \in Nat /\ MidPrice(m) \in Nat
    BY MarketIsReal DEF MarketStates
  <2>2. /\ est' = UpdateMarketState(est, m) /\ volatility' = UpdatedVolatility(m)
        /\ lastMid' = MidPrice(m) /\ position' = position /\ killed' = killed
    BY <1>1, Zenon DEF GenerateQuotes
  <2> HIDE DEF m
  <2>3. est' \in Estimators
    BY <2>1, <2>2, EstimatorTypes DEF StateIsTyped
  <2>4. volatility' \in EMAs
    BY <2>1, <2>2, VolatilityIsTyped
  <2> QED
    BY <2>1, <2>2, <2>3, <2>4 DEF StateIsTyped
<1>2. ASSUME NEW trade \in Trades, ReceiveTrade(trade)
      PROVE  StateIsTyped'
  <2>1. est' = AddTrade(est, trade) /\ UNCHANGED <<volatility, lastMid, position, killed>>
    BY <1>2 DEF ReceiveTrade
  <2>2. est' \in Estimators
    BY <2>1, EstimatorTypes DEF StateIsTyped
  <2> QED
    BY <2>1, <2>2 DEF StateIsTyped
<1>3. ASSUME NEW size \in FillSizes, ReceiveFill(size) \/ ReceiveFill(-size)
      PROVE  StateIsTyped'
  BY <1>3, EngineAssumption DEF ReceiveFill, StateIsTyped
<1>4. CASE Kill
  BY <1>4 DEF Kill, StateIsTyped
<1>5. CASE UNCHANGED vars
  BY <1>5 DEF vars, StateIsTyped
<1> QED
  BY <1>1, <1>2, <1>3, <1>4, <1>5 DEF Next

LEMMA LevelIsTyped ==
  ASSUME NEW base \in Quotes, NEW l \in Nat
  PROVE  /\ Level(base, l) \in Quotes
         /\ Level(base, l).bid = SubtractRate(base.bid, Spacing * l)
         /\ Level(base, l).ask = ApplyRate(base.ask, Spacing * l)
         /\ Level(base, l).bidSize = base.bidSize \div (l + 1)
         /\ Level(base, l).askSize = base.askSize \div (l + 1)
         /\ Level(base, l).confidence = base.confidence \div (l + 1)
         /\ Level(base, l).fair = base.fair
<1> DEFINE b == SubtractRate(base.bid, Spacing * l)
           a == ApplyRate(base.ask, Spacing * l)
           bs == base.bidSize \div (l + 1)
           as == base.askSize \div (l + 1)
           c == base.confidence \div (l + 1)
<1>1. Level(base, l) =
        [base EXCEPT !.bid = b, !.ask = a, !.bidSize = bs, !.askSize = as, !.confidence = c]
  BY DEF Level
<1>2. base.bid \in Int /\ base.ask \in Int /\ Spacing * l \in Int
  BY EngineAssumption DEF Quotes
<1>3. b \in Int /\ a \in Int
  BY <1>2, RatesAreTyped
<1>4. bs \in Int /\ as \in Int /\ c \in Nat
  <2> DEFINE d == l + 1
  <2>1. d \in Nat \ {0}
    OBVIOUS
  <2> HIDE DEF d
  <2>2. /\ \A x \in Int : x \div d \in Int
        /\ \A x \in Nat : x \div d \in Nat
    BY <2>1
  <2>3. base.bidSize \in Int /\ base.askSize \in Int /\ base.confidence \in Nat
    BY DEF Quotes
  <2> QED BY <2>2, <2>3 DEF d
<1> HIDE DEF b, a, bs, as, c
<1>5. /\ Level(base, l) \in Quotes
      /\ Level(base, l).bid = b /\ Level(base, l).ask = a
      /\ Level(base, l).bidSize = bs /\ Level(base, l).askSize = as
      /\ Level(base, l).confidence = c /\ Level(base, l).fair = base.fair
  BY <1>1, <1>3, <1>4 DEF Quotes
<1> QED
  BY <1>5 DEF b, a, bs, as, c

LEMMA LevelZero ==
  ASSUME NEW base \in Quotes
  PROVE  /\ Level(base, 0).bid = base.bid /\ Level(base, 0).ask = base.ask
         /\ Level(base, 0).confidence = base.confidence
         /\ Level(base, 0).fair = base.fair
<1>1. \A price \in Int : price * 0 = 0
  OBVIOUS
<1>2. \A price \in Int : ApplyRate(price, 0) = price /\ SubtractRate(price, 0) = price
  BY <1>1 DEF ApplyRate, SubtractRate, Truncated, Whole
<1>3. Spacing * 0 = 0 /\ 0 \in Nat
  BY EngineAssumption
<1>4. base.bid \in Int /\ base.ask \in Int /\ base.confidence \in Nat
  BY DEF Quotes
<1>5. base.confidence \div (0 + 1) = base.confidence
  BY <1>4
<1>6. /\ Level(base, 0).bid = SubtractRate(base.bid, Spacing * 0)
      /\ Level(base, 0).ask = ApplyRate(base.ask, Spacing * 0)
      /\ Level(base, 0).confidence = base.confidence \div (0 + 1)
      /\ Level(base, 0).fair = base.fair
  BY <1>3, LevelIsTyped
<1> QED
  BY <1>2, <1>3, <1>4, <1>5, <1>6

(* What is published is a ladder of accepted levels over a typed quote     *)
(* that has the confidence of what the estimator now knows.                *)
IsChecked(quotes, e) ==
  \E base \in Quotes, mark \in Nat \ {0}, k \in Nat :
    /\ quotes = [i \in 1 .. k |-> Level(base, i - 1)]
    /\ \A l \in Nat : l < k => CheckQuote(Level(base, l), mark)
    /\ k > 0 => base.bidSize \in Nat /\ base.askSize \in Nat
    /\ base.confidence = Confidence(e)

LEMMA PublishedIsTyped ==
  ASSUME StateIsTyped, NEW top \in Markets, NEW n \in {1, Levels},
         GenerateQuotes(top, n), out' # <<>>
  PROVE  IsChecked(out', est')
<1> DEFINE m == MarketState(top)
           e == UpdateMarketState(est, m)
           vol == UpdatedVolatility(m)
           base == BaseQuote(m, e, vol.value)
           mark == MidPrice(m)
<1>1. m \in MarketStates /\ mark \in Nat \ {0}
  BY MarketIsReal
<1>2. m.bidVolume \in Nat /\ m.askVolume \in Nat
  BY <1>1 DEF MarketStates
<1>3. IsLadder(out', base, mark)
  BY PublishedLadder
<1>4. est' = e
  BY Zenon DEF GenerateQuotes
<1> HIDE DEF m
<1>5. e \in Estimators
  BY <1>2, EstimatorTypes DEF StateIsTyped
<1>6. vol.value \in Int /\ position \in Int
  BY <1>1, VolatilityIsTyped, EngineAssumption DEF StateIsTyped, EMAs
<1> HIDE DEF e, vol
<1>7. /\ base \in Quotes /\ base.confidence = Confidence(e)
      /\ Magnitude(position) <= MaxPosition => base.bidSize \in Nat /\ base.askSize \in Nat
  BY <1>1, <1>5, <1>6, BaseIsTyped
<1> HIDE DEF base, mark
<1>8. PICK k \in Nat : /\ out' = [i \in 1 .. k |-> Level(base, i - 1)]
                       /\ \A l \in Nat : l < k => CheckQuote(Level(base, l), mark)
  BY <1>3 DEF IsLadder
<1>9. k > 0 => Magnitude(position) <= MaxPosition
  <2>1. k > 0 => CheckQuote(Level(base, 0), mark)
    BY <1>8
  <2> QED BY <2>1, Zenon DEF CheckQuote, Accepted
<1> QED
  BY <1>1, <1>4, <1>7, <1>8, <1>9 DEF IsChecked

(* An accepted quote lies within 10% of a positive mark.                   *)
LEMMA AcceptedIsReal ==
  ASSUME NEW quote \in Quotes, NEW mark \in Nat, CheckQuote(quote, mark)
  PROVE  /\ quote.bid \in Nat /\ quote.ask \in Nat /\ quote.bid < quote.ask
         /\ quote.bidSize # 0 /\ quote.askSize # 0 /\ quote.confidence >= MinConfidence
<1>1. quote.bid \in Int /\ quote.ask \in Int
  BY DEF Quotes
<1>2. /\ Magnitude(quote.bidSize) # 0 /\ Magnitude(quote.askSize) # 0
      /\ quote.bid < quote.ask /\ quote.confidence >= MinConfidence
      /\ 10 * Magnitude(quote.bid - mark) <= mark /\ 10 * Magnitude(quote.ask - mark) <= mark
  BY SizingAssumption DEF CheckQuote, Accepted
<1>3. quote.bid \in Nat /\ quote.ask \in Nat
  BY <1>1, <1>2 DEF Magnitude
<1> QED
  BY <1>2, <1>3 DEF Magnitude

(* A step publishes nothing or a checked ladder, or it is no step at all.  *)
LEMMA OutputIsChecked ==
  ASSUME StateIsTyped, [Next]_vars
  PROVE  out' = <<>> \/ IsChecked(out', est') \/ UNCHANGED vars
<1>1. CASE out' = <<>>
  BY <1>1
<1>2. ASSUME NEW top \in Markets, NEW n \in {1, Levels}, GenerateQuotes(top, n), out' # <<>>
      PROVE  IsChecked(out', est')
  BY <1>2, PublishedIsTyped
<1> QED
  BY <1>1, <1>2, OnlyWhenDue

Published ==
  [bid : Nat, ask : Nat, bidSize : Nat \ {0}, askSize : Nat \ {0}, fair : Int, confidence : Nat]

LEMMA CheckedIsPublished ==
  ASSUME NEW quotes, NEW e, IsChecked(quotes, e)
  PROVE  quotes \in Seq(Published)
<1>1. PICK base \in Quotes, mark \in Nat \ {0}, k \in Nat :
        /\ quotes = [i \in 1 .. k |-> Level(base, i - 1)]
        /\ \A l \in Nat : l < k => CheckQuote(Level(base, l), mark)
        /\ k > 0 => base.bidSize \in Nat /\ base.askSize \in Nat
  BY DEF IsChecked
<1>2. ASSUME NEW i \in 1 .. k
      PROVE  Level(base, i - 1) \in Published
  <2> DEFINE l == i - 1
             quote == Level(base, l)
  <2>1. l \in Nat /\ l < k /\ k > 0
    OBVIOUS
  <2>2. CheckQuote(quote, mark)
    BY <1>1, <2>1
  <2> HIDE DEF l
  <2>3. quote \in Quotes /\ quote.bidSize = base.bidSize \div (l + 1)
        /\ quote.askSize = base.askSize \div (l + 1)
    BY <2>1, LevelIsTyped
  <2>4. quote.bidSize \in Nat /\ quote.askSize \in Nat
    <3> DEFINE d == l + 1
    <3>1. d \in Nat \ {0}
      BY <2>1
    <3> HIDE DEF d
    <3>2. \A x \in Nat : x \div d \in Nat
      BY <3>1
    <3>3. base.bidSize \in Nat /\ base.askSize \in Nat
      BY <1>1, <2>1
    <3> QED BY <2>3, <3>2, <3>3 DEF d
  <2> HIDE DEF quote
  <2>5. /\ quote.bid \in Nat /\ quote.ask \in Nat
        /\ quote.bidSize # 0 /\ quote.askSize # 0
    BY <2>2, <2>3, AcceptedIsReal
  <2>6. quote \in Published
    BY <2>3, <2>4, <2>5 DEF Quotes, Published
  <2> QED BY <2>6 DEF quote, l
<1> QED
  BY <1>1, <1>2

(* Every value of the engine stays in its range: no published price is     *)
(* negative, and no published size is zero or negative, although the       *)
(* inventory may reduce a side to nothing and turn it beyond the limit.    *)
THEOREM EngineIsTyped == Spec => []TypeOK
<1> DEFINE Inv == StateIsTyped /\ out \in Seq(Published)
<1>1. Init => Inv
  BY StartIsTyped DEF Init
<1>2. Inv /\ [Next]_vars => Inv'
  <2> SUFFICES ASSUME StateIsTyped, out \in Seq(Published), [Next]_vars
               PROVE  StateIsTyped' /\ out' \in Seq(Published)
    BY DEF Published
  <2>1. StateIsTyped'
    BY StateStaysTyped
  <2>2. IsChecked(out', est') => out' \in Seq(Published)
    BY CheckedIsPublished
  <2>3. UNCHANGED vars => out' \in Seq(Published)
    BY DEF vars
  <2>4. out' = <<>> => out' \in Seq(Published)
    OBVIOUS
  <2> QED
    BY <2>1, <2>2, <2>3, <2>4, OutputIsChecked
<1>3. Inv => TypeOK
  BY DEF StateIsTyped, TypeOK, Estimators, Published
<1> QED
  BY <1>1, <1>2, <1>3, PTL DEF Spec

-----------------------------------------------------------------------------
(* Ladders. *)

LEMMA FartherBid ==
  ASSUME NEW price \in Nat, NEW r \in Nat, NEW s \in Nat, r <= s
  PROVE  /\ SubtractRate(price, s) <= SubtractRate(price, r)
         /\ ApplyRate(price, r) <= ApplyRate(price, s)
<1> DEFINE x == price * r
           y == price * s
<1>1. x \in Int /\ y \in Int /\ x <= y /\ Whole \in Nat \ {0}
  <2>1. r * price <= s * price
    BY ProductGrows
  <2> QED BY <2>1 DEF Whole
<1> HIDE DEF x, y
<1>2. Truncated(x, Whole) <= Truncated(y, Whole)
  BY <1>1, TruncatedGrows
<1>3. Truncated(x, Whole) \in Int /\ Truncated(y, Whole) \in Int
  BY <1>1, TruncatedSign
<1> QED
  BY <1>2, <1>3 DEF ApplyRate, SubtractRate, x, y

LEMMA CheckedNests ==
  ASSUME NEW quotes, NEW e, IsChecked(quotes, e), NEW i \in DOMAIN quotes, NEW j \in DOMAIN quotes, i < j
  PROVE  /\ quotes[j].bid <= quotes[i].bid /\ quotes[i].bid < quotes[i].ask
         /\ quotes[i].ask <= quotes[j].ask
         /\ quotes[j].bidSize <= quotes[i].bidSize /\ quotes[j].askSize <= quotes[i].askSize
<1>1. PICK base \in Quotes, mark \in Nat \ {0}, k \in Nat :
        /\ quotes = [n \in 1 .. k |-> Level(base, n - 1)]
        /\ \A l \in Nat : l < k => CheckQuote(Level(base, l), mark)
        /\ k > 0 => base.bidSize \in Nat /\ base.askSize \in Nat
  BY DEF IsChecked
<1>2. i \in 1 .. k /\ j \in 1 .. k
  BY <1>1
<1> DEFINE g == i - 1
           h == j - 1
<1>3. g \in Nat /\ h \in Nat /\ g < k /\ h < k /\ g <= h /\ k > 0 /\ 0 < k
  BY <1>2
<1>4. quotes[i] = Level(base, g) /\ quotes[j] = Level(base, h)
  BY <1>1, <1>2
<1> HIDE DEF g, h
<1>5. base.bid \in Nat /\ base.ask \in Nat
  <2>1. CheckQuote(Level(base, 0), mark) /\ 0 \in Nat
    BY <1>1, <1>3
  <2>2. Level(base, 0).bid \in Nat /\ Level(base, 0).ask \in Nat
    BY <2>1, LevelIsTyped, AcceptedIsReal
  <2> QED BY <2>2, LevelZero
<1>6. Spacing * g \in Nat /\ Spacing * h \in Nat /\ Spacing * g <= Spacing * h
  <2>1. g * Spacing <= h * Spacing
    BY <1>3, EngineAssumption, ProductGrows
  <2> QED BY <1>3, <2>1, EngineAssumption
<1>7. /\ SubtractRate(base.bid, Spacing * h) <= SubtractRate(base.bid, Spacing * g)
      /\ ApplyRate(base.ask, Spacing * g) <= ApplyRate(base.ask, Spacing * h)
  BY <1>5, <1>6, FartherBid
<1>8. /\ base.bidSize \div (h + 1) <= base.bidSize \div (g + 1)
      /\ base.askSize \div (h + 1) <= base.askSize \div (g + 1)
  <2>1. base.bidSize \in Nat /\ base.askSize \in Nat
    BY <1>1, <1>3
  <2>2. g + 1 \in Nat \ {0} /\ h + 1 \in Nat \ {0} /\ g + 1 <= h + 1
    BY <1>3
  <2> QED BY <2>1, <2>2, QuotientShrinks
<1>9. Level(base, g).bid < Level(base, g).ask
  <2>1. CheckQuote(Level(base, g), mark)
    BY <1>1, <1>3
  <2> QED BY <1>3, <2>1, LevelIsTyped, AcceptedIsReal
<1>10. \A l \in {g, h} :
         /\ Level(base, l).bid = SubtractRate(base.bid, Spacing * l)
         /\ Level(base, l).ask = ApplyRate(base.ask, Spacing * l)
         /\ Level(base, l).bidSize = base.bidSize \div (l + 1)
         /\ Level(base, l).askSize = base.askSize \div (l + 1)
  BY <1>3, LevelIsTyped
<1> DEFINE p == Level(base, g)
           q == Level(base, h)
<1>11. /\ q.bid <= p.bid /\ p.ask <= q.ask
       /\ q.bidSize <= p.bidSize /\ q.askSize <= p.askSize
  BY <1>7, <1>8, <1>10
<1> QED
  BY <1>4, <1>9, <1>11

(* generate_ladder_quotes widens every level by whole steps of the spacing *)
(* and checks it on its own: the ladder nests, and no level is crossed.    *)
THEOREM LaddersNest == Spec => []LadderNests
<1> DEFINE Inv == StateIsTyped /\ LadderNests
<1>1. Init => Inv
  BY StartIsTyped DEF Init, LadderNests
<1>2. Inv /\ [Next]_vars => Inv'
  <2> SUFFICES ASSUME StateIsTyped, LadderNests, [Next]_vars
               PROVE  StateIsTyped' /\ LadderNests'
    OBVIOUS
  <2>1. StateIsTyped'
    BY StateStaysTyped
  <2>2. out' = <<>> => LadderNests'
    BY DEF LadderNests
  <2>3. IsChecked(out', est') => LadderNests'
    BY CheckedNests DEF LadderNests
  <2>4. UNCHANGED vars => LadderNests'
    BY DEF vars, LadderNests
  <2> QED
    BY <2>1, <2>2, <2>3, <2>4, OutputIsChecked
<1> QED
  BY <1>1, <1>2, PTL DEF Spec

(* A ladder over sizes of which as many as it has levels fit: each level's *)
(* is a part of the first.                                                 *)
LEMMA LevelsFit ==
  ASSUME NEW base \in Quotes, NEW k \in Nat, base.bidSize \in Nat, base.askSize \in Nat,
         NEW quotes, quotes = [i \in 1 .. k |-> Level(base, i - 1)]
  PROVE  /\ Len(quotes) = k
         /\ LET bids == Total([i \in 1 .. k |-> quotes[i].bidSize])
                asks == Total([i \in 1 .. k |-> quotes[i].askSize])
            IN  /\ bids \in Int /\ bids <= k * base.bidSize
                /\ asks \in Int /\ asks <= k * base.askSize
<1> DEFINE bid == [i \in 1 .. k |-> quotes[i].bidSize]
           ask == [i \in 1 .. k |-> quotes[i].askSize]
<1>1. ASSUME NEW i \in 1 .. k
      PROVE  /\ quotes[i].bidSize \in Int /\ quotes[i].bidSize <= base.bidSize
             /\ quotes[i].askSize \in Int /\ quotes[i].askSize <= base.askSize
  <2> DEFINE l == i - 1
             d == l + 1
  <2>1. l \in Nat /\ d \in Nat \ {0} /\ 1 \in Nat \ {0} /\ 1 <= d
    OBVIOUS
  <2>2. quotes[i] = Level(base, l)
    OBVIOUS
  <2>3. Level(base, l).bidSize = base.bidSize \div d /\ Level(base, l).askSize = base.askSize \div d
    BY <2>1, LevelIsTyped
  <2> HIDE DEF d
  <2>4. base.bidSize \div d <= base.bidSize \div 1 /\ base.askSize \div d <= base.askSize \div 1
    BY <2>1, QuotientShrinks
  <2>5. \A x \in Nat : x \div 1 = x /\ x \div d \in Int
    BY <2>1
  <2> QED BY <2>2, <2>3, <2>4, <2>5
<1>2. bid \in [1 .. k -> Int] /\ ask \in [1 .. k -> Int]
      /\ \A i \in 1 .. k : bid[i] <= base.bidSize /\ ask[i] <= base.askSize
  BY <1>1
<1>3. Len(quotes) = k
  OBVIOUS
<1> HIDE DEF bid, ask
<1>4. ASSUME NEW t \in [1 .. k -> Int], NEW s \in Nat, \A i \in 1 .. k : t[i] <= s
      PROVE  Total(t) \in Int /\ Total(t) <= k * s
  <2>1. s \in Int
    OBVIOUS
  <2> QED BY <1>4, <2>1, TotalAtMost
<1>5. Total(bid) \in Int /\ Total(bid) <= k * base.bidSize
  BY <1>2, <1>4, Zenon
<1>6. Total(ask) \in Int /\ Total(ask) <= k * base.askSize
  BY <1>2, <1>4, Zenon
<1> QED BY <1>3, <1>5, <1>6 DEF bid, ask

LEMMA PublishedFits ==
  ASSUME StateIsTyped, NEW top \in Markets, NEW n \in {1, Levels},
         GenerateQuotes(top, n), out' # <<>>
  PROVE  LadderFitsLimit'
<1> DEFINE m == MarketState(top)
           e == UpdateMarketState(est, m)
           vol == UpdatedVolatility(m)
           base == BaseQuote(m, e, vol.value)
           mark == MidPrice(m)
           drift == DriftClass(DriftRate(e, m))
<1>1. m \in MarketStates /\ mark \in Nat \ {0}
  BY MarketIsReal
<1>2. m.bidVolume \in Nat /\ m.askVolume \in Nat
  BY <1>1 DEF MarketStates
<1>3. IsLadder(out', base, mark)
  BY PublishedLadder
<1>4. position' = position
  BY Zenon DEF GenerateQuotes
<1>5. base.bidSize = Quote(position, drift).bid /\ base.askSize = Quote(position, drift).ask
  BY Zenon DEF BaseQuote
<1> HIDE DEF m
<1>6. e \in Estimators
  BY <1>2, EstimatorTypes DEF StateIsTyped
<1>7. vol.value \in Int /\ position \in Int
  BY <1>1, VolatilityIsTyped, EngineAssumption DEF StateIsTyped, EMAs
<1> HIDE DEF e, vol, drift
<1>8. /\ base \in Quotes
      /\ Magnitude(position) <= MaxPosition => base.bidSize \in Nat /\ base.askSize \in Nat
  BY <1>1, <1>6, <1>7, BaseIsTyped
<1> HIDE DEF base, mark
<1>9. PICK k \in Nat : /\ out' = [i \in 1 .. k |-> Level(base, i - 1)]
                       /\ \A l \in Nat : l < k => CheckQuote(Level(base, l), mark)
  BY <1>3 DEF IsLadder
<1>10. Magnitude(position) <= MaxPosition
  <2>1. k = 0 => out' = <<>>
    BY <1>9
  <2>2. CheckQuote(Level(base, 0), mark)
    BY <1>9, <2>1
  <2> QED BY <2>2, Zenon DEF CheckQuote, Accepted
<1> DEFINE bids == Total([i \in 1 .. k |-> out'[i].bidSize])
           asks == Total([i \in 1 .. k |-> out'[i].askSize])
<1>11. /\ Len(out') = k
       /\ bids \in Int /\ bids <= k * base.bidSize
       /\ asks \in Int /\ asks <= k * base.askSize
  BY <1>8, <1>9, <1>10, LevelsFit
<1> HIDE DEF bids, asks
<1>12. ASSUME 5 * k * BaseSize <= 2 * MaxPosition
       PROVE  position + bids <= MaxPosition /\ position - asks >= -MaxPosition
  <2> DEFINE b == k * base.bidSize
             a == k * base.askSize
  <2>1. position + b <= MaxPosition /\ position - a >= -MaxPosition
    BY <1>5, <1>7, <1>10, <1>12, QuotesFit
  <2>2. b \in Int /\ a \in Int
    BY <1>8, <1>10
  <2> HIDE DEF a, b
  <2>3. bids <= b /\ asks <= a
    BY <1>11 DEF a, b
  <2> QED BY <1>7, <1>11, <2>1, <2>2, <2>3, SizingAssumption
<1> QED BY <1>4, <1>11, <1>12 DEF LadderFitsLimit, bids, asks

(* Each level of a ladder is checked on its own; if the base sizes of its  *)
(* levels come to no more than 0.4 of the position limit, all of them      *)
(* filled on one side still do not pass it, for any limits, market, drift  *)
(* and number of levels.                                                   *)
THEOREM LaddersFit == Spec => []LadderFitsLimit
<1> DEFINE Inv == StateIsTyped /\ LadderFitsLimit
<1>1. Init => Inv
  BY StartIsTyped DEF Init, LadderFitsLimit
<1>2. Inv /\ [Next]_vars => Inv'
  <2> SUFFICES ASSUME StateIsTyped, LadderFitsLimit, [Next]_vars
               PROVE  StateIsTyped' /\ LadderFitsLimit'
    OBVIOUS
  <2>1. StateIsTyped'
    BY StateStaysTyped
  <2>2. out' = <<>> => LadderFitsLimit'
    BY DEF LadderFitsLimit
  <2>3. ASSUME NEW top \in Markets, NEW n \in {1, Levels}, GenerateQuotes(top, n), out' # <<>>
        PROVE  LadderFitsLimit'
    BY <2>3, PublishedFits
  <2>4. UNCHANGED vars => LadderFitsLimit'
    BY DEF vars, LadderFitsLimit
  <2> QED
    BY <2>1, <2>2, <2>3, <2>4, OnlyWhenDue
<1> QED
  BY <1>1, <1>2, PTL DEF Spec

-----------------------------------------------------------------------------
(* Confidence. *)

(* A flow and an imbalance that agree have a direction, and the imbalance  *)
(* has it from an aggressive trade. *)
Supports(e) ==
  \E side \in {"buy", "sell"} :
    /\ \E i \in DOMAIN e.trades : e.trades[i].aggressor /\ e.trades[i].side = side
    /\ IF side = "buy" THEN e.flow.value > 0 ELSE e.flow.value < 0

LEMMA AgreementIsSupported ==
  ASSUME NEW e \in Estimators, SignalsAgree(e.flow.value, TradeImbalance(e.trades))
  PROVE  Supports(e)
<1> DEFINE x == TradeImbalance(e.trades)
           Aggressive(side) == \E i \in DOMAIN e.trades : e.trades[i].aggressor /\ e.trades[i].side = side
<1>1. x \in Int /\ (x > 0 => Aggressive("buy")) /\ (x < 0 => Aggressive("sell"))
  BY ImbalanceFacts DEF Estimators
<1>2. e.flow.value \in Int
  BY DEF Estimators, EMAs
<1> HIDE DEF x, Aggressive
<1>3. (e.flow.value > 0 /\ x > 0) \/ (e.flow.value < 0 /\ x < 0)
  <2>1. SignalsAgree(e.flow.value, x)
    BY DEF x
  <2> QED BY <1>1, <1>2, <2>1, SignalsAssumption DEF SignalsAgree
<1>4. (e.flow.value > 0 /\ Aggressive("buy")) \/ (e.flow.value < 0 /\ Aggressive("sell"))
  BY <1>1, <1>3
<1> QED
  BY <1>4 DEF Supports, Aggressive

LEMMA CheckedIsSupported ==
  ASSUME NEW quotes, NEW e \in Estimators, IsChecked(quotes, e), quotes # <<>>,
         10 * MinConfidence > Scale
  PROVE  Supports(e)
<1>1. PICK base \in Quotes, mark \in Nat \ {0}, k \in Nat :
        /\ quotes = [i \in 1 .. k |-> Level(base, i - 1)]
        /\ \A l \in Nat : l < k => CheckQuote(Level(base, l), mark)
        /\ base.confidence = Confidence(e)
  BY DEF IsChecked
<1>2. 0 < k /\ 0 \in Nat
  <2>1. k = 0 => quotes = <<>>
    BY <1>1
  <2> QED BY <2>1
<1>3. Level(base, 0).confidence >= MinConfidence
  BY <1>1, <1>2, LevelIsTyped, AcceptedIsReal
<1>4. Confidence(e) >= MinConfidence
  BY <1>1, <1>3, LevelZero
<1>5. Confidence(e) # Scale \div 10
  BY <1>4, SignalsAssumption, EngineAssumption
<1> QED
  BY <1>5, ConfidenceIsTyped, AgreementIsSupported

(* The code at variance with its comments.  mm_strategy.rs:59 means to     *)
(* "work without trade data and rely on orderbook imbalance".  In fact,    *)
(* with a confidence of more than 0.1 required, nothing is quoted unless   *)
(* aggressive trades of the window and the order flow point the same way:  *)
(* the order book alone never suffices, however clear it is.               *)
QuotesNeedTrades ==
  out # <<>> /\ 10 * MinConfidence > Scale =>
    \E side \in {"buy", "sell"} :
      /\ \E i \in DOMAIN est.trades : est.trades[i].aggressor /\ est.trades[i].side = side
      /\ IF side = "buy" THEN est.flow.value > 0 ELSE est.flow.value < 0

(* The confidence is 0.1 unless the order flow and the trades point the    *)
(* same way, and only an aggressive trade gives the trades a direction: if *)
(* the risk manager asks for more than 0.1, no state of the order book     *)
(* alone ever leads to a quote.                                            *)
THEOREM QuotesRestOnTrades == Spec => []QuotesNeedTrades
<1> DEFINE Inv == StateIsTyped /\ QuotesNeedTrades
<1>1. Init => Inv
  BY StartIsTyped DEF Init, QuotesNeedTrades
<1>2. Inv /\ [Next]_vars => Inv'
  <2> SUFFICES ASSUME StateIsTyped, QuotesNeedTrades, [Next]_vars
               PROVE  StateIsTyped' /\ QuotesNeedTrades'
    OBVIOUS
  <2>1. StateIsTyped' /\ est' \in Estimators
    BY StateStaysTyped DEF StateIsTyped
  <2>2. out' = <<>> => QuotesNeedTrades'
    BY DEF QuotesNeedTrades
  <2>3. IsChecked(out', est') => QuotesNeedTrades'
    BY <2>1, CheckedIsSupported DEF QuotesNeedTrades, Supports
  <2>4. UNCHANGED vars => QuotesNeedTrades'
    BY DEF vars, QuotesNeedTrades
  <2> QED
    BY <2>1, <2>2, <2>3, <2>4, OutputIsChecked
<1> QED
  BY <1>1, <1>2, PTL DEF Spec

(* mm_strategy.rs:58-59: trades are not yet collected for the strategy,    *)
(* which should rely on the order book instead.  Whatever the order book   *)
(* does, it then publishes nothing at all, if the risk manager asks for    *)
(* more than the lowest confidence.                                        *)
THEOREM SilentWithoutTrades ==
  ASSUME TradesArrive = FALSE, 10 * MinConfidence > Scale
  PROVE  Spec => [](out = <<>>)
<1> DEFINE NoTrades == est \in Estimators /\ est.trades = <<>>
<1>1. Init => NoTrades
  BY StartIsTyped DEF Init, StateIsTyped, NewEstimator
<1>2. NoTrades /\ [Next]_vars => NoTrades'
  <2> SUFFICES ASSUME NoTrades, [Next]_vars PROVE NoTrades'
    OBVIOUS
  <2>1. ASSUME NEW top \in Markets, NEW n \in {1, Levels}, GenerateQuotes(top, n)
        PROVE  NoTrades'
    <3> DEFINE m == MarketState(top)
    <3>1. est' = UpdateMarketState(est, m)
      BY <2>1, Zenon DEF GenerateQuotes
    <3>2. m.bidVolume \in Nat /\ m.askVolume \in Nat
      BY MarketIsReal DEF MarketStates
    <3> HIDE DEF m
    <3>3. est' \in Estimators
      BY <3>1, <3>2, EstimatorTypes
    <3>4. est'.trades = est.trades
      BY <3>1 DEF UpdateMarketState, Estimators
    <3> QED BY <3>3, <3>4
  <2>2. ASSUME NEW trade \in Trades, ReceiveTrade(trade) PROVE FALSE
    BY <2>2 DEF ReceiveTrade
  <2>3. CASE est' = est
    BY <2>3
  <2> QED
    BY <2>1, <2>2, <2>3 DEF Next, ReceiveFill, Kill, vars
<1>3. NoTrades /\ QuotesNeedTrades => out = <<>>
  BY DEF QuotesNeedTrades
<1> QED
  BY <1>1, <1>2, <1>3, QuotesRestOnTrades, PTL DEF Spec

-----------------------------------------------------------------------------
(* Half a book.  With volumes of at most 10,000 coins the order flow and   *)
(* with it the drift are bounded: the fair value keeps 0.74 of the middle, *)
(* and the spread of a book whose default price is far takes a third of it.*)
Deepest == 10000 * Coin
FlowBound == 20000 * Scale

VolumesAreBounded == \A m \in Markets : m.bidVolume <= Deepest /\ m.askVolume <= Deepest

FlowIsBounded ==
  /\ est.bidVolume <= Deepest /\ est.askVolume <= Deepest
  /\ est.flow.value \in -FlowBound .. FlowBound

LEMMA FlowStaysBounded ==
  ASSUME VolumesAreBounded, StateIsTyped, FlowIsBounded, NEW top \in Markets
  PROVE  LET e == UpdateMarketState(est, MarketState(top))
         IN  /\ e.bidVolume <= Deepest /\ e.askVolume <= Deepest
             /\ e.flow.value \in -FlowBound .. FlowBound
<1> DEFINE m == MarketState(top)
           e == UpdateMarketState(est, m)
           change == (m.bidVolume - est.bidVolume) - (m.askVolume - est.askVolume)
           x == Truncated(change * Scale, Coin)
           bound == 2 * Deepest
<1>1. Coin \in Nat \ {0} /\ Scale \in Nat /\ FlowAlpha \in 1 .. 100
  BY SignalsAssumption
<1>2. Deepest \in Nat /\ FlowBound \in Nat /\ bound * Scale = Coin * FlowBound
      /\ (-bound) * Scale = Coin * (-FlowBound)
  BY <1>1 DEF Deepest, FlowBound
<1>3. m.bidVolume = top.bidVolume /\ m.askVolume = top.askVolume
      /\ top.bidVolume \in Nat /\ top.askVolume \in Nat
  BY EngineAssumption DEF MarketState
<1>4. top.bidVolume <= Deepest /\ top.askVolume <= Deepest
  BY DEF VolumesAreBounded
<1>5. /\ est.bidVolume \in 0 .. Deepest /\ est.askVolume \in 0 .. Deepest
      /\ est.flow \in EMAs /\ est.flow.value \in -FlowBound .. FlowBound
  BY <1>2 DEF StateIsTyped, Estimators, FlowIsBounded
<1>6. e = [est EXCEPT !.seen = TRUE, !.bidVolume = m.bidVolume, !.askVolume = m.askVolume,
                      !.flow = IF est.seen THEN Updated(@, FlowAlpha, x) ELSE @]
  BY DEF UpdateMarketState
<1> HIDE DEF m, e, Deepest, FlowBound
<1>7. x \in -FlowBound .. FlowBound
  <2>1. change \in Int /\ change <= bound /\ -bound <= change /\ bound \in Int
    BY <1>2, <1>3, <1>4, <1>5
  <2> HIDE DEF change, bound
  <2>2. change * Scale <= bound * Scale /\ (-bound) * Scale <= change * Scale
        /\ change * Scale \in Int
    BY <1>1, <2>1, ProductGrows
  <2> DEFINE y == change * Scale
  <2>3. y \in Int /\ y <= Coin * FlowBound /\ Coin * (-FlowBound) <= y
    BY <1>2, <2>2
  <2> HIDE DEF y
  <2>4. Truncated(y, Coin) \in -FlowBound .. FlowBound
    BY <1>1, <1>2, <2>3, TruncatedFits
  <2> QED BY <2>4 DEF y
<1> HIDE DEF x
<1>8. Updated(est.flow, FlowAlpha, x).value \in -FlowBound .. FlowBound
  BY <1>1, <1>2, <1>5, <1>7, AverageWithin DEF Updated
<1>9. /\ e.bidVolume = m.bidVolume /\ e.askVolume = m.askVolume
      /\ e.flow = IF est.seen THEN Updated(est.flow, FlowAlpha, x) ELSE est.flow
  BY <1>6 DEF StateIsTyped, Estimators
<1> QED
  BY <1>3, <1>4, <1>5, <1>8, <1>9 DEF m, e

LEMMA ImbalancesWithin ==
  ASSUME NEW trades \in Seq(Trades), NEW m \in MarketStates
  PROVE  TradeImbalance(trades) \in -Scale .. Scale /\ OrderbookImbalance(m) \in -Scale .. Scale
<1>0. Scale \in Nat
  BY SignalsAssumption
<1>1. ASSUME NEW a \in Nat, NEW b \in Nat
      PROVE  (IF a + b = 0 THEN 0 ELSE Truncated((a - b) * Scale, a + b)) \in -Scale .. Scale
  <2>1. CASE a + b = 0
    BY <1>0, <2>1
  <2>2. CASE a + b # 0
    <3>1. a + b \in Nat \ {0} /\ a - b \in -(a + b) .. a + b
      BY <2>2
    <3>2. Truncated((a - b) * Scale, a + b) \in -Scale .. Scale
      BY <1>0, <3>1, FractionWithin
    <3> QED BY <2>2, <3>2
  <2> QED BY <2>1, <2>2
<1>2. Volume(trades, "buy") \in Nat /\ Volume(trades, "sell") \in Nat
  BY VolumeFacts
<1>3. TradeImbalance(trades) \in -Scale .. Scale
  BY <1>1, <1>2 DEF TradeImbalance
<1>4. m.askVolume \in Nat /\ m.bidVolume \in Nat
      /\ m.askVolume + m.bidVolume = m.bidVolume + m.askVolume
  BY DEF MarketStates
<1>5. OrderbookImbalance(m) \in -Scale .. Scale
  BY <1>1, <1>4 DEF OrderbookImbalance
<1> QED BY <1>3, <1>5

(* The micro-price is never farther from the middle than the middle itself.*)
LEMMA MicroPriceWithin ==
  ASSUME NEW m \in MarketStates
  PROVE  LET mid == MidPrice(m) IN
         mid \in Nat /\ MicroPrice(m) \in Int /\ MicroPrice(m) - mid \in -mid .. mid + 1
<1> DEFINE all == m.bidVolume + m.askVolume
           both == m.bid + m.ask
           mid == MidPrice(m)
           micro == MicroPrice(m)
<1>1. /\ m.bid \in Nat /\ m.ask \in Nat /\ m.bidVolume \in Nat /\ m.askVolume \in Nat
      /\ all \in Nat /\ both \in Nat
  BY DEF MarketStates
<1>2. mid \in Nat /\ both <= 2 * mid + 1 /\ mid <= both
  BY <1>1 DEF MidPrice, Truncated
<1>3. micro \in 0 .. both
  <2>1. CASE all = 0
    BY <1>1, <1>2, <2>1 DEF MicroPrice
  <2>2. CASE all # 0
    <3> DEFINE x == m.bid * m.askVolume + m.ask * m.bidVolume
    <3>1. micro = Truncated(x, all)
      BY <2>2 DEF MicroPrice
    <3>2. /\ m.bid * m.askVolume <= both * m.askVolume
          /\ m.ask * m.bidVolume <= both * m.bidVolume
      BY <1>1, ProductGrows
    <3>3. both * m.askVolume + both * m.bidVolume = all * both
      BY <1>1
    <3>4. m.bid * m.askVolume \in Nat /\ m.ask * m.bidVolume \in Nat
      BY <1>1
    <3>5. x \in Int /\ x <= all * both /\ all * 0 <= x
      <4> HIDE DEF both
      <4> QED BY <1>1, <3>2, <3>3, <3>4
    <3> HIDE DEF x, all, both
    <3>6. Truncated(x, all) \in Int /\ Truncated(x, all) <= both /\ 0 <= Truncated(x, all)
      BY <1>1, <2>2, <3>5, TruncatedFits
    <3> QED BY <1>1, <3>1, <3>6
  <2> QED BY <2>1, <2>2
<1> HIDE DEF all, both, mid, micro
<1>4. micro \in Int /\ micro - mid \in -mid .. mid + 1
  BY <1>1, <1>2, <1>3
<1> QED BY <1>2, <1>4 DEF mid, micro

(* What the signals, the micro-price and both can make of the drift.       *)
MostSignal == 20013
MostTilt   == 5100
MostDrift  == 26000

LEMMA DriftLimits ==
  /\ MostSignal \in Nat /\ MostTilt \in Nat /\ MostDrift \in Nat
  /\ MostSignal + MostTilt <= MostDrift
BY DEF MostSignal, MostTilt, MostDrift

LEMMA DriftAddsUp ==
  ASSUME NEW x \in -MostSignal .. MostSignal, NEW y \in -MostTilt .. MostTilt
  PROVE  x + y \in -MostDrift .. MostDrift
BY DriftLimits

LEMMA DriftWithin ==
  ASSUME NEW e \in Estimators, e.flow.value \in -FlowBound .. FlowBound,
         NEW m \in MarketStates, MidPrice(m) >= 50
  PROVE  DriftRate(e, m) \in -MostDrift .. MostDrift
<1> DEFINE trading == TradeImbalance(e.trades)
           resting == OrderbookImbalance(m)
           signals == e.flow.value + 5 * trading + 8 * resting
           mid == MidPrice(m)
           off == MicroPrice(m) - mid
           distance == off * 5000
<1>0. Scale \in Nat \ {0}
  BY SignalsAssumption
<1>1. trading \in -Scale .. Scale /\ resting \in -Scale .. Scale
  BY ImbalancesWithin DEF Estimators
<1>2. mid \in Nat \ {0} /\ off \in -mid .. mid + 1 /\ mid >= 50
  BY MicroPriceWithin
<1>3. DriftRate(e, m) = Truncated(signals, Scale) + Truncated(distance, mid)
  BY DEF DriftRate
<1> HIDE DEF trading, resting, mid, off
<1> DEFINE pressure == Truncated(signals, Scale)
           tilt == Truncated(distance, mid)
<1>4. pressure \in -MostSignal .. MostSignal
  <2>1. FlowBound = 20000 * Scale /\ e.flow.value \in Int
    BY <1>0 DEF FlowBound
  <2>2. signals \in Int /\ signals <= Scale * 20013 /\ -(Scale * 20013) <= signals
    BY <1>0, <1>1, <2>1
  <2> HIDE DEF signals
  <2>3. signals <= Scale * MostSignal /\ -(Scale * MostSignal) <= signals
    BY <2>2 DEF MostSignal
  <2>4. signals \in Int /\ MostSignal \in Nat
    BY <2>2, DriftLimits
  <2> QED BY <1>0, <2>3, <2>4, TruncatedSpan, Zenon
<1>5. tilt \in -MostTilt .. MostTilt
  <2>1. distance \in Int /\ distance <= mid * 5100 /\ -(mid * 5100) <= distance
    BY <1>2
  <2> HIDE DEF distance
  <2>2. distance <= mid * MostTilt /\ -(mid * MostTilt) <= distance
    BY <2>1 DEF MostTilt
  <2>3. distance \in Int /\ MostTilt \in Nat /\ mid \in Nat \ {0}
    BY <1>2, <2>1, DriftLimits
  <2> QED BY <2>2, <2>3, TruncatedSpan, Zenon
<1> HIDE DEF signals, distance, pressure, tilt
<1>6. pressure + tilt \in -MostDrift .. MostDrift
  BY <1>4, <1>5, DriftAddsUp, Zenon
<1>7. DriftRate(e, m) = pressure + tilt
  BY <1>3, Zenon DEF pressure, tilt
<1> QED BY <1>6, <1>7, Zenon

(* A drift of that size leaves the fair value 0.74 of the middle.          *)
LEMMA FairLeft ==
  ASSUME NEW mid \in Nat, NEW x \in Int, NEW moved \in Int, (-MostDrift) * mid <= x,
         x <= 0 => x <= Whole * moved, x >= 0 => moved >= 0
  PROVE  mid + moved \in Nat /\ 37 * mid <= 50 * (mid + moved)
BY DEF MostDrift, Whole

LEMMA RateOfAll == -MostDrift \in Int /\ Whole \in Nat \ {0}
BY DEF MostDrift, Whole

LEMMA FairStaysUp ==
  ASSUME NEW mid \in Nat, NEW drift \in Int, -MostDrift <= drift
  PROVE  ApplyRate(mid, drift) \in Nat /\ 37 * mid <= 50 * ApplyRate(mid, drift)
<1> DEFINE x == drift * mid
           moved == Truncated(x, Whole)
<1>1. x \in Int /\ mid * drift = x
  OBVIOUS
<1>2. (-MostDrift) * mid <= x
  BY RateOfAll, ProductGrows, Zenon
<1> HIDE DEF x
<1>3. moved \in Int /\ (x <= 0 => x <= Whole * moved) /\ (x >= 0 => moved >= 0)
  BY <1>1, RateOfAll, TruncatedTimes, TruncatedSign, Zenon
<1> HIDE DEF moved
<1>4. mid + moved \in Nat /\ 37 * mid <= 50 * (mid + moved)
  BY <1>1, <1>2, <1>3, FairLeft
<1>5. ApplyRate(mid, drift) = mid + moved
  BY <1>1, Zenon DEF ApplyRate, moved
<1> QED BY <1>4, <1>5

(* The spread of prices of which one is twice the other, or more, is       *)
(* two thirds of their middle.                                             *)
LEMMA FarSpread ==
  ASSUME NEW m \in MarketStates, MidPrice(m) \in Nat \ {0}, 2 * m.bid <= m.ask, NEW vol \in Int
  PROVE  BaseSpread(m, vol) \in Int /\ BaseSpread(m, vol) >= 66666
<1> DEFINE x == (m.ask - m.bid) * Whole
           mid == MidPrice(m)
           y == vol * VolatilityFactor * 10
<1>1. m.bid \in Nat /\ m.ask \in Nat /\ Whole = 100000
  BY DEF MarketStates, Whole
<1>2. 2 * mid <= m.bid + m.ask /\ mid \in Nat \ {0}
  BY <1>1 DEF MidPrice, Truncated
<1>3. SpreadRate(m) = Truncated(x, mid)
  BY DEF SpreadRate
<1> HIDE DEF mid
<1>4. x \in Int /\ mid * 66666 <= x
  BY <1>1, <1>2
<1> HIDE DEF x
<1>5. SpreadRate(m) \in Int /\ SpreadRate(m) >= 66666
  BY <1>2, <1>3, <1>4, TruncatedFits
<1>6. MinSpread \in Int /\ y \in Int
  BY EngineAssumption
<1>7. BaseSpread(m, vol) = Max({MinSpread, y, SpreadRate(m)})
  BY DEF BaseSpread
<1> DEFINE s == SpreadRate(m)
           widest == Max({MinSpread, y, s})
<1>8. s \in Int
  BY <1>5
<1> HIDE DEF y, s
<1>9. widest \in {MinSpread, y, s} /\ s <= widest
  BY <1>6, <1>8, MaxOfThree, Zenon
<1> HIDE DEF widest
<1>10. widest \in Int
  BY <1>6, <1>8, <1>9
<1>11. BaseSpread(m, vol) = widest
  BY <1>7, Zenon DEF s, widest
<1> QED BY <1>5, <1>9, <1>10, <1>11 DEF s

(* Offsets of a third of the fair value, together, take one of the prices  *)
(* more than a tenth of the middle away from it, however they are skewed.  *)
LEMMA WideIsFar ==
  ASSUME NEW mid \in Nat, mid >= 50, NEW fair \in Nat, 37 * mid <= 50 * fair,
         NEW a \in Int, NEW b \in Int, a + b >= 33300,
         10 * Magnitude(SubtractRate(fair, a) - mid) <= mid,
         10 * Magnitude(ApplyRate(fair, b) - mid) <= mid
  PROVE  FALSE
<1> DEFINE below == Truncated(fair * a, Whole)
           above == Truncated(fair * b, Whole)
           left == fair * a
           right == fair * b
<1>0. Whole = 100000 /\ Whole \in Nat \ {0}
  BY DEF Whole
<1>1. left \in Int /\ right \in Int
  OBVIOUS
<1>2. /\ below \in Int /\ left - Whole <= Whole * below
      /\ above \in Int /\ right - Whole <= Whole * above
  <2>1. below = Truncated(left, Whole) /\ above = Truncated(right, Whole)
    OBVIOUS
  <2> HIDE DEF left, right, below, above
  <2> QED BY <1>0, <1>1, <2>1, TruncatedTimes
<1>3. SubtractRate(fair, a) = fair - below /\ ApplyRate(fair, b) = fair + above
  BY DEF SubtractRate, ApplyRate
<1> HIDE DEF below, above
<1>4. 5 * (below + above) <= mid
  BY <1>2, <1>3 DEF Magnitude
<1>5. 33300 * fair <= (a + b) * fair
  BY ProductGrows
<1>6. (a + b) * fair = left + right
  OBVIOUS
<1> HIDE DEF left, right
<1>7. left - 100000 <= 100000 * below /\ right - 100000 <= 100000 * above
  BY <1>0, <1>2
<1>8. 33300 * fair - 200000 <= 20000 * mid
  BY <1>1, <1>2, <1>4, <1>5, <1>6, <1>7
<1> QED BY <1>8

(* Half of a spread less the skew and half of it and the skew.             *)
LEMMA HalvesAddUp ==
  ASSUME NEW spread \in Int, NEW skew \in Int
  PROVE  LET a == Truncated(spread - skew, 2)
             b == Truncated(spread + skew, 2)
         IN  a \in Int /\ b \in Int /\ spread - 1 <= a + b
BY DEF Truncated

(* The most urgent quote still has half of the spread.                     *)
FarRate == 66666
HalfFarRate == 33333

LEMMA SpreadShare ==
  ASSUME NEW s \in Int, FarRate <= s, NEW tenths \in {5, 7, 10, 12}
  PROVE  Truncated(s * tenths, 10) \in Int /\ HalfFarRate <= Truncated(s * tenths, 10)
<1> DEFINE x == s * tenths
<1>1. FarRate \in Int /\ HalfFarRate \in Int /\ 10 * HalfFarRate = 5 * FarRate /\ 0 <= FarRate
  BY DEF FarRate, HalfFarRate
<1>2. x \in Int /\ 10 * HalfFarRate <= x
  BY <1>1
<1> HIDE DEF x
<1>3. Truncated(x, 10) \in Int /\ HalfFarRate <= Truncated(x, 10)
  BY <1>1, <1>2, TruncatedFits
<1> QED BY <1>3 DEF x

(* A far default price makes a quote that is never accepted.               *)
LEMMA FarIsRefused ==
  ASSUME NEW e \in Estimators, e.flow.value \in -FlowBound .. FlowBound,
         NEW m \in MarketStates, MidPrice(m) >= 50, MidPrice(m) \in Nat, 2 * m.bid <= m.ask,
         NEW vol \in Int, position \in Int,
         CheckQuote(Level(BaseQuote(m, e, vol), 0), MidPrice(m))
  PROVE  FALSE
<1> DEFINE mid == MidPrice(m)
           drift == DriftRate(e, m)
           fair == ApplyRate(mid, drift)
           skew == SkewRate(position, drift)
           tenths == SpreadTenths(Action(position, DriftClass(drift)))
           spread == Truncated(BaseSpread(m, vol) * tenths, 10)
           a == Truncated(spread - skew, 2)
           b == Truncated(spread + skew, 2)
           base == BaseQuote(m, e, vol)
<1>1. drift \in -MostDrift .. MostDrift /\ drift \in Int
  BY DriftWithin, DriftIsTyped
<1>2. base \in Quotes
  BY BaseIsTyped
<1>3. base.bid = SubtractRate(fair, a) /\ base.ask = ApplyRate(fair, b)
  BY Zenon DEF BaseQuote
<1>4. /\ 10 * Magnitude(Level(base, 0).bid - mid) <= mid
      /\ 10 * Magnitude(Level(base, 0).ask - mid) <= mid
  BY Zenon DEF CheckQuote
<1>5. skew \in Int
  BY <1>1, SkewIsTyped
<1>6. tenths \in {5, 7, 10, 12}
  BY DEF SpreadTenths, Action
<1>7. BaseSpread(m, vol) \in Int /\ FarRate <= BaseSpread(m, vol)
  BY FarSpread DEF FarRate
<1>8. spread \in Int /\ HalfFarRate <= spread
  BY <1>6, <1>7, SpreadShare, Zenon
<1> HIDE DEF base, mid, drift, spread
<1>9. Level(base, 0).bid = base.bid /\ Level(base, 0).ask = base.ask
  BY <1>2, LevelZero
<1>10. fair \in Nat /\ 37 * mid <= 50 * fair
  <2>1. -MostDrift <= drift /\ mid \in Nat
    BY <1>1, DriftLimits DEF mid
  <2> QED BY <1>1, <2>1, FairStaysUp, Zenon DEF fair
<1> HIDE DEF fair, skew
<1>11. spread \in Int
  BY <1>8
<1>12. a \in Int /\ b \in Int /\ spread - 1 <= a + b
  BY <1>5, <1>11, HalvesAddUp, Zenon
<1> HIDE DEF a, b
<1>13. /\ 10 * Magnitude(SubtractRate(fair, a) - mid) <= mid
       /\ 10 * Magnitude(ApplyRate(fair, b) - mid) <= mid
  BY <1>3, <1>4, <1>9
<1>14. a + b >= 33300 /\ mid \in Nat /\ mid >= 50
  BY <1>8, <1>12 DEF HalfFarRate, mid
<1> QED BY <1>10, <1>12, <1>13, <1>14, WideIsFar

LEMMA FarMarkets ==
  ASSUME NEW top \in Markets, FarDefault(top), DefaultPrice >= 100
  PROVE  LET m == MarketState(top) IN 2 * m.bid <= m.ask /\ MidPrice(m) >= 50
<1> DEFINE m == MarketState(top)
<1>1. /\ top.bid \in Nat /\ top.ask \in Nat /\ DefaultPrice \in Nat
      /\ m.bid = (IF top.bid = 0 THEN DefaultPrice ELSE top.bid)
      /\ m.ask = (IF top.ask = 0 THEN DefaultPrice ELSE top.ask)
  BY EngineAssumption DEF MarketState
<1> HIDE DEF m
<1>2. 2 * m.bid <= m.ask /\ m.ask >= 100 /\ m.bid \in Nat /\ m.ask \in Nat
  BY <1>1 DEF FarDefault
<1>3. MidPrice(m) >= 50
  BY <1>2 DEF MidPrice, Truncated
<1> QED BY <1>2, <1>3 DEF m

(* publish_quotes takes 50,000 for a price that is missing: if that is far *)
(* beyond the other side, by a factor of two, nothing is published, for    *)
(* any skew, trades, volatility and urgency and for volumes at the top of  *)
(* the book of up to 10,000 coins.  (With far more the flow could drive    *)
(* the fair value of such a book down to nothing, and the spread with it.) *)
THEOREM FarSideIsRefused ==
  ASSUME DefaultPrice >= 100, VolumesAreBounded
  PROVE  Spec => OneSidedIsRefused
<1> DEFINE Inv == StateIsTyped /\ FlowIsBounded
           Refused == out' # <<>> =>
             ~ \E m \in Markets, n \in {1, Levels} : FarDefault(m) /\ GenerateQuotes(m, n)
<1>1. Init => Inv
  <2>1. Deepest \in Nat /\ FlowBound \in Nat
    BY SignalsAssumption DEF Deepest, FlowBound
  <2>2. Init => /\ est.bidVolume = 0 /\ est.askVolume = 0 /\ est.flow.value = 0
    BY DEF Init, NewEstimator, NewEMA
  <2> QED BY <2>1, <2>2, StartIsTyped DEF FlowIsBounded
<1>2. Inv /\ [Next]_vars => Inv'
  <2> SUFFICES ASSUME StateIsTyped, FlowIsBounded, [Next]_vars
               PROVE  StateIsTyped' /\ FlowIsBounded'
    BY Zenon
  <2>1. StateIsTyped'
    BY StateStaysTyped
  <2>2. ASSUME NEW top \in Markets, NEW n \in {1, Levels}, GenerateQuotes(top, n)
        PROVE  FlowIsBounded'
    <3>1. est' = UpdateMarketState(est, MarketState(top))
      BY <2>2, Zenon DEF GenerateQuotes
    <3> DEFINE e == UpdateMarketState(est, MarketState(top))
    <3>2. /\ e.bidVolume <= Deepest /\ e.askVolume <= Deepest
          /\ e.flow.value \in -FlowBound .. FlowBound
      BY FlowStaysBounded
    <3> HIDE DEF e
    <3> QED BY <3>1, <3>2 DEF FlowIsBounded, Deepest, FlowBound, e
  <2>3. ASSUME NEW trade \in Trades, ReceiveTrade(trade)
        PROVE  FlowIsBounded'
    <3>1. est' = AddTrade(est, trade)
      BY <2>3 DEF ReceiveTrade
    <3>2. est'.bidVolume = est.bidVolume /\ est'.askVolume = est.askVolume /\ est'.flow = est.flow
      BY <3>1 DEF AddTrade, StateIsTyped, Estimators
    <3> QED BY <3>2 DEF FlowIsBounded, Deepest, FlowBound
  <2>4. CASE est' = est
    <3>1. est'.bidVolume = est.bidVolume /\ est'.askVolume = est.askVolume /\ est'.flow = est.flow
      BY <2>4
    <3> QED BY <2>1, <3>1 DEF FlowIsBounded, Deepest, FlowBound
  <2> QED BY <2>1, <2>2, <2>3, <2>4 DEF Next, ReceiveFill, Kill, vars
<1>3. Inv /\ [Next]_vars => [Refused]_vars
  <2> SUFFICES ASSUME StateIsTyped, FlowIsBounded, NEW top \in Markets, NEW n \in {1, Levels},
                      FarDefault(top), GenerateQuotes(top, n), out' # <<>>
               PROVE  FALSE
    BY Zenon
  <2> DEFINE m == MarketState(top)
             e == UpdateMarketState(est, m)
             vol == UpdatedVolatility(m)
  <2>1. CheckQuote(Level(BaseQuote(m, e, vol.value), 0), MidPrice(m))
    BY PublishedIsChecked
  <2>2. m \in MarketStates /\ MidPrice(m) \in Nat /\ m.bidVolume \in Nat /\ m.askVolume \in Nat
    BY MarketIsReal DEF MarketStates
  <2>3. 2 * m.bid <= m.ask /\ MidPrice(m) >= 50
    BY FarMarkets
  <2>4. e.flow.value \in -FlowBound .. FlowBound
    BY FlowStaysBounded
  <2> HIDE DEF m
  <2>5. e \in Estimators
    BY <2>2, EstimatorTypes DEF StateIsTyped
  <2>6. vol.value \in Int /\ position \in Int
    BY <2>2, VolatilityIsTyped, EngineAssumption DEF StateIsTyped, EMAs
  <2> HIDE DEF e, vol
  <2> QED BY <2>1, <2>2, <2>3, <2>4, <2>5, <2>6, FarIsRefused
<1> QED
  BY <1>1, <1>2, <1>3, PTL DEF Spec, OneSidedIsRefused

-----------------------------------------------------------------------------
(* The skew.                                                               *)

(* The code at variance with its comments.  inventory_manager.rs:49 means  *)
(* to "encourage selling" when long, and the test at quote_engine.rs:425   *)
(* wants a long position "less eager to buy".  But quote_engine.rs:165-166 *)
(* takes the skew off the bid's half of the spread and adds it to the      *)
(* ask's: while long the bid is never farther from the fair value than the *)
(* ask, while short the ask never farther than the bid.                    *)
SkewFollowsPosition ==
  out # <<>> =>
    LET quote == out[1] IN
    /\ position > 0 => quote.fair - quote.bid <= quote.ask - quote.fair
    /\ position < 0 => quote.ask - quote.fair <= quote.fair - quote.bid

(* A skew has the sign of the position, whatever the drift makes of it.    *)
LEMMA SkewHasSign ==
  ASSUME NEW q \in Int, NEW drift \in Int
  PROVE  /\ q > 0 => SkewRate(q, drift) >= 0
         /\ q < 0 => SkewRate(q, drift) <= 0
<1> DEFINE base == q * SkewPerUnit
<1>1. base \in Int /\ (q > 0 => base >= 0) /\ (q < 0 => base <= 0)
  BY EngineAssumption
<1> HIDE DEF base
<1> DEFINE x == base * 3
           y == base * 7
<1>2. /\ x \in Int /\ (base >= 0 => x >= 0) /\ (base <= 0 => x <= 0)
      /\ y \in Int /\ (base >= 0 => y >= 0) /\ (base <= 0 => y <= 0)
  BY <1>1
<1> HIDE DEF x, y
<1>3. /\ Truncated(x, 2) \in Int /\ Truncated(y, 10) \in Int
      /\ base >= 0 => Truncated(x, 2) >= 0 /\ Truncated(y, 10) >= 0
      /\ base <= 0 => Truncated(x, 2) <= 0 /\ Truncated(y, 10) <= 0
  BY <1>1, <1>2, TruncatedSign
<1>4. SkewRate(q, drift) \in {Truncated(x, 2), Truncated(y, 10), base}
  BY DEF SkewRate, x, y, base
<1> QED
  BY <1>1, <1>3, <1>4

(* The halves of a spread that is not negative, less and plus the skew.    *)
LEMMA HalvesAreSkewed ==
  ASSUME NEW spread \in Nat, NEW skew \in Int
  PROVE  LET r == Truncated(spread - skew, 2)
             s == Truncated(spread + skew, 2)
         IN  /\ r \in Int /\ s \in Int /\ 0 <= r + s
             /\ skew >= 0 => r <= s
             /\ skew <= 0 => s <= r
BY DEF Truncated

LEMMA SpreadIsNatural ==
  ASSUME NEW m \in MarketStates, MidPrice(m) \in Nat \ {0}, NEW vol \in Int,
         NEW tenths \in {5, 7, 10, 12}
  PROVE  Truncated(BaseSpread(m, vol) * tenths, 10) \in Nat
<1> DEFINE y == vol * VolatilityFactor * 10
           rate == SpreadRate(m)
           width == BaseSpread(m, vol)
<1>1. MinSpread \in Nat /\ y \in Int
  BY EngineAssumption
<1>2. rate \in Int
  <2> DEFINE x == (m.ask - m.bid) * Whole
  <2>1. x \in Int
    BY DEF MarketStates, Whole
  <2> HIDE DEF x
  <2>2. Truncated(x, MidPrice(m)) \in Int
    BY <2>1, TruncatedSign
  <2> QED BY <2>2 DEF SpreadRate, x
<1>3. width = Max({MinSpread, y, rate})
  BY DEF BaseSpread
<1> HIDE DEF y, rate, width
<1> DEFINE widest == Max({MinSpread, y, rate})
<1>0. MinSpread \in Int
  BY <1>1
<1>4. widest \in {MinSpread, y, rate} /\ MinSpread <= widest
  BY <1>0, <1>1, <1>2, MaxOfThree, Zenon
<1> HIDE DEF widest
<1>5. widest \in Nat
  BY <1>1, <1>2, <1>4
<1>6. width \in Nat
  BY <1>3, <1>5 DEF widest
<1> DEFINE z == width * tenths
<1>7. z \in Int /\ z >= 0
  BY <1>6
<1> HIDE DEF z
<1>8. Truncated(z, 10) \in Int /\ Truncated(z, 10) >= 0
  BY <1>7, TruncatedSign
<1> QED
  BY <1>8 DEF z, width

(* Offsets of a fair value by the larger and the smaller of two rates have *)
(* their order.  A negative fair value would turn it round, but then the   *)
(* quote made of the two is crossed.                                       *)
LEMMA OffsetsKeepOrder ==
  ASSUME NEW fair \in Int, NEW r \in Int, NEW s \in Int, 0 <= r + s,
         SubtractRate(fair, r) < ApplyRate(fair, s)
  PROVE  LET below == fair - SubtractRate(fair, r)
             above == ApplyRate(fair, s) - fair
         IN  (r <= s => below <= above) /\ (s <= r => above <= below)
<1> DEFINE x == fair * r
           y == fair * s
           a == Truncated(x, Whole)
           b == Truncated(y, Whole)
<1>1. Whole \in Nat \ {0} /\ x \in Int /\ y \in Int
  BY DEF Whole
<1>2. SubtractRate(fair, r) = fair - a /\ ApplyRate(fair, s) = fair + b
  BY DEF SubtractRate, ApplyRate
<1>3. CASE fair >= 0
  <2>1. (r <= s => x <= y) /\ (s <= r => y <= x)
    <3>1. (r <= s => r * fair <= s * fair) /\ (s <= r => s * fair <= r * fair)
      BY <1>3, ProductGrows
    <3> QED BY <3>1
  <2> HIDE DEF x, y
  <2>2. a \in Int /\ b \in Int /\ (r <= s => a <= b) /\ (s <= r => b <= a)
    BY <1>1, <2>1, TruncatedGrows, TruncatedSign
  <2> HIDE DEF a, b
  <2> QED BY <1>2, <2>2
<1>4. CASE fair < 0
  <2>1. y <= -x
    <3>1. (-s) * (-fair) <= r * (-fair)
      BY <1>4, ProductGrows
    <3> QED BY <3>1
  <2> HIDE DEF x, y
  <2>2. Truncated(-x, Whole) = -a
    BY <1>1 DEF Truncated, Whole
  <2>3. b <= -a
    BY <1>1, <2>1, <2>2, TruncatedGrows
  <2>4. a \in Int /\ b \in Int
    BY <1>1, TruncatedSign
  <2> HIDE DEF a, b
  <2> QED BY <1>2, <2>3, <2>4
<1> QED
  BY <1>3, <1>4

LEMMA PublishedFollows ==
  ASSUME StateIsTyped, NEW top \in Markets, NEW n \in {1, Levels},
         GenerateQuotes(top, n), out' # <<>>
  PROVE  SkewFollowsPosition'
<1> DEFINE m == MarketState(top)
           e == UpdateMarketState(est, m)
           vol == UpdatedVolatility(m).value
           drift == DriftRate(e, m)
           fair == ApplyRate(MidPrice(m), drift)
           skew == SkewRate(position, drift)
           tenths == SpreadTenths(Action(position, DriftClass(drift)))
           spread == Truncated(BaseSpread(m, vol) * tenths, 10)
           r == Truncated(spread - skew, 2)
           s == Truncated(spread + skew, 2)
           base == BaseQuote(m, e, vol)
           first == Level(base, 0)
<1>1. m \in MarketStates /\ MidPrice(m) \in Nat \ {0}
  BY MarketIsReal
<1>2. out'[1] = first /\ CheckQuote(first, MidPrice(m))
  BY PublishedIsChecked
<1>3. base.bid = SubtractRate(fair, r) /\ base.ask = ApplyRate(fair, s) /\ base.fair = fair
  BY Zenon DEF BaseQuote
<1>4. tenths \in {5, 7, 10, 12}
  BY DEF SpreadTenths, Action
<1>5. position' = position
  BY Zenon DEF GenerateQuotes
<1>6. first.bid < first.ask
  BY <1>2, Zenon DEF CheckQuote
<1>7. position \in Int
  BY EngineAssumption DEF StateIsTyped
<1> HIDE DEF m
<1>8. e \in Estimators /\ vol \in Int
  <2>1. m.bidVolume \in Nat /\ m.askVolume \in Nat /\ MidPrice(m) \in Nat
    BY <1>1 DEF MarketStates
  <2>2. e \in Estimators
    BY <2>1, EstimatorTypes DEF StateIsTyped
  <2>3. UpdatedVolatility(m) \in EMAs
    BY <2>1, VolatilityIsTyped
  <2> QED BY <2>2, <2>3 DEF EMAs
<1> HIDE DEF e, vol
<1>9. drift \in Int
  BY <1>1, <1>8, DriftIsTyped
<1>10. base \in Quotes
  BY <1>1, <1>7, <1>8, BaseIsTyped
<1>11. spread \in Nat
  BY <1>1, <1>4, <1>8, SpreadIsNatural
<1> HIDE DEF base, drift, tenths, spread
<1>12. first.bid = base.bid /\ first.ask = base.ask /\ first.fair = base.fair
  BY <1>10, LevelZero
<1>13. fair \in Int
  BY <1>1, <1>9, RatesAreTyped
<1>14. /\ skew \in Int /\ (position > 0 => skew >= 0) /\ (position < 0 => skew <= 0)
  BY <1>7, <1>9, SkewIsTyped, SkewHasSign
<1> HIDE DEF first, fair, skew
<1>15. /\ r \in Int /\ s \in Int /\ 0 <= r + s
       /\ (skew >= 0 => r <= s) /\ (skew <= 0 => s <= r)
  BY <1>11, <1>14, HalvesAreSkewed
<1> HIDE DEF r, s
<1>16. SubtractRate(fair, r) < ApplyRate(fair, s)
  BY <1>3, <1>6, <1>12
<1> DEFINE below == fair - SubtractRate(fair, r)
           above == ApplyRate(fair, s) - fair
<1>17. (r <= s => below <= above) /\ (s <= r => above <= below)
  BY <1>13, <1>15, <1>16, OffsetsKeepOrder
<1>18. first.fair - first.bid = below /\ first.ask - first.fair = above
  BY <1>3, <1>12
<1> HIDE DEF below, above
<1>19. /\ position > 0 => first.fair - first.bid <= first.ask - first.fair
       /\ position < 0 => first.ask - first.fair <= first.fair - first.bid
  BY <1>14, <1>15, <1>17, <1>18
<1> QED
  BY <1>2, <1>5, <1>19 DEF SkewFollowsPosition

(* quote_engine.rs:165-166 with the skew and the spread of the inventory   *)
(* manager: for every skew factor, market and drift, the bid of a long     *)
(* position is the price nearer to the fair value, which buys more of it,  *)
(* and that of a short one is the ask.                                     *)
THEOREM SkewIsWithPosition == Spec => []SkewFollowsPosition
<1> DEFINE Inv == StateIsTyped /\ SkewFollowsPosition
<1>1. Init => Inv
  BY StartIsTyped DEF Init, SkewFollowsPosition
<1>2. Inv /\ [Next]_vars => Inv'
  <2> SUFFICES ASSUME StateIsTyped, SkewFollowsPosition, [Next]_vars
               PROVE  StateIsTyped' /\ SkewFollowsPosition'
    OBVIOUS
  <2>1. StateIsTyped'
    BY StateStaysTyped
  <2>2. out' = <<>> => SkewFollowsPosition'
    BY DEF SkewFollowsPosition
  <2>3. ASSUME NEW top \in Markets, NEW n \in {1, Levels}, GenerateQuotes(top, n), out' # <<>>
        PROVE  SkewFollowsPosition'
    BY <2>3, PublishedFollows
  <2>4. UNCHANGED vars => SkewFollowsPosition'
    BY DEF vars, SkewFollowsPosition
  <2> QED
    BY <2>1, <2>2, <2>3, <2>4, OnlyWhenDue
<1> QED
  BY <1>1, <1>2, PTL DEF Spec

-----------------------------------------------------------------------------
(* Quotes that are made.                                                   *)

(* Flow and trades that agree, each by what is asked for, are confidence   *)
(* enough: it is their mean, up to 1, which the trades alone never exceed. *)
LEMMA ClearIsConfident ==
  ASSUME NEW e \in Estimators, NEW m \in MarketStates, SignalsAreClear(e)
  PROVE  Confidence(e) >= MinConfidence
<1> DEFINE f == e.flow.value
           x == TradeImbalance(e.trades)
           strength == (Magnitude(f) + Magnitude(x)) \div 2
           least == Scale \div 10
           most == Min({strength, Scale})
<1>1. f \in Int /\ x \in Int /\ x \in -Scale .. Scale
  BY ImbalancesWithin, SignalsAssumption DEF Estimators, EMAs
<1>2. least \in Nat /\ Scale \in Nat /\ MinConfidence \in Nat
  BY SignalsAssumption, EngineAssumption
<1>3. \/ f >= MinConfidence /\ 10 * f > Scale /\ x >= MinConfidence /\ 10 * x > Scale
      \/ -f >= MinConfidence /\ 10 * (-f) > Scale /\ -x >= MinConfidence /\ 10 * (-x) > Scale
  BY Zenon DEF SignalsAreClear
<1>4. Confidence(e) = IF SignalsAgree(f, x) THEN Max({least, most}) ELSE least
  BY DEF Confidence
<1> HIDE DEF f, x, least
<1>5. SignalsAgree(f, x)
  BY <1>1, <1>2, <1>3 DEF SignalsAgree
<1>6. strength \in Nat /\ MinConfidence <= strength /\ MinConfidence <= Scale
  BY <1>1, <1>2, <1>3 DEF Magnitude
<1> HIDE DEF strength
<1>7. most \in {strength, Scale}
  <2>1. strength \in Int /\ Scale \in Int
    BY <1>2, <1>6
  <2> QED BY <2>1, MinOfTwo, Zenon
<1> HIDE DEF most
<1>8. most \in Int /\ MinConfidence <= most
  BY <1>2, <1>6, <1>7
<1>9. Max({least, most}) \in {least, most} /\ most <= Max({least, most})
  BY <1>2, <1>8, MaxOfTwo
<1> QED BY <1>2, <1>4, <1>5, <1>8, <1>9

LEMMA SizesInRoom ==
  ASSUME SizesLeaveRoom, position \in Int, NEW drift
  PROVE  Accepted(position, [bid |-> Quote(position, drift).bid, ask |-> Quote(position, drift).ask])
<1> DEFINE u == Magnitude(position)
           factor == SizeFactor(position)
           all == 6 * MaxPosition
<1> USE SizingAssumption
<1>1. u \in Nat /\ u <= MaxPosition /\ BaseSize >= 2 /\ 2 * BaseSize <= MaxOrder /\ Reduced(position) >= 1
  BY DEF SizesLeaveRoom, Magnitude
<1>2. factor \in Nat /\ factor <= all
  BY <1>1 DEF SizeFactor
<1>3. Reduced(position) = Truncated(BaseSize * factor, all) /\ all \in Nat \ {0}
  BY DEF Reduced
<1> HIDE DEF factor, all
<1>4. Reduced(position) \in 1 .. MaxOrder
  <2>1. factor * BaseSize <= all * BaseSize
    BY <1>2, <1>3, ProductGrows
  <2> DEFINE x == BaseSize * factor
  <2>2. x \in Int /\ x <= all * BaseSize
    BY <1>2, <2>1
  <2> HIDE DEF x
  <2>3. Truncated(x, all) \in Int /\ Truncated(x, all) <= BaseSize
    BY <1>3, <2>2, TruncatedFits
  <2> QED BY <1>1, <1>3, <2>3 DEF x
<1>5. Eager(position, drift) \in 1 .. MaxOrder
  <2> DEFINE tenths == Tenths(Action(position, drift))
  <2>1. tenths \in {20, 15, 10, 8}
    BY DEF Tenths, Action
  <2>2. Eager(position, drift) = (BaseSize * tenths) \div 10
    BY DEF Eager
  <2> HIDE DEF tenths
  <2>3. (BaseSize * tenths) \div 10 >= 1 /\ (BaseSize * tenths) \div 10 <= 2 * BaseSize
        /\ (BaseSize * tenths) \div 10 \in Int
    BY <1>1, <2>1
  <2> QED BY <1>1, <2>2, <2>3
<1>6. Quote(position, drift).bid \in 1 .. MaxOrder /\ Quote(position, drift).ask \in 1 .. MaxOrder
  BY <1>4, <1>5 DEF Quote
<1> DEFINE b == Quote(position, drift).bid
           a == Quote(position, drift).ask
<1> HIDE DEF a, b
<1>7. b \in 1 .. MaxOrder /\ a \in 1 .. MaxOrder
  BY <1>6 DEF a, b
<1>8. Magnitude(b) = b /\ Magnitude(a) = a
  BY <1>7 DEF Magnitude
<1>9. Accepted(position, [bid |-> b, ask |-> a])
  BY <1>1, <1>7, <1>8 DEF Accepted
<1> QED BY <1>9 DEF a, b

(* At 71% of the limit a position is urgent, and at 80% an emergency.      *)
LEMMA UrgentUnwinds ==
  ASSUME NEW q \in Int, NEW drift, UsedAbove(q, 71)
  PROVE  /\ q # 0 /\ Eager(q, drift) >= (3 * BaseSize) \div 2
         /\ q > 0 => Quote(q, drift).ask = Eager(q, drift)
         /\ q < 0 => Quote(q, drift).bid = Eager(q, drift)
<1> USE SizingAssumption
<1>1. q # 0
  BY DEF UsedAbove, Magnitude
<1>2. Tenths(Action(q, drift)) \in {20, 15}
  BY DEF Tenths, Action
<1>3. (BaseSize * 20) \div 10 >= (3 * BaseSize) \div 2 /\ (BaseSize * 15) \div 10 >= (3 * BaseSize) \div 2
  OBVIOUS
<1>4. Eager(q, drift) >= (3 * BaseSize) \div 2
  BY <1>2, <1>3 DEF Eager
<1> QED BY <1>1, <1>4 DEF Quote

(* A calm market's fair value lies within 5% of the middle, *)
LEMMA FairIsNear ==
  ASSUME NEW mid \in Nat, NEW drift \in Int, Magnitude(drift) <= 5000
  PROVE  LET fair == ApplyRate(mid, drift)
         IN  fair \in Nat /\ 20 * fair <= 21 * mid /\ 19 * mid <= 20 * fair
<1> DEFINE x == mid * drift
           moved == Truncated(x, Whole)
           bound == 5000 * mid
<1>1. x \in Int /\ drift <= 5000 /\ -5000 <= drift
  BY DEF Magnitude
<1>2. drift * mid <= 5000 * mid /\ (-5000) * mid <= drift * mid
  BY <1>1, ProductGrows
<1>3. x <= bound /\ -x <= bound /\ bound \in Nat
  BY <1>1, <1>2
<1>4. ApplyRate(mid, drift) = mid + moved
  BY DEF ApplyRate
<1>5. Whole \in Nat \ {0} /\ x \in Int
  BY <1>1 DEF Whole
<1> HIDE DEF x, bound
<1>6. moved \in Int /\ Whole * moved <= bound /\ -bound <= Whole * moved
  BY ONLY <1>3, <1>5, TruncatedNear
<1> HIDE DEF moved
<1>7. 20 * moved <= mid /\ -mid <= 20 * moved
  BY <1>6 DEF bound, Whole
<1> QED BY <1>4, <1>6, <1>7

(* and an offset from it of at most 3% within a tenth.                     *)
LEMMA OffsetIsNear ==
  ASSUME NEW mid \in Nat, NEW fair \in Nat, 20 * fair <= 21 * mid, 19 * mid <= 20 * fair,
         NEW r \in Int, Magnitude(r) <= 3000
  PROVE  LET moved == Truncated(fair * r, Whole)
         IN  /\ moved \in Int /\ fair * r - 100000 < 100000 * moved
             /\ 10 * Magnitude(fair + moved - mid) <= mid
             /\ 10 * Magnitude(fair - moved - mid) <= mid
<1> DEFINE x == fair * r
           moved == Truncated(x, Whole)
           bound == 3000 * fair
<1>1. x \in Int /\ r <= 3000 /\ -3000 <= r
  BY DEF Magnitude
<1>2. r * fair <= 3000 * fair /\ (-3000) * fair <= r * fair
  BY <1>1, ProductGrows
<1>3. x <= bound /\ -x <= bound /\ bound \in Nat
  BY <1>1, <1>2
<1>4. Whole \in Nat \ {0} /\ x \in Int
  BY <1>1 DEF Whole
<1> HIDE DEF x, bound
<1>5. /\ moved \in Int /\ Whole * moved <= bound /\ -bound <= Whole * moved
      /\ x - Whole < Whole * moved
  BY ONLY <1>3, <1>4, TruncatedNear
<1> HIDE DEF moved
<1>6. 100 * moved <= 3 * fair /\ -(3 * fair) <= 100 * moved
  BY <1>5 DEF bound, Whole
<1>7. /\ 10 * Magnitude(fair + moved - mid) <= mid
      /\ 10 * Magnitude(fair - moved - mid) <= mid
  BY <1>5, <1>6 DEF Magnitude
<1>8. x - 100000 < 100000 * moved
  BY <1>5 DEF Whole
<1> QED BY <1>5, <1>7, <1>8 DEF moved, x

(* The halves of a calm spread: none of more than 3%, and together a third *)
(* of the base spread.                                                     *)
RatesAreCalm(s, skew) == s >= 10 /\ s + Magnitude(skew) <= 5000

HalvesAreCalm(s, a, b) ==
  /\ a \in Int /\ b \in Int /\ Magnitude(a) <= 3000 /\ Magnitude(b) <= 3000
  /\ 31 * s <= 100 * (a + b)

LEMMA HalvesAreNear ==
  ASSUME NEW s \in Nat, NEW skew \in Int, RatesAreCalm(s, skew), NEW tenths \in {5, 7, 10, 12}
  PROVE  LET spread == Truncated(s * tenths, 10)
         IN  HalvesAreCalm(s, Truncated(spread - skew, 2), Truncated(spread + skew, 2))
<1> DEFINE spread == Truncated(s * tenths, 10)
           x == spread - skew
           y == spread + skew
           a == Truncated(x, 2)
           b == Truncated(y, 2)
<1>0. s \in Nat /\ s >= 10 /\ s + Magnitude(skew) <= 5000
  BY DEF RatesAreCalm
<1>1. spread \in Nat /\ 10 * spread <= 12 * s /\ 5 * s - 9 <= 10 * spread
  BY <1>0 DEF Truncated
<1> HIDE DEF spread
<1>2. a \in Int /\ b \in Int /\ spread - 1 <= a + b
  BY <1>1 DEF Truncated
<1>3. /\ x \in Int /\ x < 2 * (3000 + 1) /\ -x < 2 * (3000 + 1)
      /\ y \in Int /\ y < 2 * (3000 + 1) /\ -y < 2 * (3000 + 1)
  BY <1>0, <1>1 DEF Magnitude
<1> HIDE DEF x, y
<1>4. a \in -3000 .. 3000
  BY <1>3 DEF Truncated
<1>5. b \in -3000 .. 3000
  BY <1>3 DEF Truncated
<1> HIDE DEF a, b
<1>6. Magnitude(a) <= 3000 /\ Magnitude(b) <= 3000
  BY <1>4, <1>5 DEF Magnitude
<1>7. 31 * s <= 100 * (a + b)
  BY <1>0, <1>1, <1>2
<1>8. HalvesAreCalm(s, a, b)
  BY <1>2, <1>6, <1>7 DEF HalvesAreCalm
<1> QED BY <1>8 DEF a, b, x, y, spread

(* Prices around a fair value near the middle: uncrossed if the spread is  *)
(* ten units of the price.                                                 *)
LEMMA NearIsUncrossed ==
  ASSUME NEW mid \in Nat, NEW fair \in Nat, 19 * mid <= 20 * fair,
         NEW s \in Nat, mid * s >= 1000000, NEW a \in Int, NEW b \in Int, 31 * s <= 100 * (a + b),
         NEW below \in Int, NEW above \in Int,
         fair * a - 100000 < 100000 * below, fair * b - 100000 < 100000 * above
  PROVE  fair - below < fair + above
<1> DEFINE c == 100 * (a + b)
           y == fair * (a + b)
<1>1. c \in Nat /\ 31 * s <= c
  OBVIOUS
<1>2. (31 * s) * (19 * mid) <= c * (19 * mid)
  BY <1>1, ProductGrows
<1>3. (19 * mid) * c <= (20 * fair) * c
  BY <1>1, ProductGrows
<1>4. (31 * s) * (19 * mid) = 589 * (mid * s)
  OBVIOUS
<1>5. (20 * fair) * c = 2000 * y
  OBVIOUS
<1>6. c * (19 * mid) = (19 * mid) * c
  OBVIOUS
<1>7. y \in Int /\ mid * s \in Int
  OBVIOUS
<1>8. 200000 <= y
  <2> DEFINE z == mid * s
             v == (19 * mid) * c
  <2>1. v \in Int /\ z \in Int /\ z >= 1000000 /\ 589 * z <= v /\ v <= 2000 * y
    BY <1>1, <1>2, <1>3, <1>4, <1>5, <1>6, <1>7
  <2> HIDE DEF z, v, y
  <2> QED BY <1>7, <2>1
<1>9. y = fair * a + fair * b
  OBVIOUS
<1> DEFINE left == fair * a
           right == fair * b
<1>10. left \in Int /\ right \in Int /\ 200000 <= left + right
       /\ left - 100000 < 100000 * below /\ right - 100000 < 100000 * above
  BY <1>8, <1>9
<1> HIDE DEF left, right, y, c
<1> QED BY <1>10

(* The quote of a calm market and clear signals passes every check.        *)
LEMMA CalmIsAccepted ==
  ASSUME NEW e \in Estimators, NEW m \in MarketStates, MidPrice(m) \in Nat \ {0},
         NEW vol \in Int, position \in Int, ~killed,
         SizesLeaveRoom, SignalsAreClear(e), MarketIsCalm(m, e, vol)
  PROVE  CheckQuote(Level(BaseQuote(m, e, vol), 0), MidPrice(m))
<1>1. PICK mid : mid = MidPrice(m)
  OBVIOUS
<1>2. PICK base : base = BaseQuote(m, e, vol)
  OBVIOUS
<1>3. PICK quote : quote = Level(base, 0)
  OBVIOUS
<1> DEFINE drift == DriftRate(e, m)
           fair == ApplyRate(mid, drift)
           skew == SkewRate(position, drift)
           s == BaseSpread(m, vol)
           tenths == SpreadTenths(Action(position, DriftClass(drift)))
           spread == Truncated(s * tenths, 10)
           a == Truncated(spread - skew, 2)
           b == Truncated(spread + skew, 2)
           sizes == Quote(position, DriftClass(drift))
<1>4. base \in Quotes /\ base.confidence = Confidence(e)
  BY <1>2, BaseIsTyped
<1>5. /\ base.bid = SubtractRate(fair, a) /\ base.ask = ApplyRate(fair, b)
      /\ base.bidSize = sizes.bid /\ base.askSize = sizes.ask
  BY <1>1, <1>2, Zenon DEF BaseQuote
<1>6. drift \in Int /\ s \in Int
  BY DriftIsTyped, SpreadIsTyped
<1>7. skew \in Int
  BY <1>6, SkewIsTyped
<1>8. tenths \in {5, 7, 10, 12}
  BY DEF SpreadTenths, Action
<1>9. Confidence(e) >= MinConfidence
  BY ClearIsConfident
<1>10. Accepted(position, [bid |-> sizes.bid, ask |-> sizes.ask])
  BY SizesInRoom
<1>11. /\ Magnitude(drift) + s + Magnitude(skew) <= Whole \div 20
      /\ s >= 10 /\ mid * s >= 10 * Whole
  BY <1>1, Zenon DEF MarketIsCalm
<1> HIDE DEF drift, s, tenths, skew, sizes
<1>12. /\ quote.bid = base.bid /\ quote.ask = base.ask /\ quote.confidence = base.confidence
      /\ quote.bidSize = base.bidSize /\ quote.askSize = base.askSize
  <2>1. 0 \in Nat
    OBVIOUS
  <2>2. quote.bidSize = base.bidSize \div (0 + 1) /\ quote.askSize = base.askSize \div (0 + 1)
    BY <1>3, <1>4, <2>1, LevelIsTyped
  <2>3. base.bidSize \in Int /\ base.askSize \in Int
    BY <1>4 DEF Quotes
  <2>4. \A x \in Int : x \div (0 + 1) = x
    OBVIOUS
  <2>5. quote.bidSize = base.bidSize /\ quote.askSize = base.askSize
    BY <2>2, <2>3, <2>4
  <2> QED BY <1>3, <1>4, <2>5, LevelZero
<1>13. /\ s \in Nat /\ Magnitude(drift) <= 5000 /\ s + Magnitude(skew) <= 5000
       /\ mid * s >= 1000000 /\ mid \in Nat
  <2>1. Whole \div 20 = 5000 /\ 10 * Whole = 1000000
    BY DEF Whole
  <2>2. Magnitude(drift) \in Nat /\ Magnitude(skew) \in Nat
    BY <1>6, <1>7 DEF Magnitude
  <2> QED BY <1>1, <1>6, <1>11, <2>1, <2>2
<1>14. fair \in Nat /\ 20 * fair <= 21 * mid /\ 19 * mid <= 20 * fair
  BY <1>6, <1>13, FairIsNear
<1> HIDE DEF fair
<1>15. s \in Nat /\ RatesAreCalm(s, skew)
  BY <1>11, <1>13 DEF RatesAreCalm
<1>16. HalvesAreCalm(s, a, b)
  BY <1>7, <1>8, <1>15, HalvesAreNear, Zenon
<1> HIDE DEF a, b, spread
<1>17. /\ a \in Int /\ b \in Int /\ Magnitude(a) <= 3000 /\ Magnitude(b) <= 3000
       /\ 31 * s <= 100 * (a + b)
  BY <1>16 DEF HalvesAreCalm
<1> DEFINE below == Truncated(fair * a, Whole)
           above == Truncated(fair * b, Whole)
<1>18. /\ below \in Int /\ fair * a - 100000 < 100000 * below
       /\ 10 * Magnitude(fair - below - mid) <= mid
  BY <1>13, <1>14, <1>17, OffsetIsNear
<1>19. /\ above \in Int /\ fair * b - 100000 < 100000 * above
       /\ 10 * Magnitude(fair + above - mid) <= mid
  BY <1>13, <1>14, <1>17, OffsetIsNear
<1>20. quote.bid = fair - below /\ quote.ask = fair + above
  BY <1>5, <1>12 DEF SubtractRate, ApplyRate
<1> HIDE DEF below, above
<1>21. fair - below < fair + above
  BY <1>11, <1>13, <1>14, <1>17, <1>18, <1>19, NearIsUncrossed
<1>22. below \in Int /\ above \in Int /\ fair \in Nat /\ mid \in Nat
  BY <1>13, <1>14, <1>18, <1>19
<1>23. 10 * Magnitude(fair - below - mid) <= mid
  BY <1>18
<1>24. 10 * Magnitude(fair + above - mid) <= mid
  BY <1>19
<1>25. quote.bid < quote.ask
  BY <1>20, <1>21, <1>22
<1>26. 10 * Magnitude(quote.bid - mid) <= mid
  BY <1>20, <1>22, <1>23
<1>27. 10 * Magnitude(quote.ask - mid) <= mid
  BY <1>20, <1>22, <1>24
<1>28. Accepted(position, [bid |-> quote.bidSize, ask |-> quote.askSize])
  BY <1>5, <1>10, <1>12
<1>29. quote.confidence >= MinConfidence
  BY <1>4, <1>9, <1>12
<1>30. CheckQuote(quote, mid)
  BY <1>25, <1>26, <1>27, <1>28, <1>29 DEF CheckQuote
<1> QED BY <1>1, <1>2, <1>3, <1>30

LEMMA AcceptedIsPublished ==
  ASSUME NEW base, NEW n \in Nat \ {0}, NEW mark, CheckQuote(Level(base, 0), mark)
  PROVE  Ladder(base, n, mark) # <<>>
<1> DEFINE good == {k \in 1 .. n : \A l \in 0 .. k - 1 : CheckQuote(Level(base, l), mark)}
           T == good \cup {0}
<1>1. Ladder(base, n, mark) = [i \in 1 .. Max(T) |-> Level(base, i - 1)]
  BY DEF Ladder
<1>2. T \subseteq 0 .. n /\ T # {} /\ 1 \in T
  <2>1. 1 \in 1 .. n /\ \A l \in 0 .. 1 - 1 : l = 0
    OBVIOUS
  <2>2. 1 \in good
    BY <2>1
  <2> QED BY <2>2
<1> HIDE DEF T
<1>3. 1 <= Max(T) /\ Max(T) \in Int
  <2>1. n \in Nat /\ T \subseteq 0 .. n /\ T # {}
    BY <1>2
  <2>2. Max(T) \in T /\ \A y \in T : y <= Max(T)
    BY <2>1, GreatestIsMax
  <2>3. Max(T) \in 0 .. n
    BY <2>1, <2>2, Zenon
  <2>4. 1 <= Max(T)
    BY <1>2, <2>2, Zenon
  <2> QED BY <2>3, <2>4
<1> DEFINE last == Max(T)
<1>4. 1 \in 1 .. last
  BY <1>3
<1> HIDE DEF last
<1>5. 1 \in DOMAIN [i \in 1 .. last |-> Level(base, i - 1)]
  BY <1>4
<1>6. DOMAIN <<>> = {}
  OBVIOUS
<1> QED BY <1>1, <1>5, <1>6 DEF last

(* Whenever trades and order flow agree, the market is calm and the sizes  *)
(* leave room, for any limits, base size, skew factor and spread settings: *)
(* a quote is published, and from 71% of the limit on the side that        *)
(* unwinds the position is half as large again as the base size, at least. *)
THEOREM ClearIsQuoted == Spec => QuotesWhenClear
<1> DEFINE Quoted == ~killed /\ SizesLeaveRoom /\ SignalsAreClear(est') =>
             \A top \in Markets, n \in {1, Levels} :
               MarketIsCalm(MarketState(top), est', volatility'.value) /\ GenerateQuotes(top, n) =>
                 /\ out' # <<>>
                 /\ UsedAbove(position, 71) =>
                      (IF position > 0 THEN out'[1].askSize ELSE out'[1].bidSize)
                        >= (3 * BaseSize) \div 2
<1>1. Init => StateIsTyped
  BY StartIsTyped
<1>2. StateIsTyped /\ [Next]_vars => StateIsTyped'
  BY StateStaysTyped
<1>3. StateIsTyped /\ [Next]_vars => [Quoted]_vars
  <2> SUFFICES ASSUME StateIsTyped, ~killed, SizesLeaveRoom, SignalsAreClear(est'),
                      NEW top \in Markets, NEW n \in {1, Levels},
                      MarketIsCalm(MarketState(top), est', volatility'.value), GenerateQuotes(top, n)
               PROVE  /\ out' # <<>>
                      /\ UsedAbove(position, 71) =>
                           (IF position > 0 THEN out'[1].askSize ELSE out'[1].bidSize)
                             >= (3 * BaseSize) \div 2
    BY Zenon
  <2> DEFINE m == MarketState(top)
             e == UpdateMarketState(est, m)
             vol == UpdatedVolatility(m)
             mark == MidPrice(m)
  <2>1. est' = e /\ volatility' = vol /\ out' = Ladder(BaseQuote(m, e, vol.value), n, mark)
    BY Zenon DEF GenerateQuotes
  <2>2. m \in MarketStates /\ mark \in Nat \ {0}
    BY MarketIsReal
  <2>3. m.bidVolume \in Nat /\ m.askVolume \in Nat
    BY <2>2 DEF MarketStates
  <2>4. MarketIsCalm(m, est', volatility'.value)
    OBVIOUS
  <2> HIDE DEF m
  <2>5. e \in Estimators
    BY <2>3, EstimatorTypes DEF StateIsTyped
  <2>6. vol.value \in Int /\ position \in Int
    BY <2>2, VolatilityIsTyped, EngineAssumption DEF StateIsTyped, EMAs
  <2> HIDE DEF e, vol
  <2>7. CheckQuote(Level(BaseQuote(m, e, vol.value), 0), mark)
    BY <2>1, <2>2, <2>4, <2>5, <2>6, CalmIsAccepted
  <2>8. n \in Nat \ {0}
    BY EngineAssumption
  <2>9. out' # <<>>
    BY <2>1, <2>7, <2>8, AcceptedIsPublished
  <2>10. PICK drift \in Drift : /\ out'[1].bidSize = Quote(position, drift).bid
                                /\ out'[1].askSize = Quote(position, drift).ask
    BY <2>6, <2>9, FirstQuote DEF PositionIsInt
  <2>11. ASSUME UsedAbove(position, 71)
         PROVE  (IF position > 0 THEN out'[1].askSize ELSE out'[1].bidSize)
                  >= (3 * BaseSize) \div 2
    <3>1. /\ position # 0 /\ Eager(position, drift) >= (3 * BaseSize) \div 2
          /\ position > 0 => Quote(position, drift).ask = Eager(position, drift)
          /\ position < 0 => Quote(position, drift).bid = Eager(position, drift)
      BY <2>6, <2>11, UrgentUnwinds
    <3> QED BY <2>6, <2>10, <3>1
  <2> QED BY <2>9, <2>11
<1> QED
  BY <1>1, <1>2, <1>3, PTL DEF Spec, QuotesWhenClear
=============================================================================
