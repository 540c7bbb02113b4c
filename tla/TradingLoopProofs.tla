--------------------------- MODULE TradingLoopProofs ---------------------------
(***************************************************************************)
(* Theorems about TradingLoop, for every limit, size, poll and stream.     *)
(***************************************************************************)
EXTENDS TradingLoop, SumTheorems, FiniteSetTheorems

-----------------------------------------------------------------------------
(* Every message but a fill is understood whatever its checksum; a fill is *)
(* only understood if its checksum happens to vanish.                      *)
LEMMA OnlyFillsAreUnreadable ==
  ASSUME NEW message \in Messages, NEW checksum
  PROVE  Readable(message, checksum) <=> (message = OrderFillMessage => checksum = "vanishing")
<1>1. /\ ChecksumAt(MarketDataMessage) = 64 /\ ChecksumAt(PricingOutputMessage) = 56
      /\ ChecksumAt(HeartbeatMessage) = 24 /\ ChecksumAt(CollectorStateMessage) = 24
      /\ ChecksumAt(TradeMessage) = 56 /\ ChecksumAt(QuoteMessage) = 88
      /\ ChecksumAt(PositionMessage) = 64 /\ ChecksumAt(OrderFillMessage) = 56
  BY DEF ChecksumAt, Symbol, MarketDataMessage, PricingOutputMessage, HeartbeatMessage,
         CollectorStateMessage, TradeMessage, QuoteMessage, PositionMessage, OrderFillMessage
<1>2. /\ MarketDataMessage.covered = 64 /\ PricingOutputMessage.covered = 56
      /\ HeartbeatMessage.covered = 24 /\ CollectorStateMessage.covered = 24
      /\ TradeMessage.covered = 56 /\ QuoteMessage.covered = 88
      /\ PositionMessage.covered = 56 /\ OrderFillMessage.covered = 64
  BY DEF MarketDataMessage, PricingOutputMessage, HeartbeatMessage, CollectorStateMessage,
         TradeMessage, QuoteMessage, PositionMessage, OrderFillMessage
<1>3. message # OrderFillMessage => message.covered <= ChecksumAt(message)
  BY <1>1, <1>2 DEF Messages
<1>4. ~(OrderFillMessage.covered <= ChecksumAt(OrderFillMessage))
  BY <1>1, <1>2
<1> QED BY <1>3, <1>4 DEF Readable

-----------------------------------------------------------------------------
(* What the fills in a stream add up to. *)

Fill == [side : Sides, qty : Nat]

LEMMA SignedIsInt ==
  ASSUME NEW f \in Fill
  PROVE  Signed(f) \in Int
BY DEF Signed, Fill

LEMMA NetIsSum ==
  ASSUME NEW q \in Seq(Fill)
  PROVE  Net(q) = SumTo([k \in 1 .. Len(q) |-> Signed(q[k])], Len(q))
<1> DEFINE t == [k \in 1 .. Len(q) |-> Signed(q[k])]
<1>1. Len(q) \in Nat /\ DOMAIN q = 1 .. Len(q)
  OBVIOUS
<1>2. t \in [1 .. Len(q) -> Int]
  <2>1. \A k \in 1 .. Len(q) : q[k] \in Fill
    OBVIOUS
  <2> QED BY <2>1, SignedIsInt
<1>3. Net(q) = Total(t)
  BY <1>1 DEF Net
<1> HIDE DEF t
<1>4. Net(q) = SumTo(t, Len(q))
  BY <1>1, <1>2, <1>3, TotalIsSum
<1> QED BY <1>4 DEF t

LEMMA NetOfJoined ==
  ASSUME NEW q \in Seq(Fill), NEW r \in Seq(Fill)
  PROVE  Net(q \o r) = Net(q) + Net(r)
<1> DEFINE t == [k \in 1 .. Len(q \o r) |-> Signed((q \o r)[k])]
           u == [k \in 1 .. Len(q) |-> Signed(q[k])]
           v == [k \in 1 .. Len(r) |-> Signed(r[k])]
<1>1. q \o r \in Seq(Fill) /\ Len(q \o r) = Len(q) + Len(r)
  OBVIOUS
<1>2. Net(q \o r) = SumTo(t, Len(q) + Len(r)) /\ Net(q) = SumTo(u, Len(q))
      /\ Net(r) = SumTo(v, Len(r))
  BY <1>1, NetIsSum
<1>3. \A f \in Fill : Signed(f) \in Int
  BY SignedIsInt
<1>4. /\ t \in [1 .. Len(q) + Len(r) -> Int] /\ u \in [1 .. Len(q) -> Int]
      /\ v \in [1 .. Len(r) -> Int]
  <2>1. \A k \in 1 .. Len(q) + Len(r) : (q \o r)[k] \in Fill
    BY <1>1
  <2> QED BY <1>1, <1>3, <2>1
<1>5. \A k \in 1 .. Len(q) : t[k] = u[k]
  OBVIOUS
<1>6. \A k \in 1 .. Len(r) : t[Len(q) + k] = v[k]
  OBVIOUS
<1>7. Len(q) \in Nat /\ Len(r) \in Nat
  OBVIOUS
<1> HIDE DEF t, u, v
<1> QED BY <1>2, <1>4, <1>5, <1>6, <1>7, SumOfParts

LEMMA NetIsInt ==
  ASSUME NEW q \in Seq(Fill)
  PROVE  Net(q) \in Int
<1> DEFINE t == [k \in 1 .. Len(q) |-> Signed(q[k])]
<1>1. t \in [1 .. Len(q) -> Int] /\ Len(q) \in Nat
  <2>1. \A k \in 1 .. Len(q) : q[k] \in Fill
    OBVIOUS
  <2> QED BY <2>1, SignedIsInt
<1>2. Net(q) = SumTo(t, Len(q))
  BY NetIsSum
<1> HIDE DEF t
<1> QED BY <1>1, <1>2, SumIsInt

LEMMA NetOfNone == Net(<<>>) = 0
<1> DEFINE t == [k \in 1 .. 0 |-> Signed(<<>>[k])]
<1>1. <<>> \in Seq(Fill) /\ Len(<<>>) = 0
  OBVIOUS
<1>2. Net(<<>>) = SumTo([k \in 1 .. Len(<<>>) |-> Signed(<<>>[k])], Len(<<>>))
  BY <1>1, NetIsSum
<1>3. Net(<<>>) = SumTo(t, 0)
  BY <1>1, <1>2
<1> HIDE DEF t
<1> QED BY <1>3, SumOfNone

LEMMA NetOfOne ==
  ASSUME NEW f \in Fill
  PROVE  Net(<<f>>) = Signed(f)
<1> DEFINE t == [k \in 1 .. 1 |-> Signed(<<f>>[k])]
<1>1. <<f>> \in Seq(Fill) /\ Len(<<f>>) = 1
  OBVIOUS
<1>2. Net(<<f>>) = SumTo(t, 1)
  BY <1>1, NetIsSum
<1>3. t \in [1 .. 1 -> Int] /\ t[1] = Signed(f) /\ Signed(f) \in Int
  BY DEF Signed, Fill
<1> HIDE DEF t
<1>4. SumTo(t, 1) = t[1]
  <2>1. PICK p : PartialSums(t, 1, p) /\ p[1] = SumTo(t, 1) /\ p[1] \in Int
    <3>1. 1 \in 0 .. 1 /\ 1 \in Nat
      OBVIOUS
    <3> QED BY <1>3, <3>1, SumsExist
  <2>2. p[1] - p[0] = t[1] /\ p[0] = 0
    BY <2>1 DEF PartialSums
  <2> QED BY <2>1, <2>2
<1> QED BY <1>2, <1>3, <1>4

LEMMA NetOfTwo ==
  ASSUME NEW f \in Fill, NEW g \in Fill
  PROVE  <<f, g>> \in Seq(Fill) /\ Net(<<f, g>>) = Signed(f) + Signed(g)
<1>1. <<f>> \in Seq(Fill) /\ <<g>> \in Seq(Fill)
  OBVIOUS
<1>2. <<f, g>> = <<f>> \o <<g>>
  <2> DEFINE s == <<f>> \o <<g>>
  <2>1. s \in Seq(Fill) /\ Len(s) = 2 /\ s[1] = f /\ s[2] = g
    BY <1>1
  <2> HIDE DEF s
  <2>2. s \in [1 .. 2 -> Fill]
    BY <2>1
  <2>3. s = <<s[1], s[2]>>
    BY <2>2
  <2> QED BY <2>1, <2>3 DEF s
<1>3. Net(<<f>> \o <<g>>) = Net(<<f>>) + Net(<<g>>)
  BY <1>1, NetOfJoined
<1>4. <<f, g>> \in Seq(Fill)
  OBVIOUS
<1> QED BY <1>2, <1>3, <1>4, NetOfOne

-----------------------------------------------------------------------------
(* The invariants. *)

Quotes == [bid : 1 .. MaxOrder, ask : 1 .. MaxOrder]
Pc == {"poll", "receive"}

LoopTypes ==
  /\ strategy \in [pc : Pc, alive : BOOLEAN, killed : BOOLEAN, position : Int]
  /\ quotes \in Seq(Quotes) /\ Len(quotes) <= QuotesMax
  /\ simulator \in [pc : Pc, alive : BOOLEAN, orders : [Sides -> 0 .. MaxOrder], position : Int]
  /\ fills \in Seq(Fill)
  /\ missed \in BOOLEAN

Toward(side, n) == IF side = "bid" THEN n ELSE -n

(* How far a side's order can take the simulator's position. *)
Reach(side) == Toward(side, simulator.position) + simulator.orders[side]

(* A strategy that is about to quote may have missed the order that was    *)
(* active when it looked for fills, and the one that has replaced it.      *)
BehindByOrders(side) ==
  strategy.pc = "receive" =>
    Reach(side) <= Toward(side, strategy.position) + (IF quotes = <<>> THEN 2 ELSE 1) * MaxOrder

(* The last quote on its way takes the position no further than its order. *)
QuoteWithin(side) ==
  quotes # <<>> =>
    Reach(side) + Placed(Last(quotes))[side] <= MaxPosition + 2 * MaxOrder

ReachWithin(side) == Reach(side) <= MaxPosition + 2 * MaxOrder

ExposureInv ==
  ~missed => \A side \in Sides : BehindByOrders(side) /\ QuoteWithin(side) /\ ReachWithin(side)

-----------------------------------------------------------------------------
(* A quote that is sent, and a fill that is made. *)

LEMMA QuoteIsPositive ==
  ASSUME NEW q \in Int, NEW drift, Accepted(q, Quote(q, drift))
  PROVE  /\ Quote(q, drift) \in Quotes
         /\ \A side \in Sides : Placed(Quote(q, drift))[side] \in 1 .. MaxOrder
<1> USE SizingAssumption
<1> DEFINE quote == Quote(q, drift)
           factor == SizeFactor(q)
<1>1. Magnitude(q) \in 0 .. MaxPosition
  BY DEF Accepted, Magnitude
<1>2. factor \in Nat
  BY <1>1 DEF SizeFactor
<1> HIDE DEF factor
<1>3. BaseSize * factor \in Nat /\ 6 * MaxPosition \in Nat \ {0}
  BY <1>2
<1>4. Reduced(q) = (BaseSize * factor) \div (6 * MaxPosition)
  BY <1>3 DEF Reduced, Truncated, factor
<1>5. \A a \in Nat, d \in Nat \ {0} : a \div d \in Nat
  OBVIOUS
<1>6. Reduced(q) \in Nat
  BY <1>3, <1>4, <1>5
<1>7. Eager(q, drift) \in Nat
  <2>1. Tenths(Action(q, drift)) \in {20, 15, 10, 8}
    BY DEF Tenths, Action
  <2> QED BY <2>1, <1>5 DEF Eager
<1>8. quote = [bid |-> quote.bid, ask |-> quote.ask] /\ quote.bid \in Nat /\ quote.ask \in Nat
  BY <1>6, <1>7 DEF Quote
<1>9. Magnitude(quote.bid) \in 1 .. MaxOrder /\ Magnitude(quote.ask) \in 1 .. MaxOrder
  BY DEF Accepted
<1> HIDE DEF quote
<1>10. quote.bid \in 1 .. MaxOrder /\ quote.ask \in 1 .. MaxOrder
  BY <1>8, <1>9 DEF Magnitude
<1> QED BY <1>8, <1>10 DEF Quotes, Placed, Sides, quote

(* If the base size is at most two fifths of the limit, as by default, no  *)
(* side of a quote leads beyond the limit from the position it is for.     *)
LEMMA QuoteFits ==
  ASSUME NEW q \in Int, NEW drift, Magnitude(q) <= MaxPosition, 5 * BaseSize <= 2 * MaxPosition,
         NEW side \in Sides
  PROVE  Toward(side, q) + Placed(Quote(q, drift))[side] <= MaxPosition
<1> USE SizingAssumption
<1> DEFINE factor == SizeFactor(q)
           room == MaxPosition - Magnitude(q)
<1>1. room \in Nat /\ Magnitude(q) \in Nat
  BY DEF Magnitude
<1>2. factor \in Nat /\ factor <= 15 * room
  BY <1>1 DEF SizeFactor
<1> HIDE DEF factor
<1>3. BaseSize * factor \in Nat
  BY <1>2
<1>4. Reduced(q) = (BaseSize * factor) \div (6 * MaxPosition)
  BY <1>3 DEF Reduced, Truncated, factor
<1> HIDE DEF room
<1>5. Reduced(q) \in 0 .. room
  BY <1>1, <1>2, <1>4, ShareFits
<1>6. Eager(q, drift) \in Nat /\ Eager(q, drift) <= MaxPosition
  <2>1. Tenths(Action(q, drift)) \in {20, 15, 10, 8}
    BY DEF Tenths, Action
  <2> QED BY <2>1 DEF Eager
<1>7. Toward(side, q) \in Int /\ Toward(side, q) <= Magnitude(q)
  BY DEF Toward, Magnitude
<1>8. CASE Toward(side, q) > 0
  <2>1. Placed(Quote(q, drift))[side] = Reduced(q)
    BY <1>8 DEF Toward, Placed, Quote, Sides
  <2> QED BY <1>1, <1>5, <1>7, <2>1 DEF room
<1>9. CASE ~(Toward(side, q) > 0)
  <2>1. Placed(Quote(q, drift))[side] = Eager(q, drift)
    BY <1>9 DEF Toward, Placed, Quote, Sides
  <2> QED BY <1>6, <1>7, <1>9, <2>1
<1> QED BY <1>8, <1>9

LEMMA FillFits ==
  ASSUME LoopTypes, NEW side \in Sides
  PROVE  /\ FillOf(side) \in Fill /\ FillOf(side).side = side
         /\ FillOf(side).qty \in 0 .. simulator.orders[side]
<1> DEFINE left == simulator.orders[side]
<1>1. left \in Nat
  BY DEF LoopTypes
<1> HIDE DEF left
<1>2. FillTenths \in 0 .. 10
  BY LoopAssumption
<1>3. FillTenths * left \in Nat /\ FillTenths * left <= 10 * left
  BY <1>1, <1>2, ProductGrows
<1>4. (2 * FillTenths * left + 10) \div 20 \in 0 .. left
  <2>1. 2 * FillTenths * left = 2 * (FillTenths * left)
    BY <1>1, <1>2
  <2>2. \A x \in Nat : x <= 10 * left => (2 * x + 10) \div 20 \in 0 .. left
    BY <1>1
  <2> QED BY <1>3, <2>1, <2>2
<1> QED BY <1>1, <1>4 DEF FillOf, Fill, left

(* The crossed orders come in any order. *)
LEMMA HitsAre ==
  ASSUME NEW hit \in SUBSET Sides, NEW hits \in SetToSeqs(hit)
  PROVE  hits \in {<<>>, <<"bid">>, <<"ask">>, <<"bid", "ask">>, <<"ask", "bid">>}
<1>1. Cardinality({}) = 0 /\ Cardinality({"bid"}) = 1 /\ Cardinality({"ask"}) = 1
      /\ Cardinality({"bid", "ask"}) = 2
  <2>1. Cardinality({}) = 0 /\ Cardinality({"bid"}) = 1 /\ Cardinality({"ask"}) = 1
    BY FS_EmptySet, FS_Singleton
  <2>2. IsFiniteSet({"bid"}) /\ "ask" \notin {"bid"}
    BY FS_Singleton
  <2>3. Cardinality({"bid"} \cup {"ask"}) = Cardinality({"bid"}) + 1
    BY <2>2, FS_AddElement
  <2>4. {"bid"} \cup {"ask"} = {"bid", "ask"}
    OBVIOUS
  <2> QED BY <2>1, <2>3, <2>4
<1>2. /\ hits \in [1 .. Cardinality(hit) -> hit]
      /\ \A i, j \in 1 .. Cardinality(hit) : i # j => hits[i] # hits[j]
  BY DEF SetToSeqs
<1>3. CASE hit = {}
  <2>1. hits \in [1 .. 0 -> {}]
    BY <1>1, <1>2, <1>3
  <2> QED BY <2>1
<1>4. CASE hit = {"bid"}
  <2>1. hits \in [1 .. 1 -> {"bid"}]
    BY <1>1, <1>2, <1>4
  <2>2. hits = <<"bid">>
    BY <2>1
  <2> QED BY <2>2
<1>5. CASE hit = {"ask"}
  <2>1. hits \in [1 .. 1 -> {"ask"}]
    BY <1>1, <1>2, <1>5
  <2>2. hits = <<"ask">>
    BY <2>1
  <2> QED BY <2>2
<1>6. CASE hit = {"bid", "ask"}
  <2>1. hits \in [1 .. 2 -> {"bid", "ask"}] /\ hits[1] # hits[2]
    BY <1>1, <1>2, <1>6
  <2>2. hits = <<"bid", "ask">> \/ hits = <<"ask", "bid">>
    <3>1. hits = <<hits[1], hits[2]>>
      BY <2>1
    <3> QED BY <2>1, <3>1
  <2> QED BY <2>2
<1> QED BY <1>3, <1>4, <1>5, <1>6 DEF Sides

Hit(hits, side) == \E j \in DOMAIN hits : hits[j] = side
Filled(hits, side) == IF Hit(hits, side) THEN FillOf(side).qty ELSE 0

(* What the fills of a batch add up to is what the orders lose by them. *)
LEMMA FillsBalance ==
  ASSUME LoopTypes, NEW hit \in SUBSET Fillable, NEW hits \in SetToSeqs(hit)
  PROVE  /\ Fills(hits) \in Seq(Fill)
         /\ Net(Fills(hits)) = Filled(hits, "bid") - Filled(hits, "ask")
         /\ \A side \in Sides : /\ Filled(hits, side) \in 0 .. simulator.orders[side]
                                /\ AfterFills(hits)[side] = simulator.orders[side] - Filled(hits, side)
         /\ AfterFills(hits) \in [Sides -> 0 .. MaxOrder]
<1>1. hits \in {<<>>, <<"bid">>, <<"ask">>, <<"bid", "ask">>, <<"ask", "bid">>}
  BY HitsAre DEF Fillable
<1> DEFINE b == FillOf("bid")
           a == FillOf("ask")
<1>2. b \in Fill /\ a \in Fill /\ Signed(b) = b.qty /\ Signed(a) = -a.qty
  <2>1. "bid" \in Sides /\ "ask" \in Sides
    BY DEF Sides
  <2>2. b.side = "bid" /\ a.side = "ask" /\ b \in Fill /\ a \in Fill
    BY <2>1, FillFits
  <2> QED BY <2>2 DEF Signed
<1>3. b.qty \in Nat /\ a.qty \in Nat
  BY <1>2 DEF Fill
<1>4. Fills(hits) \in Seq(Fill) /\ Net(Fills(hits)) = Filled(hits, "bid") - Filled(hits, "ask")
  <2>1. CASE hits = <<>>
    <3>1. Fills(hits) = <<>> /\ ~Hit(hits, "bid") /\ ~Hit(hits, "ask")
      BY <2>1 DEF Fills, Hit
    <3> QED BY <3>1, NetOfNone DEF Filled
  <2>2. CASE hits = <<"bid">>
    <3>1. Fills(hits) = <<b>> /\ Hit(hits, "bid") /\ ~Hit(hits, "ask")
      BY <2>2 DEF Fills, Hit
    <3> HIDE DEF b
    <3>2. Net(<<b>>) = Signed(b) /\ <<b>> \in Seq(Fill)
      BY <1>2, NetOfOne
    <3> QED BY <1>2, <1>3, <3>1, <3>2 DEF Filled, b
  <2>3. CASE hits = <<"ask">>
    <3>1. Fills(hits) = <<a>> /\ Hit(hits, "ask") /\ ~Hit(hits, "bid")
      BY <2>3 DEF Fills, Hit
    <3> HIDE DEF a
    <3>2. Net(<<a>>) = Signed(a) /\ <<a>> \in Seq(Fill)
      BY <1>2, NetOfOne
    <3> QED BY <1>2, <1>3, <3>1, <3>2 DEF Filled, a
  <2>4. CASE hits = <<"bid", "ask">>
    <3>1. Fills(hits) = <<b, a>> /\ Hit(hits, "ask") /\ Hit(hits, "bid")
      <4>1. Fills(hits) = [j \in DOMAIN hits |-> FillOf(hits[j])]
        BY DEF Fills
      <4>2. DOMAIN hits = 1 .. 2 /\ hits[1] = "bid" /\ hits[2] = "ask"
        BY <2>4
      <4> HIDE DEF a, b
      <4>3. Fills(hits)[1] = b /\ Fills(hits)[2] = a /\ DOMAIN Fills(hits) = 1 .. 2
        BY <4>1, <4>2 DEF a, b
      <4>4. Fills(hits) = <<b, a>>
        BY <4>1, <4>2, <4>3
      <4> QED BY <4>2, <4>4 DEF Hit
    <3> HIDE DEF a, b
    <3>2. Net(<<b, a>>) = Signed(b) + Signed(a) /\ <<b, a>> \in Seq(Fill)
      BY <1>2, NetOfTwo
    <3> QED BY <1>2, <1>3, <3>1, <3>2 DEF Filled, a, b
  <2>5. CASE hits = <<"ask", "bid">>
    <3>1. Fills(hits) = <<a, b>> /\ Hit(hits, "ask") /\ Hit(hits, "bid")
      <4>1. Fills(hits) = [j \in DOMAIN hits |-> FillOf(hits[j])]
        BY DEF Fills
      <4>2. DOMAIN hits = 1 .. 2 /\ hits[1] = "ask" /\ hits[2] = "bid"
        BY <2>5
      <4> HIDE DEF a, b
      <4>3. Fills(hits)[1] = a /\ Fills(hits)[2] = b /\ DOMAIN Fills(hits) = 1 .. 2
        BY <4>1, <4>2 DEF a, b
      <4>4. Fills(hits) = <<a, b>>
        BY <4>1, <4>2, <4>3
      <4> QED BY <4>2, <4>4 DEF Hit
    <3> HIDE DEF a, b
    <3>2. Net(<<a, b>>) = Signed(a) + Signed(b) /\ <<a, b>> \in Seq(Fill)
      BY <1>2, NetOfTwo
    <3> QED BY <1>2, <1>3, <3>1, <3>2 DEF Filled, a, b
  <2> QED BY <1>1, <2>1, <2>2, <2>3, <2>4, <2>5
<1>5. ASSUME NEW side \in Sides
      PROVE  /\ Filled(hits, side) \in 0 .. simulator.orders[side]
             /\ AfterFills(hits)[side] = simulator.orders[side] - Filled(hits, side)
             /\ AfterFills(hits)[side] \in 0 .. MaxOrder
  <2>1. simulator.orders[side] \in 0 .. MaxOrder /\ MaxOrder \in Nat
    BY SizingAssumption DEF LoopTypes
  <2>2. Filled(hits, side) \in 0 .. simulator.orders[side]
    BY <2>1, FillFits DEF Filled
  <2>3. AfterFills(hits)[side] = simulator.orders[side] - Filled(hits, side)
    BY DEF AfterFills, Filled, Hit
  <2> QED BY <2>1, <2>2, <2>3
<1>6. AfterFills(hits) \in [Sides -> 0 .. MaxOrder]
  <2>1. AfterFills(hits) = [side \in Sides |-> AfterFills(hits)[side]]
    BY DEF AfterFills
  <2> QED BY <1>5, <2>1
<1> QED BY <1>4, <1>5, <1>6

-----------------------------------------------------------------------------
(* The steps. *)

LEMMA CheckOnlyKills ==
  ASSUME NEW s \in [pc : Pc, alive : BOOLEAN, killed : BOOLEAN, position : Int], NEW due
  PROVE  /\ AfterCheck(s, due) \in [pc : Pc, alive : BOOLEAN, killed : BOOLEAN, position : Int]
         /\ AfterCheck(s, due).pc = s.pc /\ AfterCheck(s, due).position = s.position
         /\ s.killed => AfterCheck(s, due).killed
BY DEF AfterCheck

(* The steps of the strategy that leave both streams' order, and those of  *)
(* the simulator, as the theorems below see them. *)
LEMMA FillIsTaken ==
  ASSUME LoopTypes, NEW k \in 1 .. PollLimit, NEW due, TakeFill(k, due) \/ IgnoreFill(k, due)
  PROVE  /\ LoopTypes' /\ strategy.pc = "poll" /\ strategy'.pc = "poll"
         /\ (strategy.killed => strategy'.killed) /\ UNCHANGED <<stale, quotes, simulator>>
         /\ ~missed' => /\ ~missed
                        /\ strategy'.position + Net(fills') = strategy.position + Net(fills)
<1>1. k \in Nat /\ k <= Len(fills) /\ fills' = SubSeq(fills, k + 1, Len(fills)) /\ k \in 1 .. Len(fills)
  BY DEF TakeFill, IgnoreFill, PollFills
<1>2. fills' \in Seq(Fill) /\ fills[k] \in Fill /\ Signed(fills[k]) \in Int
  BY <1>1, SignedIsInt DEF LoopTypes
<1>3. UNCHANGED <<stale, quotes, simulator>> /\ strategy.pc = "poll" /\ missed' \in BOOLEAN
  BY DEF TakeFill, IgnoreFill, PollFills, LoopTypes
<1>4. CASE TakeFill(k, due)
  <2> DEFINE s == [strategy EXCEPT !.position = @ + Signed(fills[k])]
  <2>1. strategy' = AfterCheck(s, due) /\ missed' = (missed \/ k > 1)
    BY <1>4 DEF TakeFill
  <2>2. /\ s \in [pc : Pc, alive : BOOLEAN, killed : BOOLEAN, position : Int]
        /\ s.pc = "poll" /\ s.killed = strategy.killed
        /\ s.position = strategy.position + Signed(fills[k])
    <3>1. PICK x \in Int : x = strategy.position + Signed(fills[k])
      BY <1>2 DEF LoopTypes
    <3>2. s = [strategy EXCEPT !.position = x]
      BY <3>1 DEF LoopTypes
    <3>3. strategy \in [pc : Pc, alive : BOOLEAN, killed : BOOLEAN, position : Int]
      BY DEF LoopTypes
    <3> HIDE DEF s
    <3> QED BY <1>3, <3>1, <3>2, <3>3
  <2> HIDE DEF s
  <2>3. /\ strategy' \in [pc : Pc, alive : BOOLEAN, killed : BOOLEAN, position : Int]
        /\ strategy'.pc = "poll" /\ (strategy.killed => strategy'.killed)
        /\ strategy'.position = strategy.position + Signed(fills[k])
    BY <2>1, <2>2, CheckOnlyKills
  <2>4. LoopTypes'
    BY <1>2, <1>3, <2>3 DEF LoopTypes
  <2>5. ASSUME ~missed'
        PROVE  ~missed /\ strategy'.position + Net(fills') = strategy.position + Net(fills)
    <3>1. k = 1 /\ ~missed
      <4>1. ~(k > 1) /\ ~missed
        BY <2>1, <2>5, Zenon
      <4> QED BY <4>1, <1>1
    <3>2. fills = <<fills[1]>> \o fills' /\ fills[1] \in Fill
      BY <1>1, <1>2, <3>1 DEF LoopTypes
    <3>3. Net(fills) = Net(<<fills[1]>>) + Net(fills')
      <4>1. <<fills[1]>> \in Seq(Fill)
        BY <3>2
      <4> QED BY <1>2, <3>2, <4>1, NetOfJoined
    <3>4. Net(<<fills[1]>>) = Signed(fills[1]) /\ Net(fills') \in Int
      BY <1>2, <3>2, NetOfOne, NetIsInt
    <3>5. strategy.position \in Int
      BY DEF LoopTypes
    <3> QED BY <1>2, <2>3, <3>1, <3>3, <3>4, <3>5
  <2> QED BY <1>3, <2>3, <2>4, <2>5
<1>5. CASE IgnoreFill(k, due)
  <2>1. strategy' = AfterCheck(strategy, due) /\ missed' = TRUE
    BY <1>5 DEF IgnoreFill
  <2>2. /\ strategy' \in [pc : Pc, alive : BOOLEAN, killed : BOOLEAN, position : Int]
        /\ strategy'.pc = "poll" /\ (strategy.killed => strategy'.killed)
    BY <1>3, <2>1, CheckOnlyKills DEF LoopTypes
  <2> QED BY <1>2, <1>3, <2>1, <2>2 DEF LoopTypes
<1> QED BY <1>4, <1>5

LEMMA NoFillIsThere ==
  ASSUME LoopTypes, NEW due, NoFill(due)
  PROVE  /\ LoopTypes' /\ fills = <<>> /\ strategy'.position = strategy.position
         /\ (strategy.killed => strategy'.killed)
         /\ UNCHANGED <<stale, quotes, simulator, fills, missed>>
<1> DEFINE s == [strategy EXCEPT !.pc = "receive"]
<1>1. strategy' = AfterCheck(s, due) /\ fills = <<>> /\ UNCHANGED <<stale, quotes, simulator, fills, missed>>
  BY DEF NoFill
<1>2. /\ s \in [pc : Pc, alive : BOOLEAN, killed : BOOLEAN, position : Int]
      /\ s.killed = strategy.killed /\ s.position = strategy.position
  BY DEF LoopTypes, Pc
<1> HIDE DEF s
<1>3. /\ strategy' \in [pc : Pc, alive : BOOLEAN, killed : BOOLEAN, position : Int]
      /\ (strategy.killed => strategy'.killed) /\ strategy'.position = strategy.position
  BY <1>1, <1>2, CheckOnlyKills
<1> QED BY <1>1, <1>3 DEF LoopTypes

LEMMA QuoteIsSent ==
  ASSUME LoopTypes, PublishQuote
  PROVE  /\ LoopTypes' /\ strategy'.pc = "poll" /\ strategy.pc = "receive"
         /\ strategy'.position = strategy.position /\ ~strategy.killed
         /\ UNCHANGED <<stale, simulator, fills, missed>>
         /\ \E drift \in Drift : LET quote == Quote(strategy.position, drift) IN
              /\ Accepted(strategy.position, quote) /\ quotes' = Append(quotes, quote)
              /\ quotes' # <<>> /\ Last(quotes') = quote
<1>1. PICK drift \in Drift :
        /\ MayQuote(strategy.position, Quote(strategy.position, drift))
        /\ quotes' = Append(quotes, Quote(strategy.position, drift))
  BY DEF PublishQuote
<1>2. /\ strategy' = [strategy EXCEPT !.pc = "poll"] /\ strategy.pc = "receive"
      /\ Len(quotes) < QuotesMax /\ UNCHANGED <<stale, simulator, fills, missed>>
  BY DEF PublishQuote
<1>3. strategy.position \in Int /\ Accepted(strategy.position, Quote(strategy.position, drift))
      /\ ~strategy.killed
  BY <1>1 DEF LoopTypes, MayQuote
<1> DEFINE quote == Quote(strategy.position, drift)
<1>4. quote \in Quotes
  BY <1>3, QuoteIsPositive
<1> HIDE DEF quote
<1>5. quotes' \in Seq(Quotes) /\ Len(quotes') <= QuotesMax /\ Last(quotes') = quote /\ quotes' # <<>>
  BY <1>1, <1>2, <1>4, LoopAssumption DEF LoopTypes, quote, Last
<1>6. LoopTypes' /\ strategy'.pc = "poll" /\ strategy'.position = strategy.position
  BY <1>2, <1>5 DEF LoopTypes, Pc
<1> QED BY <1>1, <1>2, <1>3, <1>5, <1>6 DEF quote

LEMMA NoQuoteIsSent ==
  ASSUME LoopTypes, PublishQuoteFails \/ NoQuote
  PROVE  /\ LoopTypes' /\ strategy'.position = strategy.position
         /\ (strategy.killed => strategy'.killed)
         /\ strategy'.pc \in {strategy.pc, "poll"}
         /\ UNCHANGED <<stale, quotes, simulator, fills, missed>>
BY DEF LoopTypes, PublishQuoteFails, NoQuote, Pc

LEMMA QuoteIsTaken ==
  ASSUME LoopTypes, NEW k \in 1 .. PollLimit, TakeQuote(k)
  PROVE  /\ LoopTypes' /\ k = Min({PollLimit, Len(quotes)}) /\ k \in 1 .. Len(quotes)
         /\ simulator'.position = simulator.position
         /\ simulator'.orders = Placed(quotes[k])
         /\ quotes' = SubSeq(quotes, k + 1, Len(quotes))
         /\ Len(quotes') = Len(quotes) - k
         /\ UNCHANGED <<stale, strategy, fills, missed>>
<1>1. /\ k = Min({PollLimit, Len(quotes)}) /\ Len(quotes) > 0 /\ k \in Nat
      /\ quotes' = SubSeq(quotes, k + 1, Len(quotes))
      /\ simulator' = [simulator EXCEPT !.orders = Placed(quotes[k])]
      /\ UNCHANGED <<stale, strategy, fills, missed>>
  BY DEF TakeQuote
<1>2. k <= Len(quotes)
  <2>1. PollLimit \in Nat \ {0} /\ Len(quotes) \in Nat
    BY LoopAssumption DEF LoopTypes
  <2>2. \E x \in {PollLimit, Len(quotes)} : \A y \in {PollLimit, Len(quotes)} : x <= y
    BY <2>1
  <2>3. \A y \in {PollLimit, Len(quotes)} : Min({PollLimit, Len(quotes)}) <= y
    BY <2>2 DEF Min
  <2> QED BY <1>1, <2>3
<1>3. quotes[k] \in Quotes /\ quotes' \in Seq(Quotes) /\ Len(quotes') = Len(quotes) - k
      /\ k \in 1 .. Len(quotes)
  <2>1. quotes \in Seq(Quotes) /\ k \in 1 .. Len(quotes)
    BY <1>1, <1>2 DEF LoopTypes
  <2>2. quotes[k] \in Quotes /\ SubSeq(quotes, k + 1, Len(quotes)) \in Seq(Quotes)
    BY <2>1
  <2>3. Len(SubSeq(quotes, k + 1, Len(quotes))) = Len(quotes) - k
    BY <2>1
  <2> QED BY <1>1, <2>1, <2>2, <2>3
<1>4. Placed(quotes[k]) \in [Sides -> 0 .. MaxOrder]
  BY <1>3, SizingAssumption DEF Placed, Quotes, Sides
<1>5. Len(quotes') <= QuotesMax
  BY <1>3, LoopAssumption DEF LoopTypes
<1>6. LoopTypes'
  BY <1>1, <1>3, <1>4, <1>5 DEF LoopTypes
<1>7. simulator'.position = simulator.position /\ simulator'.orders = Placed(quotes[k])
  BY <1>1 DEF LoopTypes
<1> QED BY <1>1, <1>3, <1>6, <1>7

LEMMA NothingIsTaken ==
  ASSUME LoopTypes, NoNewQuote \/ HeartbeatLate \/ HeartbeatArrives
  PROVE  /\ LoopTypes' /\ simulator'.position = simulator.position
         /\ simulator'.orders = simulator.orders
         /\ UNCHANGED <<strategy, quotes, fills, missed>>
BY DEF LoopTypes, NoNewQuote, HeartbeatLate, HeartbeatArrives, Pc

LEMMA TradeIsMade ==
  ASSUME LoopTypes, NEW hit \in SUBSET Fillable, NEW hits \in SetToSeqs(hit), Trade(hits)
  PROVE  /\ LoopTypes' /\ UNCHANGED <<stale, strategy, quotes, missed>>
         /\ Net(fills') = Net(fills) + Net(Fills(hits))
         /\ simulator'.position = simulator.position + Net(Fills(hits))
         /\ simulator'.orders = AfterFills(hits)
<1> DEFINE made == Fills(hits)
<1>1. made \in Seq(Fill) /\ AfterFills(hits) \in [Sides -> 0 .. MaxOrder] /\ Net(made) \in Int
  BY FillsBalance, NetIsInt
<1>2. /\ simulator' = [simulator EXCEPT !.pc = "poll", !.orders = AfterFills(hits),
                                        !.position = @ + Net(made)]
      /\ fills' = fills \o made /\ UNCHANGED <<stale, strategy, quotes, missed>>
  BY DEF Trade, Execute
<1> HIDE DEF made
<1>3. fills \in Seq(Fill) /\ Net(fills') = Net(fills) + Net(made) /\ fills' \in Seq(Fill)
  BY <1>1, <1>2, NetOfJoined DEF LoopTypes
<1>4. PICK x \in Int : x = simulator.position + Net(made)
  BY <1>1 DEF LoopTypes
<1>5. simulator \in [pc : Pc, alive : BOOLEAN, orders : [Sides -> 0 .. MaxOrder], position : Int]
  BY DEF LoopTypes
<1>6. simulator' = [simulator EXCEPT !.pc = "poll", !.orders = AfterFills(hits), !.position = x]
  BY <1>2, <1>4
<1>7. /\ simulator' \in [pc : Pc, alive : BOOLEAN, orders : [Sides -> 0 .. MaxOrder], position : Int]
      /\ simulator'.position = x /\ simulator'.orders = AfterFills(hits)
  BY <1>1, <1>5, <1>6 DEF Pc
<1>8. LoopTypes'
  BY <1>2, <1>3, <1>7 DEF LoopTypes
<1> QED BY <1>2, <1>3, <1>4, <1>7, <1>8 DEF made

LEMMA TradeIsLost ==
  ASSUME LoopTypes, NEW hit \in SUBSET Fillable, NEW hits \in SetToSeqs(hit),
         NEW n \in 0 .. Len(hits) - 1, TradeFails(hits, n)
  PROVE  LoopTypes' /\ missed' /\ UNCHANGED <<stale, strategy, quotes>>
<1>1. Fills(hits) \in Seq(Fill)
  BY FillsBalance
<1>2. SubSeq(Fills(hits), 1, n) \in Seq(Fill)
  <2>1. hits \in {<<>>, <<"bid">>, <<"ask">>, <<"bid", "ask">>, <<"ask", "bid">>}
    BY HitsAre DEF Fillable
  <2>2. Len(hits) \in Nat /\ DOMAIN hits = 1 .. Len(hits)
    BY <2>1
  <2>3. Len(Fills(hits)) = Len(hits)
    BY <1>1, <2>2 DEF Fills
  <2>4. \A j \in 1 .. n : Fills(hits)[j] \in Fill
    BY <1>1, <2>2, <2>3
  <2>5. n \in Nat /\ n <= Len(hits)
    BY <2>2
  <2> HIDE DEF Fills
  <2> QED BY <1>1, <2>3, <2>4, <2>5
<1>3. /\ simulator' = [simulator EXCEPT !.alive = FALSE, !.orders = NoOrders, !.position = 0]
      /\ fills' = fills \o SubSeq(Fills(hits), 1, n) /\ missed' = TRUE
      /\ UNCHANGED <<stale, strategy, quotes>>
  BY DEF TradeFails
<1>4. fills' \in Seq(Fill)
  BY <1>2, <1>3 DEF LoopTypes
<1>5. NoOrders \in [Sides -> 0 .. MaxOrder]
  BY SizingAssumption DEF NoOrders
<1>6. simulator' \in [pc : Pc, alive : BOOLEAN, orders : [Sides -> 0 .. MaxOrder], position : Int]
  <2>1. simulator \in [pc : Pc, alive : BOOLEAN, orders : [Sides -> 0 .. MaxOrder], position : Int]
    BY DEF LoopTypes
  <2>2. simulator' = [simulator EXCEPT !.alive = FALSE, !.orders = NoOrders, !.position = 0]
    BY <1>3
  <2>3. simulator' = [pc |-> simulator.pc, alive |-> FALSE, orders |-> NoOrders, position |-> 0]
    BY <2>1, <2>2
  <2>4. simulator.pc \in Pc
    BY <2>1
  <2> QED BY <1>5, <2>3, <2>4
<1>7. LoopTypes'
  BY <1>3, <1>4, <1>6 DEF LoopTypes
<1> QED BY <1>3, <1>7

LEMMA StepsOfTheLoop ==
  ASSUME [Next]_vars
  PROVE  \/ HeartbeatLate \/ HeartbeatArrives \/ NoNewQuote
         \/ \E due \in BOOLEAN : NoFill(due)
         \/ \E due \in BOOLEAN, k \in 1 .. PollLimit : TakeFill(k, due) \/ IgnoreFill(k, due)
         \/ PublishQuote \/ PublishQuoteFails \/ NoQuote
         \/ \E k \in 1 .. PollLimit : TakeQuote(k)
         \/ \E hit \in SUBSET Fillable : \E hits \in SetToSeqs(hit) : Trade(hits)
         \/ \E hit \in SUBSET Fillable : \E hits \in SetToSeqs(hit) :
              \E n \in 0 .. Len(hits) - 1 : TradeFails(hits, n)
         \/ UNCHANGED vars
BY Zenon DEF Next, StrategyStep, Poll, SimulatorStep

LEMMA LoopIsTyped == LoopTypes /\ [Next]_vars => LoopTypes'
<1> SUFFICES ASSUME LoopTypes, [Next]_vars PROVE LoopTypes'
  OBVIOUS
<1>1. CASE UNCHANGED vars
  BY <1>1 DEF vars, LoopTypes
<1> QED
  BY <1>1, StepsOfTheLoop, NothingIsTaken, NoFillIsThere, FillIsTaken, QuoteIsSent,
     NoQuoteIsSent, QuoteIsTaken, TradeIsMade, TradeIsLost, Zenon

LEMMA LoopStarts == Init => LoopTypes /\ AccountsAgree
<1>1. Init => LoopTypes
  <2> SUFFICES ASSUME Init PROVE LoopTypes
    OBVIOUS
  <2>1. NoOrders \in [Sides -> 0 .. MaxOrder]
    BY SizingAssumption DEF NoOrders
  <2>2. simulator \in [pc : Pc, alive : BOOLEAN, orders : [Sides -> 0 .. MaxOrder], position : Int]
    BY <2>1 DEF Init, Pc
  <2>3. strategy \in [pc : Pc, alive : BOOLEAN, killed : BOOLEAN, position : Int]
    BY DEF Init, Pc
  <2>4. quotes \in Seq(Quotes) /\ Len(quotes) <= QuotesMax /\ fills \in Seq(Fill)
    BY LoopAssumption DEF Init
  <2>5. missed \in BOOLEAN
    BY DEF Init
  <2> QED BY <2>2, <2>3, <2>4, <2>5 DEF LoopTypes
<1>2. Init => AccountsAgree
  BY NetOfNone DEF Init, AccountsAgree
<1> QED BY <1>1, <1>2

-----------------------------------------------------------------------------
(* However fills are polled, lost and published: as long as none was       *)
(* missed, the strategy's position and the fills on their way make up the  *)
(* simulator's. *)
THEOREM PositionsAgree == Spec => []AccountsAgree
<1>1. LoopTypes /\ AccountsAgree /\ [Next]_vars => AccountsAgree'
  <2> SUFFICES ASSUME LoopTypes, AccountsAgree, [Next]_vars, ~missed'
               PROVE  strategy'.position + Net(fills') = simulator'.position
    BY DEF AccountsAgree
  <2>1. CASE HeartbeatLate \/ HeartbeatArrives \/ NoNewQuote
    BY <2>1, NothingIsTaken DEF AccountsAgree
  <2>2. ASSUME NEW due \in BOOLEAN, NoFill(due)
        PROVE  strategy'.position + Net(fills') = simulator'.position
    BY <2>2, NoFillIsThere DEF AccountsAgree
  <2>3. ASSUME NEW due \in BOOLEAN, NEW k \in 1 .. PollLimit, TakeFill(k, due) \/ IgnoreFill(k, due)
        PROVE  strategy'.position + Net(fills') = simulator'.position
    BY <2>3, FillIsTaken DEF AccountsAgree
  <2>4. CASE PublishQuote \/ PublishQuoteFails \/ NoQuote
    BY <2>4, QuoteIsSent, NoQuoteIsSent DEF AccountsAgree
  <2>5. ASSUME NEW k \in 1 .. PollLimit, TakeQuote(k)
        PROVE  strategy'.position + Net(fills') = simulator'.position
    BY <2>5, QuoteIsTaken DEF AccountsAgree
  <2>6. ASSUME NEW hit \in SUBSET Fillable, NEW hits \in SetToSeqs(hit), Trade(hits)
        PROVE  strategy'.position + Net(fills') = simulator'.position
    <3>1. Net(fills) \in Int /\ Net(Fills(hits)) \in Int /\ strategy.position \in Int
      BY FillsBalance, NetIsInt DEF LoopTypes
    <3>2. /\ ~missed /\ strategy' = strategy
          /\ Net(fills') = Net(fills) + Net(Fills(hits))
          /\ simulator'.position = simulator.position + Net(Fills(hits))
      BY <2>6, TradeIsMade
    <3> QED BY <3>1, <3>2 DEF AccountsAgree
  <2>7. ASSUME NEW hit \in SUBSET Fillable, NEW hits \in SetToSeqs(hit),
               NEW n \in 0 .. Len(hits) - 1, TradeFails(hits, n)
        PROVE  FALSE
    BY <2>7, TradeIsLost
  <2>8. CASE UNCHANGED vars
    BY <2>8 DEF vars, AccountsAgree
  <2> QED BY <2>1, <2>2, <2>3, <2>4, <2>5, <2>6, <2>7, <2>8, StepsOfTheLoop
<1> QED BY <1>1, LoopStarts, LoopIsTyped, PTL DEF Spec

(* The kill switch is final: after it no step puts a quote into the stream *)
(* and none resets it. *)
THEOREM KillIsFinal == Spec => KillStopsQuoting
<1>1. LoopTypes /\ [Next]_vars
      => [strategy.killed => strategy'.killed /\ Len(quotes') <= Len(quotes)]_vars
  <2> SUFFICES ASSUME LoopTypes, [Next]_vars, strategy.killed
               PROVE  strategy'.killed /\ Len(quotes') <= Len(quotes)
    OBVIOUS
  <2>1. Len(quotes) \in Nat
    BY DEF LoopTypes
  <2>2. CASE HeartbeatLate \/ HeartbeatArrives \/ NoNewQuote
    BY <2>1, <2>2, NothingIsTaken
  <2>3. ASSUME NEW due \in BOOLEAN, NoFill(due)
        PROVE  strategy'.killed /\ quotes' = quotes
    BY <2>3, NoFillIsThere
  <2>4. ASSUME NEW due \in BOOLEAN, NEW k \in 1 .. PollLimit, TakeFill(k, due) \/ IgnoreFill(k, due)
        PROVE  strategy'.killed /\ quotes' = quotes
    BY <2>4, FillIsTaken
  <2>5. CASE PublishQuote \/ PublishQuoteFails \/ NoQuote
    BY <2>1, <2>5, QuoteIsSent, NoQuoteIsSent
  <2>6. ASSUME NEW k \in 1 .. PollLimit, TakeQuote(k)
        PROVE  strategy'.killed /\ Len(quotes') <= Len(quotes)
    <3>1. strategy' = strategy /\ Len(quotes') = Len(quotes) - k /\ k \in 1 .. Len(quotes)
      BY <2>6, QuoteIsTaken
    <3> QED BY <2>1, <3>1
  <2>7. ASSUME NEW hit \in SUBSET Fillable, NEW hits \in SetToSeqs(hit),
               \/ Trade(hits)
               \/ \E n \in 0 .. Len(hits) - 1 : TradeFails(hits, n)
        PROVE  strategy' = strategy /\ quotes' = quotes
    BY <2>7, TradeIsMade, TradeIsLost
  <2>8. CASE UNCHANGED vars
    BY <2>1, <2>8 DEF vars
  <2> QED BY <2>1, <2>2, <2>3, <2>4, <2>5, <2>6, <2>7, <2>8, StepsOfTheLoop
<1> QED BY <1>1, LoopStarts, LoopIsTyped, PTL DEF Spec, KillStopsQuoting

(* A step that makes no quote and takes none.                              *)
LEMMA OffersStay ==
  ASSUME LoopTypes, LoopTypes', strategy.killed => strategy'.killed, quotes' = quotes
  PROVE  Quoting!Learn
<1>1. quotes \in Seq(Quotes) /\ strategy'.position \in Int /\ strategy'.killed \in BOOLEAN
  BY DEF LoopTypes
<1>2. 0 \in 0 .. Len(quotes) /\ SubSeq(quotes, 0 + 1, Len(quotes)) = quotes
  BY <1>1
<1> QED BY <1>1, <1>2 DEF Quoting!Learn, Quoting!Without

LEMMA LoopQuotes ==
  ASSUME LoopTypes, LoopTypes', [Next]_vars
  PROVE  Quoting!QuoterNext \/ UNCHANGED <<strategy.position, strategy.killed, quotes>>
<1>1. CASE HeartbeatLate \/ HeartbeatArrives \/ NoNewQuote
  BY <1>1, NothingIsTaken, OffersStay DEF Quoting!QuoterNext
<1>2. ASSUME NEW due \in BOOLEAN, NoFill(due) PROVE Quoting!QuoterNext
  BY <1>2, NoFillIsThere, OffersStay DEF Quoting!QuoterNext
<1>3. ASSUME NEW due \in BOOLEAN, NEW k \in 1 .. PollLimit, TakeFill(k, due) \/ IgnoreFill(k, due)
      PROVE  Quoting!QuoterNext
  BY <1>3, FillIsTaken, OffersStay DEF Quoting!QuoterNext
<1>4. CASE PublishQuote
  <2>1. PICK drift \in Drift :
          /\ Accepted(strategy.position, Quote(strategy.position, drift))
          /\ quotes' = Append(quotes, Quote(strategy.position, drift))
    BY <1>4, QuoteIsSent
  <2>2. /\ ~strategy.killed /\ strategy'.position = strategy.position
        /\ strategy'.killed = strategy.killed /\ strategy.position \in Int
    BY <1>4 DEF PublishQuote, LoopTypes, MayQuote
  <2>3. Quote(strategy.position, drift) \in Allowed[strategy.position]
    BY <2>1, <2>2 DEF Allowed
  <2>4. 0 \in 0 .. Len(quotes) /\ SubSeq(quotes, 0 + 1, Len(quotes)) = quotes
    BY DEF LoopTypes
  <2>5. Quoting!Offer
    BY <2>1, <2>2, <2>3, <2>4 DEF Quoting!Offer, Quoting!Without
  <2> QED BY <2>5 DEF Quoting!QuoterNext
<1>5. CASE PublishQuoteFails \/ NoQuote
  BY <1>5, NoQuoteIsSent, OffersStay DEF Quoting!QuoterNext
<1>6. ASSUME NEW k \in 1 .. PollLimit, TakeQuote(k) PROVE Quoting!QuoterNext
  <2>1. /\ k \in 1 .. Len(quotes) /\ quotes' = SubSeq(quotes, k + 1, Len(quotes))
        /\ strategy' = strategy
    BY <1>6, QuoteIsTaken
  <2>2. strategy.position \in Int /\ strategy.killed \in BOOLEAN /\ Len(quotes) \in Nat
    BY DEF LoopTypes
  <2>3. Quoting!Learn
    BY <2>1, <2>2 DEF Quoting!Learn, Quoting!Without
  <2> QED BY <2>3 DEF Quoting!QuoterNext
<1>7. ASSUME NEW hit \in SUBSET Fillable, NEW hits \in SetToSeqs(hit),
             \/ Trade(hits)
             \/ \E n \in 0 .. Len(hits) - 1 : TradeFails(hits, n)
      PROVE  UNCHANGED <<strategy, quotes>>
  BY <1>7, TradeIsMade, TradeIsLost
<1>8. CASE UNCHANGED vars
  BY <1>8 DEF vars
<1> QED BY <1>1, <1>2, <1>3, <1>4, <1>5, <1>6, <1>7, <1>8, StepsOfTheLoop

(* The strategy of the loop quotes as Quoter says, whatever the polls drop *)
(* and the publications refuse.                                            *)
THEOREM LoopIsQuoter == Spec => ImplementsQuoter
<1>1. Init => Quoting!QuoterInit
  BY DEF Init, Quoting!QuoterInit
<1>2. LoopTypes /\ LoopTypes' /\ [Next]_vars
        => [Quoting!QuoterNext]_<<strategy.position, strategy.killed, quotes>>
  BY LoopQuotes
<1> QED
  BY <1>1, <1>2, LoopStarts, LoopIsTyped, PTL DEF Spec, ImplementsQuoter, Quoting!QuoterSpec

-----------------------------------------------------------------------------
(* The exposure. *)

LEMMA ReachIsInt ==
  ASSUME LoopTypes, NEW side \in Sides
  PROVE  /\ Reach(side) \in Int /\ Toward(side, strategy.position) \in Int
         /\ Toward(side, simulator.position) \in Int
         /\ simulator.orders[side] \in 0 .. MaxOrder /\ MaxOrder \in Nat
         /\ Reach(side) = Toward(side, simulator.position) + simulator.orders[side]
BY SizingAssumption DEF LoopTypes, Reach, Toward

(* A step that does not touch the simulator, the quotes or the strategy's  *)
(* position, and leaves the strategy where it is or polling. *)
LEMMA ExposureUndisturbed ==
  ASSUME ExposureInv, UNCHANGED <<quotes, missed>>, strategy'.pc \in {strategy.pc, "poll"},
         strategy'.position = strategy.position, simulator'.position = simulator.position,
         simulator'.orders = simulator.orders
  PROVE  ExposureInv'
BY DEF ExposureInv, BehindByOrders, QuoteWithin, ReachWithin, Reach, Toward

(* Any number of quotes on their way are taken by one poll. *)
LEMMA LastIsTaken ==
  ASSUME LoopTypes, QuotesMax <= PollLimit, NEW k \in 1 .. PollLimit, TakeQuote(k)
  PROVE  /\ quotes # <<>> /\ quotes' = <<>>
         /\ simulator'.orders = Placed(Last(quotes))
         /\ \A side \in Sides : Placed(Last(quotes))[side] \in 1 .. MaxOrder
<1>1. k = Min({PollLimit, Len(quotes)}) /\ k \in 1 .. Len(quotes)
      /\ simulator'.orders = Placed(quotes[k]) /\ quotes' = SubSeq(quotes, k + 1, Len(quotes))
      /\ Len(quotes') = Len(quotes) - k
  BY QuoteIsTaken
<1>2. Len(quotes) \in Nat /\ Len(quotes) <= PollLimit /\ PollLimit \in Nat
  BY LoopAssumption DEF LoopTypes
<1>3. k = Len(quotes)
  <2>1. \E x \in {PollLimit, Len(quotes)} : \A y \in {PollLimit, Len(quotes)} : x <= y
    BY <1>2
  <2>2. k \in {PollLimit, Len(quotes)} /\ k <= Len(quotes)
    BY <1>1, <2>1 DEF Min
  <2> QED BY <1>2, <2>2
<1>4. quotes # <<>> /\ quotes[k] = Last(quotes) /\ Last(quotes) \in Quotes
  BY <1>1, <1>3 DEF LoopTypes, Last
<1>5. quotes' = <<>>
  <2>1. Len(quotes') = 0
    BY <1>1, <1>2, <1>3
  <2>2. quotes' \in Seq(Quotes)
    BY QuoteIsTaken DEF LoopTypes
  <2> QED BY <2>1, <2>2
<1>6. ASSUME NEW side \in Sides PROVE Placed(Last(quotes))[side] \in 1 .. MaxOrder
  BY <1>4 DEF Placed, Quotes
<1> QED BY <1>1, <1>4, <1>5, <1>6

LEMMA ExposureIsKept ==
  ASSUME 5 * BaseSize <= 2 * MaxPosition, QuotesMax <= PollLimit,
         LoopTypes, LoopTypes', AccountsAgree, ExposureInv, [Next]_vars
  PROVE  ExposureInv'
<1> USE SizingAssumption
<1>1. CASE HeartbeatLate \/ HeartbeatArrives \/ NoNewQuote
  BY <1>1, NothingIsTaken, ExposureUndisturbed
<1>2. ASSUME NEW due \in BOOLEAN, NoFill(due) PROVE ExposureInv'
  <2> SUFFICES ASSUME ~missed, NEW side \in Sides
               PROVE  BehindByOrders(side)' /\ QuoteWithin(side)' /\ ReachWithin(side)'
    BY <1>2, NoFillIsThere DEF ExposureInv
  <2>1. /\ fills = <<>> /\ strategy'.position = strategy.position
        /\ UNCHANGED <<quotes, simulator, fills, missed>>
    BY <1>2, NoFillIsThere
  <2>2. strategy.position = simulator.position
    BY <2>1, NetOfNone DEF AccountsAgree, LoopTypes
  <2>3. Reach(side) <= Toward(side, strategy.position) + MaxOrder
    BY <2>2, ReachIsInt
  <2>4. Reach(side)' = Reach(side) /\ Toward(side, strategy.position)' = Toward(side, strategy.position)
    BY <2>1 DEF Reach, Toward
  <2>5. BehindByOrders(side)'
    <3>1. MaxOrder <= 2 * MaxOrder /\ MaxOrder \in Nat
      OBVIOUS
    <3> QED BY <2>3, <2>4, <3>1, ReachIsInt DEF BehindByOrders
  <2>6. QuoteWithin(side)' /\ ReachWithin(side)'
    BY <2>1, <2>4 DEF ExposureInv, QuoteWithin, ReachWithin
  <2> QED BY <2>5, <2>6
<1>3. ASSUME NEW due \in BOOLEAN, NEW k \in 1 .. PollLimit, TakeFill(k, due) \/ IgnoreFill(k, due)
      PROVE  ExposureInv'
  <2>1. /\ strategy'.pc = "poll" /\ UNCHANGED <<quotes, simulator>> /\ (~missed' => ~missed)
    BY <1>3, FillIsTaken
  <2> QED BY <2>1 DEF ExposureInv, BehindByOrders, QuoteWithin, ReachWithin, Reach
<1>4. CASE PublishQuote
  <2> SUFFICES ASSUME ~missed, NEW side \in Sides
               PROVE  BehindByOrders(side)' /\ QuoteWithin(side)' /\ ReachWithin(side)'
    BY <1>4, QuoteIsSent DEF ExposureInv
  <2>1. PICK drift : LET quote == Quote(strategy.position, drift) IN
           /\ Accepted(strategy.position, quote) /\ quotes' = Append(quotes, quote)
           /\ quotes' # <<>> /\ Last(quotes') = quote
    BY <1>4, QuoteIsSent
  <2>2. /\ strategy'.pc = "poll" /\ strategy.pc = "receive" /\ UNCHANGED <<simulator, missed>>
    BY <1>4, QuoteIsSent
  <2> DEFINE size == Placed(Quote(strategy.position, drift))[side]
  <2>3. strategy.position \in Int /\ Magnitude(strategy.position) <= MaxPosition
    BY <2>1 DEF Accepted, LoopTypes
  <2>4. Toward(side, strategy.position) + size <= MaxPosition
    BY <2>3, QuoteFits
  <2>5. size \in 1 .. MaxOrder
    BY <2>1, <2>3, QuoteIsPositive
  <2>6. Reach(side) <= Toward(side, strategy.position) + 2 * MaxOrder
    <3>1. BehindByOrders(side)
      BY DEF ExposureInv
    <3> QED BY <2>2, <3>1, ReachIsInt DEF BehindByOrders
  <2>7. Placed(Last(quotes'))[side] = size
    BY <2>1
  <2>8. Reach(side)' = Reach(side)
    BY <2>2 DEF Reach, Toward
  <2> HIDE DEF size
  <2>9. QuoteWithin(side)'
    <3>1. Reach(side) + size <= MaxPosition + 2 * MaxOrder
      BY <2>4, <2>5, <2>6, ReachIsInt
    <3> QED BY <2>7, <2>8, <3>1 DEF QuoteWithin
  <2>10. BehindByOrders(side)' /\ ReachWithin(side)'
    BY <2>2, <2>8 DEF ExposureInv, ReachWithin, BehindByOrders
  <2> QED BY <2>9, <2>10
<1>5. CASE PublishQuoteFails \/ NoQuote
  BY <1>5, NoQuoteIsSent, ExposureUndisturbed
<1>6. ASSUME NEW k \in 1 .. PollLimit, TakeQuote(k) PROVE ExposureInv'
  <2> SUFFICES ASSUME ~missed, NEW side \in Sides
               PROVE  BehindByOrders(side)' /\ QuoteWithin(side)' /\ ReachWithin(side)'
    BY <1>6, QuoteIsTaken DEF ExposureInv
  <2> DEFINE size == Placed(Last(quotes))[side]
  <2>1. quotes # <<>> /\ quotes' = <<>> /\ simulator'.orders[side] = size /\ size \in 1 .. MaxOrder
    BY <1>6, LastIsTaken
  <2>2. simulator'.position = simulator.position /\ UNCHANGED <<strategy, missed>>
    BY <1>6, QuoteIsTaken
  <2> HIDE DEF size
  <2>3. Reach(side)' = Toward(side, simulator.position) + size
    BY <2>1, <2>2 DEF Reach, Toward
  <2>4. Reach(side)' <= Reach(side) + size
    BY <2>1, <2>3, ReachIsInt
  <2>5. Toward(side, strategy.position)' = Toward(side, strategy.position)
    BY <2>2 DEF Toward
  <2>6. ReachWithin(side)'
    <3>1. Reach(side) + size <= MaxPosition + 2 * MaxOrder
      BY <2>1 DEF ExposureInv, QuoteWithin, size
    <3>2. Reach(side)' \in Int /\ Reach(side) \in Int
      BY <2>1, <2>3, ReachIsInt
    <3> QED BY <2>1, <2>4, <3>1, <3>2 DEF ReachWithin
  <2>7. BehindByOrders(side)'
    <3> SUFFICES ASSUME strategy.pc = "receive"
                 PROVE  Reach(side)' <= Toward(side, strategy.position) + 2 * MaxOrder
      BY <2>1, <2>2, <2>5 DEF BehindByOrders
    <3>1. Reach(side) <= Toward(side, strategy.position) + MaxOrder
      BY <2>1, ReachIsInt DEF ExposureInv, BehindByOrders
    <3>2. Reach(side)' \in Int /\ Reach(side) \in Int
      BY <2>1, <2>3, ReachIsInt
    <3> QED BY <2>1, <2>4, <3>1, <3>2, ReachIsInt
  <2>8. QuoteWithin(side)'
    BY <2>1 DEF QuoteWithin
  <2> QED BY <2>6, <2>7, <2>8
<1>7. ASSUME NEW hit \in SUBSET Fillable, NEW hits \in SetToSeqs(hit), Trade(hits)
      PROVE  ExposureInv'
  <2> SUFFICES ASSUME ~missed, NEW side \in Sides
               PROVE  BehindByOrders(side)' /\ QuoteWithin(side)' /\ ReachWithin(side)'
    BY <1>7, TradeIsMade DEF ExposureInv
  <2>1. /\ UNCHANGED <<strategy, quotes, missed>>
        /\ simulator'.position = simulator.position + Net(Fills(hits))
        /\ simulator'.orders = AfterFills(hits)
    BY <1>7, TradeIsMade
  <2>2. /\ Net(Fills(hits)) = Filled(hits, "bid") - Filled(hits, "ask")
        /\ Filled(hits, "bid") \in Nat /\ Filled(hits, "ask") \in Nat
        /\ Filled(hits, side) \in 0 .. simulator.orders[side]
        /\ AfterFills(hits)[side] = simulator.orders[side] - Filled(hits, side)
    <3>1. Net(Fills(hits)) = Filled(hits, "bid") - Filled(hits, "ask")
      BY FillsBalance
    <3>2. \A x \in Sides : /\ Filled(hits, x) \in 0 .. simulator.orders[x]
                           /\ AfterFills(hits)[x] = simulator.orders[x] - Filled(hits, x)
      BY FillsBalance
    <3>3. \A x \in Sides : Filled(hits, x) \in Nat
      BY <3>2, ReachIsInt
    <3> QED BY <3>1, <3>2, <3>3 DEF Sides
  <2>3. Reach(side)' = Toward(side, simulator'.position) + simulator'.orders[side]
    BY DEF Reach, Toward
  <2>4. Toward(side, simulator'.position) <= Toward(side, simulator.position) + Filled(hits, side)
    <3>1. simulator.position \in Int
      BY DEF LoopTypes
    <3>2. CASE side = "bid"
      BY <2>1, <2>2, <3>1, <3>2 DEF Toward
    <3>3. CASE side = "ask"
      BY <2>1, <2>2, <3>1, <3>3 DEF Toward
    <3> QED BY <3>2, <3>3 DEF Sides
  <2>5. Reach(side)' <= Reach(side)
    <3>1. Toward(side, simulator'.position) \in Int
      BY <2>1, <2>2 DEF Toward, LoopTypes
    <3> QED BY <2>1, <2>2, <2>3, <2>4, <3>1, ReachIsInt
  <2>6. Reach(side)' \in Int /\ Reach(side) \in Int
    <3>1. Toward(side, simulator'.position) \in Int
      BY <2>1, <2>2 DEF Toward, LoopTypes
    <3> QED BY <2>1, <2>2, <2>3, <3>1, ReachIsInt
  <2>7. ReachWithin(side)'
    BY <2>5, <2>6 DEF ExposureInv, ReachWithin
  <2>8. QuoteWithin(side)'
    <3> SUFFICES ASSUME quotes # <<>>
                 PROVE  Reach(side)' + Placed(Last(quotes))[side] <= MaxPosition + 2 * MaxOrder
      BY <2>1 DEF QuoteWithin
    <3>1. Reach(side) + Placed(Last(quotes))[side] <= MaxPosition + 2 * MaxOrder
      BY DEF ExposureInv, QuoteWithin
    <3>2. Placed(Last(quotes))[side] \in Int
      <4>1. Last(quotes) \in Quotes
        BY DEF LoopTypes, Last
      <4> QED BY <4>1 DEF Quotes, Placed
    <3> QED BY <2>5, <2>6, <3>1, <3>2
  <2>9. BehindByOrders(side)'
    <3> SUFFICES ASSUME strategy.pc = "receive"
                 PROVE  Reach(side)' <= Toward(side, strategy.position)
                                          + (IF quotes = <<>> THEN 2 ELSE 1) * MaxOrder
      BY <2>1 DEF BehindByOrders, Toward
    <3>1. Reach(side) <= Toward(side, strategy.position)
                           + (IF quotes = <<>> THEN 2 ELSE 1) * MaxOrder
      BY DEF ExposureInv, BehindByOrders
    <3>2. Toward(side, strategy.position) + (IF quotes = <<>> THEN 2 ELSE 1) * MaxOrder \in Int
      BY ReachIsInt
    <3> QED BY <2>5, <2>6, <3>1, <3>2
  <2> QED BY <2>7, <2>8, <2>9
<1>8. ASSUME NEW hit \in SUBSET Fillable, NEW hits \in SetToSeqs(hit),
             NEW n \in 0 .. Len(hits) - 1, TradeFails(hits, n)
      PROVE  ExposureInv'
  BY <1>8, TradeIsLost DEF ExposureInv
<1>9. CASE UNCHANGED vars
  BY <1>9, ExposureUndisturbed DEF vars
<1> QED BY <1>1, <1>2, <1>3, <1>4, <1>5, <1>6, <1>7, <1>8, <1>9, StepsOfTheLoop

(* For a base size of at most two fifths of the limit, and as long as one  *)
(* poll takes all the quotes on their way: the simulator's position        *)
(* exceeds the limit by no more than two orders, one that was active when  *)
(* the strategy looked for fills and one that replaced it, even though     *)
(* the strategy sizes its quotes for a position that is out of date. *)
THEOREM ExposureStaysBounded ==
  ASSUME 5 * BaseSize <= 2 * MaxPosition, QuotesMax <= PollLimit
  PROVE  Spec => []ExposureBounded
<1>1. Init => LoopTypes /\ AccountsAgree /\ ExposureInv
  <2> SUFFICES ASSUME Init PROVE ExposureInv
    BY LoopStarts
  <2>1. ASSUME NEW side \in Sides PROVE Reach(side) = 0
    BY DEF Init, Reach, Toward, NoOrders
  <2>2. quotes = <<>> /\ strategy.pc = "poll"
    BY DEF Init
  <2> QED BY <2>1, <2>2, SizingAssumption DEF ExposureInv, BehindByOrders, QuoteWithin, ReachWithin
<1>2. LoopTypes /\ AccountsAgree /\ ExposureInv => ExposureBounded
  <2> SUFFICES ASSUME LoopTypes, ExposureInv, ~missed
               PROVE  Magnitude(simulator.position) <= MaxPosition + 2 * MaxOrder
    BY DEF ExposureBounded
  <2>1. "bid" \in Sides /\ "ask" \in Sides
    BY DEF Sides
  <2>2. \A side \in Sides : Toward(side, simulator.position) <= MaxPosition + 2 * MaxOrder
    <3> SUFFICES ASSUME NEW side \in Sides
                 PROVE  Toward(side, simulator.position) <= MaxPosition + 2 * MaxOrder
      OBVIOUS
    <3>1. Reach(side) <= MaxPosition + 2 * MaxOrder
      BY DEF ExposureInv, ReachWithin
    <3> QED BY <3>1, ReachIsInt, SizingAssumption
  <2>3. simulator.position <= MaxPosition + 2 * MaxOrder
        /\ -simulator.position <= MaxPosition + 2 * MaxOrder
    BY <2>1, <2>2 DEF Toward
  <2> QED BY <2>3 DEF Magnitude
<1>3. LoopTypes /\ AccountsAgree /\ ExposureInv /\ AccountsAgree' /\ [Next]_vars
      => LoopTypes' /\ ExposureInv'
  BY LoopIsTyped, ExposureIsKept
<1> QED BY <1>1, <1>2, <1>3, PositionsAgree, PTL DEF Spec
=============================================================================
