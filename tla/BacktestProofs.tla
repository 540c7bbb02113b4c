---------------------------- MODULE BacktestProofs ----------------------------
(***************************************************************************)
(* The backtest, for any files, fills, prices and number of decimals: the  *)
(* position ledger balances, history is replayed in the order of the files *)
(* and without holes, results are never of part of it, and the figures of  *)
(* the report agree with each other.                                       *)
(***************************************************************************)
EXTENDS Backtest, SumTheorems, FiniteSetTheorems, SequenceTheorems, TLAPS

Ledgers == [quantity : Int, avg : Int, realized : Int]
AnyFill == [side : {"bid", "ask"}, price : Int, qty : Nat]

(* Facts about quotients, with the divisor as a name of its own. *)
LEMMA NaturalQuotient ==
  ASSUME NEW a \in Nat, NEW b \in Nat \ {0}
  PROVE  a \div b \in Nat /\ b * (a \div b) <= a /\ a < b * (a \div b) + b
  OBVIOUS

(* Cutting off loses less than one divisor. *)
LEMMA QuotientLoses ==
  ASSUME NEW a \in Int, NEW b \in Int \ {0}
  PROVE  Quotient(a, b) \in Int /\ Size(b * Quotient(a, b) - a) < Size(b)
<1>1. Size(a) \in Nat /\ Size(b) \in Nat \ {0}
  BY DEF Size
<1> DEFINE d == Size(a) \div Size(b)
<1>2. d \in Nat /\ Size(b) * d <= Size(a) /\ Size(a) < Size(b) * d + Size(b)
  BY <1>1, NaturalQuotient
<1> HIDE DEF d
<1>3. Quotient(a, b) = IF (a < 0) = (b < 0) THEN d ELSE -d
  BY DEF Quotient, d
<1>4. (-b) * d = -(b * d) /\ b * (-d) = -(b * d) /\ b * d \in Int
  BY <1>2
<1> QED BY <1>2, <1>3, <1>4 DEF Size

LEMMA TimesLoses ==
  ASSUME NEW a \in Int, NEW b \in Int
  PROVE  Times(a, b) \in Int /\ Size(Unit * Times(a, b) - a * b) < Unit
<1>1. a * b \in Int /\ Unit \in Int \ {0} /\ Size(Unit) = Unit
  BY UnitAssumption DEF Size
<1> QED BY <1>1, QuotientLoses DEF Times

LEMMA OverLoses ==
  ASSUME NEW a \in Int, NEW b \in Int \ {0}
  PROVE  Over(a, b) \in Int /\ Size(b * Over(a, b) - a * Unit) < Size(b)
<1>1. a * Unit \in Int
  BY UnitAssumption
<1> QED BY <1>1, QuotientLoses DEF Over

(* The balance of a ledger given by its three numbers and what was paid,   *)
(* after a fill of s at price x: each kind of fill moves it by the         *)
(* difference of a product from the one cut off.                           *)
Balance(r, v, q, paid_) == Unit * r - (v * q - paid_)

Upset(b, c, bound) == \E e \in Int : Size(e) <= bound /\ c = b + e

LEMMA OpenBalances ==
  ASSUME NEW r \in Int, NEW v \in Int, NEW x \in Int, NEW s \in Int, NEW m \in Int
  PROVE  Balance(r, x, s, m + x * s) = Balance(r, v, 0, m)
<1>1. x * s \in Int /\ v * 0 = 0 /\ Unit * r \in Int
  BY UnitAssumption
<1> QED BY <1>1 DEF Balance

LEMMA FlipBalances ==
  ASSUME NEW r \in Int, NEW v \in Int, NEW q \in Int, NEW x \in Int, NEW s \in Int,
         NEW m \in Int, NEW t \in Int, t = Times(x - v, q)
  PROVE  Upset(Balance(r, v, q, m), Balance(r + t, x, q + s, m + x * s), 2 * Unit + Size(q + s))
<1>1. t \in Int /\ Size(Unit * t - (x - v) * q) < Unit
  BY TimesLoses
<1>2. /\ Unit * (r + t) = Unit * r + Unit * t
      /\ x * (q + s) = x * q + x * s
      /\ (x - v) * q = x * q - v * q
  BY <1>1, UnitAssumption
<1>3. /\ Unit * r \in Int /\ Unit * t \in Int /\ x * q \in Int /\ x * s \in Int /\ v * q \in Int
  BY <1>1, UnitAssumption
<1> DEFINE e == Unit * t - (x - v) * q
<1>4. e \in Int /\ Size(e) <= 2 * Unit + Size(q + s)
  BY <1>1, <1>2, <1>3, UnitAssumption DEF Size
<1>5. Balance(r + t, x, q + s, m + x * s) = Balance(r, v, q, m) + e
  BY <1>2, <1>3 DEF Balance
<1> HIDE DEF e
<1> QED BY <1>4, <1>5 DEF Upset

LEMMA ReduceBalances ==
  ASSUME NEW r \in Int, NEW v \in Int, NEW q \in Int, NEW x \in Int, NEW s \in Int,
         NEW m \in Int, NEW t \in Int, t = Times(x - v, -s)
  PROVE  Upset(Balance(r, v, q, m), Balance(r + t, v, q + s, m + x * s), 2 * Unit + Size(q + s))
<1>1. t \in Int /\ Size(Unit * t - (x - v) * (-s)) < Unit
  BY TimesLoses
<1>2. /\ Unit * (r + t) = Unit * r + Unit * t
      /\ v * (q + s) = v * q + v * s
      /\ (x - v) * (-s) = v * s - x * s
  BY <1>1, UnitAssumption
<1>3. /\ Unit * r \in Int /\ Unit * t \in Int /\ v * q \in Int /\ v * s \in Int /\ x * s \in Int
  BY <1>1, UnitAssumption
<1> DEFINE e == Unit * t - (x - v) * (-s)
<1>4. e \in Int /\ Size(e) <= 2 * Unit + Size(q + s)
  BY <1>1, <1>2, <1>3, UnitAssumption DEF Size
<1>5. Balance(r + t, v, q + s, m + x * s) = Balance(r, v, q, m) + e
  BY <1>2, <1>3 DEF Balance
<1> HIDE DEF e
<1> QED BY <1>4, <1>5 DEF Upset

LEMMA AddBalances ==
  ASSUME NEW r \in Int, NEW v \in Int, NEW q \in Int, NEW x \in Int, NEW s \in Int,
         NEW m \in Int, q + s # 0
  PROVE  LET w == Over(Times(v, q) + Times(x, s), q + s)
         IN  w \in Int /\ Upset(Balance(r, v, q, m), Balance(r, w, q + s, m + x * s),
                                2 * Unit + Size(q + s))
<1> DEFINE t == Times(v, q)
           u == Times(x, s)
           n == q + s
           w == Over(t + u, n)
           a == n * w - (t + u) * Unit
           b == Unit * t - v * q
           c == Unit * u - x * s
<1>1. t \in Int /\ Size(b) < Unit /\ u \in Int /\ Size(c) < Unit
  BY TimesLoses
<1>2. t + u \in Int /\ n \in Int \ {0}
  BY <1>1
<1> HIDE DEF t, u, n
<1>3. w \in Int /\ Size(a) < Size(n)
  BY <1>2, OverLoses
<1> HIDE DEF w
<1>4. /\ n * w = w * n /\ (t + u) * Unit = Unit * t + Unit * u
      /\ Unit * r \in Int /\ Unit * t \in Int /\ Unit * u \in Int /\ v * q \in Int
      /\ x * s \in Int /\ w * n \in Int
  BY <1>1, <1>2, <1>3, UnitAssumption
<1>5. a \in Int /\ b \in Int /\ c \in Int
  BY <1>4
<1>6. Balance(r, w, n, m + x * s) = Balance(r, v, q, m) + (-a - b - c)
  BY <1>4 DEF Balance
<1> HIDE DEF a, b, c
<1>7. -a - b - c \in Int /\ Size(-a - b - c) <= 2 * Unit + Size(n)
  BY <1>1, <1>2, <1>3, <1>5, UnitAssumption DEF Size
<1>8. Upset(Balance(r, v, q, m), Balance(r, w, n, m + x * s), 2 * Unit + Size(n))
  BY <1>6, <1>7 DEF Upset
<1> QED BY <1>3, <1>8 DEF w, t, u, n

(* A fill of any kind upsets the balance by no more than its rounding. *)
LEMMA FillBalances ==
  ASSUME NEW p \in Ledgers, NEW fill \in AnyFill, NEW m \in Int
  PROVE  /\ ApplyFill(p, fill) \in Ledgers
         /\ Imbalance(ApplyFill(p, fill), m + fill.price * Signed(fill))
              <= Imbalance(p, m) + Rounding(ApplyFill(p, fill))
<1>0. PICK r \in Int, v \in Int, q \in Int : p = [quantity |-> q, avg |-> v, realized |-> r]
  BY DEF Ledgers
<1>1. PICK x \in Int, s \in Int : x = fill.price /\ s = Signed(fill)
  BY DEF AnyFill, Signed
<1>2. Imbalance(p, m) = Size(Balance(r, v, q, m)) /\ Balance(r, v, q, m) \in Int
  BY <1>0, UnitAssumption DEF Imbalance, Balance
<1>3. ASSUME NEW rr \in Int, NEW vv \in Int, NEW qq \in Int,
             ApplyFill(p, fill) = [quantity |-> qq, avg |-> vv, realized |-> rr],
             Upset(Balance(r, v, q, m), Balance(rr, vv, qq, m + x * s), 2 * Unit + Size(qq))
      PROVE  /\ ApplyFill(p, fill) \in Ledgers
             /\ Imbalance(ApplyFill(p, fill), m + x * s)
                  <= Imbalance(p, m) + Rounding(ApplyFill(p, fill))
  <2>1. /\ Imbalance(ApplyFill(p, fill), m + x * s) = Size(Balance(rr, vv, qq, m + x * s))
        /\ Rounding(ApplyFill(p, fill)) = 2 * Unit + Size(qq)
        /\ ApplyFill(p, fill) \in Ledgers
    BY <1>3 DEF Imbalance, Balance, Rounding, Ledgers
  <2>2. PICK e \in Int : /\ Size(e) <= 2 * Unit + Size(qq)
                         /\ Balance(rr, vv, qq, m + x * s) = Balance(r, v, q, m) + e
    BY <1>3 DEF Upset
  <2>3. PICK b \in Int : b = Balance(r, v, q, m)
    BY <1>2
  <2>4. Size(b + e) <= Size(b) + (2 * Unit + Size(qq))
    BY <2>2, UnitAssumption DEF Size
  <2>5. Imbalance(ApplyFill(p, fill), m + x * s) = Size(b + e) /\ Imbalance(p, m) = Size(b)
    BY <1>2, <2>1, <2>2, <2>3
  <2> QED BY <2>1, <2>4, <2>5
<1>4. /\ p.quantity = q /\ p.avg = v /\ p.realized = r /\ q + s \in Int
  BY <1>0
<1>5. CASE q = 0
  <2>1. ApplyFill(p, fill) = [quantity |-> s, avg |-> x, realized |-> r]
    <3>1. ApplyFill(p, fill) = Open(p, fill)
      BY <1>4, <1>5 DEF ApplyFill
    <3>2. Open(p, fill) = [p EXCEPT !.quantity = q + s, !.avg = x]
      BY <1>1, <1>4 DEF Open
    <3>3. q + s = s
      BY <1>5
    <3> QED BY <3>1, <3>2, <3>3, <1>0
  <2>2. Balance(r, x, s, m + x * s) = Balance(r, v, q, m) + 0
    BY <1>2, <1>5, OpenBalances
  <2>3. Size(0) <= 2 * Unit + Size(s)
    BY UnitAssumption DEF Size
  <2>4. Upset(Balance(r, v, q, m), Balance(r, x, s, m + x * s), 2 * Unit + Size(s))
    BY <2>2, <2>3 DEF Upset
  <2> QED BY <1>1, <1>3, <2>1, <2>4
<1>6. CASE q # 0 /\ Long(q) = Long(q + s) /\ Size(q + s) > Size(q)
  <2>1. PICK w : w = Over(Times(v, q) + Times(x, s), q + s)
    OBVIOUS
  <2>2. ApplyFill(p, fill) = [quantity |-> q + s, avg |-> w, realized |-> r]
    <3>1. ApplyFill(p, fill) = Add(p, fill)
      BY <1>1, <1>4, <1>6 DEF ApplyFill
    <3>2. Add(p, fill) = [p EXCEPT !.quantity = q + s, !.avg = w]
      BY <1>1, <1>4, <2>1 DEF Add
    <3> QED BY <3>1, <3>2, <1>0
  <2>3. q + s # 0
    BY <1>6 DEF Size
  <2>4. w \in Int /\ Upset(Balance(r, v, q, m), Balance(r, w, q + s, m + x * s),
                           2 * Unit + Size(q + s))
    BY <2>1, <2>3, AddBalances
  <2> QED BY <1>1, <1>3, <1>4, <2>2, <2>4
<1>7. CASE q # 0 /\ Long(q) # Long(q + s)
  <2>1. PICK t \in Int : t = Times(x - v, q)
    BY TimesLoses
  <2>2. ApplyFill(p, fill) = [quantity |-> q + s, avg |-> x, realized |-> r + t]
    <3>1. ApplyFill(p, fill) = Flip(p, fill)
      BY <1>1, <1>4, <1>7 DEF ApplyFill
    <3>2. Flip(p, fill) = [p EXCEPT !.realized = r + t, !.quantity = q + s, !.avg = x]
      BY <1>1, <1>4, <2>1 DEF Flip
    <3> QED BY <3>1, <3>2, <1>0
  <2>3. Upset(Balance(r, v, q, m), Balance(r + t, x, q + s, m + x * s), 2 * Unit + Size(q + s))
    BY <2>1, FlipBalances
  <2> QED BY <1>1, <1>3, <1>4, <2>2, <2>3
<1>8. CASE q # 0 /\ Long(q) = Long(q + s) /\ ~(Size(q + s) > Size(q))
  <2>1. PICK t \in Int : t = Times(x - v, -s)
    BY TimesLoses
  <2>2. ApplyFill(p, fill) = [quantity |-> q + s, avg |-> v, realized |-> r + t]
    <3>1. ApplyFill(p, fill) = Reduce(p, fill)
      BY <1>1, <1>4, <1>8 DEF ApplyFill
    <3>2. Reduce(p, fill) = [p EXCEPT !.realized = r + t, !.quantity = q + s]
      BY <1>1, <1>4, <2>1 DEF Reduce
    <3> QED BY <3>1, <3>2, <1>0
  <2>3. Upset(Balance(r, v, q, m), Balance(r + t, v, q + s, m + x * s), 2 * Unit + Size(q + s))
    BY <2>1, ReduceBalances
  <2> QED BY <1>1, <1>3, <1>4, <2>2, <2>3
<1> QED BY <1>1, <1>5, <1>6, <1>7, <1>8

(* What the proof needs of the types. *)
Kept ==
  /\ position \in Ledgers /\ paid \in Int /\ slack \in Nat
  /\ fills \in Seq(FillChoices)

LEMMA LedgerStarts == Init => Kept /\ LedgerBalanced
BY UnitAssumption DEF Init, Kept, LedgerBalanced, Ledgers, Flat, Imbalance, Size

LEMMA LedgerGoesOn ==
  ASSUME Kept, LedgerBalanced, [Next]_vars
  PROVE  Kept' /\ LedgerBalanced'
<1>1. ASSUME UNCHANGED collected, fills' \in Seq(FillChoices) PROVE Kept' /\ LedgerBalanced'
  BY <1>1 DEF Kept, LedgerBalanced, collected
<1>2. ASSUME NEW k \in 1 .. PollLimit, CollectFill(k) PROVE Kept' /\ LedgerBalanced'
  <2> DEFINE fill == fills[k]
  <2>1. k \in 1 .. Len(fills) /\ fills \in Seq(FillChoices) /\ Len(fills) \in Nat
    <3>1. k = Min({PollLimit, Len(fills)}) /\ Len(fills) \in Nat /\ PollLimit \in Nat
      BY <1>2, BacktestAssumption DEF CollectFill, Kept
    <3>2. k <= Len(fills)
      BY <3>1 DEF Min
    <3> QED BY <3>1, <3>2 DEF Kept
  <2>2. fill \in FillChoices
    BY <2>1
  <2>3. fill \in [side : {"bid", "ask"}, price : Int, qty : Nat]
    BY <2>2, BacktestAssumption
  <2>4. SubSeq(fills, k + 1, Len(fills)) \in Seq(FillChoices)
    BY <2>1, SubSeqProperties
  <2>5. /\ position' = ApplyFill(position, fill) /\ paid' = paid + fill.price * Signed(fill)
        /\ slack' = slack + Rounding(position')
        /\ fills' = SubSeq(fills, k + 1, Len(fills))
    BY <1>2 DEF CollectFill
  <2> HIDE DEF fill
  <2>6. /\ position' \in Ledgers
        /\ Imbalance(position', paid') <= Imbalance(position, paid) + Rounding(position')
    BY <2>3, <2>5, FillBalances DEF Kept, AnyFill
  <2>7. paid' \in Int
    BY <2>3, <2>5 DEF Kept, Signed
  <2>8. Rounding(position') \in Nat /\ slack' \in Nat
    <3>1. \A p \in Ledgers : Rounding(p) \in Nat
      BY UnitAssumption DEF Rounding, Size, Ledgers
    <3>2. Rounding(position') \in Nat
      BY <2>6, <3>1
    <3>3. slack \in Nat /\ slack' = slack + Rounding(position')
      BY <2>5 DEF Kept
    <3> QED BY <3>2, <3>3
  <2>9. Imbalance(position, paid) \in Int /\ Imbalance(position', paid') \in Int
    <3>1. \A p \in Ledgers, m \in Int : Imbalance(p, m) \in Int
      BY UnitAssumption DEF Imbalance, Size, Ledgers
    <3> QED BY <2>6, <2>7, <3>1 DEF Kept
  <2> HIDE DEF Kept
  <2>10. Imbalance(position', paid') <= slack'
    BY <2>5, <2>6, <2>8, <2>9 DEF Kept, LedgerBalanced
  <2> QED BY <2>4, <2>5, <2>6, <2>7, <2>8, <2>10 DEF Kept, LedgerBalanced
<1>3. ASSUME NEW k \in 1 .. PollLimit, IgnoreFill(k)
      PROVE  fills' \in Seq(FillChoices) /\ UNCHANGED collected
  <2>1. k \in 1 .. Len(fills) /\ fills \in Seq(FillChoices) /\ Len(fills) \in Nat
    <3>1. k = Min({PollLimit, Len(fills)}) /\ Len(fills) \in Nat /\ PollLimit \in Nat
      BY <1>3, BacktestAssumption DEF IgnoreFill, Kept
    <3> QED BY <3>1 DEF Min, Kept
  <2>2. SubSeq(fills, k + 1, Len(fills)) \in Seq(FillChoices)
    BY <2>1, SubSeqProperties
  <2> QED BY <1>3, <2>2 DEF IgnoreFill
<1>4. ASSUME FillArrives PROVE fills' \in Seq(FillChoices) /\ UNCHANGED collected
  BY <1>4 DEF FillArrives, Kept
<1>5. ASSUME ReplayStep \/ PositionArrives \/ CtrlC PROVE UNCHANGED <<fills, collected>>
  BY <1>5 DEF ReplayStep, StartReplay, StartFails, Tick, EndReplay, PublishEvent, PublishFails,
              Sleep, PositionArrives, CtrlC, streams
<1>6. ASSUME Market \/ NoFill \/ NoPosition \/ Check \/ Report PROVE UNCHANGED <<fills, collected>>
  BY <1>6 DEF Market, NoFill, NoPosition, Check, Report, streams
<1>7. ASSUME NEW k \in 1 .. PollLimit, CollectPosition(k) PROVE UNCHANGED <<fills, collected>>
  BY <1>7 DEF CollectPosition
<1>8. ASSUME UNCHANGED vars PROVE UNCHANGED <<fills, collected>>
  BY <1>8 DEF vars, streams
<1>9. ASSUME UNCHANGED <<fills, collected>> PROVE Kept' /\ LedgerBalanced'
  BY <1>9, <1>1 DEF Kept
<1> QED BY <1>1, <1>2, <1>3, <1>4, <1>5, <1>6, <1>7, <1>8, <1>9 DEF Next, MainStep

(* Whatever fills arrive in whatever order, through zero and back, and     *)
(* whichever of them a poll leaves out or main does not understand: the    *)
(* realised profit and the average price account for the money paid, up to *)
(* the rounding of each fill.                                              *)
THEOREM LedgerStaysBalanced == Spec => []LedgerBalanced
BY LedgerStarts, LedgerGoesOn, PTL DEF Spec

-----------------------------------------------------------------------------
(* Loading. *)

(* The rows of two files of up to n rows that lie within the period.       *)
RowsUpTo(n) == [file : {"book", "trade"}, row : 0 .. n, time : 0 .. LastTime]

(* Rows of the files have an order, so some row of each set is the last.   *)
LEMMA OneIsEarlier ==
  ASSUME NEW n \in Nat, NEW e \in RowsUpTo(n), NEW f \in RowsUpTo(n), e # f
  PROVE  Earlier(e, f) \/ Earlier(f, e)
<1>1. e.file # f.file \/ e.row # f.row \/ e.time # f.time
  BY DEF RowsUpTo
<1>2. /\ e.file \in {"book", "trade"} /\ f.file \in {"book", "trade"}
      /\ e.row \in Nat /\ f.row \in Nat /\ e.time \in Nat /\ f.time \in Nat
  BY BacktestAssumption DEF RowsUpTo
<1> QED
  BY <1>1, <1>2 DEF Earlier, LoadedBefore

LEMMA LastExists ==
  ASSUME NEW n \in Nat, NEW S, S \subseteq RowsUpTo(n), S # {}
  PROVE  \E x \in S : \A y \in S : y # x => Earlier(y, x)
<1> DEFINE times == {e.time : e \in S}
<1>1. times \subseteq 0 .. LastTime /\ times # {} /\ LastTime \in Nat
  BY BacktestAssumption DEF RowsUpTo
<1>2. PICK t \in times : \A u \in times : u <= t
  BY <1>1, GreatestExists
<1> DEFINE late == {e \in S : e.time = t}
           last == IF \E e \in late : e.file = "trade"
                   THEN {e \in late : e.file = "trade"} ELSE late
           rows == {e.row : e \in last}
<1>3. late # {} /\ late \subseteq S /\ last # {} /\ last \subseteq late
  BY <1>2
<1>4. rows \subseteq 0 .. n /\ rows # {}
  BY <1>3 DEF RowsUpTo
<1>5. PICK r \in rows : \A q \in rows : q <= r
  BY <1>4, GreatestExists
<1>6. PICK x \in last : x.row = r
  OBVIOUS
<1>7. ASSUME NEW y \in S, y # x PROVE Earlier(y, x)
  <2>1. /\ x \in RowsUpTo(n) /\ y \in RowsUpTo(n) /\ x.time = t /\ x \in late
    BY <1>3, <1>6
  <2>2. y.time <= x.time
    BY <1>2, <2>1
  <2>3. CASE y.time = x.time
    <3>1. y \in late
      BY <2>1, <2>3
    <3>2. y \in last => y.row <= x.row
      BY <1>5, <1>6
    <3>3. y \in last => y.file = x.file
      <4>1. x.file \in {"book", "trade"} /\ y.file \in {"book", "trade"}
        BY <2>1 DEF RowsUpTo
      <4> QED BY <1>6, <3>1, <4>1
    <3>4. y \notin last => y.file = "book" /\ x.file = "trade"
      <4>1. y.file \in {"book", "trade"}
        BY <2>1 DEF RowsUpTo
      <4> QED BY <1>6, <3>1, <4>1
    <3>5. y.row \in Nat /\ x.row \in Nat
      BY <2>1 DEF RowsUpTo
    <3>6. y \in last => y.row # x.row
      BY <2>1, <2>3, <3>3, <1>7 DEF RowsUpTo
    <3> HIDE DEF last, late
    <3> QED BY <2>3, <3>2, <3>3, <3>4, <3>5, <3>6 DEF Earlier, LoadedBefore
  <2>4. CASE y.time # x.time
    <3>1. y.time \in Nat /\ x.time \in Nat
      BY <2>1, BacktestAssumption DEF RowsUpTo
    <3> QED BY <2>2, <2>4, <3>1 DEF Earlier
  <2> QED BY <2>3, <2>4
<1>8. x \in S
  BY <1>3
<1> QED BY <1>7, <1>8

InOrder(s, m) == \A i, j \in 1 .. m : i < j => Earlier(s[i], s[j])
HasOrder(S, m) == \E s \in [1 .. m -> S] : InOrder(s, m)

LEMMA OrderExists ==
  ASSUME NEW n \in Nat, NEW S, S \subseteq RowsUpTo(n), IsFiniteSet(S)
  PROVE  HasOrder(S, Cardinality(S))
<1> DEFINE N == Cardinality(S)
           Sorts(m) == \A T \in SUBSET S : Cardinality(T) = m => HasOrder(T, m)
           G == {m \in 0 .. N : Sorts(m)}
<1>1. N \in Nat
  BY FS_CardinalityType
<1>2. \A T \in SUBSET S : IsFiniteSet(T) /\ Cardinality(T) \in Nat
  BY FS_Subset, FS_CardinalityType
<1> HIDE DEF N
<1>3. 0 \in G
  <2>1. ASSUME NEW T \in SUBSET S, Cardinality(T) = 0 PROVE HasOrder(T, 0)
    <3> DEFINE s == [i \in 1 .. 0 |-> i]
    <3>1. s \in [1 .. 0 -> T]
      OBVIOUS
    <3>2. InOrder(s, 0)
      BY DEF InOrder
    <3> HIDE DEF s
    <3> QED BY <3>1, <3>2 DEF HasOrder
  <2> QED BY <1>1, <2>1
<1>4. ASSUME NEW m \in 1 .. N, m - 1 \in G PROVE m \in G
  <2>1. ASSUME NEW T \in SUBSET S, Cardinality(T) = m PROVE HasOrder(T, m)
    <3>1. T # {}
      BY <2>1, FS_EmptySet
    <3>2. PICK x \in T : \A y \in T : y # x => Earlier(y, x)
      <4>1. T \subseteq RowsUpTo(n)
        OBVIOUS
      <4> QED BY <3>1, <4>1, LastExists
    <3>3. Cardinality(T \ {x}) = m - 1
      BY <1>2, <2>1, FS_RemoveElement
    <3>4. HasOrder(T \ {x}, m - 1)
      <4>1. T \ {x} \in SUBSET S
        OBVIOUS
      <4> QED BY <1>4, <3>3, <4>1
    <3>5. PICK s \in [1 .. m - 1 -> T \ {x}] : InOrder(s, m - 1)
      BY <3>4 DEF HasOrder
    <3> DEFINE r == [i \in 1 .. m |-> IF i = m THEN x ELSE s[i]]
    <3>6. m \in Nat /\ \A i \in 1 .. m : i # m => i \in 1 .. m - 1
      OBVIOUS
    <3>7. r \in [1 .. m -> T]
      BY <3>6
    <3>8. \A i, j \in 1 .. m : i < j => Earlier(r[i], r[j])
      <4> SUFFICES ASSUME NEW i \in 1 .. m, NEW j \in 1 .. m, i < j PROVE Earlier(r[i], r[j])
        OBVIOUS
      <4>1. i \in 1 .. m - 1 /\ r[i] = s[i] /\ s[i] \in T \ {x}
        BY <3>6
      <4>2. CASE j = m
        BY <3>2, <4>1, <4>2
      <4>3. CASE j # m
        <5>1. j \in 1 .. m - 1 /\ r[j] = s[j]
          BY <3>6, <4>3
        <5> QED BY <3>5, <4>1, <5>1 DEF InOrder
      <4> QED BY <4>2, <4>3
    <3> HIDE DEF r
    <3>9. InOrder(r, m)
      BY <3>8 DEF InOrder
    <3> QED BY <3>7, <3>9 DEF HasOrder
  <2>2. m \in 0 .. N
    OBVIOUS
  <2> QED BY <2>1, <2>2
<1> HIDE DEF G
<1>5. N \in G
  <2>1. 0 .. N \subseteq G
    BY <1>1, <1>3, <1>4, CountUp
  <2> QED BY <1>1, <2>1
<1>6. Sorts(N)
  BY <1>5 DEF G
<1> QED BY <1>6 DEF N

(* A file gives finitely many rows. *)
LEMMA RowsAreFinite ==
  ASSUME NEW file, NEW times \in Seq(Nat)
  PROVE  IsFiniteSet(Rows(file, times))
<1> DEFINE f == [i \in DOMAIN times |-> [file |-> file, row |-> i, time |-> times[i]]]
<1>1. f \in Surjection(DOMAIN times, Rows(file, times))
  BY DEF Rows, Surjection
<1>2. DOMAIN times = 1 .. Len(times) /\ 1 \in Int /\ Len(times) \in Int
  OBVIOUS
<1>3. IsFiniteSet(DOMAIN times)
  BY <1>2, FS_Interval
<1> HIDE DEF f
<1> QED BY <1>1, <1>3, FS_Surjection

(* The rows as sorted are a sequence of rows in which none is earlier than *)
(* the one before it. *)
AllRows == [file : {"book", "trade"}, row : Nat, time : Nat]

IsHistory(s) == s \in Seq(AllRows) /\ InOrder(s, Len(s))

LEMMA LoadedIsHistory ==
  ASSUME NEW books \in BookFiles, NEW trades_ \in TradeFiles
  PROVE  IsHistory(Load(books, trades_))
<1> DEFINE S == InPeriod(Rows("book", books)) \cup InPeriod(Rows("trade", trades_))
           m == Cardinality(S)
           Sorted(s) == s \in [1 .. m -> S] /\ \A i, j \in DOMAIN s : i < j => Earlier(s[i], s[j])
           s == Load(books, trades_)
<1>1. books \in Seq(Nat) /\ trades_ \in Seq(Nat)
  BY BacktestAssumption
<1> DEFINE n == Len(books) + Len(trades_)
<1>2. n \in Nat
  BY <1>1
<1>3. S \subseteq RowsUpTo(n)
  <2> SUFFICES ASSUME NEW e \in S PROVE e \in RowsUpTo(n)
    OBVIOUS
  <2>1. ASSUME NEW file \in {"book", "trade"}, NEW times \in Seq(Nat), e \in InPeriod(Rows(file, times)),
               Len(times) <= n
        PROVE  e \in RowsUpTo(n)
    <3>1. PICK i \in DOMAIN times : e = [file |-> file, row |-> i, time |-> times[i]]
      BY <2>1 DEF InPeriod, Rows
    <3>2. i \in 0 .. n
      BY <1>2, <2>1
    <3>3. times[i] \in 0 .. LastTime
      <4>1. times[i] \in Nat /\ times[i] <= LastTime
        BY <2>1, <3>1 DEF InPeriod
      <4> QED BY <4>1, BacktestAssumption
    <3> QED BY <3>1, <3>2, <3>3 DEF RowsUpTo
  <2>2. Len(books) <= n /\ Len(trades_) <= n
    BY <1>1
  <2> HIDE DEF n
  <2> QED BY <1>1, <2>1, <2>2
<1>4. IsFiniteSet(S)
  <2>1. IsFiniteSet(InPeriod(Rows("book", books))) /\ IsFiniteSet(InPeriod(Rows("trade", trades_)))
    BY <1>1, RowsAreFinite, FS_Subset DEF InPeriod
  <2> QED BY <2>1, FS_Union
<1>5. m \in Nat
  BY <1>4, FS_CardinalityType
<1>6. s = CHOOSE x \in [1 .. m -> S] : \A i, j \in DOMAIN x : i < j => Earlier(x[i], x[j])
  BY DEF Load, SortedByTime
<1>7. HasOrder(S, m)
  BY <1>2, <1>3, <1>4, OrderExists
<1> HIDE DEF S, m, n
<1>8. \E x \in [1 .. m -> S] : \A i, j \in DOMAIN x : i < j => Earlier(x[i], x[j])
  BY <1>7 DEF HasOrder, InOrder
<1> HIDE DEF s
<1>9. s \in [1 .. m -> S] /\ \A i, j \in DOMAIN s : i < j => Earlier(s[i], s[j])
  BY <1>6, <1>8
<1>10. S \subseteq AllRows
  BY <1>3, BacktestAssumption DEF RowsUpTo, AllRows
<1>11. s \in Seq(AllRows) /\ Len(s) = m
  BY <1>5, <1>9, <1>10
<1>12. InOrder(s, Len(s))
  BY <1>9, <1>11 DEF InOrder
<1> QED BY <1>11, <1>12 DEF IsHistory, s

-----------------------------------------------------------------------------
(* Replay. *)

Replayed ==
  /\ IsHistory(loaded)
  /\ published \in Seq(AllRows) /\ Len(published) <= Len(loaded)
  /\ published = SubSeq(loaded, 1, Len(published))

(* What is left is what has not been published, until a refusal, which     *)
(* ends the thread; it ends on its own only with nothing left or stopped,  *)
(* and main only after it.                                                 *)
ReplayInv ==
  /\ Replayed /\ "pc" \in DOMAIN replay
  /\ ~refused => events = SubSeq(loaded, Len(published) + 1, Len(loaded))
  /\ refused => replay.pc = "ended"
  /\ replay.pc = "ended" /\ ~refused /\ running => events = <<>>
  /\ main = "ended" => replay.pc = "ended"

LEMMA Suffix ==
  ASSUME NEW s \in Seq(AllRows), NEW n \in Nat, n <= Len(s)
  PROVE  LET left == SubSeq(s, n + 1, Len(s))
         IN  /\ left \in Seq(AllRows) /\ Len(left) = Len(s) - n
             /\ \A i \in 1 .. Len(s) - n : left[i] = s[n + i]
<1> DEFINE left == SubSeq(s, n + 1, Len(s))
<1>1. Len(s) \in Nat /\ DOMAIN s = 1 .. Len(s)
  OBVIOUS
<1>2. \A i \in n + 1 .. Len(s) : i \in 1 .. Len(s)
  BY <1>1
<1>3. /\ left \in Seq(AllRows)
      /\ Len(left) = IF n + 1 <= Len(s) THEN Len(s) - (n + 1) + 1 ELSE 0
      /\ \A i \in 1 .. Len(s) - (n + 1) + 1 : left[i] = s[n + 1 + i - 1]
  BY <1>1, <1>2, SubSeqProperties
<1> HIDE DEF left
<1>4. Len(left) = Len(s) - n
  <2>1. \A l \in Nat : n <= l => l - n = IF n + 1 <= l THEN l - (n + 1) + 1 ELSE 0
    OBVIOUS
  <2>2. Len(s) \in Nat /\ n <= Len(s)
    BY <1>1
  <2> QED BY <1>3, <2>1, <2>2, Zenon
<1>5. \A i \in 1 .. Len(s) - n : left[i] = s[n + i]
  <2> SUFFICES ASSUME NEW i \in 1 .. Len(s) - n PROVE left[i] = s[n + i]
    OBVIOUS
  <2>1. i \in 1 .. Len(s) - (n + 1) + 1 /\ n + 1 + i - 1 = n + i
    BY <1>1
  <2> QED BY <1>3, <2>1
<1> QED BY <1>3, <1>4, <1>5 DEF left

(* The next row moves from one end of the list to the end of the other. *)
LEMMA NextRow ==
  ASSUME NEW s \in Seq(AllRows), NEW n \in Nat, n <= Len(s), SubSeq(s, n + 1, Len(s)) # <<>>
  PROVE  LET left == SubSeq(s, n + 1, Len(s))
             done == SubSeq(s, 1, n)
         IN  /\ n + 1 <= Len(s)
             /\ Append(done, Head(left)) = SubSeq(s, 1, n + 1) /\ Len(SubSeq(s, 1, n + 1)) = n + 1
             /\ Tail(left) = SubSeq(s, n + 2, Len(s)) /\ SubSeq(s, 1, n + 1) \in Seq(AllRows)
<1> DEFINE left == SubSeq(s, n + 1, Len(s))
           done == SubSeq(s, 1, n)
           more == SubSeq(s, 1, n + 1)
<1>1. Len(s) \in Nat /\ DOMAIN s = 1 .. Len(s)
  OBVIOUS
<1>2. n + 1 <= Len(s)
  <2>1. n # Len(s)
    <3>1. n = Len(s) => Len(left) = 0
      BY <1>1, Suffix
    <3>2. left \in Seq(AllRows)
      BY Suffix
    <3> QED BY <3>1, <3>2
  <2>2. \A a, b \in Nat : a <= b /\ a # b => a + 1 <= b
    OBVIOUS
  <2>3. n \in Nat /\ Len(s) \in Nat /\ n <= Len(s)
    BY <1>1
  <2> HIDE DEF left
  <2> QED BY <2>1, <2>2, <2>3, Zenon
<1>3. /\ left \in Seq(AllRows) /\ Len(left) = Len(s) - n
      /\ \A i \in 1 .. Len(s) - n : left[i] = s[n + i]
  BY Suffix
<1>4. /\ done \in Seq(AllRows) /\ Len(done) = n
      /\ \A i \in 1 .. n : done[i] = s[i]
  <2>1. \A i \in 1 .. n : i \in 1 .. Len(s)
    BY <1>1
  <2> QED BY <1>1, <2>1, SubSeqProperties
<1>5. /\ more \in Seq(AllRows) /\ Len(more) = n + 1
      /\ \A i \in 1 .. n + 1 : more[i] = s[i]
  <2>1. \A i \in 1 .. n + 1 : i \in 1 .. Len(s)
    BY <1>1, <1>2
  <2> QED BY <1>1, <2>1, SubSeqProperties
<1>6. LET rest == SubSeq(s, n + 2, Len(s))
      IN  /\ rest \in Seq(AllRows) /\ Len(rest) = Len(s) - (n + 1)
          /\ \A i \in 1 .. Len(s) - (n + 1) : rest[i] = s[n + 1 + i]
  <2>1. n + 1 \in Nat /\ (n + 1) + 1 = n + 2
    OBVIOUS
  <2> QED BY <1>2, <2>1, Suffix
<1> DEFINE rest == SubSeq(s, n + 2, Len(s))
<1> HIDE DEF left, done, more, rest
<1>7. Head(left) = s[n + 1] /\ left # <<>>
  <2>1. 1 \in 1 .. Len(s) - n
    BY <1>1, <1>2
  <2> QED BY <1>3, <2>1
<1>8. Append(done, Head(left)) = more
  <2>1. Append(done, Head(left)) \in Seq(AllRows) /\ Len(Append(done, Head(left))) = n + 1
    BY <1>3, <1>4, <1>7
  <2>2. \A i \in 1 .. n + 1 : Append(done, Head(left))[i] = more[i]
    BY <1>4, <1>5, <1>7
  <2> QED BY <1>5, <2>1, <2>2, SeqEqual
<1>9. Tail(left) = rest
  <2>1. Tail(left) \in Seq(AllRows) /\ Len(Tail(left)) = Len(s) - (n + 1)
    <3>1. Tail(left) \in Seq(AllRows) /\ Len(Tail(left)) = Len(left) - 1
      BY <1>3, <1>7, HeadTailProperties
    <3>2. \A a, b \in Nat : (a - b) - 1 = a - (b + 1)
      OBVIOUS
    <3>3. Len(left) - 1 = Len(s) - (n + 1)
      BY <1>1, <1>3, <3>2
    <3> QED BY <3>1, <3>3
  <2>2. \A i \in 1 .. Len(s) - (n + 1) : Tail(left)[i] = rest[i]
    <3> SUFFICES ASSUME NEW i \in 1 .. Len(s) - (n + 1) PROVE Tail(left)[i] = rest[i]
      OBVIOUS
    <3>1. Tail(left)[i] = left[i + 1]
      BY <1>3, <1>7, <2>1
    <3>2. i + 1 \in 1 .. Len(s) - n /\ n + (i + 1) = n + 1 + i
      BY <1>1, <1>2
    <3> QED BY <1>3, <1>6, <3>1, <3>2 DEF rest
  <2> QED BY <1>6, <2>1, <2>2, SeqEqual DEF rest
<1> QED BY <1>2, <1>5, <1>8, <1>9 DEF left, done, more, rest

LEMMA ReplayStarts == Init => ReplayInv
<1> SUFFICES ASSUME Init PROVE ReplayInv
  OBVIOUS
<1>1. IsHistory(loaded)
  BY LoadedIsHistory DEF Init
<1>2. loaded \in Seq(AllRows) /\ Len(loaded) \in Nat
  BY <1>1 DEF IsHistory
<1>3. /\ published = <<>> /\ events = loaded /\ refused = FALSE
      /\ replay.pc = (IF loaded = <<>> THEN "ended" ELSE "starting") /\ "pc" \in DOMAIN replay
      /\ main = (IF loaded = <<>> THEN "ended" ELSE "market")
  BY DEF Init
<1>4. published = SubSeq(loaded, 1, Len(published)) /\ Len(published) = 0
      /\ published \in Seq(AllRows)
  BY <1>2, <1>3
<1>5. events = SubSeq(loaded, Len(published) + 1, Len(loaded))
  <2>1. SubSeq(loaded, 1, Len(loaded)) = loaded
    BY <1>2
  <2> QED BY <1>3, <1>4, <2>1
<1> QED BY <1>1, <1>2, <1>3, <1>4, <1>5 DEF ReplayInv, Replayed

LEMMA ReplayGoesOn ==
  ASSUME ReplayInv, [Next]_vars
  PROVE  ReplayInv'
<1>1. CASE PublishEvent
  <2>1. /\ replay.pc = "publishing" /\ events # <<>>
        /\ events' = Tail(events) /\ published' = Append(published, Head(events))
        /\ UNCHANGED <<loaded, replay, refused, main>>
    BY <1>1 DEF PublishEvent, Due
  <2> DEFINE n == Len(published)
  <2>2. /\ ~refused /\ loaded \in Seq(AllRows) /\ n \in Nat /\ n <= Len(loaded)
        /\ events = SubSeq(loaded, n + 1, Len(loaded)) /\ published = SubSeq(loaded, 1, n)
    BY <2>1 DEF ReplayInv, Replayed, IsHistory
  <2> HIDE DEF n
  <2>3. /\ n + 1 <= Len(loaded)
        /\ published' = SubSeq(loaded, 1, n + 1) /\ Len(published') = n + 1
        /\ events' = SubSeq(loaded, n + 2, Len(loaded)) /\ published' \in Seq(AllRows)
    BY <2>1, <2>2, NextRow
  <2>4. events' = SubSeq(loaded, Len(published') + 1, Len(loaded))
    <3>1. (n + 1) + 1 = n + 2
      BY <2>2
    <3> QED BY <2>3, <3>1
  <2>5. Replayed'
    BY <2>1, <2>3 DEF ReplayInv, Replayed, IsHistory
  <2>6. main' # "ended" /\ replay'.pc # "ended"
    BY <2>1 DEF ReplayInv
  <2> QED BY <2>1, <2>2, <2>4, <2>5, <2>6 DEF ReplayInv
<1>2. CASE PublishFails
  BY <1>2 DEF PublishFails, ReplayInv, Replayed, IsHistory
<1>3. ASSUME StartReplay \/ Tick \/ Sleep PROVE ReplayInv'
  <2>1. /\ UNCHANGED <<loaded, events, published, refused, running, main>>
        /\ replay.pc # "ended" /\ replay'.pc # "ended" /\ "pc" \in DOMAIN replay'
    <3>1. CASE StartReplay
      BY <3>1 DEF StartReplay
    <3>2. CASE Tick
      BY <3>2 DEF Tick, ReplayInv
    <3>3. CASE Sleep
      BY <3>3 DEF Sleep
    <3> QED BY <1>3, <3>1, <3>2, <3>3
  <2> QED BY <2>1 DEF ReplayInv, Replayed, IsHistory
<1>4. CASE StartFails
  BY <1>4 DEF StartFails, ReplayInv, Replayed, IsHistory
<1>5. CASE EndReplay
  BY <1>5 DEF EndReplay, ReplayInv, Replayed, IsHistory
<1>6. CASE CtrlC
  BY <1>6 DEF CtrlC, replaying, ReplayInv, Replayed, IsHistory
<1>7. CASE Report
  BY <1>7 DEF Report, replaying, ReplayInv, Replayed, IsHistory
<1>8. ASSUME UNCHANGED <<loaded, replaying, running>>, main' = "ended" => main = "ended"
      PROVE  ReplayInv'
  BY <1>8 DEF replaying, ReplayInv, Replayed, IsHistory
<1>9. ASSUME Market \/ NoFill \/ NoPosition \/ Check \/ FillArrives \/ PositionArrives \/ UNCHANGED vars
      PROVE  UNCHANGED <<loaded, replaying, running>> /\ (main' = "ended" => main = "ended")
  BY <1>9 DEF Market, NoFill, NoPosition, Check, FillArrives, PositionArrives, vars
<1>10. ASSUME NEW k \in 1 .. PollLimit, CollectFill(k) \/ IgnoreFill(k) \/ CollectPosition(k)
       PROVE  UNCHANGED <<loaded, replaying, running>> /\ (main' = "ended" => main = "ended")
  BY <1>10, Zenon DEF CollectFill, IgnoreFill, CollectPosition
<1> QED
  BY <1>1, <1>2, <1>3, <1>4, <1>5, <1>6, <1>7, <1>8, <1>9, <1>10 DEF Next, ReplayStep, MainStep

(* publish_event takes the rows in the order they were sorted in, and a    *)
(* refusal ends the thread that would publish another: what the listeners  *)
(* get is history up to some row, for any files and wherever it breaks     *)
(* off.                                                                    *)
THEOREM HistoryIsFollowed == Spec => []ReplayFollowsHistory
<1>1. ReplayInv => ReplayFollowsHistory
  <2> SUFFICES ASSUME ReplayInv, NEW i \in DOMAIN published, NEW j \in DOMAIN published, i < j
               PROVE  /\ published[i].time <= published[j].time
                      /\ published[i].file = published[j].file /\ published[i].time = published[j].time
                           => published[i].row < published[j].row
    BY DEF ReplayFollowsHistory, ReplayInv, Replayed
  <2> DEFINE n == Len(published)
  <2>1. /\ published = SubSeq(loaded, 1, n) /\ n \in Nat /\ n <= Len(loaded)
        /\ loaded \in Seq(AllRows) /\ InOrder(loaded, Len(loaded)) /\ DOMAIN published = 1 .. n
    BY DEF ReplayInv, Replayed, IsHistory
  <2> HIDE DEF n
  <2>2. i \in 1 .. n /\ j \in 1 .. n /\ i \in 1 .. Len(loaded) /\ j \in 1 .. Len(loaded)
    BY <2>1
  <2>3. published[i] = loaded[i] /\ published[j] = loaded[j]
    <3>1. \A k \in 1 .. n : SubSeq(loaded, 1, n)[k] = loaded[k]
      BY <2>1, SubSeqProperties
    <3> QED BY <2>1, <2>2, <3>1
  <2>4. Earlier(loaded[i], loaded[j])
    BY <2>1, <2>2 DEF InOrder
  <2>5. loaded[i].time \in Nat /\ loaded[j].time \in Nat
    <3>1. loaded[i] \in AllRows /\ loaded[j] \in AllRows
      BY <2>1, <2>2
    <3> QED BY <3>1 DEF AllRows
  <2> QED BY <2>3, <2>4, <2>5 DEF Earlier, LoadedBefore
<1> QED BY <1>1, ReplayStarts, ReplayGoesOn, PTL DEF Spec

(* Main joins the replay thread before it computes the metrics, and that   *)
(* thread ends early only with a refusal or a stop, both of which are in   *)
(* the log: results without either are results of the whole history.       *)
THEOREM ResultsStayComplete == Spec => []ResultsAreComplete
<1>1. ReplayInv => ResultsAreComplete
  <2> SUFFICES ASSUME ReplayInv, main = "ended", running, ~refused PROVE published = loaded
    BY DEF ResultsAreComplete
  <2> DEFINE n == Len(published)
  <2>1. /\ n \in Nat /\ n <= Len(loaded) /\ loaded \in Seq(AllRows)
        /\ published = SubSeq(loaded, 1, n)
        /\ SubSeq(loaded, n + 1, Len(loaded)) = <<>>
    BY DEF ReplayInv, Replayed, IsHistory
  <2> HIDE DEF n
  <2>2. n = Len(loaded)
    <3> SUFFICES ASSUME n + 1 <= Len(loaded) PROVE FALSE
      BY <2>1
    <3>1. Len(SubSeq(loaded, n + 1, Len(loaded))) = Len(loaded) - n
      BY <2>1, SubSeqProperties
    <3> QED BY <2>1, <3>1
  <2> QED BY <2>1, <2>2
<1> QED BY <1>1, ReplayStarts, ReplayGoesOn, PTL DEF Spec

-----------------------------------------------------------------------------
(* The profit figures. *)

Gains(profits)  == [i \in DOMAIN profits |-> IF profits[i] > 0 THEN profits[i] ELSE 0]
Losses(profits) == [i \in DOMAIN profits |-> IF profits[i] < 0 THEN -profits[i] ELSE 0]
Net(profits) == Total(Gains(profits)) - Total(Losses(profits))

LEMMA NetOfAppend ==
  ASSUME NEW profits \in Seq(Int), NEW x \in Int
  PROVE  Net(profits) \in Int /\ Net(Append(profits, x)) = Net(profits) + x
<1> DEFINE n == Len(profits)
           all == Append(profits, x)
           g == Gains(profits)
           l == Losses(profits)
           h == Gains(all)
           m == Losses(all)
<1>1. /\ n \in Nat /\ DOMAIN profits = 1 .. n /\ DOMAIN all = 1 .. n + 1 /\ n + 1 \in 1 .. n + 1
      /\ \A k \in 1 .. n : profits[k] \in Int /\ all[k] = profits[k] /\ k \in 1 .. n + 1
      /\ all[n + 1] = x /\ all \in Seq(Int)
  OBVIOUS
<1>2. \A k \in 1 .. n + 1 : all[k] \in Int
  BY <1>1
<1> HIDE DEF n, all
<1>3. /\ g \in [1 .. n -> Int] /\ l \in [1 .. n -> Int]
      /\ h \in [1 .. n + 1 -> Int] /\ m \in [1 .. n + 1 -> Int]
  BY <1>1, <1>2 DEF Gains, Losses
<1>4. \A k \in 1 .. n : h[k] = g[k] /\ m[k] = l[k]
  BY <1>1 DEF Gains, Losses
<1>5. h[n + 1] - m[n + 1] = x /\ h[n + 1] \in Int /\ m[n + 1] \in Int
  BY <1>1 DEF Gains, Losses
<1> HIDE DEF g, l, h, m
<1>6. /\ Total(h) = Total(g) + h[n + 1] /\ Total(g) \in Int
      /\ Total(m) = Total(l) + m[n + 1] /\ Total(l) \in Int
  BY <1>1, <1>3, <1>4, TotalOfAppend
<1>7. \A a, b, c, d \in Int : (a + c) - (b + d) = (a - b) + (c - d)
  OBVIOUS
<1>8. Total(h) - Total(m) = (Total(g) - Total(l)) + x
  BY <1>5, <1>6, <1>7
<1> QED BY <1>6, <1>8 DEF Net, g, l, h, m, all

-----------------------------------------------------------------------------
(* The drawdown. *)

Marks == [peak : Int, fall : Int]
Start == [peak |-> InitialCapital, fall |-> 0]

(* What a sample makes of the highest equity and the deepest fall so far.  *)
Marked(m, e) ==
  [peak |-> Max({m.peak, e}), fall |-> Max({m.fall, Max({m.peak, e}) - e})]

Through(samples) == FoldLeft(Marked, Start, samples)

Below(m, l) == m.peak <= l.peak /\ m.fall <= l.fall

LEMMA MarkedGrows ==
  ASSUME NEW m \in Marks, NEW e \in Int
  PROVE  /\ Marked(m, e) \in Marks
         /\ \A l \in Marks : Below(m, l) => Below(Marked(m, e), Marked(l, e))
         /\ Below(m, Marked(m, e))
<1> SUFFICES ASSUME NEW l \in Marks
             PROVE  /\ Marked(m, e) \in Marks /\ Below(m, Marked(m, e))
                    /\ Below(m, l) => Below(Marked(m, e), Marked(l, e))
  <2>1. m \in Marks
    OBVIOUS
  <2> QED BY <2>1, Zenon
<1> DEFINE p == Max({m.peak, e})
           q == Max({l.peak, e})
           f == Max({m.fall, p - e})
           g == Max({l.fall, q - e})
<1>1. m.peak \in Int /\ m.fall \in Int /\ l.peak \in Int /\ l.fall \in Int
  BY DEF Marks
<1>2. p \in {m.peak, e} /\ m.peak <= p /\ e <= p /\ q \in {l.peak, e} /\ l.peak <= q /\ e <= q
  BY <1>1, MaxOfTwo
<1> HIDE DEF p, q
<1>3. p \in Int /\ q \in Int /\ p - e \in Int /\ q - e \in Int
  BY <1>1, <1>2
<1>4. f \in {m.fall, p - e} /\ m.fall <= f /\ p - e <= f /\ g \in {l.fall, q - e} /\ l.fall <= g /\ q - e <= g
  BY <1>1, <1>3, MaxOfTwo
<1> HIDE DEF f, g
<1>5. Marked(m, e) = [peak |-> p, fall |-> f] /\ Marked(l, e) = [peak |-> q, fall |-> g]
  BY DEF Marked, p, q, f, g
<1>6. f \in Int /\ g \in Int
  BY <1>1, <1>3, <1>4
<1>7. m.peak <= l.peak => p <= q
  BY <1>1, <1>2, <1>3
<1>8. p <= q /\ m.fall <= l.fall => f <= g
  BY <1>1, <1>3, <1>4, <1>6
<1> QED BY <1>2, <1>3, <1>4, <1>5, <1>6, <1>7, <1>8 DEF Below, Marks

(* The marks after each of n samples. *)
Runs(samples, n, r) ==
  /\ r[0] = Start /\ \A k \in 0 .. n : r[k] \in Marks
  /\ \A j, k \in 0 .. n : k = j + 1 => r[k] = Marked(r[j], samples[k])

LEMMA StartIsMarks == Start \in Marks
BY BacktestAssumption DEF Start, Marks

LEMMA ThroughRuns ==
  ASSUME NEW n \in Nat, NEW s \in [1 .. n -> Int]
  PROVE  \E r : Runs(s, n, r) /\ Through(s) = r[n]
<1> DEFINE step == [x \in (1 .. n) \X Marks |-> Marked(x[2], s[x[1]])]
           Chosen(iter) ==
             iter = [S \in SUBSET (1 .. n) |->
                       IF S = {} THEN Start ELSE Marked(iter[S \ {Max(S)}], s[Max(S)])]
           chosen == CHOOSE x : Chosen(x)
<1>1. IsStep(step, n, Marks)
  BY MarkedGrows DEF IsStep
<1>2. PICK g : IsFold(g, n, Marks, Start, step)
  BY <1>1, StartIsMarks, FoldExists
<1>3. ASSUME NEW S \in SUBSET (1 .. n)
      PROVE  g[S] = IF S = {} THEN Start ELSE Marked(g[S \ {Max(S)}], s[Max(S)])
  <2>1. CASE S = {}
    BY <1>2, <2>1 DEF IsFold
  <2>2. CASE S # {}
    <3>1. S \subseteq 0 .. n
      OBVIOUS
    <3>2. Max(S) \in 1 .. n
      BY <2>2, <3>1, GreatestIsMax
    <3>3. g[S \ {Max(S)}] \in Marks
      BY <1>2 DEF IsFold
    <3>4. step[<<Max(S), g[S \ {Max(S)}]>>] = Marked(g[S \ {Max(S)}], s[Max(S)])
      BY <3>2, <3>3
    <3> QED BY <1>2, <2>2, <3>4 DEF IsFold
  <2> QED BY <2>1, <2>2
<1> HIDE DEF step
<1>4. Chosen(g)
  BY <1>2, <1>3 DEF IsFold
<1>5. Chosen(chosen)
  <2> HIDE DEF Chosen
  <2> QED BY <1>4
<1>6. Through(s) = (CHOOSE iter : iter = [S \in SUBSET DOMAIN s |->
                      IF S = {} THEN Start ELSE Marked(iter[S \ {Max(S)}], s[Max(S)])])[DOMAIN s]
  BY DEF Through, FoldLeft, MapThenFoldSet
<1>7. Through(s) = chosen[1 .. n]
  BY <1>6
<1> HIDE DEF chosen
<1> DEFINE r == [k \in 0 .. n |-> chosen[1 .. k]]
<1>8. chosen[1 .. 0] = Start
  <2>1. 1 .. 0 = {} /\ {} \in SUBSET (1 .. n)
    OBVIOUS
  <2> QED BY <1>5, <2>1
<1>9. ASSUME NEW j \in 0 .. n, NEW k \in 0 .. n, k = j + 1
      PROVE  chosen[1 .. k] = Marked(chosen[1 .. j], s[k])
  <2>1. k \in 1 .. n /\ 1 .. k \in SUBSET (1 .. n) /\ 1 .. k # {} /\ k - 1 = j
    BY <1>9
  <2>2. Max(1 .. k) = k /\ (1 .. k) \ {k} = 1 .. j
    BY <2>1, MaxOfInterval
  <2>3. chosen[1 .. k] = Marked(chosen[(1 .. k) \ {Max(1 .. k)}], s[Max(1 .. k)])
    BY <1>5, <2>1
  <2> QED BY <2>2, <2>3
<1> HIDE DEF Chosen
<1>10. r[0] = Start /\ \A j, k \in 0 .. n : k = j + 1 => r[k] = Marked(r[j], s[k])
  BY <1>8, <1>9
<1>11. r[n] = Through(s)
  BY <1>7
<1> HIDE DEF r
<1> DEFINE G == {k \in 0 .. n : r[k] \in Marks}
<1>12. 0 \in G
  BY <1>10, StartIsMarks
<1>13. ASSUME NEW k \in 1 .. n, k - 1 \in G PROVE k \in G
  <2>1. k - 1 \in 0 .. n /\ k \in 0 .. n /\ k = (k - 1) + 1
    OBVIOUS
  <2>2. r[k] = Marked(r[k - 1], s[k]) /\ r[k - 1] \in Marks /\ s[k] \in Int
    BY <1>10, <1>13, <2>1
  <2> QED BY <2>1, <2>2, MarkedGrows
<1> HIDE DEF G
<1>14. 0 .. n \subseteq G
  BY <1>12, <1>13, CountUp
<1> QED BY <1>10, <1>11, <1>14 DEF G, Runs

(* The same samples leave the same marks. *)
LEMMA RunsAgree ==
  ASSUME NEW n \in Nat, NEW m \in Nat, n <= m, NEW s, NEW u, NEW r, NEW q,
         Runs(s, n, r), Runs(u, m, q), \A k \in 1 .. n : s[k] = u[k]
  PROVE  r[n] = q[n]
<1> DEFINE G == {k \in 0 .. n : r[k] = q[k]}
<1>1. 0 \in G
  BY DEF Runs
<1>2. ASSUME NEW k \in 1 .. n, k - 1 \in G PROVE k \in G
  <2>1. k - 1 \in 0 .. n /\ k \in 0 .. n /\ k = (k - 1) + 1 /\ k - 1 \in 0 .. m /\ k \in 0 .. m
    OBVIOUS
  <2>2. r[k] = Marked(r[k - 1], s[k]) /\ q[k] = Marked(q[k - 1], u[k])
    BY <2>1 DEF Runs
  <2> QED BY <1>2, <2>1, <2>2
<1>3. n \in 0 .. n
  OBVIOUS
<1> HIDE DEF G
<1>4. 0 .. n \subseteq G
  BY <1>1, <1>2, CountUp
<1> QED BY <1>3, <1>4 DEF G

(* The first sample can only raise the marks of those after it. *)
LEMMA RunsFall ==
  ASSUME NEW n \in Nat, NEW s \in [1 .. n + 1 -> Int], NEW u, NEW r, NEW q,
         Runs(s, n + 1, r), Runs(u, n, q), \A k \in 1 .. n : u[k] = s[k + 1]
  PROVE  Below(q[n], r[n + 1])
<1> DEFINE G == {k \in 0 .. n : Below(q[k], r[k + 1])}
<1>1. 0 \in G
  <2>1. 0 \in 0 .. n + 1 /\ 1 \in 0 .. n + 1 /\ 1 = 0 + 1 /\ 1 \in 1 .. n + 1
    OBVIOUS
  <2>2. r[1] = Marked(r[0], s[1]) /\ r[0] = Start /\ q[0] = Start
    BY <2>1 DEF Runs
  <2>3. s[1] \in Int
    BY <2>1
  <2>4. Below(Start, Marked(Start, s[1]))
    BY <2>3, StartIsMarks, MarkedGrows
  <2> QED BY <2>1, <2>2, <2>4
<1>2. ASSUME NEW k \in 1 .. n, k - 1 \in G PROVE k \in G
  <2> DEFINE j == k - 1
             i == k + 1
  <2>1. /\ j \in 0 .. n /\ k \in 0 .. n /\ k = j + 1
        /\ k \in 0 .. n + 1 /\ i \in 0 .. n + 1 /\ i = k + 1 /\ i \in 1 .. n + 1
    OBVIOUS
  <2>2. Below(q[j], r[k])
    BY <1>2, <2>1
  <2> HIDE DEF i, j
  <2>3. q[k] = Marked(q[j], u[k]) /\ r[i] = Marked(r[k], s[i])
    BY <2>1 DEF Runs
  <2>4. q[j] \in Marks /\ r[k] \in Marks /\ s[i] \in Int /\ u[k] = s[i]
    BY <2>1 DEF Runs
  <2>5. Below(q[k], r[i])
    BY <2>2, <2>3, <2>4, MarkedGrows
  <2> QED BY <2>1, <2>5
<1>3. n \in 0 .. n
  OBVIOUS
<1> HIDE DEF G
<1>4. 0 .. n \subseteq G
  BY <1>1, <1>2, CountUp
<1> QED BY <1>3, <1>4 DEF G

LEMMA ThroughAppend ==
  ASSUME NEW s \in Seq(Int), NEW e \in Int
  PROVE  Through(s) \in Marks /\ Through(Append(s, e)) = Marked(Through(s), e)
<1> DEFINE n == Len(s)
           all == Append(s, e)
           m == n + 1
<1>1. /\ n \in Nat /\ s \in [1 .. n -> Int] /\ all \in [1 .. m -> Int] /\ all[m] = e
      /\ \A k \in 1 .. n : s[k] = all[k]
  <2>1. /\ n \in Nat /\ DOMAIN s = 1 .. n /\ DOMAIN all = 1 .. n + 1 /\ n + 1 \in 1 .. n + 1
        /\ \A k \in 1 .. n : s[k] \in Int /\ all[k] = s[k]
        /\ all[n + 1] = e /\ all \in Seq(Int)
    OBVIOUS
  <2>2. /\ s \in [1 .. Len(s) -> Int] /\ all \in [1 .. Len(all) -> Int]
        /\ Len(all) = Len(s) + 1
    <3>1. \A t \in Seq(Int) : t \in [1 .. Len(t) -> Int]
      OBVIOUS
    <3>2. Len(all) = Len(s) + 1
      OBVIOUS
    <3> QED BY <2>1, <3>1, <3>2
  <2> QED BY <2>1, <2>2
<1>2. m \in Nat /\ n <= m /\ n \in 0 .. n /\ n \in 0 .. m /\ m \in 0 .. m
  BY <1>1
<1>3. m = n + 1
  OBVIOUS
<1> HIDE DEF n, all, m
<1>4. PICK r : Runs(s, n, r) /\ Through(s) = r[n]
  BY <1>1, ThroughRuns
<1>5. PICK q : Runs(all, m, q) /\ Through(all) = q[m]
  BY <1>1, <1>2, ThroughRuns
<1>6. r[n] = q[n]
  BY <1>1, <1>2, <1>4, <1>5, RunsAgree
<1>7. q[m] = Marked(q[n], all[m])
  BY <1>2, <1>3, <1>5 DEF Runs
<1>8. r[n] \in Marks
  BY <1>2, <1>4 DEF Runs
<1> QED BY <1>1, <1>4, <1>5, <1>6, <1>7, <1>8 DEF all

LEMMA ThroughTail ==
  ASSUME NEW s \in Seq(Int), s # <<>>
  PROVE  Through(Tail(s)) \in Marks /\ Below(Through(Tail(s)), Through(s))
<1> DEFINE n == Len(s) - 1
           rest == Tail(s)
<1>1. rest \in Seq(Int) /\ Len(rest) = n /\ \A k \in 1 .. n : rest[k] = s[k + 1]
  BY HeadTailProperties
<1>2. n \in Nat /\ Len(s) = n + 1
  BY <1>1
<1> HIDE DEF n, rest
<1>3. s \in [1 .. n + 1 -> Int] /\ rest \in [1 .. n -> Int]
  BY <1>1, <1>2
<1>4. PICK r : Runs(s, n + 1, r) /\ Through(s) = r[n + 1]
  BY <1>2, <1>3, ThroughRuns
<1>5. PICK q : Runs(rest, n, q) /\ Through(rest) = q[n]
  BY <1>2, <1>3, ThroughRuns
<1>6. Below(q[n], r[n + 1])
  BY <1>1, <1>2, <1>3, <1>4, <1>5, RunsFall
<1>7. q[n] \in Marks
  BY <1>2, <1>5 DEF Runs
<1> QED BY <1>4, <1>5, <1>6, <1>7 DEF rest

-----------------------------------------------------------------------------
(* The report. *)

LEMMA DrawdownIsThrough == MaxDrawdown = Through(equity).fall
BY DEF MaxDrawdown, Through, Start, Marked, FoldLeft, MapThenFoldSet

(* The samples kept are the latest ones reported; as long as all are kept  *)
(* they leave the marks of all. *)
ReportInv ==
  /\ trades \in Seq(Int) /\ Net(trades) = position.realized
  /\ positions \in Seq(Int) /\ equity \in Seq(Int)
  /\ low \in [seen : Nat, peak : Int, fall : Int]
  /\ Len(equity) <= SamplesMax /\ Len(equity) <= low.seen
  /\ Below(Through(equity), low)
  /\ Len(equity) = low.seen => Below(low, Through(equity))

LEMMA ReportStarts == Init => ReportInv
<1> SUFFICES ASSUME Init PROVE ReportInv
  OBVIOUS
<1>1. /\ trades = <<>> /\ position = Flat /\ positions = <<>> /\ equity = <<>>
      /\ low = [seen |-> 0, peak |-> InitialCapital, fall |-> 0]
  BY DEF Init
<1> DEFINE none == [i \in 1 .. 0 |-> 0]
<1>2. none \in [1 .. 0 -> Int] /\ <<>> = none /\ 0 \in Nat
  OBVIOUS
<1>3. Net(<<>>) = 0
  <2>1. Gains(none) = none /\ Losses(none) = none
    BY DEF Gains, Losses
  <2> HIDE DEF none
  <2>2. Total(none) = 0
    <3>1. Total(none) = SumTo(none, 0)
      BY <1>2, TotalIsSum
    <3> QED BY <3>1, SumOfNone
  <2> QED BY <1>2, <2>1, <2>2 DEF Net
<1>4. Through(<<>>) = Start
  <2> HIDE DEF none
  <2>1. PICK r : Runs(none, 0, r) /\ Through(none) = r[0]
    BY <1>2, ThroughRuns
  <2> QED BY <1>2, <2>1 DEF Runs
<1>5. Below(Start, low) /\ Below(low, Start)
  BY <1>1, BacktestAssumption DEF Below, Start
<1> HIDE DEF none
<1>6. <<>> \in Seq(Int) /\ Len(<<>>) = 0
  OBVIOUS
<1>7. low \in [seen : Nat, peak : Int, fall : Int] /\ low.seen = 0
  BY <1>1, BacktestAssumption
<1>8. 0 <= SamplesMax /\ 0 <= 0
  BY BacktestAssumption
<1>9. position.realized = 0
  BY <1>1 DEF Flat
<1> QED BY <1>1, <1>3, <1>4, <1>5, <1>6, <1>7, <1>8, <1>9 DEF ReportInv

(* A sample is added to what is kept, and the oldest may have to leave. *)
LEMMA SampleIsMarked ==
  ASSUME ReportInv, NEW k \in 1 .. PollLimit, CollectPosition(k)
  PROVE  ReportInv'
<1> DEFINE e == positions[k]
           longer == Append(equity, e)
           l == [peak |-> low.peak, fall |-> low.fall]
           t == Through(equity)
<1>1. k \in 1 .. Len(positions) /\ positions \in Seq(Int) /\ Len(positions) \in Nat
  <2>1. k = Min({PollLimit, Len(positions)}) /\ Len(positions) \in Nat /\ PollLimit \in Nat
    BY BacktestAssumption DEF CollectPosition, ReportInv
  <2>2. k <= Len(positions)
    BY <2>1, MinOfTwo
  <2> QED BY <2>1, <2>2 DEF ReportInv
<1>2. e \in Int
  BY <1>1
<1>3. positions' \in Seq(Int)
  <2>1. positions' = SubSeq(positions, k + 1, Len(positions))
    BY DEF CollectPosition
  <2> QED BY <1>1, <2>1, SubSeqProperties
<1>4. /\ equity' = (IF Len(longer) > SamplesMax THEN Tail(longer) ELSE longer)
      /\ low' = [seen |-> low.seen + 1, peak |-> Marked(l, e).peak, fall |-> Marked(l, e).fall]
      /\ UNCHANGED <<trades, position>>
  BY DEF CollectPosition, Sampled, Marked, collected
<1> HIDE DEF e
<1>5. /\ equity \in Seq(Int) /\ Len(equity) \in Nat /\ SamplesMax \in Nat \ {0}
      /\ low.seen \in Nat /\ Len(equity) <= SamplesMax /\ Len(equity) <= low.seen
  BY BacktestAssumption DEF ReportInv
<1>6. l \in Marks /\ t \in Marks /\ Below(t, l) /\ (Len(equity) = low.seen => Below(l, t))
  BY <1>2, <1>5, ThroughAppend DEF ReportInv, Marks, Below
<1> HIDE DEF l, t
<1>7. /\ Marked(l, e) \in Marks /\ Marked(t, e) \in Marks
      /\ Below(Marked(t, e), Marked(l, e))
      /\ Len(equity) = low.seen => Below(Marked(l, e), Marked(t, e))
  BY <1>2, <1>6, MarkedGrows
<1>8. /\ longer \in Seq(Int) /\ Len(longer) = Len(equity) + 1 /\ longer # <<>>
      /\ Through(longer) = Marked(t, e)
  BY <1>2, <1>5, ThroughAppend DEF t
<1> HIDE DEF longer
<1>9. /\ equity' \in Seq(Int) /\ Below(Through(equity'), Marked(l, e))
      /\ Len(equity') <= SamplesMax /\ Len(equity') <= low.seen + 1
      /\ Len(equity') = low.seen + 1 => Below(Marked(l, e), Through(equity'))
  <2>1. CASE Len(longer) > SamplesMax
    <3>1. equity' = Tail(longer) /\ Tail(longer) \in Seq(Int) /\ Len(Tail(longer)) = Len(longer) - 1
      BY <1>4, <1>8, <2>1, HeadTailProperties
    <3>2. Through(equity') \in Marks /\ Below(Through(equity'), Marked(t, e))
      BY <1>8, <3>1, ThroughTail
    <3>3. Below(Through(equity'), Marked(l, e))
      BY <1>7, <3>2 DEF Below, Marks
    <3>4. Len(equity') = Len(equity)
      BY <1>5, <1>8, <3>1
    <3> QED BY <1>5, <3>1, <3>3, <3>4
  <2>2. CASE ~(Len(longer) > SamplesMax)
    <3>1. equity' = longer
      BY <1>4, <2>2
    <3> QED BY <1>5, <1>7, <1>8, <2>2, <3>1
  <2> QED BY <2>1, <2>2
<1>10. /\ low' \in [seen : Nat, peak : Int, fall : Int] /\ low'.seen = low.seen + 1
       /\ low'.peak = Marked(l, e).peak /\ low'.fall = Marked(l, e).fall
  BY <1>4, <1>5, <1>7 DEF Marks
<1>11. /\ Below(Through(equity'), low')
       /\ Len(equity') = low'.seen => Below(low', Through(equity'))
  BY <1>9, <1>10 DEF Below
<1>12. trades' \in Seq(Int) /\ Net(trades)' = position'.realized
  <2>1. trades \in Seq(Int) /\ Net(trades) = position.realized
    BY DEF ReportInv
  <2> QED BY <1>4, <2>1 DEF Net
<1> QED BY <1>3, <1>9, <1>10, <1>11, <1>12 DEF ReportInv

LEMMA ReportGoesOn ==
  ASSUME Kept, Kept', ReportInv, [Next]_vars
  PROVE  ReportInv'
<1>1. ASSUME NEW k \in 1 .. PollLimit, CollectFill(k) PROVE ReportInv'
  <2> DEFINE x == position'.realized - position.realized
  <2>1. position.realized \in Int /\ position'.realized \in Int
    BY DEF Kept, Ledgers
  <2>2. x \in Int
    BY <2>1
  <2>3. trades' = Append(trades, x) /\ UNCHANGED <<positions, equity, low>>
    BY <1>1 DEF CollectFill, sampled
  <2> HIDE DEF x
  <2>4. trades \in Seq(Int) /\ Net(trades) = position.realized
    BY DEF ReportInv
  <2>5. trades' \in Seq(Int) /\ Net(trades') = Net(trades) + x
    BY <2>2, <2>3, <2>4, NetOfAppend
  <2>6. Net(trades') = position'.realized
    BY <2>1, <2>4, <2>5 DEF x
  <2> QED BY <2>3, <2>5, <2>6 DEF ReportInv, Below
<1>2. ASSUME NEW k \in 1 .. PollLimit, CollectPosition(k) PROVE ReportInv'
  BY <1>2, SampleIsMarked
<1>3. CASE PositionArrives
  <2>1. PICK total \in EquityChoices : positions' = Append(positions, InitialCapital + total)
    BY <1>3 DEF PositionArrives
  <2>2. InitialCapital + total \in Int
    BY BacktestAssumption
  <2>3. UNCHANGED <<trades, position, equity, low>>
    BY <1>3 DEF PositionArrives, collected, sampled
  <2>4. positions' \in Seq(Int)
    BY <2>1, <2>2 DEF ReportInv
  <2> QED BY <2>3, <2>4 DEF ReportInv, Below
<1>4. ASSUME UNCHANGED <<positions, trades, position, equity, low>> PROVE ReportInv'
  BY <1>4 DEF ReportInv, Below
<1>5. ASSUME NEW k \in 1 .. PollLimit, IgnoreFill(k)
      PROVE  UNCHANGED <<positions, trades, position, equity, low>>
  BY <1>5, Zenon DEF IgnoreFill, collected, sampled
<1>6. ASSUME ReplayStep \/ FillArrives \/ CtrlC
      PROVE  UNCHANGED <<positions, trades, position, equity, low>>
  BY <1>6 DEF ReplayStep, StartReplay, StartFails, Tick, EndReplay, PublishEvent, PublishFails,
              Sleep, FillArrives, CtrlC, streams, collected, sampled
<1>7. ASSUME Market \/ NoFill \/ NoPosition \/ Check \/ Report \/ UNCHANGED vars
      PROVE  UNCHANGED <<positions, trades, position, equity, low>>
  BY <1>7 DEF Market, NoFill, NoPosition, Check, Report, vars, streams, collected, sampled
<1> QED BY <1>1, <1>2, <1>3, <1>4, <1>5, <1>6, <1>7 DEF Next, MainStep

(* The gross profit and the gross loss that the profit factor divides add  *)
(* up to the realised profit; and the window of samples, however often its *)
(* oldest sample has been dropped and although its peak starts from the    *)
(* initial capital again, never yields a drawdown that did not happen.     *)
THEOREM ReportStaysReal == Spec => []ReportIsReal
<1>1. Init => Kept /\ LedgerBalanced /\ ReportInv
  BY LedgerStarts, ReportStarts
<1>2. Kept /\ LedgerBalanced /\ ReportInv /\ [Next]_vars => Kept' /\ LedgerBalanced' /\ ReportInv'
  BY LedgerGoesOn, ReportGoesOn
<1>3. ReportInv => ReportIsReal
  <2> SUFFICES ASSUME ReportInv PROVE ReportIsReal
    OBVIOUS
  <2>1. MaxDrawdown = Through(equity).fall
    BY DrawdownIsThrough
  <2>2. Through(equity) \in Marks
    <3>1. equity \in Seq(Int) /\ 0 \in Int
      BY DEF ReportInv
    <3> QED BY <3>1, ThroughAppend
  <2>3. GrossProfit - GrossLoss = Net(trades)
    BY DEF GrossProfit, GrossLoss, Net, Gains, Losses
  <2> QED BY <2>1, <2>2, <2>3 DEF ReportInv, ReportIsReal, Below, Marks
<1> QED BY <1>1, <1>2, <1>3, PTL DEF Spec
=============================================================================
