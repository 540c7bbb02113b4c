----------------------------- MODULE SumTheorems -----------------------------
(***************************************************************************)
(* Induction, quotients and sums for the proofs of the other modules.      *)
(*                                                                         *)
(* The provers cannot instantiate an induction theorem that takes an       *)
(* operator, so induction is over a set of numbers here, and a sum is      *)
(* described by a function: SumTo(t, n) is what t[1], ..., t[n] add up to, *)
(* and a recursive function that adds them, as the one behind FoldLeft and *)
(* MapThenFoldSet does, yields it (AddsToSum).  A lemma on a definition by *)
(* a fold names its terms and cites the lemmas on SumTo.                   *)
(***************************************************************************)
EXTENDS FixedPoint, WellFoundedInduction, TLAPS

-----------------------------------------------------------------------------
(* Induction. *)

LEMMA LeastExists ==
  ASSUME NEW T, T \subseteq Nat, T # {}
  PROVE  \E x \in T : \A y \in T : x <= y
<1>1. IsWellFoundedOn(OpToRel(<, Nat), Nat)
  BY NatLessThanWellFounded
<1>2. PICK x \in T : \A y \in T : ~ (<<y, x>> \in OpToRel(<, Nat))
  BY <1>1, WFMin, Zenon
<1>3. ASSUME NEW y \in T
      PROVE  x <= y
  <2>1. ~ (<<y, x>> \in {ss \in Nat \X Nat : ss[1] < ss[2]})
    BY <1>2 DEF OpToRel
  <2>2. x \in Nat /\ y \in Nat
    OBVIOUS
  <2> QED
    BY <2>1, <2>2
<1> QED
  BY <1>3

LEMMA GreatestExists ==
  ASSUME NEW T, NEW n \in Nat, T \subseteq 0 .. n, T # {}
  PROVE  \E x \in T : \A y \in T : y <= x
<1> DEFINE U == {k \in 0 .. n : n - k \in T}
<1>1. U \subseteq Nat /\ U # {}
  <2>1. PICK t \in T : TRUE
    OBVIOUS
  <2>2. n - t \in U
    BY <2>1
  <2> QED
    BY <2>2
<1>2. PICK k \in U : \A j \in U : k <= j
  BY <1>1, LeastExists
<1>3. \A y \in T : n - y \in U
  OBVIOUS
<1> QED
  BY <1>2, <1>3

(* Induction from 0 to n, for a set of numbers. *)
LEMMA CountUp ==
  ASSUME NEW n \in Nat, NEW G, 0 \in G, \A k \in 1 .. n : k - 1 \in G => k \in G
  PROVE  0 .. n \subseteq G
<1> SUFFICES ASSUME NEW z \in 0 .. n, z \notin G PROVE FALSE
  BY Zenon
<1> DEFINE T == {k \in 0 .. n : k \notin G}
<1>0. T \subseteq Nat /\ T # {}
  OBVIOUS
<1>1. PICK x \in T : \A y \in T : x <= y
  BY <1>0, LeastExists, Zenon
<1>2. x \in 1 .. n /\ x - 1 \in 0 .. n /\ ~(x <= x - 1)
  BY <1>1
<1>3. x - 1 \in G
  BY <1>1, <1>2
<1> QED BY <1>1, <1>2, <1>3

-----------------------------------------------------------------------------
(* Products and quotients. *)

LEMMA ProductGrows ==
  ASSUME NEW a \in Int, NEW b \in Int, NEW c \in Nat, a <= b
  PROVE  a * c <= b * c
OBVIOUS

LEMMA QuotientFits ==
  ASSUME NEW a \in Nat, NEW d \in Nat \ {0}, NEW k \in Int, a <= d * k
  PROVE  a \div d <= k
<1> DEFINE x == a \div d
<1>1. x \in Int /\ d * x <= a
  OBVIOUS
<1>2. SUFFICES ASSUME x >= k + 1 PROVE FALSE
  BY <1>1
<1> HIDE DEF x
<1>3. (k + 1) * d <= x * d
  BY <1>1, <1>2, ProductGrows
<1> QED
  BY <1>1, <1>3

LEMMA QuotientGrows ==
  ASSUME NEW a \in Nat, NEW b \in Nat, NEW d \in Nat \ {0}, a <= b
  PROVE  a \div d <= b \div d
<1> DEFINE p == a \div d
           q == b \div d
<1>1. p \in Nat /\ q \in Nat /\ d * p <= a /\ b < d * q + d
  OBVIOUS
<1> HIDE DEF p, q
<1>2. SUFFICES ASSUME q + 1 <= p PROVE FALSE
  BY <1>1 DEF p, q
<1>3. (q + 1) * d <= p * d
  BY <1>1, <1>2, ProductGrows
<1>4. (q + 1) * d = d * q + d /\ p * d = d * p
  BY <1>1
<1> QED BY <1>1, <1>3, <1>4

LEMMA QuotientShrinks ==
  ASSUME NEW a \in Nat, NEW d \in Nat \ {0}, NEW e \in Nat \ {0}, d <= e
  PROVE  a \div e <= a \div d
<1> DEFINE q == a \div e
<1>1. q \in Nat /\ q * e <= a
  OBVIOUS
<1> HIDE DEF q
<1>2. d * q <= e * q
  BY <1>1, ProductGrows
<1>3. q * d <= a /\ q * d \in Nat
  BY <1>1, <1>2
<1>4. (q * d) \div d = q
  BY <1>1
<1>5. (q * d) \div d <= a \div d
  BY <1>3, QuotientGrows
<1> QED BY <1>4, <1>5 DEF q

(* Truncation towards zero: a number, between whatever bounds it, of the   *)
(* sign of the numerator, and growing with it.                             *)
LEMMA TruncatedFits ==
  ASSUME NEW x \in Int, NEW d \in Nat \ {0}
  PROVE  /\ Truncated(x, d) \in Int
         /\ \A k \in Int : x <= d * k => Truncated(x, d) <= k
         /\ \A k \in Int : d * k <= x => k <= Truncated(x, d)
<1>1. CASE x >= 0
  <2>1. Truncated(x, d) = x \div d /\ x \in Nat
    BY <1>1 DEF Truncated
  <2>2. \A k \in Int : x <= d * k => x \div d <= k
    BY <2>1, QuotientFits
  <2>3. ASSUME NEW k \in Int, d * k <= x PROVE k <= x \div d
    <3>1. CASE k < 0
      BY <2>1, <3>1
    <3>2. CASE k >= 0
      <4>1. k \in Nat /\ d * k \in Nat
        BY <3>2
      <4>2. (d * k) \div d = k
        BY <4>1
      <4>3. (d * k) \div d <= x \div d
        BY <2>1, <2>3, <4>1, QuotientGrows
      <4> QED BY <4>2, <4>3
    <3> QED BY <3>1, <3>2
  <2> QED BY <2>1, <2>2, <2>3
<1>2. CASE x < 0
  <2> DEFINE y == -x
  <2>1. Truncated(x, d) = -(y \div d) /\ y \in Nat /\ y \div d \in Nat
    BY <1>2 DEF Truncated
  <2>2. ASSUME NEW k \in Int, d * k <= x PROVE y \div d <= -k
    <3>1. y <= d * (-k)
      BY <2>2
    <3> QED BY <2>1, <3>1, QuotientFits
  <2>3. ASSUME NEW k \in Int, x <= d * k PROVE -k <= y \div d
    <3>1. CASE k >= 0
      BY <2>1, <3>1
    <3>2. CASE k < 0
      <4> DEFINE j == -k
      <4>1. j \in Nat /\ d * j \in Nat /\ d * j <= y
        BY <2>3, <3>2
      <4>2. (d * j) \div d = j
        BY <4>1
      <4>3. (d * j) \div d <= y \div d
        BY <2>1, <4>1, QuotientGrows
      <4> QED BY <4>2, <4>3
    <3> QED BY <3>1, <3>2
  <2> QED BY <2>1, <2>2, <2>3
<1> QED BY <1>1, <1>2

LEMMA TruncatedSign ==
  ASSUME NEW x \in Int, NEW d \in Nat \ {0}
  PROVE  /\ Truncated(x, d) \in Int
         /\ x <= 0 => Truncated(x, d) <= 0
         /\ x >= 0 => Truncated(x, d) >= 0
<1>1. d * 0 = 0
  OBVIOUS
<1> QED BY <1>1, TruncatedFits

LEMMA TruncatedGrows ==
  ASSUME NEW x \in Int, NEW y \in Int, NEW d \in Nat \ {0}, x <= y
  PROVE  Truncated(x, d) <= Truncated(y, d)
<1>1. CASE x >= 0
  BY <1>1, QuotientGrows DEF Truncated
<1>2. CASE y < 0
  <2>1. (-y) \div d <= (-x) \div d
    BY <1>2, QuotientGrows
  <2> QED BY <1>2, <2>1 DEF Truncated
<1>3. CASE x < 0 /\ y >= 0
  BY <1>3, TruncatedSign
<1> QED BY <1>1, <1>2, <1>3

LEMMA QuotientBelow ==
  ASSUME NEW a \in Nat, NEW d \in Nat \ {0}, NEW k \in Int, a < d * (k + 1)
  PROVE  a \div d <= k
<1> DEFINE x == a \div d
<1>1. x \in Nat /\ d * x <= a
  OBVIOUS
<1>2. SUFFICES ASSUME k + 1 <= x PROVE FALSE
  BY <1>1
<1> HIDE DEF x
<1>3. (k + 1) * d <= x * d
  BY <1>1, <1>2, ProductGrows
<1> QED BY <1>1, <1>3

LEMMA TruncatedWithin ==
  ASSUME NEW x \in Int, NEW d \in Nat \ {0}, NEW k \in Nat,
         x < d * (k + 1), -x < d * (k + 1)
  PROVE  Truncated(x, d) \in -k .. k
<1>1. CASE x >= 0
  BY <1>1, QuotientBelow, TruncatedSign DEF Truncated
<1>2. CASE x < 0
  BY <1>2, QuotientBelow, TruncatedSign DEF Truncated
<1> QED BY <1>1, <1>2

(* Two numbers weighted by weights that are both there: the mean lies      *)
(* between them, and below the greater one.                                *)
LEMMA MeanWithin ==
  ASSUME NEW lo \in Nat, NEW hi \in Nat, lo <= hi, NEW v \in Nat \ {0}, NEW w \in Nat \ {0}
  PROVE  LET mean == Truncated(lo * v + hi * w, v + w)
         IN  mean \in lo .. hi /\ (lo < hi => mean < hi)
<1> DEFINE x == lo * v + hi * w
           d == v + w
           mean == Truncated(x, d)
<1>1. lo * w <= hi * w /\ lo * v <= hi * v
  BY ProductGrows
<1>2. x \in Nat /\ d \in Nat \ {0} /\ d * lo <= x /\ x <= d * hi
  BY <1>1
<1>3. ASSUME lo < hi PROVE x < d * hi
  <2>1. (lo + 1) * v <= hi * v
    BY <1>3, ProductGrows
  <2>2. lo * v + v <= hi * v
    BY <2>1
  <2> QED BY <2>2
<1> HIDE DEF x, d
<1>4. mean \in lo .. hi
  BY <1>2, TruncatedFits
<1>5. ASSUME lo < hi PROVE mean < hi
  <2>1. x < d * ((hi - 1) + 1)
    BY <1>3, <1>5
  <2>2. x \div d <= hi - 1
    BY <1>2, <2>1, QuotientBelow
  <2> QED BY <1>2, <1>4, <2>2 DEF Truncated
<1> QED BY <1>4, <1>5 DEF x, d

(* What truncation takes away is less than the divisor, towards zero.      *)
LEMMA TruncatedTimes ==
  ASSUME NEW x \in Int, NEW d \in Nat \ {0}
  PROVE  /\ Truncated(x, d) \in Int
         /\ x - d <= d * Truncated(x, d)
         /\ x <= 0 => x <= d * Truncated(x, d)
<1>0. \A a \in Nat : /\ a \div d \in Nat
                     /\ d * (a \div d) <= a
                     /\ a - d <= d * (a \div d)
  OBVIOUS
<1>1. CASE x >= 0
  <2>1. x \in Nat /\ Truncated(x, d) = x \div d
    BY <1>1 DEF Truncated
  <2>2. x = 0 => x \div d >= 0 /\ d * (x \div d) >= 0
    BY <1>0, <2>1
  <2> QED BY <1>0, <2>1, <2>2
<1>2. CASE x < 0
  <2> DEFINE q == (-x) \div d
  <2>1. -x \in Nat /\ Truncated(x, d) = -q
    BY <1>2 DEF Truncated
  <2>2. q \in Nat /\ d * q <= -x
    BY <1>0, <2>1
  <2> HIDE DEF q
  <2>3. d * (-q) = -(d * q)
    BY <2>2
  <2> QED BY <1>2, <2>1, <2>2, <2>3
<1> QED BY <1>1, <1>2

(* Truncation keeps within a bound, and takes less than one away.          *)
LEMMA TruncatedNear ==
  ASSUME NEW x \in Int, NEW d \in Nat \ {0}, NEW bound \in Nat, x <= bound, -x <= bound
  PROVE  /\ Truncated(x, d) \in Int
         /\ d * Truncated(x, d) <= bound /\ -bound <= d * Truncated(x, d)
         /\ x - d < d * Truncated(x, d)
<1>1. \A a \in Nat : /\ a \div d \in Nat
                     /\ d * (a \div d) \in Nat /\ d * (a \div d) <= a
                     /\ a - d < d * (a \div d)
  OBVIOUS
<1>2. CASE x >= 0
  <2>1. x \in Nat /\ Truncated(x, d) = x \div d
    BY <1>2 DEF Truncated
  <2> DEFINE y == d * (x \div d)
  <2>2. y \in Nat /\ y <= x /\ x - d < y /\ x \div d \in Nat
    BY <1>1, <2>1
  <2> HIDE DEF y
  <2>3. y <= bound /\ -bound <= y
    BY <2>1, <2>2
  <2> QED BY <2>1, <2>2, <2>3 DEF y
<1>3. CASE x < 0
  <2> DEFINE q == (-x) \div d
             y == d * q
  <2>1. -x \in Nat /\ Truncated(x, d) = -q
    BY <1>3 DEF Truncated
  <2>2. q \in Nat /\ y \in Nat /\ y <= -x /\ d * (-q) = -y
    BY <1>1, <2>1
  <2> HIDE DEF q, y
  <2> QED BY <1>3, <2>1, <2>2
<1> QED BY <1>2, <1>3

(* An average of two numbers in percent lies within their bound.           *)
LEMMA AverageWithin ==
  ASSUME NEW bound \in Nat, NEW x \in -bound .. bound, NEW v \in -bound .. bound,
         NEW alpha \in 1 .. 100
  PROVE  Truncated(alpha * x + (100 - alpha) * v, 100) \in -bound .. bound
<1> DEFINE beta == 100 - alpha
           y == alpha * x + beta * v
<1>1. alpha \in Nat /\ beta \in Nat
  OBVIOUS
<1> HIDE DEF beta
<1>2. /\ x * alpha <= bound * alpha /\ (-bound) * alpha <= x * alpha
      /\ v * beta <= bound * beta /\ (-bound) * beta <= v * beta
  BY <1>1, ProductGrows
<1>3. bound * alpha + bound * beta = 100 * bound
  BY DEF beta
<1>4. (-bound) * alpha + (-bound) * beta = 100 * (-bound)
  BY DEF beta
<1>5. y \in Int /\ y <= 100 * bound /\ 100 * (-bound) <= y
  BY <1>1, <1>2, <1>3, <1>4
<1> HIDE DEF y
<1>6. Truncated(y, 100) \in -bound .. bound
  BY <1>5, TruncatedFits
<1> QED BY <1>6 DEF y, beta

(* A fraction of at most one, in steps of one in s, is at most s.          *)
LEMMA FractionWithin ==
  ASSUME NEW d \in Nat \ {0}, NEW x \in -d .. d, NEW s \in Nat
  PROVE  Truncated(x * s, d) \in -s .. s
<1> DEFINE y == x * s
<1>1. x * s <= d * s /\ (-d) * s <= x * s
  BY ProductGrows
<1>2. y \in Int /\ y <= d * s /\ d * (-s) <= y
  BY <1>1
<1> HIDE DEF y
<1>3. Truncated(y, d) \in -s .. s
  BY <1>2, TruncatedFits
<1> QED BY <1>3 DEF y

(* A quotient is bounded, up and down, as the numerator is.                *)
LEMMA TruncatedSpan ==
  ASSUME NEW x \in Int, NEW d \in Nat \ {0}, NEW k \in Nat, x <= d * k, -(d * k) <= x
  PROVE  Truncated(x, d) \in -k .. k
<1>1. d * (-k) <= x /\ -k \in Int
  OBVIOUS
<1> QED BY <1>1, TruncatedFits

(* A rate of at most 2 bps moves a price between two others no further     *)
(* than those are moved by 2 bps.                                          *)
LEMMA RateWithin ==
  ASSUME NEW lo \in Nat, NEW hi \in Nat, NEW price \in lo .. hi, NEW rate \in -20 .. 20
  PROVE  /\ SubtractRate(lo, 20) <= ApplyRate(price, rate)
         /\ ApplyRate(price, rate) <= ApplyRate(hi, 20)
         /\ {SubtractRate(lo, 20), ApplyRate(price, rate), ApplyRate(hi, 20)} \subseteq Int
<1> DEFINE T(x) == Truncated(x, Whole)
<1>0. Whole = 100000
  BY DEF Whole
<1>1. price \in Nat /\ price * rate \in Int
  OBVIOUS
<1>2. price * rate <= hi * 20 /\ -(price * 20) <= price * rate
  <2>1. rate * price <= 20 * price /\ (-20) * price <= rate * price
    BY <1>1, ProductGrows
  <2> QED BY <1>1, <2>1
<1>3. T(price * rate) <= T(hi * 20)
  BY <1>0, <1>1, <1>2, TruncatedGrows
<1>4. T(-(price * 20)) <= T(price * rate)
  BY <1>0, <1>1, <1>2, TruncatedGrows
<1> DEFINE a == price * 20
           b == lo * 20
<1>5. a \in Nat /\ b \in Nat /\ -a <= 0
  BY <1>1
<1> HIDE DEF a, b
<1>6. T(a) = a \div Whole /\ T(b) = b \div Whole /\ T(-a) = -(a \div Whole)
  <2>1. CASE a = 0
    <3>1. 0 \div Whole = 0
      BY <1>0
    <3> QED BY <1>5, <2>1, <3>1 DEF Truncated
  <2>2. CASE a > 0
    BY <1>5, <2>2 DEF Truncated
  <2> QED BY <1>5, <2>1, <2>2
<1>7. a \div Whole <= b \div Whole + (price - lo)
  <2> DEFINE q == b \div Whole
             k == q + (price - lo)
  <2>1. q \in Nat /\ b < 100000 * q + 100000
    BY <1>0, <1>5
  <2> HIDE DEF q
  <2>2. a < 100000 * (k + 1)
    BY <1>1, <2>1 DEF a, b
  <2>3. k \in Int
    BY <1>1, <2>1
  <2> HIDE DEF k
  <2>4. a \div Whole <= k
    BY <1>0, <1>5, <2>2, <2>3, QuotientBelow
  <2> QED BY <2>4 DEF k, q
<1>8. T(price * rate) \in Int /\ T(hi * 20) \in Int /\ a \div Whole \in Int /\ b \div Whole \in Int
  <2>1. Whole \in Nat \ {0} /\ hi * 20 \in Int
    BY <1>0
  <2> QED BY <1>0, <1>1, <1>5, <2>1, TruncatedFits
<1>9. -(a \div Whole) <= T(price * rate)
  BY <1>4, <1>6 DEF a
<1>10. lo - T(b) <= price + T(price * rate)
  BY <1>1, <1>6, <1>7, <1>8, <1>9
<1>11. price + T(price * rate) <= hi + T(hi * 20)
  BY <1>1, <1>3, <1>8
<1>12. lo - T(b) \in Int /\ price + T(price * rate) \in Int /\ hi + T(hi * 20) \in Int
  BY <1>1, <1>6, <1>8
<1> QED BY <1>10, <1>11, <1>12 DEF ApplyRate, SubtractRate, b

(* The shape of the code's size reduction: at most 15/6 of the room that   *)
(* is left, of n bases that are at most 2/5 of the whole.                  *)
LEMMA SharesFit ==
  ASSUME NEW base \in Nat, NEW whole \in Nat \ {0}, NEW room \in Nat, NEW factor \in Nat,
         NEW n \in Nat, 5 * n * base <= 2 * whole, factor <= 15 * room
  PROVE  n * ((base * factor) \div (6 * whole)) <= room
<1> DEFINE d == 6 * whole
           part == base * factor
           share == part \div d
           all == n * base
<1>1. part \in Nat /\ d \in Nat \ {0} /\ all \in Nat /\ 5 * all <= 2 * whole
  OBVIOUS
<1>2. all * factor <= d * room
  <2> HIDE DEF all
  <2>1. (5 * all) * factor <= (2 * whole) * factor
    BY <1>1, ProductGrows
  <2>2. factor * (2 * whole) <= (15 * room) * (2 * whole)
    BY ProductGrows
  <2> QED BY <1>1, <2>1, <2>2
<1>3. all * factor = part * n
  OBVIOUS
<1> HIDE DEF part, d, all
<1>4. share \in Nat /\ d * share <= part
  BY <1>1
<1> HIDE DEF share
<1>5. (d * share) * n <= part * n
  BY <1>1, <1>4, ProductGrows
<1>6. (d * share) * n = d * (n * share)
  BY <1>1, <1>4
<1> DEFINE x == n * share
<1>7. x \in Nat
  BY <1>4
<1>8. part * n \in Int /\ d * room \in Int /\ d * x \in Nat
  BY <1>1, <1>7
<1> HIDE DEF x
<1>9. d * x <= d * room
  BY <1>2, <1>3, <1>5, <1>6, <1>8 DEF x
<1>10. (d * x) \div d = x /\ (d * x) \div d <= room
  BY <1>1, <1>7, <1>8, <1>9, QuotientFits
<1> QED BY <1>10 DEF x, share, part, d

(* One base alone.                                                         *)
LEMMA ShareFits ==
  ASSUME NEW base \in Nat, NEW whole \in Nat \ {0}, NEW room \in Nat, NEW factor \in Nat,
         5 * base <= 2 * whole, factor <= 15 * room
  PROVE  (base * factor) \div (6 * whole) \in 0 .. room
<1> DEFINE share == (base * factor) \div (6 * whole)
<1>1. 5 * 1 * base <= 2 * whole
  OBVIOUS
<1>2. 1 * share <= room
  BY <1>1, SharesFit
<1>3. base * factor \in Nat /\ 6 * whole \in Nat \ {0}
  OBVIOUS
<1>4. \A a \in Nat, d \in Nat \ {0} : a \div d \in Nat
  OBVIOUS
<1>5. share \in Nat
  BY <1>3, <1>4
<1> HIDE DEF share
<1>6. share \in 0 .. room
  BY <1>2, <1>5
<1> QED BY <1>6 DEF share

-----------------------------------------------------------------------------
(* A set of numbers, folded from its greatest down. *)

LEMMA GreatestIsMax ==
  ASSUME NEW T, NEW n \in Nat, T \subseteq 0 .. n, T # {}
  PROVE  Max(T) \in T /\ \A y \in T : y <= Max(T)
<1>1. \E x \in T : \A y \in T : x >= y
  <2>1. PICK x \in T : \A y \in T : y <= x
    BY GreatestExists
  <2>2. \A y \in T : x >= y
    BY <2>1
  <2> QED BY <2>2
<1>2. Max(T) \in T /\ \A y \in T : Max(T) >= y
  BY <1>1, Zenon DEF Max
<1> QED BY <1>2

LEMMA LeastIsMin ==
  ASSUME NEW T, T \subseteq Nat, T # {}
  PROVE  Min(T) \in T /\ \A y \in T : Min(T) <= y
<1>1. PICK x \in T : \A y \in T : x <= y
  BY LeastExists
<1> QED BY <1>1, Zenon DEF Min

LEMMA MaxOfThree ==
  ASSUME NEW a \in Int, NEW b \in Int, NEW c \in Int
  PROVE  Max({a, b, c}) \in {a, b, c} /\ \A x \in {a, b, c} : x <= Max({a, b, c})
<1> DEFINE T == {a, b, c}
<1>1. \E x \in T : \A y \in T : x >= y
  <2>1. CASE a >= b /\ a >= c
    BY <2>1
  <2>2. CASE b >= a /\ b >= c
    BY <2>2
  <2>3. CASE c >= a /\ c >= b
    BY <2>3
  <2> QED BY <2>1, <2>2, <2>3
<1>2. T \subseteq Int
  OBVIOUS
<1> HIDE DEF T
<1>3. Max(T) \in T /\ \A y \in T : Max(T) >= y
  BY <1>1, Zenon DEF Max
<1> QED BY <1>2, <1>3 DEF T

LEMMA MaxOfTwo ==
  ASSUME NEW a \in Int, NEW b \in Int
  PROVE  Max({a, b}) \in {a, b} /\ a <= Max({a, b}) /\ b <= Max({a, b})
<1>1. {a, b} = {a, b, b}
  OBVIOUS
<1>2. Max({a, b, b}) \in {a, b, b} /\ \A x \in {a, b, b} : x <= Max({a, b, b})
  BY MaxOfThree
<1> QED BY <1>1, <1>2

LEMMA MinOfTwo ==
  ASSUME NEW a \in Int, NEW b \in Int
  PROVE  Min({a, b}) \in {a, b} /\ Min({a, b}) <= a /\ Min({a, b}) <= b
<1> DEFINE T == {a, b}
<1>1. \E x \in T : \A y \in T : x <= y
  <2>1. CASE a <= b
    BY <2>1
  <2>2. CASE b <= a
    BY <2>2
  <2> QED BY <2>1, <2>2
<1>2. T \subseteq Int
  OBVIOUS
<1> HIDE DEF T
<1>3. Min(T) \in T /\ \A y \in T : Min(T) <= y
  BY <1>1, Zenon DEF Min
<1> QED BY <1>2, <1>3 DEF T

LEMMA MaxOfInterval ==
  ASSUME NEW n \in Nat, NEW k \in 1 .. n
  PROVE  Max(1 .. k) = k /\ (1 .. k) \ {k} = 1 .. k - 1
<1>1. 1 .. k \subseteq 0 .. n /\ k \in 1 .. k
  OBVIOUS
<1>2. Max(1 .. k) \in 1 .. k /\ k <= Max(1 .. k)
  BY <1>1, GreatestIsMax
<1> QED BY <1>2

(* The first j + 1 numbers are the first j and one more: so a fold takes   *)
(* one element after the other. *)
LEMMA FirstOfInterval ==
  ASSUME NEW n \in Nat, NEW j \in 0 .. n, NEW k \in 0 .. n, k = j + 1
  PROVE  /\ 1 .. k \in SUBSET (1 .. n) /\ 1 .. k # {}
         /\ Max(1 .. k) = k /\ (1 .. k) \ {k} = 1 .. j
<1>1. k \in 1 .. n /\ k - 1 = j
  OBVIOUS
<1> QED BY <1>1, MaxOfInterval

(* The function by which the numbers of a set, from its greatest down, are *)
(* folded with a step. *)
IsStep(step, n, V) == step \in [(1 .. n) \X V -> V]

IsFold(g, n, V, base, step) ==
  /\ g \in [SUBSET (1 .. n) -> V]
  /\ \A s \in SUBSET (1 .. n) :
       g[s] = IF s = {} THEN base ELSE step[<<Max(s), g[s \ {Max(s)}]>>]

LEMMA FoldExists ==
  ASSUME NEW n \in Nat, NEW V, NEW base \in V, NEW step, IsStep(step, n, V)
  PROVE  \E g : IsFold(g, n, V, base, step)
<1> DEFINE Folds(m, g) ==
             \A s \in SUBSET (1 .. m) :
               g[s] = IF s = {} THEN base ELSE step[<<Max(s), g[s \ {Max(s)}]>>]
           G == {m \in 0 .. n : \E g \in [SUBSET (1 .. m) -> V] : Folds(m, g)}
<1>1. 0 \in G
  <2> DEFINE g == [s \in SUBSET (1 .. 0) |-> base]
  <2>1. \A s \in SUBSET (1 .. 0) : s = {}
    OBVIOUS
  <2>2. g \in [SUBSET (1 .. 0) -> V] /\ Folds(0, g)
    BY <2>1, Zenon
  <2>3. 0 \in 0 .. n
    OBVIOUS
  <2> QED BY <2>2, <2>3, Zenon
<1>2. ASSUME NEW m \in 1 .. n, m - 1 \in G PROVE m \in G
  <2>1. PICK g \in [SUBSET (1 .. m - 1) -> V] : Folds(m - 1, g)
    BY <1>2
  <2> DEFINE h == [s \in SUBSET (1 .. m) |-> IF m \in s THEN step[<<m, g[s \ {m}]>>] ELSE g[s]]
  <2>2. ASSUME NEW s \in SUBSET (1 .. m)
        PROVE  /\ m \in s => s \ {m} \in SUBSET (1 .. m - 1) /\ Max(s) = m
               /\ m \notin s => s \in SUBSET (1 .. m - 1)
               /\ s # {} => Max(s) \in s
    <3>1. m \notin s => \A x \in s : x \in 1 .. m - 1
      BY <2>2
    <3>2. \A x \in s \ {m} : x \in 1 .. m - 1
      BY <2>2
    <3>3. s # {} => Max(s) \in s /\ \A y \in s : y <= Max(s)
      <4>1. s \subseteq 0 .. m /\ m \in Nat
        OBVIOUS
      <4> QED BY <4>1, GreatestIsMax
    <3>4. ASSUME m \in s PROVE Max(s) = m
      <4>1. Max(s) \in 1 .. m /\ m <= Max(s)
        BY <3>3, <3>4
      <4> QED BY <4>1
    <3> QED BY <3>1, <3>2, <3>3, <3>4
  <2>3. h \in [SUBSET (1 .. m) -> V]
    <3> SUFFICES ASSUME NEW s \in SUBSET (1 .. m) PROVE h[s] \in V
      OBVIOUS
    <3>1. CASE m \in s
      <4>1. <<m, g[s \ {m}]>> \in (1 .. n) \X V
        BY <2>2, <3>1
      <4> QED BY <3>1, <4>1 DEF IsStep
    <3>2. CASE m \notin s
      BY <2>2, <3>2
    <3> QED BY <3>1, <3>2
  <2>4. ASSUME NEW s \in SUBSET (1 .. m)
        PROVE  h[s] = IF s = {} THEN base ELSE step[<<Max(s), h[s \ {Max(s)}]>>]
    <3>1. CASE m \in s
      <4>1. h[s] = step[<<m, g[s \ {m}]>>] /\ Max(s) = m /\ s # {}
        BY <2>2, <3>1
      <4>2. h[s \ {m}] = g[s \ {m}]
        BY <2>2, <3>1
      <4> QED BY <4>1, <4>2
    <3>2. CASE m \notin s
      <4>1. h[s] = g[s] /\ s \in SUBSET (1 .. m - 1)
        BY <2>2, <3>2
      <4>2. CASE s = {}
        BY <2>1, <4>1, <4>2
      <4>3. CASE s # {}
        <5>1. g[s] = step[<<Max(s), g[s \ {Max(s)}]>>]
          BY <2>1, <4>1, <4>3
        <5>2. h[s \ {Max(s)}] = g[s \ {Max(s)}]
          BY <3>2, <4>1
        <5> QED BY <4>1, <4>3, <5>1, <5>2
      <4> QED BY <4>2, <4>3
    <3> QED BY <3>1, <3>2
  <2> HIDE DEF h
  <2>5. Folds(m, h)
    BY <2>4
  <2>6. m \in 0 .. n
    OBVIOUS
  <2> HIDE DEF Folds
  <2> QED BY <2>3, <2>5, <2>6
<1> HIDE DEF G
<1>3. n \in G
  <2>1. 0 .. n \subseteq G
    BY <1>1, <1>2, CountUp
  <2> QED BY <2>1
<1> QED BY <1>3 DEF G, IsFold

SumsWithin(p, n) == \A k \in 0 .. n : p[k] \in Int
SameSteps(p, r, n) == \A j, k \in 0 .. n : k = j + 1 => p[k] - p[j] = r[k] - r[j]

(* Partial sums with the same terms differ by what they start from.        *)
(* (The hypotheses are operators so that the solver does not instantiate   *)
(* them without end.)                                                      *)
LEMMA SumsDiffer ==
  ASSUME NEW n \in Nat, NEW p, NEW r, SumsWithin(p, n), SumsWithin(r, n), SameSteps(p, r, n)
  PROVE  \A k \in 0 .. n : p[k] - r[k] = p[0] - r[0]
<1> DEFINE c == p[0] - r[0]
           G == {k \in 0 .. n : p[k] = r[k] + c}
<1>0. 0 \in 0 .. n /\ p[0] \in Int /\ r[0] \in Int /\ c \in Int
  BY DEF SumsWithin
<1>1. 0 \in G
  BY <1>0
<1>2. ASSUME NEW k \in 1 .. n, k - 1 \in G PROVE k \in G
  <2>1. PICK j \in 0 .. n : k = j + 1 /\ p[j] = r[j] + c
    BY <1>2
  <2>2. p[k] - p[j] = r[k] - r[j] /\ k \in 0 .. n
    BY <2>1 DEF SameSteps
  <2>3. p[k] \in Int /\ p[j] \in Int /\ r[k] \in Int /\ r[j] \in Int
    BY <2>2 DEF SumsWithin
  <2>4. p[j] = r[j] + c
    BY <2>1
  <2> HIDE DEF c
  <2>5. p[k] = r[k] + c
    BY <1>0, <2>2, <2>3, <2>4
  <2> QED BY <2>2, <2>5
<1> HIDE DEF G
<1>3. 0 .. n \subseteq G
  BY <1>1, <1>2, CountUp
<1>4. ASSUME NEW k \in 0 .. n PROVE p[k] - r[k] = c
  <2>1. p[k] = r[k] + c /\ p[k] \in Int /\ r[k] \in Int
    BY <1>3 DEF G, SumsWithin
  <2> HIDE DEF c
  <2> QED BY <1>0, <2>1
<1> QED BY <1>4

-----------------------------------------------------------------------------
(* The sum of the first n numbers of t, described by its partial sums. *)
PartialSums(t, n, p) ==
  /\ SumsWithin(p, n) /\ p[0] = 0
  /\ \A j, k \in 0 .. n : k = j + 1 => p[k] - p[j] = t[k]

SumTo(t, n) == (CHOOSE p : PartialSums(t, n, p))[n]

(* The recursive function behind a fold that adds, and its partial sums. *)
Adds(t, n, iter) ==
  iter = [s \in SUBSET (1 .. n) |-> IF s = {} THEN 0 ELSE iter[s \ {Max(s)}] + t[Max(s)]]

LEMMA AddsExists ==
  ASSUME NEW n \in Nat, NEW t \in [1 .. n -> Int]
  PROVE  \E iter : Adds(t, n, iter)
<1> DEFINE step == [x \in (1 .. n) \X Int |-> x[2] + t[x[1]]]
<1>1. IsStep(step, n, Int) /\ 0 \in Int
  BY DEF IsStep
<1> HIDE DEF step
<1>2. PICK g : IsFold(g, n, Int, 0, step)
  BY <1>1, FoldExists
<1>3. ASSUME NEW s \in SUBSET (1 .. n)
      PROVE  g[s] = IF s = {} THEN 0 ELSE g[s \ {Max(s)}] + t[Max(s)]
  <2>1. CASE s = {}
    BY <1>2, <2>1 DEF IsFold
  <2>2. CASE s # {}
    <3>1. s \subseteq 0 .. n
      OBVIOUS
    <3>2. Max(s) \in 1 .. n
      BY <2>2, <3>1, GreatestIsMax
    <3>3. g[s \ {Max(s)}] \in Int
      BY <1>2 DEF IsFold
    <3>4. step[<<Max(s), g[s \ {Max(s)}]>>] = g[s \ {Max(s)}] + t[Max(s)]
      BY <3>2, <3>3 DEF step
    <3> QED BY <1>2, <2>2, <3>4 DEF IsFold
  <2> QED BY <2>1, <2>2
<1>4. g = [s \in SUBSET (1 .. n) |-> IF s = {} THEN 0 ELSE g[s \ {Max(s)}] + t[Max(s)]]
  BY <1>2, <1>3 DEF IsFold
<1> QED BY <1>4 DEF Adds

LEMMA AddsSums ==
  ASSUME NEW n \in Nat, NEW t \in [1 .. n -> Int], NEW iter, Adds(t, n, iter)
  PROVE  PartialSums(t, n, [k \in 0 .. n |-> iter[1 .. k]])
<1> DEFINE p == [k \in 0 .. n |-> iter[1 .. k]]
<1>1. iter[1 .. 0] = 0
  <2>1. 1 .. 0 = {}
    OBVIOUS
  <2>2. {} \in SUBSET (1 .. n)
    OBVIOUS
  <2>3. iter[{}] = 0
    BY <2>2 DEF Adds
  <2> QED BY <2>1, <2>3
<1>2. ASSUME NEW j \in 0 .. n, NEW k \in 0 .. n, k = j + 1
      PROVE  iter[1 .. k] = iter[1 .. j] + t[k]
  <2>1. k \in 1 .. n /\ 1 .. k \in SUBSET (1 .. n) /\ 1 .. k # {} /\ k - 1 = j
    BY <1>2
  <2>2. Max(1 .. k) = k /\ (1 .. k) \ {k} = 1 .. j
    BY <2>1, MaxOfInterval
  <2>3. iter[1 .. k] = iter[(1 .. k) \ {Max(1 .. k)}] + t[Max(1 .. k)]
    BY <2>1 DEF Adds
  <2> QED BY <2>2, <2>3
<1> DEFINE G == {k \in 0 .. n : p[k] \in Int}
<1>3. 0 \in G
  BY <1>1
<1>4. ASSUME NEW k \in 1 .. n, k - 1 \in G PROVE k \in G
  <2>1. PICK j \in 0 .. n : k = j + 1 /\ p[j] \in Int
    BY <1>4
  <2>2. iter[1 .. k] = iter[1 .. j] + t[k] /\ k \in 0 .. n /\ t[k] \in Int
    BY <1>2, <2>1
  <2>3. p[k] = p[j] + t[k]
    BY <2>2
  <2>4. p[j] + t[k] \in Int
    BY <2>1, <2>2
  <2> QED BY <2>2, <2>3, <2>4
<1> HIDE DEF G
<1>5. 0 .. n \subseteq G
  BY <1>3, <1>4, CountUp
<1>6. SumsWithin(p, n)
  BY <1>5 DEF G, SumsWithin
<1>7. ASSUME NEW j \in 0 .. n, NEW k \in 0 .. n, k = j + 1
      PROVE  p[k] - p[j] = t[k]
  <2>1. p[j] \in Int /\ p[k] \in Int
    BY <1>6 DEF SumsWithin
  <2>2. p[k] = p[j] + t[k] /\ t[k] \in Int
    BY <1>2, <1>7
  <2>3. \A a, b, c \in Int : a = b + c => a - b = c
    OBVIOUS
  <2> HIDE DEF p
  <2> QED BY <2>1, <2>2, <2>3
<1>8. p[0] = 0
  BY <1>1
<1> HIDE DEF p
<1> QED BY <1>6, <1>7, <1>8 DEF PartialSums, p

(* Sums with the same terms are equal. *)
LEMMA SumIsUnique ==
  ASSUME NEW n \in Nat, NEW t, NEW p, PartialSums(t, n, p)
  PROVE  \A k \in 0 .. n : p[k] = SumTo(t, k) /\ p[k] \in Int
<1> SUFFICES ASSUME NEW k \in 0 .. n PROVE p[k] = SumTo(t, k) /\ p[k] \in Int
  OBVIOUS
<1> DEFINE r == CHOOSE x : PartialSums(t, k, x)
<1>1. PartialSums(t, k, p)
  <2>1. \A j \in 0 .. k : j \in 0 .. n
    OBVIOUS
  <2> QED BY <2>1, Zenon DEF PartialSums, SumsWithin
<1>2. PartialSums(t, k, r)
  BY <1>1, Zenon
<1> HIDE DEF r
<1>3. SameSteps(p, r, k)
  BY <1>1, <1>2, Zenon DEF PartialSums, SameSteps
<1>4. p[0] = 0 /\ r[0] = 0 /\ SumsWithin(p, k) /\ SumsWithin(r, k) /\ k \in 0 .. k
  BY <1>1, <1>2 DEF PartialSums
<1>5. p[k] = r[k]
  <2>1. k \in Nat
    OBVIOUS
  <2>2. p[k] - r[k] = p[0] - r[0]
    BY <2>1, <1>3, <1>4, SumsDiffer
  <2>3. p[k] \in Int /\ r[k] \in Int
    BY <1>4 DEF SumsWithin
  <2> QED BY <1>4, <2>2, <2>3
<1>6. r[k] \in Int
  BY <1>4 DEF SumsWithin
<1> QED BY <1>5, <1>6 DEF SumTo, r

(* A recursive function that adds the terms of t yields their sum. *)
LEMMA AddsToSum ==
  ASSUME NEW n \in Nat, NEW t \in [1 .. n -> Int], NEW iter, Adds(t, n, iter)
  PROVE  iter[1 .. n] = SumTo(t, n)
<1> DEFINE p == [k \in 0 .. n |-> iter[1 .. k]]
<1>1. PartialSums(t, n, p)
  BY AddsSums
<1>2. p[n] = SumTo(t, n)
  <2>1. n \in 0 .. n
    OBVIOUS
  <2> HIDE DEF p
  <2> QED BY <1>1, <2>1, SumIsUnique
<1> QED BY <1>2

LEMMA SumsExist ==
  ASSUME NEW n \in Nat, NEW t \in [1 .. n -> Int]
  PROVE  \E p : PartialSums(t, n, p) /\ \A k \in 0 .. n : p[k] = SumTo(t, k) /\ p[k] \in Int
<1>1. PICK iter : Adds(t, n, iter)
  BY AddsExists
<1>2. PICK p : PartialSums(t, n, p)
  BY <1>1, AddsSums
<1> QED BY <1>2, SumIsUnique

LEMMA SumIsInt ==
  ASSUME NEW n \in Nat, NEW t \in [1 .. n -> Int]
  PROVE  SumTo(t, n) \in Int
<1>1. n \in 0 .. n
  OBVIOUS
<1> QED BY <1>1, SumsExist

LEMMA SumOfNone ==
  ASSUME NEW t
  PROVE  SumTo(t, 0) = 0
<1> DEFINE p == [k \in 0 .. 0 |-> 0]
<1>1. PartialSums(t, 0, p)
  BY DEF PartialSums, SumsWithin
<1>2. 0 \in 0 .. 0 /\ p[0] = 0 /\ 0 \in Nat
  OBVIOUS
<1> HIDE DEF p
<1> QED BY <1>1, <1>2, SumIsUnique

(* The sum of a list is the sum of its parts. *)
LEMMA SumOfParts ==
  ASSUME NEW n \in Nat, NEW m \in Nat,
         NEW t \in [1 .. n + m -> Int], NEW u \in [1 .. n -> Int], NEW v \in [1 .. m -> Int],
         \A k \in 1 .. n : t[k] = u[k], \A k \in 1 .. m : t[n + k] = v[k]
  PROVE  SumTo(t, n + m) = SumTo(u, n) + SumTo(v, m)
<1>1. PICK p : PartialSums(t, n + m, p) /\ p[n + m] = SumTo(t, n + m)
  <2>1. n + m \in Nat /\ n + m \in 0 .. n + m
    OBVIOUS
  <2> QED BY <2>1, SumsExist
<1>2. PartialSums(u, n, p)
  <2>1. \A k \in 0 .. n : k \in 0 .. n + m
    OBVIOUS
  <2>2. \A j, k \in 0 .. n : k = j + 1 => t[k] = u[k]
    OBVIOUS
  <2> QED BY <1>1, <2>1, <2>2, Zenon DEF PartialSums, SumsWithin
<1>3. p[n] = SumTo(u, n) /\ p[n] \in Int
  <2>1. n \in 0 .. n
    OBVIOUS
  <2> QED BY <1>2, <2>1, SumIsUnique
<1> DEFINE after == [k \in 0 .. m |-> p[n + k]]
<1>4. PICK r : PartialSums(v, m, r) /\ r[m] = SumTo(v, m)
  <2>1. m \in 0 .. m
    OBVIOUS
  <2> QED BY <2>1, SumsExist
<1>5. SumsWithin(after, m)
  BY <1>1 DEF PartialSums, SumsWithin
<1>6. SameSteps(after, r, m)
  <2> SUFFICES ASSUME NEW j \in 0 .. m, NEW k \in 0 .. m, k = j + 1
               PROVE  after[k] - after[j] = r[k] - r[j]
    BY DEF SameSteps
  <2>1. k \in 1 .. m /\ n + k = (n + j) + 1 /\ n + k \in 0 .. n + m /\ n + j \in 0 .. n + m
    OBVIOUS
  <2>2. p[n + k] - p[n + j] = t[n + k]
    BY <1>1, <2>1, Zenon DEF PartialSums
  <2>3. r[k] - r[j] = v[k]
    BY <1>4, Zenon DEF PartialSums
  <2> QED BY <2>1, <2>2, <2>3
<1>7. after[0] = p[n] /\ r[0] = 0
  BY <1>3, <1>4 DEF PartialSums
<1>8. after[m] = r[m] + p[n]
  <2>1. m \in 0 .. m /\ SumsWithin(r, m)
    BY <1>4 DEF PartialSums
  <2> HIDE DEF after
  <2>2. after[m] - r[m] = after[0] - r[0]
    BY <1>5, <1>6, <2>1, SumsDiffer
  <2>3. after[m] \in Int /\ r[m] \in Int
    BY <1>5, <2>1 DEF SumsWithin
  <2> QED BY <1>3, <1>7, <2>2, <2>3
<1>9. r[m] \in Int /\ after[m] = p[n + m]
  BY <1>4 DEF PartialSums, SumsWithin
<1> QED BY <1>1, <1>3, <1>4, <1>8, <1>9

-----------------------------------------------------------------------------
(* The totals of the modules are such sums. *)
LEMMA TotalIsSum ==
  ASSUME NEW n \in Nat, NEW t \in [1 .. n -> Int]
  PROVE  Total(t) = SumTo(t, n)
<1> DEFINE Chosen(iter) ==
             iter = [s \in SUBSET (1 .. n) |->
                       IF s = {} THEN 0 ELSE iter[s \ {Max(s)}] + t[Max(s)]]
           chosen == CHOOSE x : Chosen(x)
<1>1. Total(t) = (CHOOSE iter : iter = [s \in SUBSET DOMAIN t |->
                   IF s = {} THEN 0 ELSE iter[s \ {Max(s)}] + t[Max(s)]])[DOMAIN t]
  BY DEF Total, FoldLeft, MapThenFoldSet
<1>2. Total(t) = chosen[1 .. n]
  BY <1>1
<1>3. \A iter : Adds(t, n, iter) <=> Chosen(iter)
  BY DEF Adds
<1>4. Chosen(chosen)
  <2>1. PICK iter : Adds(t, n, iter)
    BY AddsExists
  <2>2. \E x : Chosen(x)
    BY <1>3, <2>1
  <2> HIDE DEF Chosen
  <2> QED BY <2>2
<1>5. Adds(t, n, chosen)
  BY <1>3, <1>4
<1> HIDE DEF chosen
<1>6. chosen[1 .. n] = SumTo(t, n)
  BY <1>5, AddsToSum
<1> QED BY <1>2, <1>6

(* One more number is added to the total.                                  *)
LEMMA TotalOfAppend ==
  ASSUME NEW n \in Nat, NEW t \in [1 .. n -> Int], NEW u \in [1 .. n + 1 -> Int],
         \A k \in 1 .. n : u[k] = t[k]
  PROVE  Total(u) = Total(t) + u[n + 1] /\ Total(t) \in Int
<1> DEFINE m == n + 1
<1>1. m \in Nat /\ n \in 0 .. m /\ m \in 0 .. m /\ n \in 0 .. n /\ m = n + 1 /\ m \in 1 .. m
  OBVIOUS
<1> HIDE DEF m
<1>2. u \in [1 .. m -> Int]
  BY <1>1
<1>3. PICK p : PartialSums(u, m, p) /\ \A k \in 0 .. m : p[k] = SumTo(u, k) /\ p[k] \in Int
  BY <1>1, <1>2, SumsExist
<1>4. PartialSums(t, n, p)
  <2>1. \A k \in 0 .. n : k \in 0 .. m
    BY <1>1
  <2>2. \A j, k \in 0 .. n : k = j + 1 => t[k] = u[k]
    OBVIOUS
  <2> QED BY <1>3, <2>1, <2>2 DEF PartialSums, SumsWithin
<1>5. p[n] = SumTo(t, n)
  BY <1>1, <1>4, SumIsUnique
<1>6. p[m] - p[n] = u[m] /\ p[m] \in Int /\ p[n] \in Int /\ u[m] \in Int
  BY <1>1, <1>2, <1>3 DEF PartialSums
<1>7. Total(u) = p[m] /\ Total(t) = p[n]
  <2>1. Total(u) = SumTo(u, m)
    BY <1>1, <1>2, TotalIsSum
  <2>2. Total(t) = SumTo(t, n)
    BY TotalIsSum
  <2> QED BY <1>1, <1>3, <1>5, <2>1, <2>2
<1>8. \A a, b, c \in Int : a - b = c => a = b + c
  OBVIOUS
<1>9. p[m] = p[n] + u[m]
  BY <1>6, <1>8
<1> QED BY <1>1, <1>6, <1>7, <1>9

(* A total of natural numbers is one, and at least any of them; it is 0    *)
(* only if all of them are.                                                *)
LEMMA TotalOfNaturals ==
  ASSUME NEW n \in Nat, NEW t \in [1 .. n -> Nat]
  PROVE  /\ Total(t) \in Nat
         /\ \A k \in 1 .. n : t[k] <= Total(t)
         /\ Total(t) > 0 => \E k \in 1 .. n : t[k] > 0
<1>1. PICK p : PartialSums(t, n, p) /\ \A k \in 0 .. n : p[k] = SumTo(t, k) /\ p[k] \in Int
  BY SumsExist
<1> DEFINE Good(k) == /\ p[k] \in Nat
                      /\ \A j \in 1 .. k : t[j] <= p[k]
                      /\ p[k] > 0 => \E j \in 1 .. k : t[j] > 0
           G == {k \in 0 .. n : Good(k)}
<1>2. 0 \in G
  BY <1>1 DEF PartialSums
<1>3. ASSUME NEW k \in 1 .. n, k - 1 \in G PROVE k \in G
  <2>1. PICK j \in 0 .. n : k = j + 1 /\ Good(j)
    BY <1>3
  <2>2. p[k] - p[j] = t[k] /\ p[k] \in Int /\ t[k] \in Nat /\ p[j] \in Nat
    BY <1>1, <2>1 DEF PartialSums
  <2>3. p[k] \in Nat /\ p[j] <= p[k] /\ t[k] <= p[k]
    BY <2>2
  <2>4. \A i \in 1 .. k : i = k \/ i \in 1 .. j
    BY <2>1
  <2>5. \A i \in 1 .. j : i \in 1 .. n /\ i \in 1 .. k /\ t[i] \in Nat /\ t[i] <= p[j]
    BY <2>1
  <2>6. ASSUME NEW i \in 1 .. k PROVE t[i] <= p[k]
    <3>1. CASE i = k
      BY <2>3, <3>1
    <3>2. CASE i \in 1 .. j
      <4>1. t[i] \in Nat /\ t[i] <= p[j]
        BY <2>5, <3>2
      <4> QED BY <2>2, <2>3, <4>1
    <3> QED BY <2>4, <3>1, <3>2
  <2>7. ASSUME p[k] > 0 PROVE \E i \in 1 .. k : t[i] > 0
    <3>1. CASE p[j] > 0
      BY <2>1, <2>5, <3>1
    <3>2. CASE p[j] = 0
      <4>1. t[k] > 0 /\ k \in 1 .. k
        BY <2>2, <2>7, <3>2
      <4> QED BY <4>1
    <3> QED BY <2>2, <3>1, <3>2
  <2> QED BY <2>3, <2>6, <2>7
<1> HIDE DEF G
<1>4. n \in G
  <2>1. 0 .. n \subseteq G
    BY <1>2, <1>3, CountUp
  <2> QED BY <2>1
<1>5. Good(n)
  BY <1>4 DEF G
<1>6. Total(t) = p[n]
  <2>1. p[n] = SumTo(t, n)
    BY <1>1
  <2>2. t \in [1 .. n -> Int]
    OBVIOUS
  <2> QED BY <2>1, <2>2, TotalIsSum
<1> HIDE DEF Good
<1> QED BY <1>5, <1>6 DEF Good

(* Numbers that are each at most s: n of them come to at most n * s.       *)
LEMMA TotalAtMost ==
  ASSUME NEW n \in Nat, NEW t \in [1 .. n -> Int], NEW s \in Int, \A k \in 1 .. n : t[k] <= s
  PROVE  Total(t) \in Int /\ Total(t) <= n * s
<1>1. PICK p : PartialSums(t, n, p) /\ \A k \in 0 .. n : p[k] = SumTo(t, k) /\ p[k] \in Int
  BY SumsExist
<1> DEFINE G == {k \in 0 .. n : p[k] <= k * s}
<1>2. 0 \in G
  BY <1>1 DEF PartialSums
<1>3. ASSUME NEW k \in 1 .. n, k - 1 \in G PROVE k \in G
  <2> DEFINE j == k - 1
  <2>1. j \in 0 .. n /\ k \in 0 .. n /\ k = j + 1 /\ p[j] <= j * s
    BY <1>3
  <2> HIDE DEF j
  <2>2. p[k] - p[j] = t[k] /\ p[k] \in Int /\ p[j] \in Int /\ t[k] \in Int /\ t[k] <= s
    BY <1>1, <2>1 DEF PartialSums
  <2>3. k * s = j * s + s
    BY <2>1
  <2> QED BY <2>1, <2>2, <2>3
<1> HIDE DEF G
<1>4. n \in G
  <2>1. 0 .. n \subseteq G
    BY <1>2, <1>3, CountUp
  <2> QED BY <2>1
<1>5. p[n] <= n * s /\ n \in 0 .. n
  BY <1>4 DEF G
<1>6. Total(t) = p[n]
  BY <1>1, <1>5, TotalIsSum
<1> QED BY <1>1, <1>5, <1>6
=============================================================================
