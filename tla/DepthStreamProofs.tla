-------------------------- MODULE DepthStreamProofs --------------------------
(***************************************************************************)
(* Theorems about the depth stream and its consumers, for every history,   *)
(* every number of update ids, every threshold, poll limit and pattern of  *)
(* losses: the batches that carry it, the book that the strategy and the   *)
(* simulator keep of it (DepthFeed) and the pricing engine's (Pricing).    *)
(***************************************************************************)
EXTENDS Payloads, SumTheorems, FiniteSetTheorems, SequenceTheorems, TLAPS

(* Levels of a batch whose counts fit come back, each on its own side.     *)
THEOREM BatchComesBack ==
  ASSUME NEW S, NEW bids \in Seq(S), NEW asks \in Seq(S),
         Len(bids) < CountLimit, Len(asks) < CountLimit
  PROVE  BatchFromBytes(BatchToBytes(bids, asks)) = [valid |-> TRUE, bids |-> bids, asks |-> asks]
<1> DEFINE m == BatchToBytes(bids, asks)
           all == bids \o asks
<1>1. /\ Len(bids) % CountLimit = Len(bids)
      /\ Len(asks) % CountLimit = Len(asks)
  BY CodecAssumption
<1>2. m = [bids |-> Len(bids), asks |-> Len(asks), levels |-> all, intact |-> TRUE]
  BY <1>1 DEF BatchToBytes
<1>3. all \in Seq(S) /\ Len(all) = Len(bids) + Len(asks)
  OBVIOUS
<1>4. SubSeq(all, 1, Len(bids)) = bids
  OBVIOUS
<1>5. SubSeq(all, Len(bids) + 1, Len(bids) + Len(asks)) = asks
  OBVIOUS
<1>6. m.intact /\ m.bids = Len(bids) /\ m.asks = Len(asks) /\ m.levels = all
  BY <1>2
<1>7. (m.intact /\ m.bids + m.asks <= Len(m.levels)) = TRUE
  BY <1>3, <1>6
<1> HIDE DEF m
<1>8. BatchFromBytes(m) = [valid |-> TRUE, bids |-> bids, asks |-> asks]
  BY <1>4, <1>5, <1>6, <1>7, Zenon DEF BatchFromBytes
<1> QED
  BY <1>8 DEF m

(* Bids of CountLimit levels or more are not read back, and no batch is    *)
(* refused for it: the counts alone decide what is taken.                  *)
THEOREM LongSideIsLost ==
  ASSUME NEW S, NEW bids \in Seq(S), NEW asks \in Seq(S), Len(bids) >= CountLimit
  PROVE  /\ BatchFromBytes(BatchToBytes(bids, asks)).valid
         /\ BatchFromBytes(BatchToBytes(bids, asks)).bids # bids
<1> DEFINE b == Len(bids) % CountLimit
           a == Len(asks) % CountLimit
<1>1. b \in 0 .. CountLimit - 1 /\ a \in 0 .. CountLimit - 1 /\ b <= Len(bids) /\ a <= Len(asks)
  BY CodecAssumption
<1>2. b + a <= Len(bids \o asks)
  BY <1>1
<1>3. Len(SubSeq(bids \o asks, 1, b)) = b
  BY <1>1, <1>2
<1> DEFINE m == BatchToBytes(bids, asks)
<1>4. m.intact /\ m.bids = b /\ m.asks = a /\ m.levels = bids \o asks
  BY DEF BatchToBytes
<1> HIDE DEF m
<1>5. BatchFromBytes(m).bids = SubSeq(bids \o asks, 1, b)
  BY <1>4 DEF BatchFromBytes
<1>6. BatchFromBytes(m).valid = (m.intact /\ m.bids + m.asks <= Len(m.levels))
  BY Zenon DEF BatchFromBytes
<1>7. m.bids + m.asks <= Len(m.levels)
  BY <1>2, <1>4
<1>8. BatchFromBytes(m).valid
  BY <1>4, <1>6, <1>7
<1>9. b < Len(bids)
  BY <1>1, CodecAssumption
<1>10. BatchFromBytes(m).bids # bids
  <2>1. Len(BatchFromBytes(m).bids) = b
    BY <1>3, <1>5
  <2>2. Len(bids) # b
    BY <1>1, <1>9
  <2> QED
    BY <2>1, <2>2
<1> QED
  BY <1>8, <1>10 DEF m

(* So a batch is read back as it was written if and only if the counts of  *)
(* both sides fit.                                                         *)
THEOREM BatchSurvives ==
  ASSUME NEW S, NEW bids \in Seq(S), NEW asks \in Seq(S)
  PROVE  LET m == BatchFromBytes(BatchToBytes(bids, asks)) IN
         (m.valid /\ m.bids = bids /\ m.asks = asks)
           <=> (Len(bids) < CountLimit /\ Len(asks) < CountLimit)
<1> DEFINE m == BatchFromBytes(BatchToBytes(bids, asks))
<1>1. CountLimit \in Nat \ {0} /\ Len(bids) \in Nat /\ Len(asks) \in Nat
  BY CodecAssumption
<1>2. ASSUME Len(bids) < CountLimit, Len(asks) < CountLimit
      PROVE  m.valid /\ m.bids = bids /\ m.asks = asks
  <2>1. m = [valid |-> TRUE, bids |-> bids, asks |-> asks]
    BY <1>2, BatchComesBack
  <2> HIDE DEF m
  <2> QED
    BY <2>1
<1>3. ASSUME Len(bids) >= CountLimit PROVE m.bids # bids
  BY <1>3, LongSideIsLost
<1>4. ASSUME Len(asks) >= CountLimit PROVE m.asks # asks
  <2> DEFINE b == Len(bids) % CountLimit
             a == Len(asks) % CountLimit
             w == BatchToBytes(bids, asks)
             all == bids \o asks
  <2>1. b \in Nat /\ b <= Len(bids) /\ a \in Nat /\ a < Len(asks)
    BY <1>1, <1>4
  <2>2. w = [bids |-> b, asks |-> a, levels |-> all, intact |-> TRUE]
    BY DEF BatchToBytes
  <2>3. Len(all) = Len(bids) + Len(asks)
    OBVIOUS
  <2> HIDE DEF b, a, w, all
  <2>4. w.levels = all /\ w.bids = b /\ w.asks = a
    BY <2>2
  <2>5. BatchFromBytes(w).asks = SubSeq(all, b + 1, b + a)
    BY <2>4, Zenon DEF BatchFromBytes
  <2>6. Len(SubSeq(all, b + 1, b + a)) = a
    <3>1. b + 1 \in Nat /\ b + a \in Nat /\ b + a <= Len(all) /\ 1 <= b + 1
      BY <1>1, <2>1, <2>3
    <3>2. all \in Seq(S)
      BY DEF all
    <3> QED
      BY <2>1, <3>1, <3>2
  <2>7. Len(asks) # a
    BY <1>1, <2>1
  <2> QED
    BY <2>5, <2>6, <2>7 DEF w
<1> QED
  BY <1>1, <1>2, <1>3, <1>4

-----------------------------------------------------------------------------
(* Powers of ten, from 10^0 to 10^n. *)
IsPowers(p, n) ==
  /\ p \in [0 .. n -> Nat]
  /\ p[0] = 1
  /\ \A j, k \in 0 .. n : k = j + 1 => p[k] = 10 * p[j]

TensFolded(iter, n) ==
  iter = [s \in SUBSET (1 .. n) |-> IF s = {} THEN 1 ELSE 10 * iter[s \ {Max(s)}]]

LEMMA TensFoldExists == ASSUME NEW n \in Nat PROVE \E iter : TensFolded(iter, n)
<1> DEFINE step == [x \in (1 .. n) \X Nat |-> 10 * x[2]]
<1>1. IsStep(step, n, Nat) /\ 1 \in Nat
  BY DEF IsStep
<1> HIDE DEF step
<1>2. PICK g : IsFold(g, n, Nat, 1, step)
  BY <1>1, FoldExists
<1>3. ASSUME NEW s \in SUBSET (1 .. n)
      PROVE  g[s] = IF s = {} THEN 1 ELSE 10 * g[s \ {Max(s)}]
  <2>1. CASE s = {}
    BY <1>2, <2>1 DEF IsFold
  <2>2. CASE s # {}
    <3>1. s \subseteq 0 .. n
      OBVIOUS
    <3>2. Max(s) \in 1 .. n
      BY <2>2, <3>1, GreatestIsMax
    <3>3. g[s \ {Max(s)}] \in Nat
      BY <1>2 DEF IsFold
    <3>4. step[<<Max(s), g[s \ {Max(s)}]>>] = 10 * g[s \ {Max(s)}]
      BY <3>2, <3>3 DEF step
    <3> QED BY <1>2, <2>2, <3>4 DEF IsFold
  <2> QED BY <2>1, <2>2
<1> QED BY <1>2, <1>3 DEF TensFolded, IsFold

LEMMA TensFoldSteps ==
  ASSUME NEW n \in Nat, NEW iter, TensFolded(iter, n)
  PROVE  IsPowers([k \in 0 .. n |-> iter[1 .. k]], n)
<1> DEFINE p == [k \in 0 .. n |-> iter[1 .. k]]
<1>1. iter[1 .. 0] = 1
  <2>1. 1 .. 0 = {} /\ {} \in SUBSET (1 .. n)
    OBVIOUS
  <2> QED BY <2>1, Zenon DEF TensFolded
<1>2. ASSUME NEW j \in 0 .. n, NEW k \in 0 .. n, k = j + 1 PROVE p[k] = 10 * p[j]
  <2>1. /\ 1 .. k \in SUBSET (1 .. n) /\ 1 .. k # {}
        /\ Max(1 .. k) = k /\ (1 .. k) \ {k} = 1 .. j
    BY <1>2, FirstOfInterval
  <2>2. iter[1 .. k] = 10 * iter[(1 .. k) \ {Max(1 .. k)}]
    BY <2>1, Zenon DEF TensFolded
  <2> QED BY <2>1, <2>2
<1>3. p[0] = 1
  BY <1>1
<1> DEFINE G == {k \in 0 .. n : p[k] \in Nat}
<1>4. 0 .. n \subseteq G
  <2>1. 0 \in G
    BY <1>3
  <2>2. ASSUME NEW k \in 1 .. n, k - 1 \in G PROVE k \in G
    <3>1. p[k] = 10 * p[k - 1] /\ p[k - 1] \in Nat
      BY <1>2, <2>2
    <3> HIDE DEF p
    <3> QED BY <3>1
  <2> HIDE DEF G
  <2> QED BY <2>1, <2>2, CountUp
<1>5. p \in [0 .. n -> Nat]
  BY <1>4
<1> HIDE DEF p
<1> QED BY <1>2, <1>3, <1>5 DEF IsPowers, p

LEMMA PowerIsLast ==
  ASSUME NEW n \in Nat
  PROVE  \E p : IsPowers(p, n) /\ p[n] = PowerOfTen(n)
<1> DEFINE chosen == CHOOSE iter : TensFolded(iter, n)
           p == [k \in 0 .. n |-> chosen[1 .. k]]
           seq == [i \in 1 .. n |-> i]
<1>1. PowerOfTen(n) = (CHOOSE iter : iter = [s \in SUBSET DOMAIN seq |->
                        IF s = {} THEN 1 ELSE 10 * iter[s \ {Max(s)}]])[DOMAIN seq]
  BY DEF PowerOfTen, FoldLeft, MapThenFoldSet
<1>2. DOMAIN seq = 1 .. n
  OBVIOUS
<1>3. PowerOfTen(n) = chosen[1 .. n]
  BY <1>1, <1>2 DEF TensFolded
<1>4. TensFolded(chosen, n)
  BY TensFoldExists, Zenon
<1> HIDE DEF chosen
<1>5. IsPowers(p, n)
  BY <1>4, TensFoldSteps
<1>6. p[n] = PowerOfTen(n)
  BY <1>3
<1> QED BY <1>5, <1>6

LEMMA PowersAgree ==
  ASSUME NEW n \in Nat, NEW m \in 0 .. n, NEW p, NEW r, IsPowers(p, m), IsPowers(r, n)
  PROVE  p[m] = r[m]
<1> DEFINE G == {k \in 0 .. m : p[k] = r[k]}
<1>1. 0 \in G
  BY DEF IsPowers
<1>2. ASSUME NEW k \in 1 .. m, k - 1 \in G PROVE k \in G
  <2>1. k - 1 \in 0 .. m /\ k \in 0 .. m /\ k - 1 \in 0 .. n /\ k \in 0 .. n /\ k = (k - 1) + 1
    OBVIOUS
  <2>2. p[k] = 10 * p[k - 1] /\ r[k] = 10 * r[k - 1]
    BY <2>1, Zenon DEF IsPowers
  <2> QED BY <1>2, <2>1, <2>2
<1> HIDE DEF G
<1>3. m \in G
  <2>1. m \in Nat /\ m \in 0 .. m
    OBVIOUS
  <2> QED BY <1>1, <1>2, <2>1, CountUp
<1> QED BY <1>3 DEF G

(* 10^n is a natural number and not 0. *)
LEMMA PowerIsPositive ==
  ASSUME NEW n \in Nat
  PROVE  PowerOfTen(n) \in Nat \ {0}
<1>1. PICK p : IsPowers(p, n) /\ p[n] = PowerOfTen(n)
  BY PowerIsLast
<1> DEFINE G == {k \in 0 .. n : p[k] # 0}
<1>2. 0 \in G
  BY <1>1 DEF IsPowers
<1>3. ASSUME NEW k \in 1 .. n, k - 1 \in G PROVE k \in G
  <2>1. k - 1 \in 0 .. n /\ k \in 0 .. n /\ k = (k - 1) + 1
    OBVIOUS
  <2>2. p[k] = 10 * p[k - 1] /\ p[k - 1] \in Nat
    BY <1>1, <2>1 DEF IsPowers
  <2> QED BY <1>3, <2>1, <2>2
<1> HIDE DEF G
<1>4. n \in G
  <2>1. n \in 0 .. n
    OBVIOUS
  <2> QED BY <1>2, <1>3, <2>1, CountUp
<1>5. n \in 0 .. n
  OBVIOUS
<1> QED BY <1>1, <1>4, <1>5 DEF G, IsPowers

(* 10^a * 10^b = 10^(a + b). *)
LEMMA PowersMultiply ==
  ASSUME NEW a \in Nat, NEW b \in Nat
  PROVE  PowerOfTen(a + b) = PowerOfTen(a) * PowerOfTen(b)
<1> DEFINE n == a + b
<1>1. n \in Nat /\ a \in 0 .. n /\ b \in 0 .. n
  OBVIOUS
<1> HIDE DEF n
<1>2. PICK p : IsPowers(p, n) /\ p[n] = PowerOfTen(n)
  BY <1>1, PowerIsLast
<1>3. ASSUME NEW m \in 0 .. n PROVE PowerOfTen(m) = p[m]
  <2>1. PICK r : IsPowers(r, m) /\ r[m] = PowerOfTen(m)
    BY <1>3, PowerIsLast
  <2> QED BY <1>1, <1>2, <2>1, PowersAgree
<1> DEFINE G == {k \in 0 .. b : p[a + k] = p[a] * p[k]}
<1>4. 0 \in G
  <2>1. p[a] \in Nat /\ p[0] = 1 /\ a + 0 = a
    BY <1>1, <1>2 DEF IsPowers
  <2> QED BY <2>1
<1>5. ASSUME NEW k \in 1 .. b, k - 1 \in G PROVE k \in G
  <2>1. /\ k - 1 \in 0 .. n /\ k \in 0 .. n /\ k = (k - 1) + 1
        /\ a + (k - 1) \in 0 .. n /\ a + k \in 0 .. n /\ a + k = (a + (k - 1)) + 1
    BY <1>1 DEF n
  <2>2. p[k] = 10 * p[k - 1] /\ p[a + k] = 10 * p[a + (k - 1)]
    BY <1>2, <2>1, Zenon DEF IsPowers
  <2>3. p[a + (k - 1)] = p[a] * p[k - 1]
    BY <1>5
  <2>4. p[a] \in Nat /\ p[k - 1] \in Nat
    BY <1>1, <1>2, <2>1 DEF IsPowers
  <2>5. \A x, y \in Nat : 10 * (x * y) = x * (10 * y)
    OBVIOUS
  <2>6. p[a + k] = p[a] * p[k]
    BY <2>2, <2>3, <2>4, <2>5
  <2> QED BY <2>6
<1> HIDE DEF G
<1>6. b \in G
  <2>1. b \in 0 .. b
    OBVIOUS
  <2> QED BY <1>4, <1>5, <2>1, CountUp
<1>7. p[n] = p[a] * p[b]
  BY <1>6 DEF G, n
<1> QED BY <1>1, <1>3, <1>7, n \in 0 .. n DEF n

-----------------------------------------------------------------------------
DigitsFolded(iter, d, n) ==
  iter = [s \in SUBSET (1 .. n) |-> IF s = {} THEN 0 ELSE 10 * iter[s \ {Max(s)}] + d[Max(s)]]

LEMMA DigitsFoldExists ==
  ASSUME NEW n \in Nat, NEW d \in [1 .. n -> Nat]
  PROVE  \E iter : DigitsFolded(iter, d, n)
<1> DEFINE step == [x \in (1 .. n) \X Nat |-> 10 * x[2] + d[x[1]]]
<1>1. IsStep(step, n, Nat) /\ 0 \in Nat
  BY DEF IsStep
<1> HIDE DEF step
<1>2. PICK g : IsFold(g, n, Nat, 0, step)
  BY <1>1, FoldExists
<1>3. ASSUME NEW s \in SUBSET (1 .. n)
      PROVE  g[s] = IF s = {} THEN 0 ELSE 10 * g[s \ {Max(s)}] + d[Max(s)]
  <2>1. CASE s = {}
    BY <1>2, <2>1 DEF IsFold
  <2>2. CASE s # {}
    <3>1. s \subseteq 0 .. n
      OBVIOUS
    <3>2. Max(s) \in 1 .. n
      BY <2>2, <3>1, GreatestIsMax
    <3>3. g[s \ {Max(s)}] \in Nat
      BY <1>2 DEF IsFold
    <3>4. step[<<Max(s), g[s \ {Max(s)}]>>] = 10 * g[s \ {Max(s)}] + d[Max(s)]
      BY <3>2, <3>3 DEF step
    <3> QED BY <1>2, <2>2, <3>4 DEF IsFold
  <2> QED BY <2>1, <2>2
<1> QED BY <1>2, <1>3 DEF DigitsFolded, IsFold

(* Digits make a natural number. *)
LEMMA NumberIsNatural ==
  ASSUME NEW n \in Nat, NEW d \in [1 .. n -> Nat]
  PROVE  Number(d) \in Nat
<1> DEFINE chosen == CHOOSE iter : DigitsFolded(iter, d, n)
<1>1. Number(d) = (CHOOSE iter : iter = [s \in SUBSET DOMAIN d |->
                    IF s = {} THEN 0 ELSE 10 * iter[s \ {Max(s)}] + d[Max(s)]])[DOMAIN d]
  BY DEF Number, FoldLeft, MapThenFoldSet
<1>2. Number(d) = chosen[1 .. n]
  BY <1>1 DEF DigitsFolded
<1>3. DigitsFolded(chosen, d, n)
  BY DigitsFoldExists, Zenon
<1> HIDE DEF chosen
<1> DEFINE G == {k \in 0 .. n : chosen[1 .. k] \in Nat}
<1>4. 0 \in G
  <2>1. 1 .. 0 = {} /\ {} \in SUBSET (1 .. n)
    OBVIOUS
  <2>2. chosen[1 .. 0] = 0
    BY <1>3, <2>1, Zenon DEF DigitsFolded
  <2> QED BY <2>2
<1>5. ASSUME NEW k \in 1 .. n, k - 1 \in G PROVE k \in G
  <2>1. k - 1 \in 0 .. n /\ k \in 0 .. n /\ k = (k - 1) + 1
    OBVIOUS
  <2>2. /\ 1 .. k \in SUBSET (1 .. n) /\ 1 .. k # {}
        /\ Max(1 .. k) = k /\ (1 .. k) \ {k} = 1 .. k - 1
    BY <2>1, FirstOfInterval
  <2>3. chosen[1 .. k] = 10 * chosen[(1 .. k) \ {Max(1 .. k)}] + d[Max(1 .. k)]
    BY <1>3, <2>2, Zenon DEF DigitsFolded
  <2>4. chosen[1 .. k] = 10 * chosen[1 .. k - 1] + d[k]
    BY <2>2, <2>3
  <2>5. chosen[1 .. k - 1] \in Nat /\ d[k] \in Nat
    BY <1>5
  <2> QED BY <2>1, <2>4, <2>5
<1> HIDE DEF G
<1>6. n \in G
  <2>1. n \in 0 .. n
    OBVIOUS
  <2> QED BY <1>4, <1>5, <2>1, CountUp
<1> QED BY <1>2, <1>6 DEF G

(* What is read of the number n with f digits after its point.             *)
Scaled(n, f) ==
  IF f <= Decimals THEN n * PowerOfTen(Decimals - f) ELSE n \div PowerOfTen(f - Decimals)

LEMMA ScaledIsExact ==
  ASSUME NEW n \in Nat, NEW f \in Nat
  PROVE  /\ Scaled(n, f) \in Nat
         /\ Scaled(n, f) * PowerOfTen(f) <= n * PowerOfTen(Decimals)
         /\ n * PowerOfTen(Decimals) < (Scaled(n, f) + 1) * PowerOfTen(f)
<1> DEFINE whole == PowerOfTen(Decimals)
           unit  == PowerOfTen(f)
<1>0. Decimals \in Nat
  BY CodecAssumption
<1>1. whole \in Nat \ {0} /\ unit \in Nat \ {0}
  BY <1>0, PowerIsPositive
<1>2. CASE f <= Decimals
  <2> DEFINE p == PowerOfTen(Decimals - f)
             s == n * p
  <2>1. Decimals - f \in Nat /\ (Decimals - f) + f = Decimals
    BY <1>0, <1>2
  <2>2. p \in Nat /\ whole = p * unit
    <3>1. p \in Nat
      BY <2>1, PowerIsPositive
    <3>2. PowerOfTen((Decimals - f) + f) = p * unit
      BY <2>1, PowersMultiply
    <3> QED BY <2>1, <3>1, <3>2
  <2>3. Scaled(n, f) = s
    BY <1>2 DEF Scaled
  <2> HIDE DEF p, whole, unit
  <2>4. \A a, b, c \in Nat : (a * b) * c = a * (b * c) /\ a * b \in Nat
    OBVIOUS
  <2>5. s \in Nat /\ s * unit = n * whole
    BY <1>1, <2>2, <2>4
  <2> HIDE DEF s
  <2>6. n * whole \in Nat /\ (s + 1) * unit = s * unit + unit
    BY <1>1, <2>5
  <2>7. s * unit <= n * whole /\ n * whole < (s + 1) * unit
    BY <1>1, <2>5, <2>6
  <2> QED BY <2>3, <2>5, <2>7 DEF whole, unit
<1>3. CASE f > Decimals
  <2> DEFINE p == PowerOfTen(f - Decimals)
             s == n \div p
  <2>1. f - Decimals \in Nat /\ (f - Decimals) + Decimals = f
    BY <1>0, <1>3
  <2>2. p \in Nat \ {0} /\ unit = p * whole
    <3>1. p \in Nat \ {0}
      BY <2>1, PowerIsPositive
    <3>2. PowerOfTen((f - Decimals) + Decimals) = p * whole
      BY <1>0, <2>1, PowersMultiply
    <3> QED BY <2>1, <3>1, <3>2
  <2>3. Scaled(n, f) = s
    BY <1>0, <1>3 DEF Scaled
  <2> HIDE DEF p, whole, unit
  <2>4. s \in Nat /\ p * s <= n /\ n < p * (s + 1)
    BY <2>2
  <2> HIDE DEF s
  <2>5. \A x, y, w \in Nat : w # 0 => /\ (x <= y => x * w <= y * w)
                                     /\ (x < y => x * w < y * w)
    OBVIOUS
  <2>6. \A a, b, c \in Nat : (a * b) * c = b * (a * c) /\ a * b \in Nat
    OBVIOUS
  <2>7. /\ (p * s) * whole <= n * whole
        /\ n * whole < (p * (s + 1)) * whole
    <3>1. p * s \in Nat /\ p * (s + 1) \in Nat /\ whole \in Nat /\ whole # 0
      BY <1>1, <2>2, <2>4, <2>6
    <3> QED BY <2>4, <2>5, <3>1
  <2>8. /\ (p * s) * whole = s * unit
        /\ (p * (s + 1)) * whole = (s + 1) * unit
    <3>1. s + 1 \in Nat /\ p \in Nat /\ whole \in Nat
      BY <1>1, <2>2, <2>4
    <3> QED BY <2>2, <2>4, <2>6, <3>1
  <2> QED BY <2>3, <2>4, <2>7, <2>8 DEF whole, unit
<1> QED BY <1>0, <1>2, <1>3

LEMMA ParsedIsExact ==
  ASSUME NEW negative \in BOOLEAN, NEW whole \in Seq(0 .. 9), NEW fraction \in Seq(0 .. 9)
  PROVE  LET read  == Parsed(negative, whole, fraction)
             value == Number(whole \o fraction) * PowerOfTen(Decimals)
             unit  == PowerOfTen(Len(fraction))
         IN  /\ Magnitude(read) * unit <= value /\ value < (Magnitude(read) + 1) * unit
             /\ read # 0 => (negative <=> read < 0)
<1> DEFINE n == Number(whole \o fraction)
           f == Len(fraction)
           s == Scaled(n, f)
           read == Parsed(negative, whole, fraction)
<1>1. n \in Nat
  <2>1. whole \o fraction \in [1 .. Len(whole \o fraction) -> Nat] /\ Len(whole \o fraction) \in Nat
    <3> DEFINE d == whole \o fraction
    <3>1. d \in Seq(0 .. 9)
      OBVIOUS
    <3> HIDE DEF d
    <3>2. d \in [1 .. Len(d) -> 0 .. 9] /\ Len(d) \in Nat
      BY <3>1, LenProperties
    <3>3. d \in [1 .. Len(d) -> Nat]
      BY <3>2
    <3> QED BY <3>2, <3>3 DEF d
  <2> QED BY <2>1, NumberIsNatural
<1>2. f \in Nat
  OBVIOUS
<1>3. read = IF negative THEN -s ELSE s
  BY DEF Parsed, Scaled
<1> HIDE DEF n, f, read
<1>4. /\ s \in Nat
      /\ s * PowerOfTen(f) <= n * PowerOfTen(Decimals)
      /\ n * PowerOfTen(Decimals) < (s + 1) * PowerOfTen(f)
  BY <1>1, <1>2, ScaledIsExact
<1> HIDE DEF s
<1>5. Magnitude(read) = s /\ (read # 0 => (negative <=> read < 0))
  BY <1>3, <1>4 DEF Magnitude
<1> QED BY <1>4, <1>5 DEF n, f, read

-----------------------------------------------------------------------------
(* The narrowest scheme that has all characters of a symbol and room for   *)
(* them. *)
LEMMA WidthFits ==
  ASSUME NEW s, Encodable(s)
  PROVE  /\ Width(s) \in 4 .. 7 /\ Fits(s, Width(s))
         /\ \A w \in 4 .. 7 : Fits(s, w) => Width(s) <= w
<1> DEFINE T == {w \in 4 .. 7 : Fits(s, w)}
<1>1. T \subseteq Nat /\ T # {}
  BY DEF Encodable
<1>2. Width(s) = Min(T)
  BY DEF Width
<1> HIDE DEF T
<1>3. Min(T) \in T /\ \A y \in T : Min(T) <= y
  BY <1>1, LeastIsMin
<1> QED BY <1>2, <1>3 DEF T

LEMMA SymbolHasRoom ==
  ASSUME NEW s \in Seq(0 .. 36), NEW w \in 4 .. 7, Fits(s, w)
  PROVE  w * Len(s) <= 128 /\ \A i \in 1 .. Len(s) : s[i] \in Alphabet(w)
<1>1. Len(s) \in Nat /\ Len(s) <= 128 \div w
  BY DEF Fits
<1>2. w * Len(s) <= 128
  <2>1. CASE w = 4
    BY <1>1, <2>1
  <2>2. CASE w = 5
    BY <1>1, <2>2
  <2>3. CASE w = 6
    BY <1>1, <2>3
  <2>4. CASE w = 7
    BY <1>1, <2>4
  <2> QED BY <2>1, <2>2, <2>3, <2>4
<1>3. \A i \in 1 .. Len(s) : s[i] \in ToSet(s)
  BY DEF ToSet
<1> QED BY <1>2, <1>3 DEF Fits

-----------------------------------------------------------------------------
(* What a field of w bits can hold.                                        *)
FitsBits(w, v) ==
  /\ w = 4 => v <= 15
  /\ w = 5 => v <= 31
  /\ w = 6 => v <= 63

LEMMA CodeIsSmall ==
  ASSUME NEW w \in 4 .. 7, NEW c \in Alphabet(w)
  PROVE  /\ Code(w, c) \in 0 .. 127 /\ c \in 0 .. 36
         /\ w # 6 => Code(w, c) # 0
         /\ ~(w = 4 /\ c = 5) => FitsBits(w, Code(w, c))
         /\ w = 4 /\ c = 5 => Code(w, c) = 16
         /\ w = 6 => (Code(w, c) = c /\ c \in 0 .. 35)
<1>1. CASE w = 4
  BY <1>1 DEF Alphabet, Code, Letters, Digits, FitsBits
<1>2. CASE w = 5
  BY <1>2 DEF Alphabet, Code, Letters, Digits, FitsBits
<1>3. CASE w = 6
  BY <1>3 DEF Alphabet, Code, Letters, Digits, FitsBits
<1>4. CASE w = 7
  BY <1>4 DEF Alphabet, Code, Letters, Digits, FitsBits
<1> QED BY <1>1, <1>2, <1>3, <1>4

LEMMA CodesDiffer ==
  ASSUME NEW w \in 4 .. 7, NEW c \in Alphabet(w), NEW d \in Alphabet(w), Code(w, c) = Code(w, d)
  PROVE  c = d
<1>1. CASE w = 4
  BY <1>1 DEF Alphabet, Code, Letters, Digits
<1>2. CASE w = 5
  BY <1>2 DEF Alphabet, Code, Letters, Digits
<1>3. CASE w = 6
  BY <1>3 DEF Alphabet, Code, Letters, Digits
<1>4. CASE w = 7
  BY <1>4 DEF Alphabet, Code, Letters, Digits
<1> QED BY <1>1, <1>2, <1>3, <1>4

(* The number that the first bits of v are.                                *)
BitsOf(v) == {k \in 0 .. 6 : (v \div 2^k) % 2 = 1}

Bit(v, k) == IF k \in BitsOf(v) THEN 2^k ELSE 0

LEMMA BitValue ==
  ASSUME NEW v \in 0 .. 127
  PROVE  /\ Bit(v, 0) = v % 2 /\ Bit(v, 1) = 2 * ((v \div 2) % 2)
         /\ Bit(v, 2) = 4 * ((v \div 4) % 2) /\ Bit(v, 3) = 8 * ((v \div 8) % 2)
         /\ Bit(v, 4) = 16 * ((v \div 16) % 2) /\ Bit(v, 5) = 32 * ((v \div 32) % 2)
         /\ Bit(v, 6) = 64 * ((v \div 64) % 2)
<1>1. 2^0 = 1 /\ 2^1 = 2 /\ 2^2 = 4 /\ 2^3 = 8 /\ 2^4 = 16 /\ 2^5 = 32 /\ 2^6 = 64
  OBVIOUS
<1>2. Bit(v, 0) = v % 2
  BY <1>1 DEF Bit, BitsOf
<1>3. Bit(v, 1) = 2 * ((v \div 2) % 2)
  BY <1>1 DEF Bit, BitsOf
<1>4. Bit(v, 2) = 4 * ((v \div 4) % 2)
  BY <1>1 DEF Bit, BitsOf
<1>5. Bit(v, 3) = 8 * ((v \div 8) % 2)
  BY <1>1 DEF Bit, BitsOf
<1>6. Bit(v, 4) = 16 * ((v \div 16) % 2)
  BY <1>1 DEF Bit, BitsOf
<1>7. Bit(v, 5) = 32 * ((v \div 32) % 2)
  BY <1>1 DEF Bit, BitsOf
<1>8. Bit(v, 6) = 64 * ((v \div 64) % 2)
  BY <1>1 DEF Bit, BitsOf
<1> QED BY <1>2, <1>3, <1>4, <1>5, <1>6, <1>7, <1>8

LEMMA BinaryDigits ==
  ASSUME NEW v \in 0 .. 127
  PROVE  /\ v = Bit(v, 0) + Bit(v, 1) + Bit(v, 2) + Bit(v, 3) + Bit(v, 4) + Bit(v, 5) + Bit(v, 6)
         /\ v <= 15 => Bit(v, 4) = 0
         /\ v <= 31 => Bit(v, 5) = 0
         /\ v <= 63 => Bit(v, 6) = 0
         /\ v = 16 => Bit(v, 0) = 0 /\ Bit(v, 1) = 0 /\ Bit(v, 2) = 0 /\ Bit(v, 3) = 0
<1>1. \A n \in 0 .. 127 : n = (n % 2) + 2 * ((n \div 2) % 2) + 4 * ((n \div 4) % 2) + 8 * ((n \div 8) % 2)
                              + 16 * ((n \div 16) % 2) + 32 * ((n \div 32) % 2) + 64 * ((n \div 64) % 2)
  OBVIOUS
<1>2. \A n \in 0 .. 127 : /\ n <= 15 => n \div 16 = 0
                          /\ n <= 31 => n \div 32 = 0
                          /\ n <= 63 => n \div 64 = 0
  OBVIOUS
<1>3. v = 16 => v % 2 = 0 /\ v \div 2 = 8 /\ v \div 4 = 4 /\ v \div 8 = 2
  OBVIOUS
<1>4. v = 16 => Bit(v, 0) = 0 /\ Bit(v, 1) = 0 /\ Bit(v, 2) = 0 /\ Bit(v, 3) = 0
  BY <1>3, BitValue
<1> QED BY <1>1, <1>2, <1>4, BitValue

LEMMA BitsTotal ==
  ASSUME NEW w \in 4 .. 7, NEW v \in 0 .. 127, FitsBits(w, v) \/ (w = 4 /\ v = 16)
  PROVE  Total([k \in 1 .. w |-> Bit(v, k - 1)]) = IF FitsBits(w, v) THEN v ELSE 0
<1> DEFINE t == [k \in 1 .. w |-> Bit(v, k - 1)]
<1>1. /\ Bit(v, 0) = v % 2 /\ Bit(v, 1) = 2 * ((v \div 2) % 2)
      /\ Bit(v, 2) = 4 * ((v \div 4) % 2) /\ Bit(v, 3) = 8 * ((v \div 8) % 2)
      /\ Bit(v, 4) = 16 * ((v \div 16) % 2) /\ Bit(v, 5) = 32 * ((v \div 32) % 2)
      /\ Bit(v, 6) = 64 * ((v \div 64) % 2)
  BY BitValue
<1>2. /\ w \in Nat /\ t \in [1 .. w -> Int]
  <2> SUFFICES ASSUME NEW k \in 1 .. w PROVE Bit(v, k - 1) \in Int
    OBVIOUS
  <2>1. k \in 1 .. 7
    OBVIOUS
  <2> QED BY <1>1, <2>1
<1>3. /\ t[1] = Bit(v, 0) /\ t[2] = Bit(v, 1) /\ t[3] = Bit(v, 2) /\ t[4] = Bit(v, 3)
      /\ w >= 5 => t[5] = Bit(v, 4)
      /\ w >= 6 => t[6] = Bit(v, 5)
      /\ w >= 7 => t[7] = Bit(v, 6)
  BY DEF t
<1>0. /\ Bit(v, 0) \in Int /\ Bit(v, 1) \in Int /\ Bit(v, 2) \in Int /\ Bit(v, 3) \in Int
      /\ Bit(v, 4) \in Int /\ Bit(v, 5) \in Int /\ Bit(v, 6) \in Int
  BY <1>1
<1> HIDE DEF t
<1>4. PICK p : PartialSums(t, w, p) /\ \A k \in 0 .. w : p[k] = SumTo(t, k) /\ p[k] \in Int
  BY <1>2, SumsExist
<1>5. /\ p[0] = 0 /\ \A k \in 0 .. w : p[k] \in Int
      /\ \A j, k \in 0 .. w : k = j + 1 => p[k] - p[j] = t[k]
  BY <1>4 DEF PartialSums
<1>6. Total(t) = p[w]
  BY <1>2, <1>4, TotalIsSum
<1>7. p[4] = t[1] + t[2] + t[3] + t[4] /\ p[4] \in Int
  <2>1. p[1] - p[0] = t[1] /\ p[2] - p[1] = t[2] /\ p[3] - p[2] = t[3] /\ p[4] - p[3] = t[4]
    BY <1>5
  <2>2. p[1] \in Int /\ p[2] \in Int /\ p[3] \in Int /\ p[4] \in Int
    BY <1>5
  <2> QED BY <1>0, <1>3, <1>5, <2>1, <2>2
<1>8. /\ w >= 5 => p[5] = p[4] + t[5]
      /\ w >= 6 => p[6] = p[5] + t[6]
      /\ w >= 7 => p[7] = p[6] + t[7]
  <2>1. /\ w >= 5 => p[5] - p[4] = t[5] /\ p[5] \in Int
        /\ w >= 6 => p[6] - p[5] = t[6] /\ p[6] \in Int
        /\ w >= 7 => p[7] - p[6] = t[7] /\ p[7] \in Int
    BY <1>5
  <2> QED BY <1>0, <1>3, <1>7, <2>1
<1>9. Total(t) = IF FitsBits(w, v) THEN v ELSE 0
  <2>1. CASE w = 4
    BY <1>0, <1>3, <1>6, <1>7, <2>1, BinaryDigits DEF FitsBits
  <2>2. CASE w = 5
    BY <1>0, <1>3, <1>6, <1>7, <1>8, <2>2, BinaryDigits DEF FitsBits
  <2>3. CASE w = 6
    BY <1>0, <1>3, <1>6, <1>7, <1>8, <2>3, BinaryDigits DEF FitsBits
  <2>4. CASE w = 7
    BY <1>0, <1>3, <1>6, <1>7, <1>8, <2>4, BinaryDigits DEF FitsBits
  <2> QED BY <2>1, <2>2, <2>3, <2>4
<1> QED BY <1>9 DEF t

-----------------------------------------------------------------------------
(* Places in the 128 bits: the k-th bit of the i-th of the fields.         *)
LEMMA PlacesDiffer ==
  ASSUME NEW w \in 4 .. 7, NEW i \in 1 .. 32, NEW j \in 1 .. 32, NEW k \in 0 .. w - 1, NEW m \in 0 .. w - 1,
         w * (i - 1) + k = w * (j - 1) + m
  PROVE  i = j /\ k = m
<1>1. CASE w = 4
  BY <1>1
<1>2. CASE w = 5
  BY <1>2
<1>3. CASE w = 6
  BY <1>3
<1>4. CASE w = 7
  BY <1>4
<1> QED BY <1>1, <1>2, <1>3, <1>4

LEMMA BitsFit ==
  ASSUME NEW w \in 4 .. 7, NEW v \in 0 .. 127, FitsBits(w, v)
  PROVE  BitsOf(v) \subseteq 0 .. w - 1
<1>1. 4 \in BitsOf(v) => w # 4
  <2>1. 2^4 = 16
    OBVIOUS
  <2> QED BY <2>1 DEF BitsOf, FitsBits
<1>2. 5 \in BitsOf(v) => w > 5
  <2>1. 2^5 = 32
    OBVIOUS
  <2> QED BY <2>1 DEF BitsOf, FitsBits
<1>3. 6 \in BitsOf(v) => w > 6
  <2>1. 2^6 = 64
    OBVIOUS
  <2> QED BY <2>1 DEF BitsOf, FitsBits
<1>4. BitsOf(v) \subseteq 0 .. 6
  BY DEF BitsOf
<1> QED BY <1>1, <1>2, <1>3, <1>4

LEMMA BitsOfSixteen == BitsOf(16) = {4}
<1>1. 2^0 = 1 /\ 2^1 = 2 /\ 2^2 = 4 /\ 2^3 = 8 /\ 2^4 = 16 /\ 2^5 = 32 /\ 2^6 = 64
  OBVIOUS
<1>3. ASSUME NEW k \in 0 .. 6 PROVE (16 \div 2^k) % 2 = 1 <=> k = 4
  <2>1. CASE k = 0
    BY <1>1, <2>1
  <2>2. CASE k = 1
    BY <1>1, <2>2
  <2>3. CASE k = 2
    BY <1>1, <2>3
  <2>4. CASE k = 3
    BY <1>1, <2>4
  <2>5. CASE k = 4
    BY <1>1, <2>5
  <2>6. CASE k = 5
    BY <1>1, <2>6
  <2>7. CASE k = 6
    BY <1>1, <2>7
  <2> QED BY <2>1, <2>2, <2>3, <2>4, <2>5, <2>6, <2>7
<1>4. 4 \in 0 .. 6
  OBVIOUS
<1> QED BY <1>3, <1>4, Zenon DEF BitsOf

(* The bit of a code stays where it was or-ed in, or belongs to a code     *)
(* that goes on in the next word.                                          *)
Stays(w, j, k) == w * (j - 1) < 64 /\ w * (j - 1) + k >= 64 => w * (j - 1) + w > 64

LEMMA PackedHas ==
  ASSUME NEW s, NEW x
  PROVE  x \in Packed(s) <=>
           /\ x \in 0 .. 127
           /\ \E j \in DOMAIN s : \E k \in BitsOf(Code(Width(s), s[j])) :
                x = Width(s) * (j - 1) + k /\ Stays(Width(s), j, k)
<1> DEFINE w == Width(s)
           at(i) == w * (i - 1)
           kept(i) == {k \in BitsOf(Code(w, s[i])) : at(i) < 64 /\ at(i) + k >= 64 => at(i) + w > 64}
<1>1. Packed(s) = (UNION {{at(i) + k : k \in kept(i)} : i \in DOMAIN s}) \cap 0 .. 127
  BY Zenon DEF Packed, BitsOf
<1>2. \A i : \A k : k \in kept(i) <=> k \in BitsOf(Code(w, s[i])) /\ Stays(w, i, k)
  BY Zenon DEF Stays
<1> HIDE DEF kept
<1>3. x \in Packed(s) <=> x \in 0 .. 127 /\ \E i \in DOMAIN s : x \in {at(i) + k : k \in kept(i)}
  BY <1>1
<1>4. \A i : x \in {at(i) + k : k \in kept(i)} <=> \E k \in kept(i) : x = at(i) + k
  OBVIOUS
<1> QED BY <1>2, <1>3, <1>4

(* A symbol that its scheme takes.                                         *)
Taken(s, w) == s \in Seq(0 .. 36) /\ w \in 4 .. 7 /\ Fits(s, w) /\ w = Width(s)

CodeAt(s, w, i) == Code(w, s[i])

LEMMA TakenFits ==
  ASSUME NEW s, NEW w, Taken(s, w)
  PROVE  /\ w \in 4 .. 7 /\ Len(s) \in Nat /\ w * Len(s) <= 128 /\ DOMAIN s = 1 .. Len(s) /\ Len(s) <= 32
         /\ \A j \in 1 .. Len(s) : s[j] \in Alphabet(w)
<1>1. w \in 4 .. 7 /\ Len(s) \in Nat /\ DOMAIN s = 1 .. Len(s)
  BY DEF Taken
<1>2. w * Len(s) <= 128 /\ \A j \in 1 .. Len(s) : s[j] \in Alphabet(w)
  BY SymbolHasRoom DEF Taken
<1>3. \A n \in Nat : \A v \in 4 .. 7 : v * n <= 128 => n <= 32
  <2> SUFFICES ASSUME NEW n \in Nat, NEW v \in 4 .. 7, v * n <= 128 PROVE n <= 32
    OBVIOUS
  <2>1. CASE v = 4
    BY <2>1
  <2>2. CASE v = 5
    BY <2>2
  <2>3. CASE v = 6
    BY <2>3
  <2>4. CASE v = 7
    BY <2>4
  <2> QED BY <2>1, <2>2, <2>3, <2>4
<1> QED BY <1>1, <1>2, <1>3

(* Up to the first 'F' of a hexadecimal symbol every field holds the bits  *)
(* of its own code that have room in it, and the fields after the text are *)
(* empty.                                                                  *)
LEMMA OwnBits ==
  ASSUME NEW s, NEW w, Taken(s, w), NEW i \in 1 .. Len(s), NEW k \in 0 .. w - 1,
         \A j \in 1 .. i - 1 : FitsBits(w, CodeAt(s, w, j))
  PROVE  w * (i - 1) + k \in Packed(s) <=> k \in BitsOf(CodeAt(s, w, i))
<1> DEFINE x == w * (i - 1) + k
<1>1. /\ w \in 4 .. 7 /\ Len(s) \in Nat /\ w * Len(s) <= 128 /\ DOMAIN s = 1 .. Len(s) /\ Len(s) <= 32
      /\ \A j \in 1 .. Len(s) : s[j] \in Alphabet(w)
  BY TakenFits
<1>2. x \in 0 .. 127 /\ Stays(w, i, k)
  <2> DEFINE n == Len(s)
  <2> HIDE DEF n
  <2>1. i \in 1 .. n /\ n \in Nat /\ w * n <= 128
    BY <1>1 DEF n
  <2>2. CASE w = 4
    BY <1>1, <2>1, <2>2 DEF Stays
  <2>3. CASE w = 5
    BY <1>1, <2>1, <2>3 DEF Stays
  <2>4. CASE w = 6
    BY <1>1, <2>1, <2>4 DEF Stays
  <2>5. CASE w = 7
    BY <1>1, <2>1, <2>5 DEF Stays
  <2> QED BY <1>1, <2>2, <2>3, <2>4, <2>5
<1>3. ASSUME k \in BitsOf(CodeAt(s, w, i)) PROVE x \in Packed(s)
  <2> HIDE DEF x
  <2>1. /\ i \in DOMAIN s /\ w = Width(s) /\ k \in BitsOf(Code(w, s[i]))
        /\ x = w * (i - 1) + k
    BY <1>1, <1>3 DEF Taken, CodeAt, x
  <2> QED BY <1>2, <2>1, PackedHas, Zenon
<1>4. ASSUME x \in Packed(s) PROVE k \in BitsOf(CodeAt(s, w, i))
  <2>1. PICK j \in 1 .. Len(s) : \E m \in BitsOf(CodeAt(s, w, j)) : x = w * (j - 1) + m
    <3>1. w = Width(s)
      BY DEF Taken
    <3> HIDE DEF x
    <3>2. PICK j \in DOMAIN s : \E m \in BitsOf(Code(w, s[j])) : x = w * (j - 1) + m
      BY <1>4, <3>1, PackedHas
    <3> QED BY <1>1, <3>2, Zenon DEF CodeAt
  <2>2. PICK m \in BitsOf(CodeAt(s, w, j)) : x = w * (j - 1) + m
    BY <2>1
  <2>3. CodeAt(s, w, j) \in 0 .. 127 /\ i \in 1 .. 32 /\ j \in 1 .. 32
    <3>1. s[j] \in Alphabet(w)
      BY <1>1
    <3>2. Code(w, s[j]) \in 0 .. 127
      BY <1>1, <3>1, CodeIsSmall, Zenon
    <3> QED BY <1>1, <3>2 DEF CodeAt
  <2>4. CASE FitsBits(w, CodeAt(s, w, j))
    <3>1. m \in 0 .. w - 1
      BY <1>1, <2>3, <2>4, BitsFit
    <3>2. i = j /\ k = m
      BY <1>1, <2>2, <2>3, <3>1, PlacesDiffer
    <3> QED BY <2>2, <3>2
  <2>5. CASE ~FitsBits(w, CodeAt(s, w, j))
    <3>1. w = 4 /\ CodeAt(s, w, j) = 16
      BY <1>1, <2>5, CodeIsSmall DEF CodeAt
    <3>2. m = 4
      BY <3>1, BitsOfSixteen
    <3>3. 4 * (i - 1) + k = 4 * (j - 1) + 4
      BY <2>2, <3>1, <3>2
    <3>4. i = j + 1
      BY <2>3, <3>1, <3>3
    <3> QED BY <2>3, <2>5, <3>4
  <2> QED BY <2>4, <2>5
<1> QED BY <1>3, <1>4

LEMMA FieldOfText ==
  ASSUME NEW s, NEW w, Taken(s, w), NEW i \in 1 .. Len(s),
         \A j \in 1 .. i - 1 : FitsBits(w, CodeAt(s, w, j))
  PROVE  Field(Packed(s), w, i) = IF FitsBits(w, CodeAt(s, w, i)) THEN CodeAt(s, w, i) ELSE 0
<1> DEFINE v == CodeAt(s, w, i)
           t == [k \in 1 .. w |-> IF w * (i - 1) + (k - 1) \in Packed(s) THEN 2^(k - 1) ELSE 0]
           u == [k \in 1 .. w |-> Bit(v, k - 1)]
<1>1. w \in 4 .. 7 /\ s[i] \in Alphabet(w)
  BY TakenFits
<1>2. v \in 0 .. 127 /\ (FitsBits(w, v) \/ (w = 4 /\ v = 16))
  <2>1. /\ Code(w, s[i]) \in 0 .. 127
        /\ ~(w = 4 /\ s[i] = 5) => FitsBits(w, Code(w, s[i]))
        /\ w = 4 /\ s[i] = 5 => Code(w, s[i]) = 16
    BY <1>1, CodeIsSmall, Zenon
  <2> QED BY <2>1 DEF CodeAt
<1>3. ASSUME NEW k \in 1 .. w PROVE t[k] = u[k]
  <2>1. k - 1 \in 0 .. w - 1
    BY <1>1
  <2>2. w * (i - 1) + (k - 1) \in Packed(s) <=> k - 1 \in BitsOf(v)
    BY <2>1, OwnBits
  <2> HIDE DEF v
  <2>3. t[k] = (IF k - 1 \in BitsOf(v) THEN 2^(k - 1) ELSE 0) /\ u[k] = Bit(v, k - 1)
    BY <2>2
  <2> QED BY <2>3 DEF Bit
<1>4. t = u
  <2> HIDE DEF v
  <2>1. t = [k \in 1 .. w |-> t[k]] /\ u = [k \in 1 .. w |-> u[k]]
    OBVIOUS
  <2> HIDE DEF t, u
  <2> QED BY <1>3, <2>1
<1>5. Total(u) = IF FitsBits(w, v) THEN v ELSE 0
  <2> HIDE DEF v
  <2> QED BY <1>1, <1>2, BitsTotal, Zenon
<1>6. Field(Packed(s), w, i) = Total(t)
  BY DEF Field
<1> HIDE DEF t, u
<1> QED BY <1>4, <1>5, <1>6

LEMMA FieldAfterText ==
  ASSUME NEW s, NEW w, Taken(s, w), NEW i \in 1 .. 32, i > Len(s),
         \A j \in 1 .. Len(s) : FitsBits(w, CodeAt(s, w, j))
  PROVE  Field(Packed(s), w, i) = 0
<1> DEFINE t == [k \in 1 .. w |-> IF w * (i - 1) + (k - 1) \in Packed(s) THEN 2^(k - 1) ELSE 0]
<1>1. /\ w \in 4 .. 7 /\ Len(s) \in Nat /\ DOMAIN s = 1 .. Len(s) /\ Len(s) <= 32
      /\ \A j \in 1 .. Len(s) : s[j] \in Alphabet(w)
  BY TakenFits
<1>2. ASSUME NEW k \in 0 .. w - 1 PROVE w * (i - 1) + k \notin Packed(s)
  <2> DEFINE x == w * (i - 1) + k
  <2> SUFFICES ASSUME x \in Packed(s) PROVE FALSE
    OBVIOUS
  <2>1. w = Width(s)
    BY DEF Taken
  <2> HIDE DEF x
  <2>2. PICK j \in DOMAIN s : \E m \in BitsOf(Code(w, s[j])) : x = w * (j - 1) + m
    BY <2>1, PackedHas
  <2>3. PICK m \in BitsOf(CodeAt(s, w, j)) : x = w * (j - 1) + m
    BY <2>2 DEF CodeAt
  <2>4. j \in 1 .. Len(s) /\ j \in 1 .. 32 /\ s[j] \in Alphabet(w)
    <3>1. j \in 1 .. Len(s)
      BY <1>1, Zenon
    <3>2. Len(s) \in Nat /\ Len(s) <= 32
      BY <1>1, Zenon
    <3>3. j \in 1 .. 32
      <4>1. \A n \in Nat : n <= 32 => \A a \in 1 .. n : a \in 1 .. 32
        OBVIOUS
      <4> QED BY <3>1, <3>2, <4>1, Zenon
    <3> QED BY <1>1, <3>1, <3>3, Zenon
  <2>5. Code(w, s[j]) \in 0 .. 127
    BY <1>1, <2>4, CodeIsSmall, Zenon
  <2>6. m \in 0 .. w - 1
    <3>1. FitsBits(w, CodeAt(s, w, j)) /\ CodeAt(s, w, j) \in 0 .. 127
      BY <2>4, <2>5 DEF CodeAt
    <3> QED BY <1>1, <3>1, BitsFit
  <2>7. i = j
    BY <1>1, <1>2, <2>3, <2>4, <2>6, PlacesDiffer DEF x
  <2> QED BY <1>1, <2>4, <2>7
<1>3. \A k \in 1 .. w : t[k] = 0
  <2> SUFFICES ASSUME NEW k \in 1 .. w PROVE t[k] = 0
    OBVIOUS
  <2>1. k - 1 \in 0 .. w - 1
    BY <1>1
  <2> QED BY <1>2, <2>1
<1>4. w \in Nat /\ t \in [1 .. w -> Nat]
  <2>1. t = [k \in 1 .. w |-> t[k]]
    OBVIOUS
  <2> HIDE DEF t
  <2> QED BY <1>1, <1>3, <2>1
<1>5. Field(Packed(s), w, i) = Total(t)
  BY DEF Field
<1> HIDE DEF t
<1>6. Total(t) \in Nat /\ ~(Total(t) > 0)
  BY <1>3, <1>4, TotalOfNaturals
<1> QED BY <1>5, <1>6

-----------------------------------------------------------------------------
(* The places where the reader may end a text, of which it takes the       *)
(* first. *)
Fields(w) == (127 \div w) + 1
Codes(w)  == {Code(w, c) : c \in Alphabet(w)}
Foreign(bits, w) == {i \in 1 .. Fields(w) : Field(bits, w, i) \notin Codes(w)}
Padding(bits, w) == {i \in 3 .. Fields(w) : \A j \in i - 2 .. i : Field(bits, w, j) = 0}
Ends(bits, w) ==
  IF w = 6 THEN {i - 3 : i \in Padding(bits, w)} \cup {i - 1 : i \in Foreign(bits, w)} \cup {Fields(w)}
           ELSE {i - 1 : i \in Foreign(bits, w)} \cup {Fields(w)}

LEMMA FieldsFit ==
  ASSUME NEW w \in 4 .. 7
  PROVE  /\ Fields(w) \in 1 .. 32
         /\ w = 6 => Fields(w) = 22
         /\ \A n \in Nat : w * n <= 128 => n <= Fields(w)
<1>1. CASE w = 4
  BY <1>1 DEF Fields
<1>2. CASE w = 5
  BY <1>2 DEF Fields
<1>3. CASE w = 6
  BY <1>3 DEF Fields
<1>4. CASE w = 7
  BY <1>4 DEF Fields
<1> QED BY <1>1, <1>2, <1>3, <1>4

LEMMA EndsFirst ==
  ASSUME NEW bits, NEW w \in 4 .. 7
  PROVE  /\ Min(Ends(bits, w)) \in Ends(bits, w) /\ \A y \in Ends(bits, w) : Min(Ends(bits, w)) <= y
         /\ Ends(bits, w) \subseteq Nat /\ Min(Ends(bits, w)) <= Fields(w)
<1>1. Fields(w) \in Nat /\ Fields(w) \in Ends(bits, w)
  <2>1. Fields(w) \in 1 .. 32
    BY FieldsFit, Zenon
  <2>2. Fields(w) \in Ends(bits, w)
    <3>1. CASE w = 6
      BY <3>1 DEF Ends
    <3>2. CASE w # 6
      BY <3>2 DEF Ends
    <3> QED BY <3>1, <3>2
  <2> QED BY <2>1, <2>2
<1>2. Ends(bits, w) \subseteq Nat
  BY <1>1 DEF Ends, Foreign, Padding
<1>3. Min(Ends(bits, w)) \in Ends(bits, w) /\ \A y \in Ends(bits, w) : Min(Ends(bits, w)) <= y
  BY <1>1, <1>2, LeastIsMin
<1> QED BY <1>1, <1>2, <1>3

LEMMA UnpackedUpToEnd ==
  ASSUME NEW bits, NEW w \in 4 .. 7
  PROVE  Unpacked(bits, w) =
           [i \in 1 .. Min(Ends(bits, w)) |-> CHOOSE c \in Alphabet(w) : Code(w, c) = Field(bits, w, i)]
<1> DEFINE n       == (127 \div w) + 1
           field   == [i \in 1 .. n |-> Field(bits, w, i)]
           padding == {i \in 3 .. n : \A j \in i - 2 .. i : field[j] = 0}
           codes   == {Code(w, c) : c \in Alphabet(w)}
           foreign == {i \in 1 .. n : field[i] \notin codes}
           length  == IF w = 6 THEN Min({i - 3 : i \in padding} \cup {i - 1 : i \in foreign} \cup {n})
                               ELSE Min({i - 1 : i \in foreign} \cup {n})
<1>1. Unpacked(bits, w) = [i \in 1 .. length |-> CHOOSE c \in Alphabet(w) : Code(w, c) = field[i]]
  BY Zenon DEF Unpacked
<1>2. n = Fields(w) /\ codes = Codes(w) /\ Fields(w) \in 1 .. 32
  BY FieldsFit DEF Fields, Codes
<1> HIDE DEF n, codes
<1>3. \A i \in 1 .. n : field[i] = Field(bits, w, i)
  OBVIOUS
<1> HIDE DEF field
<1>4. foreign = Foreign(bits, w)
  BY <1>2, <1>3 DEF Foreign
<1>5. padding = Padding(bits, w)
  <2>1. \A i \in 3 .. n : \A j \in i - 2 .. i : j \in 1 .. n
    BY <1>2
  <2> QED BY <1>2, <1>3, <2>1 DEF Padding
<1> HIDE DEF foreign, padding
<1>6. length = Min(Ends(bits, w))
  BY <1>2, <1>4, <1>5 DEF Ends
<1> HIDE DEF length
<1>7. \A i \in 1 .. length : field[i] = Field(bits, w, i)
  <2>1. length \in Nat /\ length <= Fields(w)
    BY <1>6, EndsFirst
  <2> QED BY <1>2, <1>3, <2>1
<1> QED BY <1>1, <1>6, <1>7

LEMMA TextIsTaken ==
  ASSUME NEW s, NEW w, Taken(s, w)
  PROVE  /\ Received(s) = s => Min(Ends(Packed(s), w)) = Len(s)
         /\ /\ \A i \in 1 .. Len(s) : Field(Packed(s), w, i) = CodeAt(s, w, i)
            /\ Min(Ends(Packed(s), w)) = Len(s)
            => Received(s) = s
<1> DEFINE length == Min(Ends(Packed(s), w))
           char(i) == CHOOSE c \in Alphabet(w) : Code(w, c) = Field(Packed(s), w, i)
<1>1. /\ w \in 4 .. 7 /\ Len(s) \in Nat /\ DOMAIN s = 1 .. Len(s)
      /\ \A j \in 1 .. Len(s) : s[j] \in Alphabet(w)
  BY TakenFits
<1>2. Received(s) = [i \in 1 .. length |-> char(i)]
  <2>1. Received(s) = Unpacked(Packed(s), w)
    BY DEF Taken, Received
  <2> QED BY <1>1, <2>1, UnpackedUpToEnd
<1>3. length \in Nat
  BY <1>1, EndsFirst
<1> HIDE DEF length, char
<1>4. ASSUME Received(s) = s PROVE length = Len(s)
  <2>1. DOMAIN Received(s) = 1 .. length
    BY <1>2
  <2>2. 1 .. length = 1 .. Len(s)
    BY <1>1, <1>4, <2>1
  <2>3. \A a, b \in Nat : 1 .. a = 1 .. b => a = b
    <3> SUFFICES ASSUME NEW a \in Nat, NEW b \in Nat, 1 .. a = 1 .. b PROVE a = b
      OBVIOUS
    <3>1. a # 0 => a \in 1 .. b
      OBVIOUS
    <3>2. b # 0 => b \in 1 .. a
      OBVIOUS
    <3> QED BY <3>1, <3>2
  <2> QED BY <1>1, <1>3, <2>2, <2>3, Zenon
<1>5. ASSUME \A i \in 1 .. Len(s) : Field(Packed(s), w, i) = CodeAt(s, w, i), length = Len(s)
      PROVE  Received(s) = s
  <2>1. ASSUME NEW i \in 1 .. Len(s) PROVE char(i) = s[i]
    <3>1. s[i] \in Alphabet(w) /\ Field(Packed(s), w, i) = Code(w, s[i])
      BY <1>1, <1>5 DEF CodeAt
    <3>2. char(i) \in Alphabet(w) /\ Code(w, char(i)) = Code(w, s[i])
      BY <3>1, Zenon DEF char
    <3> QED BY <1>1, <3>1, <3>2, CodesDiffer, Zenon
  <2>2. s = [i \in 1 .. Len(s) |-> s[i]]
    <3>1. s = [i \in DOMAIN s |-> s[i]]
      BY DEF Taken
    <3> QED BY <1>1, <3>1
  <2> QED BY <1>2, <1>5, <2>1, <2>2
<1> QED BY <1>4, <1>5 DEF length

AllFit(s, w) == \A i \in 1 .. Len(s) : FitsBits(w, CodeAt(s, w, i))

(* What the fields hold if every code has room in its own. *)
LEMMA FieldsOfFitting ==
  ASSUME NEW s, NEW w, Taken(s, w), AllFit(s, w)
  PROVE  /\ \A i \in 1 .. Len(s) : Field(Packed(s), w, i) = CodeAt(s, w, i)
         /\ \A i \in 1 .. Fields(w) : i > Len(s) => Field(Packed(s), w, i) = 0
         /\ \A i \in 1 .. Len(s) : CodeAt(s, w, i) \in Codes(w)
<1>1. /\ w \in 4 .. 7 /\ Len(s) \in Nat
      /\ \A j \in 1 .. Len(s) : s[j] \in Alphabet(w)
  BY TakenFits
<1>2. ASSUME NEW i \in 1 .. Len(s) PROVE Field(Packed(s), w, i) = CodeAt(s, w, i)
  <2>1. FitsBits(w, CodeAt(s, w, i)) /\ \A j \in 1 .. i - 1 : FitsBits(w, CodeAt(s, w, j))
    <3>1. \A j \in 1 .. i - 1 : j \in 1 .. Len(s)
      BY <1>1
    <3> QED BY <3>1, Zenon DEF AllFit
  <2> QED BY <2>1, FieldOfText, Zenon
<1>3. ASSUME NEW i \in 1 .. Fields(w), i > Len(s) PROVE Field(Packed(s), w, i) = 0
  <2>1. Fields(w) \in 1 .. 32
    BY <1>1, FieldsFit, Zenon
  <2>2. i \in 1 .. 32
    BY <2>1
  <2>3. \A j \in 1 .. Len(s) : FitsBits(w, CodeAt(s, w, j))
    BY DEF AllFit
  <2> QED BY <1>3, <2>2, <2>3, FieldAfterText, Zenon
<1>4. \A i \in 1 .. Len(s) : CodeAt(s, w, i) \in Codes(w)
  BY <1>1 DEF CodeAt, Codes
<1> QED BY <1>2, <1>3, <1>4

LEMMA ZeroIsNoCode ==
  ASSUME NEW w \in 4 .. 7, w # 6
  PROVE  0 \notin Codes(w)
<1>1. \A c \in Alphabet(w) : Code(w, c) # 0
  BY CodeIsSmall, Zenon
<1> QED BY <1>1 DEF Codes

(* Without an 'F' the schemes that end a text with a zero take all of it. *)
LEMMA EndOfFitting ==
  ASSUME NEW s, NEW w, Taken(s, w), AllFit(s, w), w # 6
  PROVE  Received(s) = s
<1> DEFINE bits == Packed(s)
           n == Len(s)
<1>1. w \in 4 .. 7 /\ n \in Nat /\ w * n <= 128
  BY TakenFits
<1>2. Fields(w) \in Nat /\ n <= Fields(w)
  <2>1. Fields(w) \in 1 .. 32 /\ \A m \in Nat : w * m <= 128 => m <= Fields(w)
    BY <1>1, FieldsFit, Zenon
  <2>2. n <= Fields(w)
    BY <1>1, <2>1, Zenon
  <2>3. \A k \in 1 .. 32 : k \in Nat
    OBVIOUS
  <2> QED BY <2>1, <2>2, <2>3, Zenon
<1>3. /\ \A i \in 1 .. n : Field(bits, w, i) \in Codes(w)
      /\ \A i \in 1 .. Fields(w) : i > n => Field(bits, w, i) \notin Codes(w)
  <2>1. 0 \notin Codes(w)
    BY <1>1, ZeroIsNoCode
  <2> QED BY <2>1, FieldsOfFitting, Zenon
<1>4. \A i \in 1 .. n : Field(bits, w, i) = CodeAt(s, w, i)
  BY FieldsOfFitting, Zenon
<1> DEFINE length == Min(Ends(bits, w))
<1>5. length \in Ends(bits, w) /\ length \in Nat /\ \A y \in Ends(bits, w) : length <= y
  BY <1>1, EndsFirst
<1> HIDE DEF n, bits, length
<1>6. n \in Ends(bits, w)
  <2>1. CASE n = Fields(w)
    BY <2>1 DEF Ends
  <2>2. CASE n < Fields(w)
    <3>1. n + 1 \in 1 .. Fields(w) /\ n + 1 > n /\ (n + 1) - 1 = n
      BY <1>1, <1>2, <2>2
    <3>2. n + 1 \in Foreign(bits, w)
      BY <1>3, <3>1, Zenon DEF Foreign
    <3> QED BY <3>1, <3>2 DEF Ends
  <2> QED BY <1>1, <1>2, <2>1, <2>2
<1>7. length >= n
  <2>1. ASSUME NEW i \in Foreign(bits, w) PROVE i - 1 >= n
    <3>1. i \in 1 .. Fields(w) /\ i \notin 1 .. n
      BY <1>3, Zenon DEF Foreign
    <3> QED BY <1>1, <1>2, <3>1
  <2> QED BY <1>2, <1>5, <2>1 DEF Ends
<1>8. length = n
  BY <1>1, <1>5, <1>6, <1>7
<1> QED BY <1>4, <1>8, TextIsTaken, Zenon DEF n, bits, length

(* The first 'F' leaves its field empty, where the reader stops. *)
LEMMA FirstFEnds ==
  ASSUME NEW s, NEW w, Taken(s, w), w = 4, NEW f \in 1 .. Len(s), s[f] = 5
  PROVE  Received(s) # s
<1>1. /\ w \in 4 .. 7 /\ Len(s) \in Nat /\ w * Len(s) <= 128
      /\ \A j \in 1 .. Len(s) : s[j] \in Alphabet(w)
  BY TakenFits
<1> DEFINE T == {i \in 1 .. Len(s) : s[i] = 5}
<1>2. PICK i \in T : \A j \in T : i <= j
  <2>1. T \subseteq Nat /\ T # {}
    BY <1>1
  <2> HIDE DEF T
  <2> QED BY <2>1, LeastExists
<1>3. ASSUME NEW j \in 1 .. i - 1 PROVE FitsBits(w, CodeAt(s, w, j))
  <2>1. j \in 1 .. Len(s) /\ j < i
    BY <1>1
  <2>2. s[j] # 5 /\ s[j] \in Alphabet(w)
    BY <1>1, <1>2, <2>1
  <2> QED BY <1>1, <2>2, CodeIsSmall, Zenon DEF CodeAt
<1>4. Field(Packed(s), w, i) = 0
  <2>1. Code(w, s[i]) = 16
    BY <1>1, CodeIsSmall, Zenon
  <2>2. ~FitsBits(w, CodeAt(s, w, i))
    BY <2>1 DEF CodeAt, FitsBits
  <2>3. i \in 1 .. Len(s)
    OBVIOUS
  <2> QED BY <1>3, <2>2, <2>3, FieldOfText, Zenon
<1>5. i \in Foreign(Packed(s), w)
  <2>1. Fields(w) \in 1 .. 32 /\ Len(s) <= Fields(w)
    BY <1>1, FieldsFit, Zenon
  <2>2. i \in 1 .. Fields(w)
    <3>1. \A n, m \in Nat : n <= m => \A x \in 1 .. n : x \in 1 .. m
      OBVIOUS
    <3>2. \A k \in 1 .. 32 : k \in Nat
      OBVIOUS
    <3>3. Fields(w) \in Nat /\ i \in 1 .. Len(s)
      BY <2>1, <3>2, Zenon
    <3> QED BY <1>1, <2>1, <3>1, <3>3, Zenon
  <2>3. 0 \notin Codes(w)
    BY <1>1, ZeroIsNoCode
  <2> QED BY <1>4, <2>2, <2>3 DEF Foreign
<1>6. i - 1 \in Ends(Packed(s), w)
  BY <1>5 DEF Ends
<1>7. Min(Ends(Packed(s), w)) <= i - 1
  BY <1>1, <1>6, EndsFirst, Zenon
<1>8. Min(Ends(Packed(s), w)) \in Nat
  BY <1>1, EndsFirst
<1>9. Min(Ends(Packed(s), w)) # Len(s)
  <2> DEFINE m == Min(Ends(Packed(s), w))
             n == Len(s)
  <2>1. m \in Nat /\ m <= i - 1 /\ n \in Nat /\ i \in 1 .. n
    BY <1>1, <1>7, <1>8
  <2> HIDE DEF m, n
  <2>2. m # n
    BY <2>1
  <2> QED BY <2>2 DEF m, n
<1> QED BY <1>9, TextIsTaken, Zenon

(* Where letters and digits end: three empty fields in a row, or the last  *)
(* field. *)
LEMMA LettersAndDigits ==
  ASSUME NEW s, NEW w, Taken(s, w), w = 6
  PROVE  /\ Len(s) \in 1 .. 21
         /\ Foreign(Packed(s), w) = {}
         /\ \A i \in 1 .. Len(s) : Field(Packed(s), w, i) = s[i] /\ CodeAt(s, w, i) = s[i]
         /\ \A i \in 1 .. 22 : i > Len(s) => Field(Packed(s), w, i) = 0
         /\ Fields(w) = 22
<1>1. /\ w \in 4 .. 7 /\ Len(s) \in Nat /\ 6 * Len(s) <= 128
      /\ \A j \in 1 .. Len(s) : s[j] \in Alphabet(w)
  BY TakenFits
<1>2. Len(s) <= 21 /\ Len(s) # 0
  <2>1. Len(s) = 0 => Fits(s, 4)
    <3>1. ASSUME Len(s) = 0 PROVE ToSet(s) = {} /\ Len(s) <= 128 \div 4
      <4>1. s = <<>>
        BY <3>1 DEF Taken
      <4> QED BY <3>1, <4>1 DEF ToSet
    <3> QED BY <3>1 DEF Fits
  <2>2. Encodable(s) /\ Width(s) = 6
    BY <1>1 DEF Taken, Encodable
  <2>3. Fits(s, 4) => Width(s) <= 4
    BY <2>2, WidthFits
  <2>4. Len(s) # 0
    BY <2>1, <2>2, <2>3
  <2>5. \A n \in Nat : 6 * n <= 128 => n <= 21
    OBVIOUS
  <2> QED BY <1>1, <2>4, <2>5
<1>3. ASSUME NEW i \in 1 .. Len(s)
      PROVE  CodeAt(s, w, i) = s[i] /\ s[i] \in 0 .. 35 /\ FitsBits(w, CodeAt(s, w, i))
  <2>1. s[i] \in Alphabet(w) /\ Code(w, s[i]) = s[i] /\ s[i] \in 0 .. 35
    BY <1>1, CodeIsSmall, Zenon
  <2>2. ASSUME NEW v \in 0 .. 35 PROVE FitsBits(w, v)
    BY DEF FitsBits
  <2> QED BY <2>1, <2>2, Zenon DEF CodeAt
<1>4. AllFit(s, w)
  BY <1>3 DEF AllFit
<1>5. Fields(w) = 22
  BY <1>1, FieldsFit
<1>6. /\ \A i \in 1 .. Len(s) : Field(Packed(s), w, i) = CodeAt(s, w, i)
      /\ \A i \in 1 .. 22 : i > Len(s) => Field(Packed(s), w, i) = 0
      /\ \A i \in 1 .. Len(s) : CodeAt(s, w, i) \in Codes(w)
  BY <1>4, <1>5, FieldsOfFitting
<1>7. 0 \in Codes(w)
  BY DEF Codes, Code, Alphabet, Letters, Digits
<1>8. \A i \in 1 .. 22 : Field(Packed(s), w, i) \in Codes(w)
  <2> SUFFICES ASSUME NEW i \in 1 .. 22 PROVE Field(Packed(s), w, i) \in Codes(w)
    OBVIOUS
  <2>1. i \in 1 .. Len(s) \/ i > Len(s)
    BY <1>1
  <2>2. CASE i \in 1 .. Len(s)
    BY <1>6, <2>2, Zenon
  <2>3. CASE i > Len(s)
    BY <1>6, <1>7, <2>3, Zenon
  <2> QED BY <2>1, <2>2, <2>3, Zenon
<1>9. Foreign(Packed(s), w) = {}
  BY <1>5, <1>8 DEF Foreign
<1>10. Len(s) \in 1 .. 21
  <2>1. \A n \in Nat : n <= 21 /\ n # 0 => n \in 1 .. 21
    OBVIOUS
  <2> QED BY <1>1, <1>2, <2>1, Zenon
<1>11. ASSUME NEW i \in 1 .. Len(s) PROVE Field(Packed(s), w, i) = s[i] /\ CodeAt(s, w, i) = s[i]
  <2>1. Field(Packed(s), w, i) = CodeAt(s, w, i) /\ CodeAt(s, w, i) = s[i]
    BY <1>3, <1>6, Zenon
  <2> QED BY <2>1
<1> QED BY <1>5, <1>6, <1>9, <1>10, <1>11, Zenon

(* No end before the text's own: what Lossless asks of letters and digits. *)
PlainText(s) ==
  /\ s[Len(s)] # 0
  /\ ~\E i \in 3 .. Len(s) : \A j \in i - 2 .. i : s[j] = 0

LEMMA EndOfSixBits ==
  ASSUME NEW s, NEW w, Taken(s, w), w = 6
  PROVE  Min(Ends(Packed(s), w)) = Len(s) <=> Len(s) <= 19 /\ PlainText(s)
<1> DEFINE bits == Packed(s)
           n == Len(s)
           f(i) == Field(bits, w, i)
           length == Min(Ends(bits, w))
<1>1. /\ n \in 1 .. 21 /\ Fields(w) = 22 /\ w \in 4 .. 7
      /\ \A i \in 1 .. n : f(i) = s[i]
      /\ \A i \in 1 .. 22 : i > n => f(i) = 0
  BY LettersAndDigits, TakenFits
<1>2. Ends(bits, w) = {i - 3 : i \in Padding(bits, w)} \cup {22}
  BY LettersAndDigits DEF Ends
<1>3. Padding(bits, w) = {i \in 3 .. 22 : \A j \in i - 2 .. i : f(j) = 0}
  BY <1>1 DEF Padding
<1>4. length \in Ends(bits, w) /\ length \in Nat /\ \A y \in Ends(bits, w) : length <= y
  BY <1>1, EndsFirst
<1>5. PlainText(s) <=> s[n] # 0 /\ ~\E i \in 3 .. n : \A j \in i - 2 .. i : s[j] = 0
  BY DEF PlainText
<1> HIDE DEF n, bits, length, f
<1>6. ASSUME length = n PROVE n <= 19
  <2>1. length = 22 \/ \E i \in 3 .. 22 : length = i - 3
    BY <1>2, <1>3, <1>4
  <2> QED BY <1>1, <1>6, <2>1
<1>7. ASSUME length = n PROVE PlainText(s)
  <2>1. ASSUME NEW i \in 3 .. 22, i < n + 3, \A j \in i - 2 .. i : f(j) = 0 PROVE FALSE
    <3>1. i - 3 \in Ends(bits, w)
      BY <1>2, <1>3, <2>1
    <3>2. length <= i - 3
      BY <1>4, <3>1
    <3> QED BY <1>1, <1>7, <2>1, <3>2
  <2>2. s[n] # 0
    <3> SUFFICES ASSUME s[n] = 0 PROVE FALSE
      OBVIOUS
    <3>1. n \in 1 .. 19 /\ n + 2 \in 3 .. 22 /\ n + 2 < n + 3
      BY <1>1, <1>6, <1>7
    <3>2. ASSUME NEW j \in (n + 2) - 2 .. n + 2 PROVE f(j) = 0
      <4>1. j = n \/ (j \in 1 .. 22 /\ j > n)
        BY <3>1
      <4>2. f(n) = 0
        BY <1>1, <3>1
      <4> QED BY <1>1, <4>1, <4>2
    <3> QED BY <2>1, <3>1, <3>2
  <2>3. ASSUME NEW i \in 3 .. n, \A j \in i - 2 .. i : s[j] = 0 PROVE FALSE
    <3>1. i \in 3 .. 22 /\ i < n + 3 /\ \A j \in i - 2 .. i : j \in 1 .. n
      BY <1>1
    <3> QED BY <1>1, <2>1, <2>3, <3>1
  <2> QED BY <1>5, <2>2, <2>3
<1>8. ASSUME n <= 19, PlainText(s) PROVE length = n
  <2>1. n \in Ends(bits, w)
    <3>1. n + 3 \in 3 .. 22 /\ (n + 3) - 3 = n
      BY <1>1, <1>8
    <3>2. ASSUME NEW j \in (n + 3) - 2 .. n + 3 PROVE f(j) = 0
      <4>1. j \in 1 .. 22 /\ j > n
        BY <1>1, <1>8
      <4> QED BY <1>1, <4>1
    <3>3. n + 3 \in Padding(bits, w)
      BY <1>3, <3>1, <3>2
    <3> QED BY <1>2, <3>1, <3>3
  <2>2. ASSUME NEW i \in 3 .. 22, \A j \in i - 2 .. i : f(j) = 0, i < n + 3 PROVE FALSE
    <3>1. CASE i <= n
      <4>1. i \in 3 .. n /\ \A j \in i - 2 .. i : j \in 1 .. n
        BY <1>1, <3>1
      <4>2. \A j \in i - 2 .. i : s[j] = 0
        BY <1>1, <2>2, <4>1
      <4> QED BY <1>5, <1>8, <4>1, <4>2
    <3>2. CASE i > n
      <4>1. n \in i - 2 .. i /\ n \in 1 .. n
        BY <1>1, <2>2, <3>2
      <4> QED BY <1>1, <1>5, <1>8, <2>2, <4>1
    <3> QED BY <1>1, <3>1, <3>2
  <2>3. length >= n
    <3>1. length = 22 \/ \E i \in Padding(bits, w) : length = i - 3
      BY <1>2, <1>4
    <3>2. ASSUME NEW i \in Padding(bits, w) PROVE i - 3 >= n
      BY <1>1, <1>3, <2>2
    <3> QED BY <1>1, <3>1, <3>2
  <2> QED BY <1>1, <1>4, <2>1, <2>3
<1>9. length = n <=> n <= 19 /\ PlainText(s)
  BY <1>6, <1>7, <1>8
<1> QED BY <1>9 DEF n, bits, length

(* A symbol comes back as it was if and only if the scheme can tell it     *)
(* from its padding and codes.                                             *)
THEOREM SymbolComesBack ==
  ASSUME NEW s \in Seq(0 .. 36), Encodable(s)
  PROVE  Received(s) = s <=> Lossless(s)
<1> DEFINE w == Width(s)
<1>1. w \in 4 .. 7 /\ Taken(s, w)
  BY WidthFits DEF Taken
<1> HIDE DEF w
<1>2. w = Width(s)
  BY DEF w
<1>3. /\ Len(s) \in Nat /\ DOMAIN s = 1 .. Len(s)
      /\ \A j \in 1 .. Len(s) : s[j] \in Alphabet(w)
  BY <1>1, TakenFits
<1>4. ASSUME w # 6, ~(w = 4 /\ \E j \in 1 .. Len(s) : s[j] = 5)
      PROVE  Received(s) = s
  <2>1. ASSUME NEW j \in 1 .. Len(s) PROVE FitsBits(w, CodeAt(s, w, j))
    <3>1. s[j] \in Alphabet(w) /\ ~(w = 4 /\ s[j] = 5)
      BY <1>3, <1>4
    <3> QED BY <1>1, <3>1, CodeIsSmall, Zenon DEF CodeAt
  <2>2. AllFit(s, w)
    BY <2>1 DEF AllFit
  <2> QED BY <1>1, <1>4, <2>2, EndOfFitting
<1>5. 5 \in ToSet(s) <=> \E j \in 1 .. Len(s) : s[j] = 5
  BY <1>3 DEF ToSet
<1>6. CASE w = 4
  <2>1. Lossless(s) <=> 5 \notin ToSet(s)
    BY <1>2, <1>6 DEF Lossless
  <2>2. ASSUME NEW j \in 1 .. Len(s), s[j] = 5 PROVE Received(s) # s
    BY <1>1, <1>6, <2>2, FirstFEnds
  <2> QED BY <1>4, <1>5, <1>6, <2>1, <2>2
<1>7. CASE w = 6
  <2>1. Lossless(s) <=> Len(s) <= 19 /\ PlainText(s)
    BY <1>2, <1>7 DEF Lossless, PlainText, Last
  <2>2. ASSUME NEW i \in 1 .. Len(s) PROVE Field(Packed(s), w, i) = CodeAt(s, w, i)
    <3>1. Field(Packed(s), w, i) = s[i] /\ CodeAt(s, w, i) = s[i]
      BY <1>1, <1>7, LettersAndDigits, Zenon
    <3> QED BY <3>1
  <2>3. ASSUME Received(s) = s PROVE Min(Ends(Packed(s), w)) = Len(s)
    BY <1>1, <2>3, TextIsTaken
  <2>4. ASSUME Min(Ends(Packed(s), w)) = Len(s) PROVE Received(s) = s
    BY <1>1, <2>2, <2>4, TextIsTaken, Zenon
  <2> QED BY <1>1, <1>7, <2>1, <2>3, <2>4, EndOfSixBits
<1>8. CASE w = 5 \/ w = 7
  <2>1. Lossless(s)
    BY <1>2, <1>8 DEF Lossless
  <2> QED BY <1>4, <1>8, <2>1
<1> QED BY <1>1, <1>6, <1>7, <1>8

-----------------------------------------------------------------------------
(* Only the items of the constants are handled. *)
ItemInv ==
  item \in [kind : {"none"}] \cup [kind : {"symbol"}, text : Symbols]
          \cup [kind : {"batch"}, bids : Sides, asks : Sides]
          \cup [kind : {"decimal"}, negative : BOOLEAN, whole : Wholes, fraction : Fractions]

LEMMA ItemStarts == PayloadsInit => ItemInv
  BY DEF PayloadsInit, ItemInv

LEMMA ItemStays == ItemInv /\ [PayloadsNext]_<<vars, pricingVars, item>> => ItemInv'
<1> SUFFICES ASSUME ItemInv, [PayloadsNext]_<<vars, pricingVars, item>> PROVE ItemInv'
  OBVIOUS
<1>1. CASE UNCHANGED item
  BY <1>1 DEF ItemInv
<1>2. ASSUME NEW s \in Symbols, Handle([kind |-> "symbol", text |-> s]) PROVE ItemInv'
  BY <1>2 DEF ItemInv, Handle
<1>3. ASSUME NEW bids \in Sides, NEW asks \in Sides,
             Handle([kind |-> "batch", bids |-> bids, asks |-> asks])
      PROVE  ItemInv'
  BY <1>3 DEF ItemInv, Handle
<1>4. ASSUME NEW negative \in BOOLEAN, NEW whole \in Wholes, NEW fraction \in Fractions,
             Handle([kind |-> "decimal", negative |-> negative, whole |-> whole, fraction |-> fraction])
      PROVE  ItemInv'
  BY <1>4 DEF ItemInv, Handle
<1> QED BY <1>1, <1>2, <1>3, <1>4 DEF PayloadsNext

LEMMA ItemInvariance == PayloadsSpec => []ItemInv
  BY ItemStarts, ItemStays, PTL DEF PayloadsSpec

(* A decimal of the exchange is read exactly, or cut off towards zero after *)
(* the digits that are kept, whatever digits it has.                       *)
THEOREM DecimalsExact == PayloadsSpec => []DecimalsAreExact
<1>1. ItemInv => DecimalsAreExact
  <2> SUFFICES ASSUME ItemInv, item.kind = "decimal" PROVE DecimalsAreExact
    BY DEF DecimalsAreExact
  <2>1. item.negative \in BOOLEAN /\ item.whole \in Seq(0 .. 9) /\ item.fraction \in Seq(0 .. 9)
    BY PayloadAssumption DEF ItemInv
  <2> QED BY <2>1, ParsedIsExact DEF DecimalsAreExact
<1> QED BY <1>1, ItemInvariance, PTL

(* Whatever the levels of a batch are, they are read back as they were     *)
(* written if and only if the counts of both sides fit.                    *)
THEOREM BatchesComeThrough == PayloadsSpec => []BatchesSurvive
<1>1. ItemInv => BatchesSurvive
  <2> SUFFICES ASSUME ItemInv, item.kind = "batch" PROVE BatchesSurvive
    BY DEF BatchesSurvive
  <2>1. item.bids \in Seq(Int \X Int) /\ item.asks \in Seq(Int \X Int)
    BY PayloadAssumption DEF ItemInv
  <2> QED BY <2>1, BatchSurvives DEF BatchesSurvive
<1> QED BY <1>1, ItemInvariance, PTL

(* Of all symbols that can be packed, those come out as they went in that  *)
(* the scheme can tell from its padding and codes, and no other.           *)
THEOREM SymbolsComeThrough == PayloadsSpec => []SymbolsSurvive
<1>1. ItemInv => SymbolsSurvive
  <2> SUFFICES ASSUME ItemInv, item.kind = "symbol" PROVE SymbolsSurvive
    BY DEF SymbolsSurvive
  <2>1. item.text \in Seq(0 .. 36) /\ Encodable(item.text)
    BY PayloadAssumption DEF ItemInv
  <2> QED BY <2>1, SymbolComesBack DEF SymbolsSurvive
<1> QED BY <1>1, ItemInvariance, PTL

-----------------------------------------------------------------------------
USE FeedAssumption, ThresholdAssumption DEF Ids

LEMMA SnapshotType == \A id \in Ids : Snapshot(id) \in Book
  BY DEF Snapshot, Book

LEMMA ApplyBatchType ==
  \A b \in Book, e \in Event : e.final \in Ids => ApplyBatch(b, e) \in Book
  BY DEF ApplyBatch, Book, Event

LEMMA SyncType ==
  \A s \in SyncState, e \in Event : AfterUpdate(s, e) \in SyncState
<1> SUFFICES ASSUME NEW s \in SyncState, NEW e \in Event
             PROVE  AfterUpdate(s, e) \in SyncState
  OBVIOUS
<1>1. Skip(s) \in SyncState
  BY DEF Skip, SyncState
<1>2. CASE Accepts(s, e)
  <2> DEFINE t == [s EXCEPT !.synced = TRUE, !.last = e.final]
  <2>1. t \in SyncState
    BY DEF SyncState, Event
  <2>2. AfterUpdate(s, e) = [t EXCEPT !.skipped = 0]
    BY <1>2 DEF AfterUpdate
  <2> HIDE DEF t
  <2> QED BY <2>1, <2>2 DEF SyncState
<1>3. CASE ~Accepts(s, e)
  BY <1>1, <1>3 DEF AfterUpdate, SyncState
<1> QED BY <1>2, <1>3

LEMMA NewSyncType == \A id \in Nat : NewSync(id) \in SyncState
  BY DEF NewSync, SyncState

(* Every id an event in flight mentions exists. *)
QueueIds ==
  \A i \in 1 .. Len(queue) : queue[i].final \in Ids

(* The type invariant as proved. *)
TypeInv == TypeOK /\ QueueIds

(* What is left of a queue once its first k elements are taken.            *)
LEMMA DropFirst ==
  ASSUME NEW S, NEW q \in Seq(S), NEW k \in 1 .. Len(q),
         NEW rest, rest = SubSeq(q, k + 1, Len(q))
  PROVE  /\ rest \in Seq(S)
         /\ Len(rest) = Len(q) - k
         /\ \A i \in 1 .. Len(rest) : rest[i] = q[i + k]
<1>1. Len(q) \in Nat /\ k \in Nat /\ k >= 1 /\ k <= Len(q)
  OBVIOUS
<1>2. \A i \in k + 1 .. Len(q) : q[i] \in S
  BY <1>1
<1>3. /\ rest \in Seq(S)
      /\ Len(rest) = IF k + 1 <= Len(q) THEN Len(q) - (k + 1) + 1 ELSE 0
      /\ \A i \in 1 .. Len(q) - (k + 1) + 1 : rest[i] = q[(k + 1) + i - 1]
  BY <1>1, <1>2, SubSeqProperties
<1>4. Len(rest) = Len(q) - k
  BY <1>1, <1>3
<1>5. ASSUME NEW i \in 1 .. Len(rest) PROVE rest[i] = q[i + k]
  <2>1. (k + 1) + i - 1 = i + k /\ i \in 1 .. Len(q) - (k + 1) + 1
    BY <1>1, <1>4
  <2> QED BY <2>1, <1>3
<1> QED BY <1>3, <1>4, <1>5

LEMMA PollKeeps ==
  ASSUME TypeInv, NEW k \in 1 .. PollLimit, Poll(k)
  PROVE  /\ k \in 1 .. Len(queue) /\ queue[k] \in Event /\ queue[k].final \in Ids
         /\ queue' \in Seq(Event)
         /\ Len(queue') = Len(queue) - k
         /\ \A i \in 1 .. Len(queue') : queue'[i] = queue[i + k]
<1>1. queue \in Seq(Event) /\ QueueIds
  BY DEF TypeInv, TypeOK
<1>2. k \in 1 .. Len(queue) /\ queue' = SubSeq(queue, k + 1, Len(queue))
  BY <1>1 DEF Poll
<1>3. queue[k] \in Event /\ queue[k].final \in Ids
  BY <1>1, <1>2 DEF QueueIds
<1> QED BY <1>1, <1>2, <1>3, DropFirst

LEMMA PollKeepsType ==
  ASSUME TypeInv, NEW k \in 1 .. PollLimit, Poll(k)
  PROVE  queue' \in Seq(Event) /\ QueueIds'
<1>1. QueueIds /\ Len(queue) \in Nat /\ k \in Nat
  BY DEF TypeInv, TypeOK
<1>2. \A i \in 1 .. Len(queue') : i + k \in 1 .. Len(queue)
  BY <1>1, PollKeeps
<1> QED BY <1>1, <1>2, PollKeeps DEF QueueIds

LEMMA InitTypes == Init => TypeInv
<1> SUFFICES ASSUME Init PROVE TypeInv
  OBVIOUS
<1>1. queue \in Seq(Event) /\ QueueIds
  BY DEF Init, QueueIds
<1>2. book \in Book
  BY DEF Init, EmptyBook, Book
<1>3. now \in Ids /\ pos \in [Conns -> Ids]
  BY DEF Init
<1>4. sync \in SyncState
  BY NewSyncType DEF Init
<1>5. running \in BOOLEAN /\ ready \in BOOLEAN /\ recent \in BOOLEAN
  BY DEF Init
<1> QED BY <1>1, <1>2, <1>3, <1>4, <1>5 DEF TypeInv, TypeOK

LEMMA NextTypes == TypeInv /\ [Next]_vars => TypeInv'
<1> SUFFICES ASSUME TypeInv, [Next]_vars PROVE TypeInv'
  OBVIOUS
<1> USE DEF TypeInv, TypeOK
<1>1. CASE ExchangeUpdate
  BY <1>1 DEF ExchangeUpdate, QueueIds
<1>2. ASSUME NEW c \in Conns, NEW u \in (pos[c] + 1) .. now, Forward(c, u)
      PROVE  TypeInv'
  <2>1. DepthEvent(c, u) \in Event /\ DepthEvent(c, u).final \in Ids
    BY <1>2 DEF DepthEvent, Event
  <2>2. queue' \in Seq(Event) /\ QueueIds'
    BY <1>2, <2>1 DEF Forward, QueueIds
  <2>3. pos' \in [Conns -> Ids]
    BY <1>2 DEF Forward
  <2> QED BY <1>2, <2>2, <2>3 DEF Forward
<1>3. ASSUME NEW c \in Conns, NEW u \in (pos[c] + 1) .. now, Lose(c, u)
      PROVE  TypeInv'
  BY <1>3 DEF Lose, QueueIds
<1>4. CASE Boot
  BY <1>4, SnapshotType DEF Boot, QueueIds, NewSync, SyncState
<1>5. ASSUME NEW k \in 1 .. PollLimit, Process(k) PROVE TypeInv'
  <2>1. Poll(k) /\ queue[k] \in Event /\ queue[k].final \in Ids
    BY <1>5, PollKeeps DEF Process
  <2>2. queue' \in Seq(Event) /\ QueueIds'
    BY <2>1, PollKeepsType
  <2>3. sync' \in SyncState
    BY <1>5, <2>1, SyncType DEF Process
  <2>4. book' \in Book
    BY <1>5, <2>1, ApplyBatchType DEF Process
  <2>5. ready' \in BOOLEAN
    BY <1>5 DEF Process, TwoSided
  <2> QED BY <1>5, <2>2, <2>3, <2>4, <2>5 DEF Process
<1>6. ASSUME NEW k \in 1 .. PollLimit, SkipUpdate(k) PROVE TypeInv'
  <2>1. Poll(k) /\ queue[k] \in Event
    BY <1>6, PollKeeps DEF SkipUpdate
  <2>2. sync' \in SyncState
    BY <1>6, <2>1, SyncType DEF SkipUpdate
  <2> QED BY <1>6, <2>1, <2>2, PollKeepsType DEF SkipUpdate
<1>7. ASSUME NEW k \in 1 .. PollLimit, ResyncOk(k) PROVE TypeInv'
  <2>1. Poll(k)
    BY <1>7 DEF ResyncOk
  <2>2. sync' \in SyncState /\ book' \in Book
    BY <1>7, NewSyncType, SnapshotType DEF ResyncOk
  <2> QED BY <1>7, <2>1, <2>2, PollKeepsType DEF ResyncOk
<1>8. ASSUME NEW k \in 1 .. PollLimit, ResyncFails(k) PROVE TypeInv'
  <2>1. Poll(k) /\ queue[k] \in Event
    BY <1>8, PollKeeps DEF ResyncFails
  <2>2. AfterUpdate(sync, queue[k]) \in SyncState
    BY <2>1, SyncType
  <2>3. sync' \in SyncState
    BY <1>8, <2>2 DEF ResyncFails, StampAttempt, SyncState
  <2> QED BY <1>8, <2>1, <2>3, PollKeepsType DEF ResyncFails
<1>9. CASE CooldownExpires
  BY <1>9 DEF CooldownExpires, QueueIds
<1>10. CASE UNCHANGED vars
  BY <1>10 DEF vars, QueueIds
<1> QED BY <1>1, <1>2, <1>3, <1>4, <1>5, <1>6, <1>7, <1>8, <1>9, <1>10 DEF Next

(* Every variable keeps its type. *)
THEOREM TypeCorrect == Spec => []TypeInv
  BY InitTypes, NextTypes, PTL DEF Spec

(* The type invariant the runs check: the counters of the sync state stay  *)
(* in range and a book holds natural quantities, on any number of          *)
(* connections, with or without loss.                                      *)
THEOREM TypesHold == Spec => []TypeOK
<1>1. TypeInv => TypeOK
  BY DEF TypeInv
<1> QED BY <1>1, TypeCorrect, PTL

-----------------------------------------------------------------------------
(***************************************************************************)
(* The exactness of the book.                                              *)
(***************************************************************************)

LEMMA SnapshotMatches ==
  ASSUME NEW id \in Ids PROVE Matches(Snapshot(id), id, id)
<1>1. Touched(id + 1, id) = {}
  BY DEF Touched
<1> QED BY <1>1 DEF Matches, Snapshot

(* A batch that starts at most one id after the book's and ends at or after *)
(* it brings the book to the batch's final id.                              *)
LEMMA ApplyMatches ==
  ASSUME NEW b, NEW s \in Ids, NEW id \in Ids, s <= id, NEW e \in Event,
         e.first - 1 \in Ids, e.final \in Ids,
         e.first - 1 <= id, id <= e.final, Matches(b, s, id)
  PROVE  Matches(ApplyBatch(b, e), s, e.final)
<1> DEFINE a == ApplyBatch(b, e)
<1> SUFFICES ASSUME NEW l \in Levels
             PROVE  /\ a[l] \in {0, History[e.final][l]}
                    /\ l \in TopLevels[s] \cup Touched(s + 1, e.final)
                         => a[l] = History[e.final][l]
  BY DEF Matches
<1>1. CASE l \in Touched(e.first, e.final)
  BY <1>1 DEF ApplyBatch
<1>2. CASE l \notin Touched(e.first, e.final)
  <2>1. a[l] = b[l]
    BY <1>2 DEF ApplyBatch
  <2>2. \A i, j \in (e.first - 1) .. e.final : History[i][l] = History[j][l]
    BY <1>2 DEF Touched
  <2>3. e.first - 1 \in Nat /\ e.final \in Nat /\ id \in Nat /\ s \in Nat
    OBVIOUS
  <2>4. History[id][l] = History[e.final][l]
    BY <2>2, <2>3
  <2>5. ASSUME l \in Touched(s + 1, e.final) PROVE l \in Touched(s + 1, id)
    <3>1. PICK i \in s .. e.final, j \in s .. e.final :
                 History[i][l] # History[j][l]
      BY <2>3, <2>5 DEF Touched
    <3> DEFINE Cut(n) == IF n <= id THEN n ELSE id
    <3>2. \A n \in s .. e.final :
            Cut(n) \in s .. id /\ History[Cut(n)][l] = History[n][l]
      BY <2>2, <2>3
    <3>3. Cut(i) \in ((s + 1) - 1) .. id /\ Cut(j) \in ((s + 1) - 1) .. id
      BY <2>3, <3>2
    <3> HIDE DEF Cut
    <3> QED BY <3>1, <3>2, <3>3 DEF Touched
  <2> QED BY <2>1, <2>4, <2>5 DEF Matches
<1> QED BY <1>1, <1>2

-----------------------------------------------------------------------------
(***************************************************************************)
(* One connection, whose events name their predecessor.  The events in     *)
(* flight are contiguous within themselves, ordered, and all newer than    *)
(* the last one applied; so once an event has been applied none of those   *)
(* to come spans the snapshot, and a gap can only be left by a new one.    *)
(***************************************************************************)
FlightInv(c) ==
  /\ sync.last <= pos[c]
  /\ \A i \in 1 .. Len(queue) :
       /\ queue[i].prev = queue[i].first - 1
       /\ queue[i].prev \in Ids
       /\ queue[i].first <= queue[i].final
       /\ sync.last < queue[i].first
       /\ queue[i].final <= pos[c]
  /\ \A i, j \in 1 .. Len(queue) : i < j => queue[i].final < queue[j].first

SyncInv ==
  /\ running => sync.snapshot \in Ids
  /\ sync.synced => sync.last # 0
  /\ sync.last # 0 => running /\ sync.last \in Ids /\ sync.snapshot <= sync.last

BookInv == running => BookMatches(BookId)

IInv(c) == TypeInv /\ FlightInv(c) /\ SyncInv /\ BookInv

LEMMA InitIInv ==
  ASSUME NEW c, Conns = {c}, Init, TypeInv PROVE IInv(c)
  BY DEF Init, IInv, FlightInv, SyncInv, BookInv, NewSync, TypeInv, TypeOK

(* What remains of the queue after a poll keeps its order. *)
LEMMA PollFlight ==
  ASSUME NEW c, Conns = {c}, IInv(c), NEW k \in 1 .. PollLimit, Poll(k), pos' = pos,
         sync'.last \in {0, sync.last, queue[k].final}
  PROVE  FlightInv(c)'
<1> USE DEF IInv
<1>1. \A i \in 1 .. Len(queue') : i + k \in 1 .. Len(queue) /\ queue'[i] = queue[i + k]
  BY PollKeeps DEF TypeInv, TypeOK
<1>2. k \in 1 .. Len(queue) /\ queue[k] \in Event
  BY PollKeeps
<1>3. \A i \in 1 .. Len(queue) : queue[i] \in Event
  BY DEF TypeInv, TypeOK
<1>4. sync \in SyncState /\ pos[c] \in Nat /\ sync.last \in Nat
  BY DEF TypeInv, TypeOK, SyncState
<1>5. sync'.last <= pos'[c]
  <2>1. queue[k].final <= pos[c] /\ sync.last <= pos[c]
    BY <1>2 DEF FlightInv
  <2> QED BY <1>4, <2>1
<1>6. \A i \in 1 .. Len(queue') :
        /\ queue'[i].prev = queue'[i].first - 1
        /\ queue'[i].prev \in Ids
        /\ queue'[i].first <= queue'[i].final
        /\ queue'[i].final <= pos'[c]
  BY <1>1 DEF FlightInv
<1>7. \A i \in 1 .. Len(queue') : sync'.last < queue'[i].first
  <2> TAKE i \in 1 .. Len(queue')
  <2>1. i + k \in 1 .. Len(queue) /\ k < i + k /\ queue'[i] = queue[i + k]
    BY <1>1, <1>2
  <2>2. queue[k].final < queue[i + k].first /\ sync.last < queue[i + k].first
    BY <1>2, <2>1 DEF FlightInv
  <2>3. queue[i + k].first \in Nat /\ queue[k].final \in Nat
    BY <1>2, <1>3, <2>1 DEF Event
  <2>4. sync.last \in Nat /\ 0 < queue[i + k].first
    BY <1>4, <2>2, <2>3
  <2>5. sync'.last < queue[i + k].first
    <3>1. CASE sync'.last = 0
      BY <2>4, <3>1
    <3>2. CASE sync'.last = sync.last
      BY <2>2, <3>2
    <3>3. CASE sync'.last = queue[k].final
      BY <2>2, <3>3
    <3> QED BY <3>1, <3>2, <3>3
  <2> QED BY <2>1, <2>5
<1>8. \A i, j \in 1 .. Len(queue') : i < j => queue'[i].final < queue'[j].first
  <2> SUFFICES ASSUME NEW i \in 1 .. Len(queue'), NEW j \in 1 .. Len(queue'), i < j
               PROVE  queue'[i].final < queue'[j].first
    OBVIOUS
  <2>1. i + k < j + k
    BY <1>2
  <2> QED BY <1>1, <2>1 DEF FlightInv
<1> QED BY <1>5, <1>6, <1>7, <1>8 DEF FlightInv

LEMMA ForwardFlight ==
  ASSUME NEW c, Conns = {c}, HasPrev = TRUE, IInv(c),
         NEW u \in (pos[c] + 1) .. now, Forward(c, u)
  PROVE  FlightInv(c)'
<1> USE DEF IInv
<1>1. /\ queue \in Seq(Event) /\ pos[c] \in Ids /\ now \in Ids /\ pos'[c] = u
      /\ sync.last \in Nat /\ u \in Nat
  BY DEF TypeInv, TypeOK, SyncState, Forward
<1> DEFINE e == DepthEvent(c, u)
<1>2. e.first = pos[c] + 1 /\ e.final = u /\ e.prev = pos[c]
  BY DEF DepthEvent
<1>3. e \in Event
  BY <1>1 DEF DepthEvent, Event
<1>4. queue' = Append(queue, e) /\ sync' = sync
  BY DEF Forward
<1> HIDE DEF e
<1>5. /\ Len(queue') = Len(queue) + 1
      /\ \A i \in 1 .. Len(queue) : queue'[i] = queue[i]
      /\ queue'[Len(queue) + 1] = e
      /\ Len(queue) \in Nat
  BY <1>1, <1>3, <1>4
<1>6. \A i \in 1 .. Len(queue') : i \in 1 .. Len(queue) \/ i = Len(queue) + 1
  BY <1>5
<1>7. \A i \in 1 .. Len(queue) : queue[i].final <= pos[c] /\ queue[i].final \in Nat
  <2>1. \A i \in 1 .. Len(queue) : queue[i] \in Event
    BY <1>1
  <2> QED BY <2>1 DEF FlightInv, Event
<1>8. sync'.last <= pos'[c]
  BY <1>1, <1>4 DEF FlightInv
<1>9. ASSUME NEW i \in 1 .. Len(queue')
      PROVE  /\ queue'[i].prev = queue'[i].first - 1
             /\ queue'[i].prev \in Ids
             /\ queue'[i].first <= queue'[i].final
             /\ sync'.last < queue'[i].first
             /\ queue'[i].final <= pos'[c]
  <2>1. CASE i \in 1 .. Len(queue)
    <3>1. queue'[i].final <= pos'[c]
      BY <1>1, <1>5, <1>7, <2>1
    <3> QED BY <1>4, <1>5, <2>1, <3>1 DEF FlightInv
  <2>2. CASE i = Len(queue) + 1
    <3>1. queue'[i] = e
      BY <1>5, <2>2
    <3>2. sync.last <= pos[c]
      BY DEF FlightInv
    <3> QED BY <1>1, <1>2, <1>4, <3>1, <3>2
  <2> QED BY <1>6, <2>1, <2>2
<1>10. ASSUME NEW i \in 1 .. Len(queue'), NEW j \in 1 .. Len(queue'), i < j
       PROVE  queue'[i].final < queue'[j].first
  <2>1. i \in 1 .. Len(queue) /\ queue'[i] = queue[i]
    BY <1>5, <1>6, <1>10
  <2>2. CASE j \in 1 .. Len(queue)
    BY <1>5, <1>10, <2>1, <2>2 DEF FlightInv
  <2>3. CASE j = Len(queue) + 1
    BY <1>1, <1>2, <1>5, <1>7, <2>1, <2>3
  <2> QED BY <1>6, <2>2, <2>3
<1> QED BY <1>8, <1>9, <1>10 DEF FlightInv

(* An event that is accepted begins at most one id after the book's, and   *)
(* ends at or after it.                                                    *)
LEMMA AcceptedFits ==
  ASSUME NEW c, Conns = {c}, HasPrev = TRUE, IInv(c),
         NEW k \in 1 .. PollLimit, Process(k)
  PROVE  /\ queue[k] \in Event /\ queue[k].final \in Ids
         /\ queue[k].first - 1 \in Ids /\ queue[k].first - 1 <= BookId
         /\ BookId \in Ids /\ BookId <= queue[k].final /\ sync.snapshot <= BookId
         /\ sync'.synced = TRUE /\ sync'.last = queue[k].final
         /\ sync'.snapshot = sync.snapshot
<1> USE DEF IInv
<1> DEFINE e == queue[k]
<1>1. Poll(k) /\ k \in 1 .. Len(queue) /\ e \in Event /\ e.final \in Ids
  BY PollKeeps DEF Process
<1>2. /\ e.prev = e.first - 1 /\ e.prev \in Ids /\ e.first <= e.final
      /\ sync.last < e.first /\ sync.last \in Nat /\ sync.snapshot \in Nat
  BY <1>1 DEF FlightInv, TypeInv, TypeOK, SyncState
<1>3. running /\ sync.snapshot \in Ids
  BY <1>1 DEF Poll, SyncInv
<1>4. /\ sync'.synced = TRUE /\ sync'.last = e.final /\ sync'.snapshot = sync.snapshot
  BY DEF Process, AfterUpdate, TypeInv, TypeOK, SyncState
<1>5. CASE sync.synced
  <2>1. ~IsGap(sync, e) /\ sync.last # 0
    BY <1>5 DEF Process, Accepts, SyncInv
  <2>2. e.prev = sync.last
    BY <1>2, <2>1 DEF IsGap
  <2> QED BY <1>1, <1>2, <1>4, <2>1, <2>2 DEF BookId, SyncInv, Event
<1>6. CASE ~sync.synced
  <2>1. e.first <= sync.snapshot /\ e.final >= sync.snapshot
    BY <1>6 DEF Process, Accepts, IsSyncPoint
  <2>2. sync.last = 0
    BY <1>1, <1>2, <2>1 DEF SyncInv, Event
  <2> QED BY <1>1, <1>2, <1>3, <1>4, <2>1, <2>2 DEF BookId, Event
<1> QED BY <1>5, <1>6

(* The events accepted are those ApplyMatches is about, and those refused  *)
(* leave the fields of sync that the invariant mentions as they were.      *)
LEMMA ProcessExact ==
  ASSUME NEW c, Conns = {c}, HasPrev = TRUE, IInv(c),
         NEW k \in 1 .. PollLimit, Process(k)
  PROVE  SyncInv' /\ BookInv' /\ FlightInv(c)'
<1> USE DEF IInv
<1> DEFINE e == queue[k]
<1>1. Poll(k) /\ running /\ running' /\ sync.snapshot \in Ids
  BY DEF Process, Poll, SyncInv
<1>2. /\ e \in Event /\ e.final \in Ids /\ e.first - 1 \in Ids
      /\ BookId \in Ids /\ sync.snapshot <= BookId
      /\ e.first - 1 <= BookId /\ BookId <= e.final
  BY AcceptedFits
<1>3. sync'.synced = TRUE /\ sync'.last = e.final /\ sync'.snapshot = sync.snapshot
  BY AcceptedFits
<1>4. FlightInv(c)'
  BY <1>1, <1>3, PollFlight DEF Process
<1>5. Matches(book', sync'.snapshot, e.final)
  <2>1. Matches(book, sync.snapshot, BookId)
    BY <1>1 DEF BookInv, BookMatches
  <2>2. book' = ApplyBatch(book, e)
    BY DEF Process
  <2> QED BY <1>1, <1>2, <1>3, <2>1, <2>2, ApplyMatches
<1>6. e.final # 0 /\ sync.snapshot <= e.final
  <2>1. sync.snapshot \in Nat \ {0} /\ BookId \in Nat /\ e.final \in Nat
    BY <1>1, <1>2, FeedAssumption DEF Ids
  <2> QED BY <1>2, <2>1
<1> HIDE DEF e
<1>7. BookInv'
  BY <1>3, <1>5, <1>6 DEF BookInv, BookId, BookMatches
<1> QED BY <1>1, <1>2, <1>3, <1>4, <1>6, <1>7 DEF SyncInv

LEMMA RefusalKeeps ==
  ASSUME NEW s \in SyncState, NEW e \in Event, ~Accepts(s, e)
  PROVE  /\ AfterUpdate(s, e).snapshot = s.snapshot
         /\ AfterUpdate(s, e).last = s.last
         /\ AfterUpdate(s, e).synced = FALSE
         /\ StampAttempt(AfterUpdate(s, e)).snapshot = s.snapshot
         /\ StampAttempt(AfterUpdate(s, e)).last = s.last
         /\ StampAttempt(AfterUpdate(s, e)).synced = FALSE
<1>1. Skip(s) \in SyncState /\ Skip(s).snapshot = s.snapshot /\ Skip(s).last = s.last
  BY DEF Skip, SyncState
<1>2. AfterUpdate(s, e) = [Skip(s) EXCEPT !.synced = FALSE]
  BY DEF AfterUpdate
<1>3. /\ AfterUpdate(s, e) \in SyncState
      /\ AfterUpdate(s, e).snapshot = s.snapshot
      /\ AfterUpdate(s, e).last = s.last
      /\ AfterUpdate(s, e).synced = FALSE
  BY <1>1, <1>2 DEF SyncState
<1> QED BY <1>3 DEF StampAttempt, SyncState

LEMMA RefusedStays ==
  ASSUME TypeInv, NEW k \in 1 .. PollLimit, SkipUpdate(k) \/ ResyncFails(k)
  PROVE  /\ sync'.snapshot = sync.snapshot /\ sync'.last = sync.last /\ sync'.synced = FALSE
         /\ UNCHANGED <<now, pos, running, book>>
<1>1. ~Accepts(sync, queue[k]) /\ queue[k] \in Event /\ sync \in SyncState
  BY PollKeeps DEF SkipUpdate, ResyncFails, TypeInv, TypeOK
<1> DEFINE a == AfterUpdate(sync, queue[k])
<1>2. sync' = a \/ sync' = StampAttempt(a)
  BY DEF SkipUpdate, ResyncFails
<1>3. /\ a.snapshot = sync.snapshot /\ a.last = sync.last /\ a.synced = FALSE
      /\ StampAttempt(a).snapshot = sync.snapshot /\ StampAttempt(a).last = sync.last
      /\ StampAttempt(a).synced = FALSE
  BY <1>1, RefusalKeeps
<1>4. UNCHANGED <<now, pos, running, book>>
  BY DEF SkipUpdate, ResyncFails
<1> HIDE DEF a
<1> QED BY <1>2, <1>3, <1>4

LEMMA BootResyncBook ==
  ASSUME TypeInv, running', sync' = NewSync(now), book' = Snapshot(now)
  PROVE  SyncInv' /\ BookInv' /\ sync'.last = 0
<1>1. sync'.snapshot = now /\ sync'.last = 0 /\ sync'.synced = FALSE /\ now \in Ids
  BY DEF NewSync, TypeInv, TypeOK
<1>2. Matches(book', sync'.snapshot, now)
  BY <1>1, SnapshotMatches
<1> QED BY <1>1, <1>2 DEF SyncInv, BookInv, BookMatches, BookId

LEMMA RefusalInv ==
  ASSUME SyncInv, BookInv, running' = running, book' = book,
         sync'.snapshot = sync.snapshot, sync'.last = sync.last,
         sync'.synced = FALSE
  PROVE  SyncInv' /\ BookInv'
  BY DEF SyncInv, BookInv, BookMatches, BookId

LEMMA NextIInv ==
  ASSUME NEW c, Conns = {c}, HasPrev = TRUE, IInv(c), TypeInv', [Next]_vars
  PROVE  IInv(c)'
<1> SUFFICES FlightInv(c)' /\ SyncInv' /\ BookInv'
  BY DEF IInv
<1>0. TypeInv /\ FlightInv(c) /\ SyncInv /\ BookInv
  BY DEF IInv
<1>1. CASE ExchangeUpdate
  BY <1>0, <1>1 DEF ExchangeUpdate, FlightInv, SyncInv, BookInv, BookMatches, BookId
<1>2. ASSUME NEW u \in (pos[c] + 1) .. now, Forward(c, u)
      PROVE  FlightInv(c)' /\ SyncInv' /\ BookInv'
  <2>1. SyncInv' /\ BookInv'
    BY <1>0, <1>2 DEF Forward, SyncInv, BookInv, BookMatches, BookId
  <2> QED BY <1>2, <2>1, ForwardFlight
<1>3. ASSUME NEW u \in (pos[c] + 1) .. now, Lose(c, u)
      PROVE  FlightInv(c)' /\ SyncInv' /\ BookInv'
  <2>1. SyncInv' /\ BookInv'
    BY <1>0, <1>3 DEF Lose, SyncInv, BookInv, BookMatches, BookId
  <2>2. /\ pos[c] \in Nat /\ pos'[c] = u /\ u > pos[c] /\ u \in Nat
        /\ sync.last \in Nat /\ \A i \in 1 .. Len(queue) : queue[i] \in Event
    BY <1>0, <1>3 DEF Lose, TypeInv, TypeOK, SyncState
  <2>3. \A i \in 1 .. Len(queue) : queue[i].final <= u
    <3> SUFFICES ASSUME NEW i \in 1 .. Len(queue) PROVE queue[i].final <= u
      OBVIOUS
    <3>1. queue[i].final \in Nat /\ queue[i].final <= pos[c]
      BY <1>0, <2>2 DEF FlightInv, Event
    <3> QED BY <2>2, <3>1
  <2>4. sync.last <= u
    BY <1>0, <2>2 DEF FlightInv
  <2>5. queue' = queue /\ sync' = sync
    BY <1>3 DEF Lose
  <2> QED BY <1>0, <2>1, <2>2, <2>3, <2>4, <2>5 DEF FlightInv
<1>4. CASE Boot
  <2>1. SyncInv' /\ BookInv' /\ sync'.last = 0
    BY <1>0, <1>4, BootResyncBook DEF Boot
  <2>2. sync.last = 0 /\ queue' = queue /\ pos' = pos
    BY <1>0, <1>4 DEF Boot, SyncInv
  <2> QED BY <1>0, <2>1, <2>2 DEF FlightInv
<1>5. ASSUME NEW k \in 1 .. PollLimit, Process(k)
      PROVE  FlightInv(c)' /\ SyncInv' /\ BookInv'
  BY <1>5, ProcessExact
<1>6. ASSUME NEW k \in 1 .. PollLimit, SkipUpdate(k) \/ ResyncFails(k)
      PROVE  FlightInv(c)' /\ SyncInv' /\ BookInv'
  <2>1. Poll(k) /\ ~Accepts(sync, queue[k]) /\ queue[k] \in Event /\ sync \in SyncState
    BY <1>0, <1>6, PollKeeps DEF SkipUpdate, ResyncFails, TypeInv, TypeOK
  <2>2. sync'.snapshot = sync.snapshot /\ sync'.last = sync.last /\ sync'.synced = FALSE
    BY <1>0, <1>6, RefusedStays
  <2>3. running' = running /\ book' = book /\ pos' = pos
    BY <1>0, <1>6, RefusedStays
  <2>4. FlightInv(c)'
    BY <2>1, <2>2, <2>3, PollFlight
  <2> QED BY <1>0, <2>2, <2>3, <2>4, RefusalInv
<1>7. ASSUME NEW k \in 1 .. PollLimit, ResyncOk(k)
      PROVE  FlightInv(c)' /\ SyncInv' /\ BookInv'
  <2>1. Poll(k) /\ running' /\ pos' = pos
    BY <1>7 DEF ResyncOk, Poll
  <2>2. SyncInv' /\ BookInv' /\ sync'.last = 0
    BY <1>0, <1>7, <2>1, BootResyncBook DEF ResyncOk
  <2>3. FlightInv(c)'
    BY <2>1, <2>2, PollFlight
  <2> QED BY <2>2, <2>3
<1>8. CASE CooldownExpires
  BY <1>0, <1>8 DEF CooldownExpires, FlightInv, SyncInv, BookInv, BookMatches, BookId
<1>9. CASE UNCHANGED vars
  BY <1>0, <1>9 DEF vars, FlightInv, SyncInv, BookInv, BookMatches, BookId
<1> QED BY <1>1, <1>2, <1>3, <1>4, <1>5, <1>6, <1>7, <1>8, <1>9 DEF Next

LEMMA Invariance ==
  ASSUME NEW c, Conns = {c}, HasPrev = TRUE PROVE Spec => []IInv(c)
<1>1. Init /\ TypeInv => IInv(c)
  BY InitIInv
<1>2. IInv(c) /\ TypeInv' /\ [Next]_vars => IInv(c)'
  BY NextIInv
<1> QED BY <1>1, <1>2, TypeCorrect, PTL DEF Spec

(* With one connection whose events name their predecessor, whatever is    *)
(* lost on the way: the book is exact at the last id applied whenever      *)
(* should_process_update has left it synchronised.                         *)
THEOREM SyncedExact ==
  ASSUME NEW c, Conns = {c}, HasPrev = TRUE PROVE Spec => []SyncedBookIsExact
<1>1. IInv(c) => SyncedBookIsExact
  BY DEF IInv, SyncInv, BookInv, BookId, SyncedBookIsExact
<1> QED BY <1>1, Invariance, PTL

(* On the same assumptions: the book quotes are made from is at all times  *)
(* the exchange's book of one update id, synchronised or not.              *)
THEOREM QuotableReal ==
  ASSUME NEW c, Conns = {c}, HasPrev = TRUE PROVE Spec => []QuotableBookIsReal
<1>1. IInv(c) => QuotableBookIsReal
  BY DEF IInv, SyncInv, BookInv, BookId, QuotableBookIsReal
<1> QED BY <1>1, Invariance, PTL

(* On the same assumptions: after a gap the consumer does not become       *)
(* synchronised again with the snapshot it has.                            *)
THEOREM GapNeedsNewSnapshot ==
  ASSUME NEW c, Conns = {c}, HasPrev = TRUE PROVE Spec => GapNeedsSnapshot
<1>1. IInv(c) /\ [Next]_vars
        => [~sync.synced /\ sync.last # 0 => ~sync'.synced]_vars
  <2> SUFFICES ASSUME IInv(c), Next, ~sync.synced, sync.last # 0 PROVE ~sync'.synced
    OBVIOUS
  <2>1. ASSUME NEW k \in 1 .. PollLimit, Process(k) PROVE FALSE
    <3>1. k \in 1 .. Len(queue) /\ queue[k] \in Event
      BY <2>1, PollKeeps DEF Process, IInv
    <3>2. queue[k].first <= sync.snapshot
      BY <2>1 DEF Process, Accepts, IsSyncPoint
    <3>3. sync.last < queue[k].first /\ sync.snapshot <= sync.last
      BY <3>1 DEF IInv, FlightInv, SyncInv
    <3>4. sync.last \in Nat /\ sync.snapshot \in Nat
      BY DEF IInv, TypeInv, TypeOK, SyncState
    <3> QED BY <3>1, <3>2, <3>3, <3>4 DEF Event
  <2>2. ASSUME NEW k \in 1 .. PollLimit, SkipUpdate(k) \/ ResyncFails(k)
        PROVE  ~sync'.synced
    <3>1. ~Accepts(sync, queue[k]) /\ queue[k] \in Event /\ sync \in SyncState
      BY <2>2, PollKeeps DEF SkipUpdate, ResyncFails, IInv, TypeInv, TypeOK
    <3> QED BY <2>2, <3>1, RefusalKeeps DEF SkipUpdate, ResyncFails
  <2>3. ASSUME NEW k \in 1 .. PollLimit, ResyncOk(k) PROVE ~sync'.synced
    BY <2>3 DEF ResyncOk, NewSync
  <2>4. CASE Boot
    BY <2>4 DEF Boot, NewSync
  <2>5. ASSUME NEW d \in Conns, NEW u \in (pos[d] + 1) .. now,
               Forward(d, u) \/ Lose(d, u)
        PROVE  ~sync'.synced
    BY <2>5 DEF Forward, Lose
  <2>6. CASE ExchangeUpdate \/ CooldownExpires
    BY <2>6 DEF ExchangeUpdate, CooldownExpires
  <2> QED BY <2>1, <2>2, <2>3, <2>4, <2>5, <2>6 DEF Next
<1> QED BY <1>1, Invariance, PTL DEF Spec, GapNeedsSnapshot

-----------------------------------------------------------------------------
(***************************************************************************)
(* The book as a replica of the exchange's, one connection with its        *)
(* predecessors.  Neither it nor the stream is ahead of the exchange.      *)
(***************************************************************************)
PastInv(c) == pos[c] <= now /\ (running => sync.snapshot <= now)

LEMMA NextPast ==
  ASSUME NEW c, Conns = {c}, HasPrev = TRUE, IInv(c), PastInv(c), [Next]_vars
  PROVE  PastInv(c)'
<1>1. /\ now \in Nat /\ pos \in [Conns -> Ids] /\ sync \in SyncState /\ TypeInv
      /\ pos[c] <= now /\ (running => sync.snapshot <= now)
  BY FeedAssumption DEF IInv, TypeInv, TypeOK, Ids, PastInv
<1>2. CASE ExchangeUpdate
  <2>1. running => sync.snapshot \in Nat /\ sync.snapshot <= now + 1
    BY <1>1 DEF SyncState
  <2>2. pos[c] \in Nat
    BY <1>1, FeedAssumption DEF Ids
  <2> QED BY <1>1, <1>2, <2>1, <2>2 DEF ExchangeUpdate, PastInv
<1>3. ASSUME NEW u \in (pos[c] + 1) .. now, Forward(c, u) \/ Lose(c, u)
      PROVE  PastInv(c)'
  <2>1. pos'[c] = u /\ now' = now /\ running' = running /\ sync' = sync
    BY <1>1, <1>3 DEF Forward, Lose
  <2> QED BY <1>1, <1>3, <2>1 DEF PastInv
<1>4. ASSUME now' = now, pos' = pos, sync' = NewSync(now) PROVE PastInv(c)'
  BY <1>1, <1>4 DEF PastInv, NewSync
<1>5. ASSUME NEW k \in 1 .. PollLimit, Process(k) PROVE PastInv(c)'
  <2>1. sync'.snapshot = sync.snapshot
    BY <1>5, AcceptedFits
  <2> QED BY <1>1, <1>5, <2>1 DEF Process, Poll, PastInv
<1>6. ASSUME NEW k \in 1 .. PollLimit, SkipUpdate(k) \/ ResyncFails(k)
      PROVE  PastInv(c)'
  <2>1. sync'.snapshot = sync.snapshot /\ UNCHANGED <<now, pos, running>>
    BY <1>1, <1>6, RefusedStays
  <2> QED BY <1>1, <2>1 DEF PastInv
<1>7. CASE Boot
  BY <1>4, <1>7 DEF Boot
<1>8. ASSUME NEW k \in 1 .. PollLimit, ResyncOk(k) PROVE PastInv(c)'
  BY <1>4, <1>8 DEF ResyncOk
<1>9. CASE CooldownExpires \/ UNCHANGED vars
  BY <1>1, <1>9 DEF CooldownExpires, vars, PastInv
<1> QED BY <1>2, <1>3, <1>5, <1>6, <1>7, <1>8, <1>9 DEF Next

(* A book that matches is the exchange's on the levels where it agrees.    *)
LEMMA MatchesFaithful ==
  ASSUME NEW b \in Book, NEW s \in Ids, NEW id \in Ids, s <= id, Matches(b, s, id)
  PROVE  b \in Faithful[id]
<1> DEFINE known == {l \in Levels : b[l] = History[id][l]}
<1>1. b = [l \in Levels |-> IF l \in known THEN History[id][l] ELSE 0]
  <2>1. \A l \in Levels : b[l] = IF l \in known THEN History[id][l] ELSE 0
    BY DEF Matches
  <2> QED BY <2>1 DEF Book
<1>2. TopLevels[s] \cup Touched(s + 1, id) \subseteq known
  <2>1. TopLevels[s] \subseteq Levels
    BY FeedAssumption
  <2> QED BY <2>1 DEF Matches, Touched
<1>3. s \in StartId .. id
  BY FeedAssumption DEF Ids
<1> HIDE DEF known
<1>4. known \in SUBSET Levels
  BY DEF known
<1> QED BY <1>1, <1>2, <1>3, <1>4 DEF Faithful

(* A step that leaves the exchange alone and the book at no earlier id.    *)
LEMMA StepFollows ==
  ASSUME NEW c, IInv(c)', now' = now, running',
         running => BookId <= BookId', BookId' <= now
  PROVE  Replica!Follow
<1>1. /\ book' \in Book /\ sync'.snapshot \in Ids
      /\ Matches(book', sync'.snapshot, BookId')
  BY DEF IInv, TypeInv, TypeOK, SyncInv, BookInv, BookMatches
<1>2. BookId' \in Ids /\ sync'.snapshot <= BookId'
  <2>1. sync'.snapshot \in Nat
    BY <1>1, FeedAssumption DEF Ids
  <2>2. CASE sync'.last = 0
    BY <1>1, <2>1, <2>2 DEF BookId
  <2>3. CASE sync'.last # 0
    BY <2>3 DEF BookId, IInv, SyncInv
  <2> QED BY <2>2, <2>3
<1>3. book' \in Faithful[BookId']
  BY <1>1, <1>2, MatchesFaithful
<1>4. 0 <= BookId'
  BY <1>2, FeedAssumption DEF Ids
<1> HIDE DEF BookId
<1> QED BY <1>2, <1>3, <1>4 DEF Replica!Follow

(* Every step of the consumer follows the exchange or leaves the replica   *)
(* as it is.                                                               *)
LEMMA NextFollows ==
  ASSUME NEW c, Conns = {c}, HasPrev = TRUE, IInv(c), IInv(c)', PastInv(c), [Next]_vars
  PROVE  \/ Replica!ReplicaNext
         \/ UNCHANGED <<now, IF running THEN BookId ELSE 0, book>>
<1>1. TypeInv /\ now \in Nat /\ now' \in Ids
  BY FeedAssumption DEF IInv, TypeInv, TypeOK, Ids
<1>2. running => BookId \in Nat /\ BookId <= now
  <2>1. sync.last \in Nat /\ sync.snapshot \in Nat /\ pos[c] \in Nat
    BY FeedAssumption DEF IInv, TypeInv, TypeOK, SyncState, Ids
  <2>2. sync.last <= pos[c] /\ pos[c] <= now /\ (running => sync.snapshot <= now)
    BY DEF IInv, FlightInv, PastInv
  <2> QED BY <1>1, <2>1, <2>2 DEF BookId
<1>3. ASSUME sync'.snapshot = sync.snapshot, sync'.last = sync.last,
             UNCHANGED <<now, running, book>>
      PROVE  UNCHANGED <<now, IF running THEN BookId ELSE 0, book>>
  BY <1>3 DEF BookId
<1>4. CASE ExchangeUpdate
  <2>1. now' = now + 1 /\ UNCHANGED <<running, sync, book>>
    BY <1>4 DEF ExchangeUpdate
  <2>2. UNCHANGED <<IF running THEN BookId ELSE 0, book>>
    BY <2>1 DEF BookId
  <2> QED BY <1>1, <2>1, <2>2 DEF Replica!ReplicaNext, Replica!Progress
<1>5. ASSUME NEW u \in (pos[c] + 1) .. now, Forward(c, u) \/ Lose(c, u)
      PROVE  UNCHANGED <<now, IF running THEN BookId ELSE 0, book>>
  BY <1>3, <1>5 DEF Forward, Lose
<1>6. ASSUME UNCHANGED now, running', sync' = NewSync(now) PROVE Replica!Follow
  <2>1. BookId' = now
    BY <1>6 DEF BookId, NewSync
  <2> QED BY <1>1, <1>2, <1>6, <2>1, StepFollows
<1>7. CASE Boot
  BY <1>6, <1>7 DEF Boot, Replica!ReplicaNext
<1>8. ASSUME NEW k \in 1 .. PollLimit, Process(k) PROVE Replica!Follow
  <2>1. k \in 1 .. Len(queue) /\ queue[k].final \in Ids
    BY <1>1, <1>8, PollKeeps DEF Process
  <2>2. BookId <= queue[k].final /\ sync'.last = queue[k].final
    BY <1>8, AcceptedFits
  <2>3. queue[k].final <= pos[c] /\ pos[c] <= now
    BY <2>1 DEF IInv, FlightInv, PastInv
  <2>4. queue[k].final \in Nat \ {0} /\ pos[c] \in Nat
    BY <2>1, FeedAssumption DEF IInv, TypeInv, TypeOK, Ids
  <2>5. BookId' = queue[k].final
    BY <2>2, <2>4 DEF BookId
  <2>6. BookId' <= now
    BY <1>1, <2>3, <2>4, <2>5
  <2>7. now' = now /\ running'
    BY <1>8 DEF Process, Poll
  <2> QED BY <2>2, <2>5, <2>6, <2>7, StepFollows
<1>9. ASSUME NEW k \in 1 .. PollLimit, SkipUpdate(k) \/ ResyncFails(k)
      PROVE  UNCHANGED <<now, IF running THEN BookId ELSE 0, book>>
  BY <1>1, <1>3, <1>9, RefusedStays
<1>10. ASSUME NEW k \in 1 .. PollLimit, ResyncOk(k) PROVE Replica!Follow
  BY <1>6, <1>10 DEF ResyncOk, Poll
<1>11. CASE CooldownExpires \/ UNCHANGED vars
  BY <1>3, <1>11 DEF CooldownExpires, vars
<1> QED
  BY <1>4, <1>5, <1>7, <1>8, <1>9, <1>10, <1>11 DEF Next, Replica!ReplicaNext

(* With one connection whose events name their predecessor, whatever is    *)
(* lost: the local book is a replica of the exchange's that never goes     *)
(* back, through gaps, refusals and resyncs.                               *)
THEOREM FollowsExchange ==
  ASSUME NEW c, Conns = {c}, HasPrev = TRUE PROVE Spec => ImplementsReplica
<1>1. Init => Replica!ReplicaInit /\ PastInv(c)
  <2> SUFFICES ASSUME Init PROVE Replica!ReplicaInit /\ PastInv(c)
    OBVIOUS
  <2>1. now = StartId /\ pos[c] = StartId /\ ~running /\ StartId \in Ids /\ StartId \in Nat
    BY FeedAssumption DEF Init, Ids
  <2> QED BY <2>1 DEF Replica!ReplicaInit, PastInv
<1>2. IInv(c) /\ PastInv(c) /\ [Next]_vars => PastInv(c)'
  BY NextPast
<1>3. IInv(c) /\ IInv(c)' /\ PastInv(c) /\ [Next]_vars
        => [Replica!ReplicaNext]_<<now, IF running THEN BookId ELSE 0, book>>
  BY NextFollows
<1> QED
  BY <1>1, <1>2, <1>3, Invariance, PTL DEF Spec, ImplementsReplica, Replica!ReplicaSpec

-----------------------------------------------------------------------------
(***************************************************************************)
(* Racing connections.  No event of the queue after the i-th is about      *)
(* level l:                                                                *)
(***************************************************************************)
QuietAfter(i, l) == \A j \in i + 1 .. Len(queue) : l \notin Touched(queue[j].first, queue[j].final)

(* Level l stays as it is at update id a until id b.                       *)
StaysSame(l, a, b) == \A n \in a .. b : History[n][l] = History[a][l]

(* The last event of the queue about a level leaves it as some connection  *)
(* has it by now: what that connection has sent since is not about it.     *)
EventEnds(i, c, l) == QuietAfter(i, l) => StaysSame(l, queue[i].final, pos[c])

StreamInv ==
  /\ \A c \in Conns : pos[c] <= now
  /\ \A i \in 1 .. Len(queue) :
       /\ queue[i].first - 1 \in Ids /\ queue[i].first <= queue[i].final
       /\ queue[i].prev = 0
       /\ \E c \in Conns : queue[i].final <= pos[c] /\ \A l \in Levels : EventEnds(i, c, l)

(* A level that no event in flight is about is as some connection has it,  *)
(* or as it was in the snapshot and no id of that connection's since.      *)
LevelSettled(l) ==
  \E c \in Conns :
    \/ book[l] = History[pos[c]][l]
    \/ /\ sync.snapshot <= pos[c] /\ book[l] = Snapshot(sync.snapshot)[l]
       /\ StaysSame(l, sync.snapshot, pos[c])

RaceInv ==
  /\ sync.synced => running
  /\ running /\ ~sync.synced => book = Snapshot(sync.snapshot)
  /\ sync.synced => sync.snapshot \in Ids /\ \A l \in Levels : QuietAfter(0, l) => LevelSettled(l)

(* The same of a consumer that applies everything and trims its book.      *)
OwnLevelSettled(l) ==
  \/ book[l] = 0
  \/ \E c \in Conns : book[l] = History[pos[c]][l]
  \/ \E s \in Ids : /\ s <= now /\ book[l] = History[s][l]
                    /\ \A c \in Conns : StaysSame(l, s, pos[c])

OwnBookInv ==
  /\ ~sync.synced
  /\ running /\ OwnSymbol => \A l \in Levels : QuietAfter(0, l) => OwnLevelSettled(l)

LEMMA SameFurther ==
  ASSUME NEW l, NEW a \in Nat, NEW b \in Nat, NEW d \in Nat, b <= d,
         StaysSame(l, a, b), \A i, j \in b .. d : History[i][l] = History[j][l]
  PROVE  StaysSame(l, a, d)
<1> SUFFICES ASSUME NEW n \in a .. d PROVE History[n][l] = History[a][l]
  BY DEF StaysSame
<1>1. CASE n <= b
  <2>1. n \in a .. b
    BY <1>1
  <2> QED
    BY <2>1 DEF StaysSame
<1>2. CASE b < n /\ a <= b
  <2>1. n \in b .. d /\ b \in b .. d /\ b \in a .. b
    BY <1>2
  <2>2. History[n][l] = History[b][l] /\ History[b][l] = History[a][l]
    BY <2>1 DEF StaysSame
  <2> QED
    BY <2>2
<1>3. CASE b < n /\ b < a
  <2>1. n \in b .. d /\ a \in b .. d
    BY <1>3
  <2> QED
    BY <2>1
<1> QED
  BY <1>1, <1>2, <1>3

(* What a connection's next event changes.                                 *)
Joined(c, u) ==
  /\ Len(queue) \in Nat /\ Len(queue') = Len(queue) + 1
  /\ \A i \in 1 .. Len(queue) : queue'[i] = queue[i]
  /\ queue'[Len(queue) + 1] = [first |-> pos[c] + 1, final |-> u, prev |-> 0]
  /\ pos[c] \in Ids /\ u \in Nat /\ pos[c] < u /\ u <= now
  /\ pos' = [pos EXCEPT ![c] = u] /\ now' = now

LEMMA ForwardQueue ==
  ASSUME TypeInv, HasPrev = FALSE, NEW c \in Conns, NEW u \in (pos[c] + 1) .. now, Forward(c, u)
  PROVE  Joined(c, u)
<1>1. queue \in Seq(Event) /\ pos \in [Conns -> Ids] /\ now \in Ids
  BY DEF TypeInv, TypeOK
<1>2. pos[c] \in Ids /\ u \in Nat /\ pos[c] < u /\ u <= now
  BY <1>1
<1> DEFINE e == DepthEvent(c, u)
<1>3. e = [first |-> pos[c] + 1, final |-> u, prev |-> 0]
  BY DEF DepthEvent
<1>4. e \in Event
  BY <1>2, <1>3 DEF Event
<1>5. queue' = Append(queue, e)
  BY DEF Forward
<1> HIDE DEF e
<1>6. /\ Len(queue) \in Nat /\ Len(queue') = Len(queue) + 1
      /\ \A i \in 1 .. Len(queue) : queue'[i] = queue[i]
      /\ queue'[Len(queue) + 1] = e
  BY <1>1, <1>4, <1>5
<1> QED
  BY <1>2, <1>3, <1>6 DEF Forward, Joined

(* What connection c sends next leaves the levels it is not about settled. *)
LEMMA ForwardSame ==
  ASSUME TypeInv, HasPrev = FALSE, NEW c \in Conns, NEW u \in (pos[c] + 1) .. now, Forward(c, u),
         NEW l \in Levels, l \notin Touched(pos[c] + 1, u)
  PROVE  /\ \A d \in Conns, a \in Nat : StaysSame(l, a, pos[d]) => StaysSame(l, a, pos'[d])
         /\ \A d \in Conns : History[pos[d]][l] = History[pos'[d]][l] /\ pos[d] <= pos'[d]
<1>1. /\ pos[c] \in Nat /\ u \in Nat /\ pos[c] < u /\ pos' = [pos EXCEPT ![c] = u]
      /\ pos \in [Conns -> Ids]
  <2>1. Joined(c, u)
    BY ForwardQueue
  <2> QED
    BY <2>1 DEF Joined, TypeInv, TypeOK
<1>2. \A i, j \in pos[c] .. u : History[i][l] = History[j][l]
  <2>1. \A i, j \in ((pos[c] + 1) - 1) .. u : History[i][l] = History[j][l]
    BY Zenon DEF Touched
  <2>2. (pos[c] + 1) - 1 = pos[c]
    BY <1>1
  <2> QED
    BY <2>1, <2>2
<1>3. ASSUME NEW d \in Conns
      PROVE  /\ \A a \in Nat : StaysSame(l, a, pos[d]) => StaysSame(l, a, pos'[d])
             /\ History[pos[d]][l] = History[pos'[d]][l] /\ pos[d] <= pos'[d]
  <2>1. CASE d = c
    <3>1. pos'[d] = u /\ pos[d] = pos[c]
      BY <1>1, <2>1
    <3>2. \A a \in Nat : StaysSame(l, a, pos[c]) => StaysSame(l, a, u)
      BY <1>1, <1>2, SameFurther
    <3>3. History[pos[c]][l] = History[u][l] /\ pos[c] <= u
      BY <1>1, <1>2
    <3> QED
      BY <3>1, <3>2, <3>3
  <2>2. CASE d # c
    <3>1. pos'[d] = pos[d] /\ pos[d] \in Nat
      BY <1>1, <2>2
    <3> QED
      BY <3>1
  <2> QED
    BY <2>1, <2>2
<1> QED
  BY <1>3

(* A level quiet after another event has joined the queue was quiet before *)
(* it, and the event is not about it.                                      *)
LEMMA ForwardQuiet ==
  ASSUME TypeInv, HasPrev = FALSE, NEW c \in Conns, NEW u \in (pos[c] + 1) .. now, Forward(c, u),
         NEW l \in Levels, NEW i \in 0 .. Len(queue), QuietAfter(i, l)'
  PROVE  QuietAfter(i, l) /\ l \notin Touched(pos[c] + 1, u)
<1>0. Joined(c, u)
  BY ForwardQueue
<1>1. \A j \in i + 1 .. Len(queue) + 1 : l \notin Touched(queue'[j].first, queue'[j].final)
  BY <1>0 DEF Joined, QuietAfter, Touched
<1>2. Len(queue) \in Nat
  BY <1>0 DEF Joined
<1>3. ASSUME NEW j \in i + 1 .. Len(queue)
      PROVE  j \in i + 1 .. Len(queue) + 1 /\ queue'[j] = queue[j]
  <2>1. j \in i + 1 .. Len(queue) + 1 /\ j \in 1 .. Len(queue)
    BY <1>2
  <2> QED
    BY <1>0, <2>1 DEF Joined
<1>4. QuietAfter(i, l)
  BY <1>1, <1>3 DEF QuietAfter
<1>5. Len(queue) + 1 \in i + 1 .. Len(queue) + 1
  BY <1>2
<1>6. l \notin Touched(queue'[Len(queue) + 1].first, queue'[Len(queue) + 1].final)
  BY <1>1, <1>5
<1>7. queue'[Len(queue) + 1].first = pos[c] + 1 /\ queue'[Len(queue) + 1].final = u
  BY <1>0 DEF Joined
<1> QED
  BY <1>4, <1>6, <1>7

LEMMA ForwardStream ==
  ASSUME TypeInv, StreamInv, HasPrev = FALSE, NEW c \in Conns, NEW u \in (pos[c] + 1) .. now,
         Forward(c, u)
  PROVE  StreamInv'
<1>0. pos \in [Conns -> Ids] /\ now \in Ids /\ Len(queue) \in Nat /\ queue \in Seq(Event)
  BY DEF TypeInv, TypeOK
<1>j. Joined(c, u)
  BY ForwardQueue
<1>p. \A d \in Conns : pos[d] \in Nat /\ pos'[d] \in Nat /\ pos[d] <= pos'[d]
  BY <1>0, <1>j DEF Joined
<1>1. \A d \in Conns : pos'[d] <= now'
  BY <1>0, <1>j DEF StreamInv, Joined
<1>2. ASSUME NEW i \in 1 .. Len(queue')
      PROVE  /\ queue'[i].first - 1 \in Ids /\ queue'[i].first <= queue'[i].final
             /\ queue'[i].prev = 0
             /\ \E d \in Conns : queue'[i].final <= pos'[d] /\ \A l \in Levels : EventEnds(i, d, l)'
  <2>1. CASE i \in 1 .. Len(queue)
    <3>1. queue'[i] = queue[i] /\ queue[i] \in Event
      BY <1>0, <1>j, <2>1 DEF Joined
    <3>2. PICK d \in Conns : queue[i].final <= pos[d] /\ \A l \in Levels : EventEnds(i, d, l)
      BY <2>1 DEF StreamInv
    <3>3. queue[i].final <= pos'[d]
      <4>1. pos[d] <= pos'[d] /\ pos'[d] \in Nat /\ pos[d] \in Nat
        BY <1>p
      <4>2. queue[i].final \in Nat
        BY <3>1 DEF Event
      <4> QED
        BY <3>2, <4>1, <4>2
    <3>4. ASSUME NEW l \in Levels, QuietAfter(i, l)'
          PROVE  StaysSame(l, queue[i].final, pos'[d])
      <4>1. QuietAfter(i, l) /\ l \notin Touched(pos[c] + 1, u)
        <5>1. i \in 0 .. Len(queue)
          BY <2>1
        <5> QED
          BY <3>4, <5>1, ForwardQuiet
      <4>2. StaysSame(l, queue[i].final, pos[d])
        BY <3>2, <4>1 DEF EventEnds
      <4>3. queue[i].final \in Nat
        BY <3>1 DEF Event
      <4> QED
        BY <4>1, <4>2, <4>3, ForwardSame
    <3>5. \A l \in Levels : EventEnds(i, d, l)'
      BY <3>1, <3>4 DEF EventEnds, StaysSame
    <3>6. /\ queue[i].first - 1 \in Ids /\ queue[i].first <= queue[i].final
          /\ queue[i].prev = 0
      BY <2>1 DEF StreamInv
    <3> QED
      BY <3>1, <3>3, <3>5, <3>6
  <2>2. CASE i = Len(queue) + 1
    <3>1. /\ queue'[i].first = pos[c] + 1 /\ queue'[i].final = u /\ queue'[i].prev = 0
          /\ pos'[c] = u /\ pos[c] \in Ids /\ u \in Nat /\ pos[c] < u
      BY <1>0, <1>j, <2>2 DEF Joined
    <3>2. \A l \in Levels : EventEnds(i, c, l)'
      BY <3>1 DEF EventEnds, StaysSame
    <3> QED
      BY <3>1, <3>2
  <2> QED
    <3>1. Len(queue) \in Nat /\ Len(queue') = Len(queue) + 1
      BY <1>j DEF Joined
    <3>2. i \in 1 .. Len(queue) \/ i = Len(queue) + 1
      BY <3>1
    <3> QED
      BY <2>1, <2>2, <3>2
<1> QED
  BY <1>1, <1>2 DEF StreamInv

(* The event that a poll takes, and what is left.                          *)
LEMMA PollStream ==
  ASSUME TypeInv, StreamInv, PollLimit = 1, NEW k \in 1 .. PollLimit, Poll(k),
         pos' = pos, now' = now
  PROVE  /\ k = 1 /\ 1 \in 1 .. Len(queue) /\ queue[1] \in Event
         /\ \A i \in 0 .. Len(queue'), l \in Levels : QuietAfter(i, l)' => QuietAfter(i + 1, l)
         /\ StreamInv'
<1>1. /\ k = 1 /\ 1 \in 1 .. Len(queue) /\ queue[1] \in Event /\ Len(queue) \in Nat
      /\ queue' \in Seq(Event) /\ Len(queue') = Len(queue) - 1
      /\ \A i \in 1 .. Len(queue') : queue'[i] = queue[i + 1]
  <2>1. k = 1
    <3>1. k \in 1 .. PollLimit /\ PollLimit = 1
      OBVIOUS
    <3> HIDE DEF TypeInv, StreamInv, Poll
    <3> QED
      BY <3>1
  <2>2. queue \in Seq(Event)
    BY DEF TypeInv, TypeOK
  <2>3. Len(queue) \in Nat
    BY <2>2
  <2>4. /\ k \in 1 .. Len(queue) /\ queue[k] \in Event
        /\ queue' \in Seq(Event) /\ Len(queue') = Len(queue) - k
        /\ \A i \in 1 .. Len(queue') : queue'[i] = queue[i + k]
    BY PollKeeps, Zenon
  <2> QED
    BY <2>1, <2>3, <2>4, Zenon
<1>2. ASSUME NEW i \in 0 .. Len(queue'), NEW l \in Levels, QuietAfter(i, l)'
      PROVE  QuietAfter(i + 1, l)
  <2> SUFFICES ASSUME NEW j \in (i + 1) + 1 .. Len(queue)
               PROVE  l \notin Touched(queue[j].first, queue[j].final)
    BY DEF QuietAfter
  <2>1. j - 1 \in i + 1 .. Len(queue') /\ j - 1 \in 1 .. Len(queue') /\ (j - 1) + 1 = j
    BY <1>1
  <2>2. queue'[j - 1] = queue[j]
    BY <1>1, <2>1
  <2>3. l \notin Touched(queue'[j - 1].first, queue'[j - 1].final)
    BY <1>2, <2>1 DEF QuietAfter, Touched
  <2> QED
    BY <2>2, <2>3
<1>3. ASSUME NEW i \in 1 .. Len(queue')
      PROVE  /\ queue'[i].first - 1 \in Ids /\ queue'[i].first <= queue'[i].final
             /\ queue'[i].prev = 0
             /\ \E d \in Conns : queue'[i].final <= pos'[d] /\ \A l \in Levels : EventEnds(i, d, l)'
  <2>1. i + 1 \in 1 .. Len(queue) /\ queue'[i] = queue[i + 1]
    <3>1. Len(queue) \in Nat /\ Len(queue') = Len(queue) - 1
      BY <1>1
    <3>2. i + 1 \in 1 .. Len(queue)
      BY <3>1
    <3> QED
      BY <1>1, <3>2
  <2>2. PICK d \in Conns : queue[i + 1].final <= pos[d] /\ \A l \in Levels : EventEnds(i + 1, d, l)
    BY <2>1 DEF StreamInv
  <2>3. ASSUME NEW l \in Levels PROVE EventEnds(i, d, l)'
    <3>1. QuietAfter(i, l)' => QuietAfter(i + 1, l)
      BY <1>1, <1>2
    <3>2. QuietAfter(i + 1, l) => StaysSame(l, queue[i + 1].final, pos[d])
      BY <2>2 DEF EventEnds
    <3> QED
      BY <2>1, <3>1, <3>2 DEF EventEnds, StaysSame
  <2>4. /\ queue[i + 1].first - 1 \in Ids /\ queue[i + 1].first <= queue[i + 1].final
        /\ queue[i + 1].prev = 0
    BY <2>1 DEF StreamInv
  <2> QED
    BY <2>1, <2>2, <2>3, <2>4
<1>4. StreamInv'
  BY <1>3 DEF StreamInv
<1> QED
  BY <1>1, <1>2, <1>4

(* The levels that nothing after the first event of the queue is about,    *)
(* once the event is applied.                                              *)
LEMMA AppliedLevel ==
  ASSUME TypeInv, StreamInv, 1 \in 1 .. Len(queue), NEW l \in Levels, QuietAfter(1, l)
  PROVE  /\ l \in Touched(queue[1].first, queue[1].final)
              => /\ ApplyBatch(book, queue[1])[l] = History[queue[1].final][l]
                 /\ \E c \in Conns : History[queue[1].final][l] = History[pos[c]][l]
         /\ l \notin Touched(queue[1].first, queue[1].final)
              => /\ ApplyBatch(book, queue[1])[l] = book[l]
                 /\ QuietAfter(0, l)
                 /\ \A s \in queue[1].first - 1 .. queue[1].final :
                      \E c \in Conns : s <= pos[c] /\ StaysSame(l, s, pos[c])
<1> DEFINE e == queue[1]
<1>1. /\ e \in Event /\ e.final \in Nat /\ e.first \in Nat /\ e.first - 1 \in Nat /\ Len(queue) \in Nat
      /\ pos \in [Conns -> Ids] /\ e.first <= e.final
  <2>1. e \in Event /\ Len(queue) \in Nat /\ pos \in [Conns -> Ids]
    BY DEF TypeInv, TypeOK
  <2>2. e.first - 1 \in Ids /\ e.first <= e.final
    BY DEF StreamInv
  <2>3. e.final \in Nat /\ e.first \in Nat
    BY <2>1 DEF Event
  <2> QED
    BY <2>1, <2>2, <2>3
<1>2. PICK c \in Conns : e.final <= pos[c] /\ EventEnds(1, c, l)
  BY DEF StreamInv
<1>3. pos[c] \in Nat /\ StaysSame(l, e.final, pos[c])
  BY <1>1, <1>2 DEF EventEnds
<1>4. ASSUME l \in Touched(e.first, e.final)
      PROVE  /\ ApplyBatch(book, e)[l] = History[e.final][l]
             /\ \E d \in Conns : History[e.final][l] = History[pos[d]][l]
  <2>1. ApplyBatch(book, e)[l] = History[e.final][l]
    BY <1>4 DEF ApplyBatch
  <2>2. History[e.final][l] = History[pos[c]][l]
    BY <1>1, <1>2, <1>3 DEF StaysSame
  <2> QED
    BY <2>1, <2>2
<1>5. ASSUME l \notin Touched(e.first, e.final)
      PROVE  /\ ApplyBatch(book, e)[l] = book[l]
             /\ QuietAfter(0, l)
             /\ \A s \in e.first - 1 .. e.final :
                  \E d \in Conns : s <= pos[d] /\ StaysSame(l, s, pos[d])
  <2>1. ApplyBatch(book, e)[l] = book[l]
    BY <1>5 DEF ApplyBatch
  <2>2. QuietAfter(0, l)
    <3> SUFFICES ASSUME NEW j \in 0 + 1 .. Len(queue)
                 PROVE  l \notin Touched(queue[j].first, queue[j].final)
      BY DEF QuietAfter
    <3>1. j = 1 \/ j \in 1 + 1 .. Len(queue)
      BY <1>1
    <3> QED
      BY <1>5, <3>1 DEF QuietAfter
  <2>3. \A i, j \in e.first - 1 .. e.final : History[i][l] = History[j][l]
    BY <1>5 DEF Touched
  <2>4. ASSUME NEW s \in e.first - 1 .. e.final
        PROVE  s <= pos[c] /\ StaysSame(l, s, pos[c])
    <3>1. s <= pos[c] /\ s \in Nat
      BY <1>1, <1>2, <1>3
    <3>2. ASSUME NEW n \in s .. pos[c] PROVE History[n][l] = History[s][l]
      <4>1. CASE n <= e.final
        <5>1. n \in e.first - 1 .. e.final
          BY <1>1, <3>1, <4>1
        <5> QED
          BY <2>3, <5>1
      <4>2. CASE e.final < n
        <5>1. n \in e.final .. pos[c] /\ e.final \in e.first - 1 .. e.final
          BY <1>1, <1>3, <3>1, <4>2
        <5>2. History[n][l] = History[e.final][l] /\ History[s][l] = History[e.final][l]
          BY <1>3, <2>3, <5>1 DEF StaysSame
        <5> QED
          BY <5>2
      <4> QED
        BY <1>1, <3>1, <4>1, <4>2
    <3> QED
      BY <3>1, <3>2 DEF StaysSame
  <2> QED
    BY <2>1, <2>2, <2>4
<1> QED
  BY <1>4, <1>5

(***************************************************************************)
(* A consumer with a sync state.                                           *)
(***************************************************************************)
Racing == HasPrev = FALSE /\ Lossy = FALSE /\ PollLimit = 1

RacingInv == TypeInv /\ StreamInv /\ RaceInv

LEMMA StreamStays ==
  ASSUME TypeInv, StreamInv, queue' = queue, pos' = pos, now' \in Nat, now <= now'
  PROVE  StreamInv'
<1>1. \A c \in Conns : pos'[c] <= now'
  <2> TAKE c \in Conns
  <2>1. pos[c] \in Nat /\ now \in Nat /\ pos[c] <= now
    BY DEF TypeInv, TypeOK, StreamInv
  <2> QED
    BY <2>1
<1>2. \A i, c, l : EventEnds(i, c, l)' <=> EventEnds(i, c, l)
  BY DEF EventEnds, QuietAfter, StaysSame, Touched
<1> QED
  BY <1>1, <1>2 DEF StreamInv

LEMMA ForwardRace ==
  ASSUME RacingInv, HasPrev = FALSE, NEW c \in Conns, NEW u \in (pos[c] + 1) .. now, Forward(c, u)
  PROVE  RaceInv'
<1>0. TypeInv /\ StreamInv /\ RaceInv /\ Len(queue) \in Nat /\ pos \in [Conns -> Ids]
  BY DEF RacingInv, TypeInv, TypeOK
<1>1. UNCHANGED <<sync, running, book>>
  BY DEF Forward
<1>j. Joined(c, u)
  BY <1>0, ForwardQueue
<1>2. ASSUME sync.synced, NEW l \in Levels, QuietAfter(0, l)' PROVE LevelSettled(l)'
  <2>1. QuietAfter(0, l) /\ l \notin Touched(pos[c] + 1, u)
    <3>1. 0 \in 0 .. Len(queue)
      BY <1>0
    <3> QED
      BY <1>0, <1>2, <3>1, ForwardQuiet
  <2>2. PICK d \in Conns :
          \/ book[l] = History[pos[d]][l]
          \/ /\ sync.snapshot <= pos[d] /\ book[l] = Snapshot(sync.snapshot)[l]
             /\ StaysSame(l, sync.snapshot, pos[d])
    BY <1>0, <1>2, <2>1 DEF RaceInv, LevelSettled
  <2>3. sync.snapshot \in Nat /\ pos[d] \in Nat /\ pos'[d] \in Nat
    BY <1>0, <1>2, <1>j DEF RaceInv, Joined
  <2>4. History[pos[d]][l] = History[pos'[d]][l] /\ pos[d] <= pos'[d]
    BY <1>0, <2>1, ForwardSame
  <2>5. StaysSame(l, sync.snapshot, pos[d]) => StaysSame(l, sync.snapshot, pos'[d])
    BY <1>0, <2>1, <2>3, ForwardSame
  <2>6. sync.snapshot <= pos[d] => sync.snapshot <= pos'[d]
    BY <2>3, <2>4
  <2>7. StaysSame(l, sync.snapshot, pos[d])' <=> StaysSame(l, sync.snapshot, pos'[d])
    BY <1>1 DEF StaysSame
  <2> QED
    BY <1>1, <2>2, <2>4, <2>5, <2>6, <2>7 DEF LevelSettled, Snapshot
<1> QED
  BY <1>0, <1>1, <1>2 DEF RaceInv, Snapshot

LEMMA ProcessRace ==
  ASSUME RacingInv, PollLimit = 1, NEW k \in 1 .. PollLimit, Process(k)
  PROVE  RaceInv'
<1> DEFINE e == queue[1]
<1>0. TypeInv /\ StreamInv /\ RaceInv
  BY DEF RacingInv
<1>1. Poll(k) /\ pos' = pos /\ now' = now /\ running' = running /\ running
  BY DEF Process, Poll
<1>2. /\ k = 1 /\ 1 \in 1 .. Len(queue) /\ e \in Event
      /\ \A l \in Levels : QuietAfter(0, l)' => QuietAfter(1, l)
  <2>1. 0 \in 0 .. Len(queue')
    BY <1>0, <1>1, PollKeeps
  <2>2. \A i \in 0 .. Len(queue'), l \in Levels : QuietAfter(i, l)' => QuietAfter(i + 1, l)
    BY <1>0, <1>1, PollStream
  <2>3. k = 1 /\ 1 \in 1 .. Len(queue) /\ e \in Event
    BY <1>0, <1>1, PollStream
  <2> QED
    BY <2>1, <2>2, <2>3
<1>3. /\ Accepts(sync, e) /\ book' = ApplyBatch(book, e)
      /\ sync'.synced = TRUE /\ sync'.snapshot = sync.snapshot
  BY <1>0, <1>2 DEF Process, AfterUpdate, TypeInv, TypeOK, SyncState
<1>4. e.first \in Nat /\ e.final \in Nat /\ e.first - 1 \in Ids /\ e.final \in Ids /\ sync.snapshot \in Nat
  BY <1>0, <1>2 DEF StreamInv, TypeInv, TypeOK, Event, QueueIds, SyncState
<1>5. ~sync.synced => /\ sync.snapshot \in e.first - 1 .. e.final /\ sync.snapshot \in Ids
                      /\ book = Snapshot(sync.snapshot)
  <2> SUFFICES ASSUME ~sync.synced
               PROVE  /\ sync.snapshot \in e.first - 1 .. e.final /\ sync.snapshot \in Ids
                      /\ book = Snapshot(sync.snapshot)
    OBVIOUS
  <2>1. e.first <= sync.snapshot /\ sync.snapshot <= e.final
    BY <1>3, <1>4 DEF Accepts, IsSyncPoint
  <2>2. sync.snapshot \in e.first - 1 .. e.final /\ sync.snapshot \in Ids
    BY <1>4, <2>1
  <2> QED
    BY <1>0, <1>1, <2>2 DEF RaceInv
<1> HIDE DEF e
<1>6. ASSUME NEW l \in Levels, QuietAfter(0, l)' PROVE LevelSettled(l)'
  <2>1. QuietAfter(1, l)
    BY <1>2, <1>6
  <2>2. /\ l \in Touched(e.first, e.final)
             => /\ ApplyBatch(book, e)[l] = History[e.final][l]
                /\ \E c \in Conns : History[e.final][l] = History[pos[c]][l]
        /\ l \notin Touched(e.first, e.final)
             => /\ ApplyBatch(book, e)[l] = book[l]
                /\ QuietAfter(0, l)
                /\ \A s \in e.first - 1 .. e.final :
                     \E c \in Conns : s <= pos[c] /\ StaysSame(l, s, pos[c])
    BY <1>0, <1>2, <2>1, AppliedLevel DEF e
  <2>3. CASE l \in Touched(e.first, e.final)
    <3>1. \E c \in Conns : book'[l] = History[pos'[c]][l]
      BY <1>1, <1>3, <2>2, <2>3
    <3> QED
      BY <3>1 DEF LevelSettled
  <2>4. CASE l \notin Touched(e.first, e.final) /\ sync.synced
    <3>1. LevelSettled(l) /\ book'[l] = book[l]
      BY <1>0, <1>3, <2>2, <2>4 DEF RaceInv
    <3> QED
      BY <1>1, <1>3, <3>1 DEF LevelSettled, Snapshot, StaysSame
  <2>5. CASE l \notin Touched(e.first, e.final) /\ ~sync.synced
    <3>1. book'[l] = Snapshot(sync.snapshot)[l]
      BY <1>3, <1>5, <2>2, <2>5
    <3>2. PICK c \in Conns : sync.snapshot <= pos[c] /\ StaysSame(l, sync.snapshot, pos[c])
      BY <1>5, <2>2, <2>5
    <3> QED
      BY <1>1, <1>3, <3>1, <3>2 DEF LevelSettled, Snapshot, StaysSame
  <2> QED
    BY <2>3, <2>4, <2>5
<1>7. sync'.snapshot \in Ids
  BY <1>0, <1>3, <1>5 DEF RaceInv
<1> QED
  BY <1>1, <1>3, <1>6, <1>7 DEF RaceInv

LEMMA NextRacing ==
  ASSUME Racing, RacingInv, [Next]_vars PROVE RacingInv'
<1>0. TypeInv /\ StreamInv /\ RaceInv /\ TypeInv' /\ now \in Nat
  BY NextTypes DEF RacingInv, TypeInv, TypeOK
<1>n. now' \in Nat
  BY <1>0 DEF TypeInv, TypeOK
<1> SUFFICES StreamInv' /\ RaceInv'
  BY <1>0 DEF RacingInv
<1>1. ASSUME queue' = queue, pos' = pos, now <= now', sync' = sync, running' = running, book' = book
      PROVE  StreamInv' /\ RaceInv'
  <2>1. StreamInv'
    BY <1>0, <1>n, <1>1, StreamStays
  <2>2. \A l : /\ QuietAfter(0, l)' <=> QuietAfter(0, l)
               /\ LevelSettled(l)' <=> LevelSettled(l)
    BY <1>1 DEF QuietAfter, Touched, LevelSettled, StaysSame, Snapshot
  <2> QED
    BY <1>0, <1>1, <2>1, <2>2 DEF RaceInv, Snapshot
<1>2. CASE ExchangeUpdate
  BY <1>0, <1>1, <1>2 DEF ExchangeUpdate
<1>3. ASSUME NEW c \in Conns, NEW u \in (pos[c] + 1) .. now, Forward(c, u)
      PROVE  StreamInv' /\ RaceInv'
  <2>1. StreamInv'
    BY <1>0, <1>3, ForwardStream DEF Racing
  <2> QED
    BY <1>3, <2>1, ForwardRace DEF Racing
<1>4. ASSUME NEW c \in Conns, NEW u \in (pos[c] + 1) .. now, Lose(c, u)
      PROVE  StreamInv' /\ RaceInv'
  BY <1>4 DEF Lose, Racing
<1>5. CASE Boot
  <2>1. sync'.synced = FALSE /\ book' = Snapshot(sync'.snapshot)
    BY <1>5 DEF Boot, NewSync, Snapshot
  <2>2. StreamInv'
    BY <1>0, <1>5, StreamStays DEF Boot
  <2> QED
    BY <2>1, <2>2 DEF RaceInv, Snapshot
<1>6. ASSUME NEW k \in 1 .. PollLimit, Process(k) PROVE StreamInv' /\ RaceInv'
  <2>1. StreamInv'
    BY <1>0, <1>6, PollStream DEF Process, Racing
  <2> QED
    BY <1>6, <2>1, ProcessRace DEF Racing
<1>7. ASSUME NEW k \in 1 .. PollLimit, SkipUpdate(k) \/ ResyncFails(k)
      PROVE  StreamInv' /\ RaceInv'
  <2>1. /\ Poll(k) /\ pos' = pos /\ now' = now /\ running' = running /\ book' = book
        /\ ~Accepts(sync, queue[k])
    BY <1>7 DEF SkipUpdate, ResyncFails
  <2>2. queue[k] \in Event /\ queue[k].prev = 0 /\ sync \in SyncState
    <3>1. k \in 1 .. Len(queue) /\ queue[k] \in Event
      BY <1>0, <2>1, PollKeeps
    <3> QED
      BY <1>0, <3>1 DEF StreamInv, TypeInv, TypeOK
  <2>3. ~sync.synced
    BY <2>1, <2>2 DEF Accepts, IsGap
  <2>4. sync'.snapshot = sync.snapshot /\ sync'.synced = FALSE
    <3> DEFINE a == AfterUpdate(sync, queue[k])
    <3>1. sync' = a \/ sync' = StampAttempt(a)
      BY <1>7 DEF SkipUpdate, ResyncFails
    <3>2. /\ a.snapshot = sync.snapshot /\ a.synced = FALSE
          /\ StampAttempt(a).snapshot = sync.snapshot /\ StampAttempt(a).synced = FALSE
      BY <2>1, <2>2, RefusalKeeps
    <3> HIDE DEF a
    <3> QED
      BY <3>1, <3>2
  <2>5. StreamInv'
    BY <1>0, <2>1, PollStream DEF Racing
  <2> QED
    BY <1>0, <2>1, <2>3, <2>4, <2>5 DEF RaceInv, Snapshot
<1>8. ASSUME NEW k \in 1 .. PollLimit, ResyncOk(k) PROVE StreamInv' /\ RaceInv'
  <2>1. /\ Poll(k) /\ pos' = pos /\ now' = now
        /\ sync'.synced = FALSE /\ book' = Snapshot(sync'.snapshot)
    BY <1>8 DEF ResyncOk, NewSync, Snapshot
  <2>2. StreamInv'
    BY <1>0, <2>1, PollStream DEF Racing
  <2> QED
    BY <2>1, <2>2 DEF RaceInv, Snapshot
<1>9. CASE CooldownExpires
  BY <1>0, <1>1, <1>9 DEF CooldownExpires
<1>10. CASE UNCHANGED vars
  BY <1>0, <1>1, <1>10 DEF vars
<1> QED
  BY <1>2, <1>3, <1>4, <1>5, <1>6, <1>7, <1>8, <1>9, <1>10 DEF Next

LEMMA InitRacing == Init => RacingInv
<1> SUFFICES ASSUME Init PROVE RacingInv
  OBVIOUS
<1>1. \A c \in Conns : pos[c] <= now
  BY DEF Init
<1>2. StreamInv
  BY <1>1 DEF Init, StreamInv
<1> QED
  BY <1>2, InitTypes DEF Init, NewSync, RaceInv, RacingInv

LEMMA RacingDrained == RacingInv => DrainedBookIsExact
<1> SUFFICES ASSUME RacingInv, running, sync.synced, queue = <<>>, \A c \in Conns : pos[c] = now
             PROVE  BookMatches(now)
  BY DEF DrainedBookIsExact
<1> DEFINE s == sync.snapshot
<1>1. s \in Ids /\ now \in Ids
  BY DEF RacingInv, RaceInv, TypeInv, TypeOK
<1> SUFFICES ASSUME NEW l \in Levels
             PROVE  /\ book[l] \in {0, History[now][l]}
                    /\ l \in TopLevels[s] \cup Touched(s + 1, now) => book[l] = History[now][l]
  BY DEF BookMatches, Matches
<1>2. QuietAfter(0, l)
  BY DEF QuietAfter
<1>3. \/ book[l] = History[now][l]
      \/ s <= now /\ book[l] = Snapshot(s)[l] /\ StaysSame(l, s, now)
  BY <1>2 DEF RacingInv, RaceInv, LevelSettled
<1>4. CASE book[l] = History[now][l]
  BY <1>4
<1>5. CASE s <= now /\ book[l] = Snapshot(s)[l] /\ StaysSame(l, s, now)
  <2>1. \A n \in s .. now : History[n][l] = History[s][l]
    BY <1>5 DEF StaysSame
  <2>2. History[now][l] = History[s][l]
    BY <1>1, <1>5, <2>1
  <2>3. l \notin Touched(s + 1, now)
    <3>1. (s + 1) - 1 = s
      BY <1>1
    <3> QED
      BY <2>1, <3>1 DEF Touched
  <2>4. book[l] = IF l \in TopLevels[s] THEN History[s][l] ELSE 0
    BY <1>5 DEF Snapshot
  <2> QED
    BY <2>2, <2>3, <2>4
<1> QED
  BY <1>3, <1>4, <1>5

(***************************************************************************)
(* The pricing engine.                                                     *)
(***************************************************************************)
OwnInv == TypeInv /\ StreamInv /\ OwnBookInv

LEMMA TrimmedLevel ==
  ASSUME NEW b \in Book
  PROVE  Trimmed(b) \in Book /\ \A l \in Levels : Trimmed(b)[l] \in {0, b[l]}
  BY DEF Trimmed, Book

LEMMA ForwardOwn ==
  ASSUME OwnInv, HasPrev = FALSE, NEW c \in Conns, NEW u \in (pos[c] + 1) .. now, Forward(c, u)
  PROVE  OwnBookInv'
<1>0. TypeInv /\ StreamInv /\ OwnBookInv /\ Len(queue) \in Nat
  BY DEF OwnInv, TypeInv, TypeOK
<1>1. UNCHANGED <<sync, running, book, now>>
  BY DEF Forward
<1>2. ASSUME running, OwnSymbol, NEW l \in Levels, QuietAfter(0, l)' PROVE OwnLevelSettled(l)'
  <2>1. QuietAfter(0, l) /\ l \notin Touched(pos[c] + 1, u)
    <3>1. 0 \in 0 .. Len(queue)
      BY <1>0
    <3> QED
      BY <1>0, <1>2, <3>1, ForwardQuiet
  <2>2. OwnLevelSettled(l)
    BY <1>0, <1>2, <2>1 DEF OwnBookInv
  <2>3. /\ \A d \in Conns, a \in Nat : StaysSame(l, a, pos[d]) => StaysSame(l, a, pos'[d])
        /\ \A d \in Conns : History[pos[d]][l] = History[pos'[d]][l]
    BY <1>0, <2>1, ForwardSame
  <2>4. CASE book[l] = 0
    BY <1>1, <2>4 DEF OwnLevelSettled
  <2>5. CASE \E d \in Conns : book[l] = History[pos[d]][l]
    BY <1>1, <2>3, <2>5 DEF OwnLevelSettled
  <2>6. ASSUME NEW s \in Ids, s <= now, book[l] = History[s][l],
               \A d \in Conns : StaysSame(l, s, pos[d])
        PROVE  OwnLevelSettled(l)'
    <3>1. s \in Nat /\ \A d \in Conns : StaysSame(l, s, pos'[d])
      BY <2>3, <2>6
    <3>2. s <= now' /\ book'[l] = History[s][l]
      BY <1>1, <2>6
    <3> QED
      BY <3>1, <3>2 DEF OwnLevelSettled, StaysSame
  <2> QED
    BY <2>2, <2>4, <2>5, <2>6 DEF OwnLevelSettled
<1> QED
  BY <1>0, <1>1, <1>2 DEF OwnBookInv

LEMMA ApplyOwnLevels ==
  ASSUME OwnInv, PollLimit = 1, NEW k \in 1 .. PollLimit, ApplyOwn(k), OwnSymbol
  PROVE  OwnInv'
<1>0. TypeInv /\ StreamInv /\ OwnBookInv
  BY DEF OwnInv
<1> DEFINE e == queue[1]
           b == ApplyBatch(book, e)
<1>1. Poll(k) /\ UNCHANGED <<now, pos, running, sync, recent>> /\ running
  BY DEF ApplyOwn, Poll
<1>2. k = 1 /\ 1 \in 1 .. Len(queue) /\ e \in Event /\ StreamInv'
  BY <1>0, <1>1, PollStream
<1>3. \A l \in Levels : QuietAfter(0, l)' => QuietAfter(1, l)
  <2>1. 0 \in 0 .. Len(queue')
    BY <1>0, <1>1, PollKeeps
  <2>2. \A i \in 0 .. Len(queue'), l \in Levels : QuietAfter(i, l)' => QuietAfter(i + 1, l)
    BY <1>0, <1>1, PollStream
  <2> QED
    BY <2>1, <2>2
<1>4. b \in Book
  <2>1. e.final \in Ids
    BY <1>0, <1>2 DEF TypeInv, QueueIds
  <2> QED
    BY <1>0, <1>2, <2>1, ApplyBatchType DEF TypeInv, TypeOK
<1>5. book' = Trimmed(b)
  BY <1>2 DEF ApplyOwn
<1> HIDE DEF e, b
<1>6. book' \in Book /\ \A l \in Levels : book'[l] \in {0, b[l]}
  BY <1>4, <1>5, TrimmedLevel
<1>7. TypeInv'
  <2>1. queue' \in Seq(Event) /\ QueueIds'
    BY <1>0, <1>1, PollKeepsType
  <2>2. ready' \in BOOLEAN
    BY <1>0 DEF ApplyOwn, TwoSided, TypeInv, TypeOK
  <2> QED
    BY <1>0, <1>1, <1>6, <2>1, <2>2 DEF TypeInv, TypeOK
<1>8. ASSUME NEW l \in Levels, QuietAfter(0, l)', book'[l] # 0 PROVE OwnLevelSettled(l)'
  <2>0. QuietAfter(1, l) /\ book'[l] = b[l]
    BY <1>3, <1>6, <1>8
  <2>1. /\ l \in Touched(e.first, e.final)
             => b[l] = History[e.final][l] /\ \E c \in Conns : History[e.final][l] = History[pos[c]][l]
        /\ l \notin Touched(e.first, e.final) => b[l] = book[l] /\ QuietAfter(0, l)
    BY <1>0, <1>2, <2>0, AppliedLevel DEF e, b
  <2>2. CASE l \in Touched(e.first, e.final)
    BY <1>1, <2>0, <2>1, <2>2 DEF OwnLevelSettled
  <2>3. CASE l \notin Touched(e.first, e.final)
    <3>1. OwnLevelSettled(l) /\ book'[l] = book[l]
      BY <1>0, <1>1, <2>0, <2>1, <2>3 DEF OwnBookInv
    <3> QED
      BY <1>1, <3>1 DEF OwnLevelSettled, StaysSame
  <2> QED
    BY <2>2, <2>3
<1>9. OwnBookInv'
  <2>1. \A l \in Levels : QuietAfter(0, l)' => OwnLevelSettled(l)'
    BY <1>8 DEF OwnLevelSettled
  <2> QED
    BY <1>0, <1>1, <2>1 DEF OwnBookInv
<1> QED
  BY <1>2, <1>7, <1>9 DEF OwnInv

LEMMA SkipOther ==
  ASSUME OwnInv, NEW k \in 1 .. PollLimit, PollLimit = 1, ApplyOwn(k), ~OwnSymbol
  PROVE  OwnInv'
<1>1. Poll(k) /\ UNCHANGED <<now, pos, running, sync, recent, book, ready>>
  BY DEF ApplyOwn
<1>2. StreamInv' /\ queue' \in Seq(Event) /\ QueueIds'
  BY <1>1, PollStream, PollKeepsType DEF OwnInv
<1>3. TypeInv'
  BY <1>1, <1>2 DEF OwnInv, TypeInv, TypeOK
<1>4. OwnBookInv'
  BY <1>1 DEF OwnInv, OwnBookInv
<1> QED
  BY <1>2, <1>3, <1>4 DEF OwnInv

LEMMA WorldOwn ==
  ASSUME Racing, OwnInv, World PROVE OwnInv'
<1>0. TypeInv /\ StreamInv /\ OwnBookInv /\ [Next]_vars
  BY DEF OwnInv, World, Next
<1>1. TypeInv' /\ now \in Nat /\ now' \in Nat
  BY <1>0, NextTypes DEF TypeInv, TypeOK
<1>2. CASE ExchangeUpdate
  <2>1. queue' = queue /\ pos' = pos /\ now <= now' /\ UNCHANGED <<running, book, sync>>
    BY <1>1, <1>2 DEF ExchangeUpdate
  <2>2. StreamInv'
    BY <1>0, <1>1, <2>1, StreamStays
  <2>3. \A l : QuietAfter(0, l)' <=> QuietAfter(0, l)
    BY <2>1 DEF QuietAfter, Touched
  <2>4. \A l : OwnLevelSettled(l) => OwnLevelSettled(l)'
    <3> SUFFICES ASSUME NEW l, OwnLevelSettled(l) PROVE OwnLevelSettled(l)'
      OBVIOUS
    <3>1. \A s \in Ids : s <= now => s <= now'
      BY <1>1, <2>1
    <3> QED
      BY <2>1, <3>1 DEF OwnLevelSettled, StaysSame
  <2> QED
    BY <1>0, <1>1, <2>1, <2>2, <2>3, <2>4 DEF OwnInv, OwnBookInv
<1>3. CASE Boot
  <2>1. queue' = queue /\ pos' = pos /\ now' = now /\ book' = Snapshot(now) /\ sync'.synced = FALSE
    BY <1>3 DEF Boot, NewSync
  <2>2. StreamInv'
    BY <1>0, <1>1, <2>1, StreamStays
  <2>3. ASSUME NEW l \in Levels PROVE OwnLevelSettled(l)'
    <3>1. book'[l] = 0 \/ book'[l] = History[now][l]
      BY <2>1 DEF Snapshot
    <3>2. \A c \in Conns : StaysSame(l, now, pos[c])
      <4> SUFFICES ASSUME NEW c \in Conns, NEW n \in now .. pos[c] PROVE n = now
        BY DEF StaysSame
      <4>1. pos[c] \in Nat /\ pos[c] <= now
        BY <1>0 DEF TypeInv, TypeOK, StreamInv
      <4> QED
        BY <1>1, <4>1
    <3>3. now \in Ids /\ now <= now
      BY <1>0 DEF TypeInv, TypeOK
    <3> QED
      BY <2>1, <3>1, <3>2, <3>3 DEF OwnLevelSettled, StaysSame
  <2> QED
    BY <1>1, <2>1, <2>2, <2>3 DEF OwnInv, OwnBookInv
<1>4. ASSUME NEW c \in Conns, NEW u \in (pos[c] + 1) .. now, Forward(c, u) PROVE OwnInv'
  <2>1. StreamInv'
    BY <1>0, <1>4, ForwardStream DEF Racing
  <2> QED
    BY <1>1, <1>4, <2>1, ForwardOwn DEF Racing, OwnInv
<1>5. ASSUME NEW c \in Conns, NEW u \in (pos[c] + 1) .. now, Lose(c, u) PROVE OwnInv'
  BY <1>5 DEF Lose, Racing
<1> QED
  BY <1>2, <1>3, <1>4, <1>5 DEF World

LEMMA OwnDrained ==
  ASSUME Conns # {}, OwnInv, OwnSymbol, Drained, NEW l \in Levels PROVE book[l] \in {0, History[now][l]}
<1>1. running /\ QuietAfter(0, l) /\ \A c \in Conns : pos[c] = now
  BY DEF Drained, QuietAfter
<1>2. OwnLevelSettled(l)
  BY <1>1 DEF OwnInv, OwnBookInv
<1>3. ASSUME NEW s \in Ids, s <= now, book[l] = History[s][l],
             \A c \in Conns : StaysSame(l, s, pos[c])
      PROVE  book[l] = History[now][l]
  <2>1. StaysSame(l, s, now)
    BY <1>1, <1>3
  <2>2. now \in s .. now
    BY <1>3 DEF OwnInv, TypeInv, TypeOK
  <2> QED
    BY <1>3, <2>1, <2>2 DEF StaysSame
<1> QED
  BY <1>1, <1>2, <1>3 DEF OwnLevelSettled

(***************************************************************************)
(* Either consumer of the same stream.                                     *)
(***************************************************************************)
ConsumerInv ==
  \/ kind = "syncing" /\ RacingInv
  \/ kind = "pricing" /\ OwnInv

LEMMA InitConsumer == PricingInit => ConsumerInv
<1> SUFFICES ASSUME PricingInit PROVE ConsumerInv
  OBVIOUS
<1>1. RacingInv
  BY InitRacing DEF PricingInit
<1>2. OwnInv
  BY <1>1 DEF RacingInv, OwnInv, OwnBookInv, PricingInit, Init, NewSync
<1> QED
  BY <1>1, <1>2 DEF ConsumerInv, PricingInit

LEMMA NextConsumer ==
  ASSUME Racing, ConsumerInv, [PricingNext]_<<vars, pricingVars>> PROVE ConsumerInv'
<1>1. CASE kind = "syncing"
  <2>1. RacingInv /\ [Next]_vars /\ kind' = kind
    BY <1>1 DEF ConsumerInv, PricingNext, Syncing, PricingStep, pricingVars
  <2>2. RacingInv'
    BY <2>1, NextRacing
  <2> QED
    BY <1>1, <2>1, <2>2 DEF ConsumerInv
<1>2. CASE kind = "pricing"
  <2>0. OwnInv /\ kind' = kind
    BY <1>2 DEF ConsumerInv, PricingNext, Syncing, PricingStep, pricingVars, World,
                PublishPrice, TakeTrade, ApplyOwn
  <2>1. ASSUME World PROVE OwnInv'
    BY <2>0, <2>1, WorldOwn
  <2>2. ASSUME NEW k \in 1 .. PollLimit, ApplyOwn(k) PROVE OwnInv'
    BY <2>0, <2>2, ApplyOwnLevels, SkipOther DEF Racing
  <2>3. ASSUME UNCHANGED vars PROVE OwnInv'
    <3>1. TypeInv' /\ now \in Nat
      BY <2>0, <2>3, NextTypes DEF OwnInv, TypeInv, TypeOK
    <3>2. StreamInv'
      BY <2>0, <2>3, <3>1, StreamStays DEF OwnInv, vars
    <3> QED
      BY <2>0, <2>3, <3>1, <3>2
         DEF OwnInv, OwnBookInv, OwnLevelSettled, QuietAfter, StaysSame, Touched, vars
  <2>4. World \/ (\E k \in 1 .. PollLimit : ApplyOwn(k)) \/ UNCHANGED vars
    BY <1>2 DEF PricingNext, Syncing, PricingStep, PublishPrice, TakeTrade
  <2> QED
    BY <1>2, <2>0, <2>1, <2>2, <2>3, <2>4 DEF ConsumerInv
<1> QED
  BY <1>1, <1>2 DEF ConsumerInv

LEMMA ConsumerInvariance ==
  ASSUME Racing PROVE PricingSpec => []ConsumerInv
<1>1. PricingInit => ConsumerInv
  BY InitConsumer
<1>2. ConsumerInv /\ [PricingNext]_<<vars, pricingVars>> => ConsumerInv'
  BY NextConsumer
<1> QED
  BY <1>1, <1>2, PTL DEF PricingSpec

(* Any number of connections race, no event is lost and every poll finds   *)
(* one: once all of them are through and the stream is drained, a          *)
(* synchronised book of the strategy or the simulator is the exchange's,   *)
(* though events were replayed, reordered and refused on the way.          *)
THEOREM DrainedExact ==
  ASSUME Racing PROVE PricingSpec => []DrainedBookIsExact
<1>1. ConsumerInv => DrainedBookIsExact
  <2>1. OwnInv => DrainedBookIsExact
    BY DEF OwnInv, OwnBookInv, DrainedBookIsExact
  <2> QED
    BY <2>1, RacingDrained DEF ConsumerInv
<1> QED
  BY <1>1, ConsumerInvariance, PTL

(* On the same assumptions, for a symbol that its codec keeps: no level is *)
(* left over in the pricing engine's book, which applies every event,      *)
(* however old.                                                            *)
THEOREM NoPhantoms ==
  ASSUME Racing, Conns # {} PROVE PricingSpec => []NoPhantomLevels
<1>1. ConsumerInv => NoPhantomLevels
  <2> SUFFICES ASSUME ConsumerInv, kind = "pricing", OwnSymbol, Drained, NEW l \in Levels
               PROVE  book[l] \in {0, History[now][l]}
    BY DEF NoPhantomLevels
  <2>1. OwnInv
    BY DEF ConsumerInv
  <2> QED
    BY <2>1, OwnDrained
<1> QED
  BY <1>1, ConsumerInvariance, PTL

(***************************************************************************)
(* The price the engine publishes.                                         *)
(***************************************************************************)
LEMMA GreatestOfFinite ==
  ASSUME NEW S, IsFiniteSet(S), S # {}, NEW P, \A l \in S : P[l] \in Int
  PROVE  \E l \in S : \A k \in S : P[k] <= P[l]
<1>0. PICK n \in Nat : ExistsSurjection(1 .. n, S)
  BY FS_NatSurjection
<1>1. PICK f \in [1 .. n -> S] : \A l \in S : \E i \in 1 .. n : f[i] = l
  BY <1>0 DEF ExistsSurjection, Surjection
<1> DEFINE Above(k, l) == \A i \in 1 .. k : P[f[i]] <= P[l]
           G == {k \in 0 .. n : k = 0 \/ \E l \in S : Above(k, l)}
<1>2. 0 \in G
  OBVIOUS
<1>3. ASSUME NEW k \in 1 .. n, k - 1 \in G PROVE k \in G
  <2>1. f[k] \in S /\ \A i \in 1 .. k : f[i] \in S /\ (i = k \/ i \in 1 .. k - 1)
    BY <1>1
  <2>2. CASE k - 1 = 0
    <3>1. \A i \in 1 .. k : i = k
      BY <2>2
    <3>2. P[f[k]] \in Int
      BY <2>1
    <3>3. Above(k, f[k])
      BY <3>1, <3>2
    <3> QED BY <2>1, <3>3
  <2>3. ASSUME NEW l \in S, Above(k - 1, l) PROVE k \in G
    <3>1. CASE P[f[k]] <= P[l]
      <4>1. Above(k, l)
        BY <2>1, <2>3, <3>1
      <4> QED BY <4>1
    <3>2. CASE P[l] < P[f[k]]
      <4>1. \A i \in 1 .. k - 1 : P[f[i]] \in Int /\ P[f[i]] <= P[l]
        BY <2>1, <2>3
      <4>2. ASSUME NEW i \in 1 .. k PROVE P[f[i]] <= P[f[k]]
        <5>1. P[l] \in Int /\ P[f[k]] \in Int
          BY <2>1
        <5>2. CASE i = k
          BY <5>1, <5>2
        <5>3. CASE i \in 1 .. k - 1
          BY <3>2, <4>1, <5>1, <5>3
        <5> QED BY <2>1, <5>2, <5>3
      <4>3. Above(k, f[k])
        BY <4>2
      <4>4. k \in 0 .. n
        OBVIOUS
      <4> HIDE DEF Above
      <4> QED BY <2>1, <4>3, <4>4
    <3>3. P[l] \in Int /\ P[f[k]] \in Int
      BY <2>1
    <3> QED BY <3>1, <3>2, <3>3
  <2> QED BY <1>3, <2>2, <2>3
<1> HIDE DEF G
<1>4. n \in G
  <2>1. 0 .. n \subseteq G
    BY <1>2, <1>3, CountUp
  <2> QED BY <2>1
<1>5. n # 0
  BY <1>1
<1>6. PICK l \in S : Above(n, l)
  BY <1>4, <1>5 DEF G
<1> QED BY <1>1, <1>6

(* The top of a book that has both sides. *)
LEMMA MarketOfBook ==
  ASSUME NEW b \in Book, TwoSided(b)
  PROVE  /\ Market(b).bid \in Nat \ {0} /\ Market(b).ask \in Nat \ {0}
         /\ Market(b).bidVolume \in Nat \ {0} /\ Market(b).askVolume \in Nat \ {0}
<1> DEFINE bids == {l \in BidLevels : b[l] # 0}
           asks == {l \in AskLevels : b[l] # 0}
           low  == [l \in asks |-> -PriceOf[l]]
<1>1. /\ bids \subseteq Levels /\ asks \subseteq Levels /\ bids # {} /\ asks # {}
      /\ \A l \in Levels : b[l] \in Nat /\ PriceOf[l] \in Nat \ {0}
  BY PricingAssumption DEF TwoSided, Book, Levels
<1>2. IsFiniteSet(bids) /\ IsFiniteSet(asks)
  BY PricingAssumption, FS_Subset
<1>p. /\ \A l \in bids : PriceOf[l] \in Nat /\ PriceOf[l] \in Int
      /\ \A l \in asks : PriceOf[l] \in Nat /\ low[l] = -PriceOf[l] /\ low[l] \in Int
  BY <1>1
<1>m. /\ \A l : l \in bids <=> l \in BidLevels /\ b[l] # 0
      /\ \A l : l \in asks <=> l \in AskLevels /\ b[l] # 0
  OBVIOUS
<1> HIDE DEF bids, asks, low
<1>3. \E l \in bids : \A k \in bids : PriceOf[k] <= PriceOf[l]
  BY <1>1, <1>2, <1>p, GreatestOfFinite
<1>4. \E l \in asks : \A k \in asks : PriceOf[k] >= PriceOf[l]
  <2>1. PICK l \in asks : \A k \in asks : low[k] <= low[l]
    BY <1>1, <1>2, <1>p, GreatestOfFinite
  <2>2. \A k \in asks : PriceOf[k] >= PriceOf[l]
    BY <1>p, <2>1
  <2> QED BY <2>2
<1>5. BestBid(b) \in bids
  <2>1. \E l \in BidLevels :
          b[l] # 0 /\ \A k \in BidLevels : b[k] # 0 => PriceOf[k] <= PriceOf[l]
    BY <1>3, <1>m
  <2> QED BY <1>m, <2>1, Zenon DEF BestBid
<1>6. BestAsk(b) \in asks
  <2>1. \E l \in AskLevels :
          b[l] # 0 /\ \A k \in AskLevels : b[k] # 0 => PriceOf[k] >= PriceOf[l]
    BY <1>4, <1>m
  <2> QED BY <1>m, <2>1, Zenon DEF BestAsk
<1> QED BY <1>1, <1>5, <1>6, <1>m DEF Market

(* The share that the larger of two parts has over the other. *)
LEMMA ImbalanceWithin ==
  ASSUME NEW u \in Nat, NEW v \in Nat, u + v # 0
  PROVE  Truncated((u - v) * Scale, u + v) \in -Scale .. Scale
<1> DEFINE x == (u - v) * Scale
           d == u + v
<1>1. Scale \in Nat /\ d \in Nat \ {0}
  BY SignalsAssumption
<1>2. (u - v) * Scale <= (u + v) * Scale /\ (v - u) * Scale <= (u + v) * Scale
  BY <1>1, ProductGrows
<1>3. x \in Int /\ x <= d * Scale /\ d * (-Scale) <= x
  BY <1>1, <1>2
<1>4. PICK j \in Int : j = -Scale
  BY <1>1
<1>5. d * j <= x /\ Scale \in Int
  BY <1>1, <1>3, <1>4
<1> HIDE DEF x, d
<1>6. Truncated(x, d) \in Int /\ Truncated(x, d) <= Scale /\ j <= Truncated(x, d)
  BY <1>1, <1>3, <1>5, TruncatedFits
<1> QED BY <1>1, <1>4, <1>6 DEF x, d

LEMMA TradesWithin ==
  ASSUME NEW trades \in Seq(Trades)
  PROVE  TradeImbalance(trades) \in -Scale .. Scale
<1>1. ASSUME NEW side PROVE Volume(trades, side) \in Nat
  <2> DEFINE n == Len(trades)
             t == [i \in 1 .. n |->
                     IF trades[i].aggressor /\ trades[i].side = side THEN trades[i].quantity ELSE 0]
  <2>1. n \in Nat /\ DOMAIN trades = 1 .. n /\ \A i \in 1 .. n : trades[i] \in Trades
    OBVIOUS
  <2>2. \A i \in 1 .. n : trades[i].quantity \in Nat
    BY <2>1, PricingAssumption
  <2>3. t \in [1 .. n -> Nat]
    BY <2>2
  <2>4. Volume(trades, side) = Total(t)
    BY <2>1 DEF Volume
  <2> HIDE DEF t
  <2> QED BY <2>1, <2>3, <2>4, TotalOfNaturals
<1>2. Scale \in Nat
  BY SignalsAssumption
<1> DEFINE buys == Volume(trades, "buy")
           sells == Volume(trades, "sell")
<1>3. buys \in Nat /\ sells \in Nat
  BY <1>1
<1>4. TradeImbalance(trades) =
        IF buys + sells = 0 THEN 0 ELSE Truncated((buys - sells) * Scale, buys + sells)
  BY DEF TradeImbalance
<1> HIDE DEF buys, sells
<1>5. CASE buys + sells = 0
  BY <1>2, <1>4, <1>5
<1>6. CASE buys + sells # 0
  BY <1>3, <1>4, <1>6, ImbalanceWithin
<1> QED BY <1>5, <1>6

(* A price between the best two, of which hi is not reached, their middle, *)
(* and a spread of at most 28 bps of one of them.                          *)
Between(lo, hi, bid, micro, mid) ==
  /\ lo \in Nat \ {0} /\ hi \in Nat \ {0} /\ lo <= hi /\ bid \in {lo, hi}
  /\ (hi - lo) * 100000 <= 280 * bid
  /\ micro \in lo .. hi /\ (lo < hi => micro < hi)
  /\ mid \in Nat /\ 2 * mid <= lo + hi /\ lo + hi <= 2 * mid + 1

Pull(micro, mid) == Truncated((micro - mid) * 5000, mid)

(* While the spread is at most 28 bps, the distance of the micro-price     *)
(* from the middle adds at most 0.7 bps to the drift.                      *)
LEMMA DistanceWithin ==
  ASSUME NEW lo, NEW hi, NEW bid, NEW micro, NEW mid, Between(lo, hi, bid, micro, mid)
  PROVE  Pull(micro, mid) \in -7 .. 7
<1>0. lo \in Nat \ {0} /\ hi \in Nat /\ mid \in Nat /\ micro \in Nat
  BY DEF Between
<1>1. lo <= mid /\ mid \in Nat \ {0} /\ bid <= hi
  BY DEF Between
<1>2. 2 * (micro - mid) <= hi - lo /\ 2 * (mid - micro) <= hi - lo
  BY DEF Between
<1>3. (hi - lo) * 100000 <= 280 * hi
  BY <1>1 DEF Between
<1>4. 2500 * (hi - lo) <= 7 * hi
  BY <1>0, <1>3
<1>5. 7 * hi < 8 * lo
  BY <1>0, <1>3
<1> DEFINE x == (micro - mid) * 5000
<1>6. x \in Int /\ x < mid * (7 + 1) /\ -x < mid * (7 + 1)
  BY <1>0, <1>1, <1>2, <1>4, <1>5
<1> HIDE DEF x
<1>7. Truncated(x, mid) \in -7 .. 7
  <2>1. PICK k \in Nat : k = 7
    OBVIOUS
  <2>2. x < mid * (k + 1) /\ -x < mid * (k + 1)
    BY <1>6, <2>1
  <2>3. Truncated(x, mid) \in -k .. k
    BY <1>1, <1>6, <2>2, TruncatedWithin
  <2> QED BY <2>1, <2>3
<1> QED BY <1>7 DEF x, Pull

LEMMA SignalsWithin ==
  ASSUME NEW t \in -Scale .. Scale, NEW o \in -Scale .. Scale
  PROVE  Truncated(0 + 5 * t + 8 * o, Scale) \in -13 .. 13
<1> DEFINE x == 0 + 5 * t + 8 * o
<1>1. Scale \in Nat \ {0} /\ x \in Int /\ x <= Scale * 13 /\ Scale * (-13) <= x
  BY SignalsAssumption
<1>2. PICK j \in Int, k \in Int : j = -13 /\ k = 13 /\ x <= Scale * k /\ Scale * j <= x
  BY <1>1
<1> HIDE DEF x
<1> DEFINE q == Truncated(x, Scale)
<1>3. q \in Int /\ q <= k /\ j <= q
  BY <1>1, <1>2, TruncatedFits
<1> HIDE DEF q
<1>4. j = -13 /\ k = 13
  BY <1>2
<1>5. q \in -13 .. 13
  BY <1>3, <1>4
<1> QED BY <1>5 DEF q, x

(* Without an order flow, as the pricing engine's estimator has none. *)
TwoSides(m) ==
  /\ m.bid \in Nat \ {0} /\ m.ask \in Nat \ {0}
  /\ m.bidVolume \in Nat \ {0} /\ m.askVolume \in Nat \ {0}

Tight(m) == Magnitude(m.ask - m.bid) * Whole <= 280 * m.bid

FlowFree == est.flow.value = 0 /\ est.trades \in Seq(Trades)

LEMMA FairWithin ==
  ASSUME NEW m, TwoSides(m), Tight(m), FlowFree
  PROVE  LET low  == SubtractRate(Min({m.bid, m.ask}), 20)
             high == ApplyRate(Max({m.bid, m.ask}), 20)
         IN  /\ {low, FairValue(m), high} \subseteq Int
             /\ low <= FairValue(m) /\ FairValue(m) <= high
<1> DEFINE bid == m.bid
           ask == m.ask
           v == m.bidVolume
           w == m.askVolume
           lo == Min({bid, ask})
           hi == Max({bid, ask})
           micro == MicroPrice(m)
           mid == MidPrice(m)
           t == TradeImbalance(est.trades)
           o == OrderbookImbalance(m)
<1>0. /\ bid \in Nat \ {0} /\ ask \in Nat \ {0} /\ v \in Nat \ {0} /\ w \in Nat \ {0}
      /\ mid = Truncated(bid + ask, 2)
      /\ micro = IF v + w = 0 THEN mid ELSE Truncated(bid * w + ask * v, v + w)
      /\ o = IF v + w = 0 THEN 0 ELSE Truncated((w - v) * Scale, v + w)
  BY DEF MidPrice, MicroPrice, OrderbookImbalance, TwoSides
<1>b. Magnitude(ask - bid) * Whole <= 280 * bid
  BY DEF Tight
<1>n. bid \in Nat /\ ask \in Nat /\ v \in Nat \ {0} /\ w \in Nat \ {0}
  BY <1>0
<1>5. t \in -Scale .. Scale
  BY TradesWithin DEF FlowFree
<1>9. DriftRate(est, m) = Truncated(0 + 5 * t + 8 * o, Scale) + Truncated((micro - mid) * 5000, mid)
  BY DEF DriftRate, FlowFree
<1>11. FairValue(m) = ApplyRate(micro, DriftRate(est, m))
  BY DEF FairValue
<1> HIDE DEF bid, ask, v, w, micro, mid, t, o
<1>1. /\ lo \in Nat \ {0} /\ hi \in Nat \ {0} /\ lo <= hi
      /\ (lo = bid /\ hi = ask) \/ (lo = ask /\ hi = bid)
  <2>1. bid \in Int /\ ask \in Int
    BY <1>0
  <2>2. lo \in {bid, ask} /\ lo <= bid /\ lo <= ask
    BY <2>1, MinOfTwo
  <2>3. hi \in {bid, ask} /\ bid <= hi /\ ask <= hi
    BY <2>1, MaxOfTwo
  <2> HIDE DEF lo, hi
  <2> QED BY <1>0, <2>2, <2>3
<1> HIDE DEF lo, hi
<1>2. (hi - lo) * 100000 <= 280 * bid /\ bid \in {lo, hi}
  <2>1. Magnitude(ask - bid) = hi - lo
    BY <1>n, <1>1 DEF Magnitude
  <2>2. (hi - lo) * 100000 <= 280 * bid
    BY <1>b, <2>1 DEF Whole
  <2> QED BY <1>1, <2>2
<1>3. mid \in Nat /\ 2 * mid <= lo + hi /\ lo + hi <= 2 * mid + 1
  <2>1. bid + ask = lo + hi /\ lo + hi \in Nat
    BY <1>0, <1>1
  <2>2. mid = (lo + hi) \div 2
    BY <1>0, <2>1 DEF Truncated
  <2>3. \A n \in Nat : n \div 2 \in Nat /\ 2 * (n \div 2) <= n /\ n <= 2 * (n \div 2) + 1
    OBVIOUS
  <2> QED BY <2>1, <2>2, <2>3, Zenon
<1>4. micro \in lo .. hi /\ (lo < hi => micro < hi)
  <2>1. v + w # 0
    BY <1>0
  <2>2. CASE lo = bid /\ hi = ask
    <3>1. micro = Truncated(lo * w + hi * v, w + v)
      <4>1. v + w = w + v
        BY <1>0
      <4> QED BY <1>0, <2>1, <2>2, <4>1, Zenon
    <3>2. LET mean == Truncated(lo * w + hi * v, w + v)
          IN  mean \in lo .. hi /\ (lo < hi => mean < hi)
      BY <1>n, <1>1, MeanWithin
    <3> QED BY <3>1, <3>2
  <2>3. CASE lo = ask /\ hi = bid
    <3>1. micro = Truncated(lo * v + hi * w, v + w)
      <4>1. bid * w + ask * v = ask * v + bid * w
        BY <1>0
      <4> QED BY <1>0, <2>1, <2>3, <4>1, Zenon
    <3>2. LET mean == Truncated(lo * v + hi * w, v + w)
          IN  mean \in lo .. hi /\ (lo < hi => mean < hi)
      BY <1>n, <1>1, MeanWithin
    <3> QED BY <3>1, <3>2
  <2> QED BY <1>1, <2>2, <2>3
<1>6. o \in -Scale .. Scale
  <2>1. v + w = w + v /\ v + w # 0
    BY <1>0
  <2>2. o = Truncated((w - v) * Scale, w + v)
    BY <1>0, <2>1, Zenon
  <2> QED BY <1>0, <2>1, <2>2, ImbalanceWithin
<1> DEFINE x == Truncated(0 + 5 * t + 8 * o, Scale)
           y == Pull(micro, mid)
<1>7. x \in -13 .. 13
  BY <1>5, <1>6, SignalsWithin, Zenon
<1>8. y \in -7 .. 7
  <2>1. Between(lo, hi, bid, micro, mid)
    BY <1>1, <1>2, <1>3, <1>4 DEF Between
  <2> QED BY <2>1, DistanceWithin, Zenon
<1>10. DriftRate(est, m) \in -20 .. 20
  <2>1. DriftRate(est, m) = x + y
    BY <1>9 DEF Pull
  <2>2. \A a \in -13 .. 13, b \in -7 .. 7 : a + b \in -20 .. 20
    OBVIOUS
  <2> HIDE DEF x, y
  <2> QED BY <1>7, <1>8, <2>1, <2>2, Zenon
<1> HIDE DEF x, y
<1> DEFINE rate == DriftRate(est, m)
<1> HIDE DEF rate
<1>12. /\ SubtractRate(lo, 20) <= ApplyRate(micro, rate)
       /\ ApplyRate(micro, rate) <= ApplyRate(hi, 20)
       /\ {SubtractRate(lo, 20), ApplyRate(micro, rate), ApplyRate(hi, 20)} \subseteq Int
  <2>1. rate \in -20 .. 20
    BY <1>10 DEF rate
  <2>2. lo \in Nat /\ hi \in Nat
    BY <1>1
  <2> QED BY <1>4, <2>1, <2>2, RateWithin
<1> QED BY <1>11, <1>12 DEF lo, hi, bid, ask, rate

(* What AddTrade leaves of the window, and does not touch. *)
EstInv ==
  /\ {"flow", "trades", "lastPrice", "volatility"} \subseteq DOMAIN est
  /\ est.flow = NewEMA
  /\ est.trades \in Seq(Trades)

LEMMA TradeKeepsEst ==
  ASSUME EstInv, NEW trade \in Trades, est' = AddTrade(est, trade)
  PROVE  EstInv'
<1> DEFINE all == Append(est.trades, trade)
           time == trade.time
           IsFirst(i) == ~Expired(all[i], time) /\ \A j \in 1 .. i - 1 : Expired(all[j], time)
           first == CHOOSE i \in DOMAIN all : IsFirst(i)
           fresh == {i \in DOMAIN all : ~Expired(all[i], time)}
<1>1. all \in Seq(Trades) /\ all[Len(all)] = trade /\ Len(all) \in DOMAIN all
  BY DEF EstInv
<1>2. Len(all) \in fresh
  BY <1>1, PricingAssumption, SignalsAssumption DEF Expired
<1>3. \E i \in DOMAIN all : IsFirst(i)
  <2>1. PICK i \in fresh : \A j \in fresh : i <= j
    <3>1. fresh \subseteq Nat /\ fresh # {}
      BY <1>1, <1>2
    <3> HIDE DEF fresh
    <3> QED BY <3>1, LeastExists
  <2>2. \A j \in 1 .. i - 1 : j \in DOMAIN all /\ j \notin fresh
    <3>1. DOMAIN all = 1 .. Len(all) /\ Len(all) \in Nat /\ i \in DOMAIN all
      BY <1>1, <2>1
    <3>2. \A j \in 1 .. i - 1 : j \in 1 .. Len(all) /\ ~(i <= j)
      BY <3>1
    <3> HIDE DEF all, fresh
    <3> QED BY <2>1, <3>1, <3>2
  <2> QED BY <2>1, <2>2
<1>4. first \in DOMAIN all
  BY <1>3, Zenon
<1>5. Recent(all, time) = SubSeq(all, first, Len(all))
  BY DEF Recent
<1> HIDE DEF first, all
<1>6. Recent(all, time) \in Seq(Trades)
  BY <1>1, <1>4, <1>5
<1>7. /\ DOMAIN est' = DOMAIN est /\ est'.flow = est.flow
      /\ est'.trades = Recent(all, time)
  BY DEF AddTrade, EstInv, all
<1> QED BY <1>6, <1>7 DEF EstInv

LEMMA ApplyOwnTypes ==
  ASSUME TypeInv, NEW k \in 1 .. PollLimit, ApplyOwn(k)
  PROVE  TypeInv'
<1>1. Poll(k) /\ UNCHANGED <<now, pos, running, sync, recent>>
  BY DEF ApplyOwn, Poll
<1>2. queue[k] \in Event /\ queue[k].final \in Ids
  BY <1>1, PollKeeps
<1> DEFINE b == ApplyBatch(book, queue[k])
<1>3. b \in Book
  BY <1>2, ApplyBatchType DEF TypeInv, TypeOK
<1>4. book' = Trimmed(b) \/ book' = book
  BY DEF ApplyOwn
<1> HIDE DEF b
<1>5. book' \in Book
  BY <1>3, <1>4, TrimmedLevel DEF TypeInv, TypeOK
<1>6. ready' \in BOOLEAN
  BY DEF ApplyOwn, TwoSided, TypeInv, TypeOK
<1>7. queue' \in Seq(Event) /\ QueueIds'
  BY <1>1, PollKeepsType
<1> QED BY <1>1, <1>5, <1>6, <1>7 DEF TypeInv, TypeOK

PriceInv == TypeInv /\ EstInv /\ FairNearBook

LEMMA PricingStarts == PricingInit => PriceInv
  BY InitTypes DEF PricingInit, PriceInv, EstInv, NewEstimator, FairNearBook

LEMMA PriceIsNear ==
  ASSUME PriceInv, PublishPrice PROVE PriceInv'
<1> DEFINE m == Market(book)
<1>1. book \in Book /\ TwoSided(book) /\ UNCHANGED vars /\ est' = est
  BY DEF PriceInv, TypeInv, TypeOK, PublishPrice
<1>2. TwoSides(m)
  BY <1>1, MarketOfBook DEF TwoSides
<1>3. published'.fair = FairValue(m) /\ published'.bid = m.bid /\ published'.ask = m.ask
  BY DEF PublishPrice
<1>4. FlowFree
  BY DEF PriceInv, EstInv, NewEMA, FlowFree
<1> HIDE DEF m
<1>5. FairNearBook'
  <2> SUFFICES ASSUME Tight(m)
               PROVE  /\ FairValue(m) >= SubtractRate(Min({m.bid, m.ask}), 20) - 1
                      /\ FairValue(m) <= ApplyRate(Max({m.bid, m.ask}), 20) + 1
    BY <1>3 DEF FairNearBook, Tight
  <2> DEFINE low == SubtractRate(Min({m.bid, m.ask}), 20)
             high == ApplyRate(Max({m.bid, m.ask}), 20)
             fair == FairValue(m)
  <2>1. low \in Int /\ high \in Int /\ fair \in Int /\ low <= fair /\ fair <= high
    BY <1>2, <1>4, FairWithin
  <2> HIDE DEF low, high, fair
  <2> QED BY <2>1 DEF low, high, fair
<1>6. TypeInv'
  BY <1>1, NextTypes DEF PriceInv
<1>7. EstInv'
  BY <1>1 DEF PriceInv, EstInv
<1> QED BY <1>5, <1>6, <1>7 DEF PriceInv

LEMMA PriceStays ==
  PriceInv /\ [PricingNext]_<<vars, pricingVars>> => PriceInv'
<1> SUFFICES ASSUME PriceInv, [PricingNext]_<<vars, pricingVars>> PROVE PriceInv'
  OBVIOUS
<1>1. ASSUME TypeInv', est' = est, published' = published PROVE PriceInv'
  BY <1>1 DEF PriceInv, EstInv, FairNearBook
<1>2. CASE Syncing \/ World \/ UNCHANGED <<vars, pricingVars>>
  <2>1. [Next]_vars /\ est' = est /\ published' = published
    BY <1>2 DEF Syncing, World, Next, pricingVars
  <2>2. TypeInv'
    BY <2>1, NextTypes DEF PriceInv
  <2> QED BY <1>1, <2>1, <2>2
<1>3. CASE PublishPrice
  BY <1>3, PriceIsNear
<1>4. ASSUME NEW trade \in Trades, TakeTrade(trade) PROVE PriceInv'
  <2>1. UNCHANGED vars /\ est' = AddTrade(est, trade) /\ published' = published
    BY <1>4 DEF TakeTrade
  <2>2. TypeInv' /\ EstInv'
    BY <2>1, NextTypes, TradeKeepsEst DEF PriceInv
  <2> QED BY <2>1, <2>2 DEF PriceInv, FairNearBook
<1>5. ASSUME NEW k \in 1 .. PollLimit, ApplyOwn(k) PROVE PriceInv'
  <2>1. est' = est /\ published' = published
    BY <1>5 DEF ApplyOwn, pricingVars
  <2>2. TypeInv'
    BY <1>5, ApplyOwnTypes DEF PriceInv
  <2> QED BY <1>1, <2>1, <2>2
<1> QED BY <1>2, <1>3, <1>4, <1>5 DEF PricingNext, PricingStep

(* Whatever was lost, replayed or crossed on the way to the book, and      *)
(* whatever trades came: a price published from a book with a spread of at *)
(* most 28 bps lies within 2 bps of it.                                    *)
THEOREM FairStaysNear == PricingSpec => []FairNearBook
<1>1. PriceInv => FairNearBook
  BY DEF PriceInv
<1> QED
  BY <1>1, PricingStarts, PriceStays, PTL DEF PricingSpec
=============================================================================
