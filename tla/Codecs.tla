-------------------------------- MODULE Codecs --------------------------------
(***************************************************************************)
(* The codecs of mm_binary that carry data of variable length: symbols     *)
(* packed into 128 bits (CompressedString), order book batches, and the    *)
(* decimals of the exchange's JSON.                                        *)
(*                                                                         *)
(* A symbol is a sequence of characters, numbered 0 .. 25 for 'A' .. 'Z',  *)
(* 26 .. 35 for the digits and 36 for the dash, which stands for the rest  *)
(* of ASCII.  Programs and exchange write symbols in capitals.             *)
(***************************************************************************)
EXTENDS FixedPoint

CONSTANTS
  CountLimit,  \* level counts of a batch are kept modulo this (2^16)
  Decimals     \* DECIMAL_PLACES

ASSUME CodecAssumption == CountLimit \in Nat \ {0} /\ Decimals \in Nat

-----------------------------------------------------------------------------
Letters == 0 .. 25
Digits  == 26 .. 35

(* The schemes are known by their bits per character, which from_str tries *)
(* in this order; the first alphabet that has all characters is taken.     *)
Alphabet(width) ==
  CASE width = 4 -> Digits \cup 0 .. 5
    [] width = 5 -> Letters
    [] width = 6 -> Letters \cup Digits
    [] width = 7 -> Letters \cup Digits \cup {36}

Fits(s, width) == Len(s) <= 128 \div width /\ ToSet(s) \subseteq Alphabet(width)

Encodable(s) == \E width \in 4 .. 7 : Fits(s, width)

Width(s) == Min({width \in 4 .. 7 : Fits(s, width)})

(* Faulty variant: the digit 0 is zero, which also ends a symbol. *)
CodeFromZero(width, c) ==
  CASE width = 4 -> IF c \in Digits THEN c - 26 ELSE c + 10
    [] width = 5 -> c + 1
    [] width = 6 -> c
    [] width = 7 -> IF c \in Letters THEN c + 65 ELSE IF c \in Digits THEN c + 22 ELSE 45

(* The hexadecimal 'F' gets 16, which is one bit too wide. *)
Code(width, c) ==
  CASE width = 4 -> IF c \in Digits THEN c - 25 ELSE c + 11
    [] width = 5 -> c + 1
    [] width = 6 -> c
    [] width = 7 -> IF c \in Letters THEN c + 65 ELSE IF c \in Digits THEN c + 22 ELSE 45

(* The bits that are set: every code is or-ed in at its place; what does   *)
(* not fit a word goes into the next only for a code that begins so.       *)
Packed(s) ==
  LET width == Width(s)
      at(i) == width * (i - 1)
      codeBits(i) == {k \in 0 .. 6 : (Code(width, s[i]) \div 2^k) % 2 = 1}
      kept(i) == {k \in codeBits(i) : at(i) < 64 /\ at(i) + k >= 64 => at(i) + width > 64}
  IN  (UNION {{at(i) + k : k \in kept(i)} : i \in DOMAIN s}) \cap 0 .. 127

Field(bits, width, i) ==
  Total([k \in 1 .. width |-> IF width * (i - 1) + (k - 1) \in bits THEN 2^(k - 1) ELSE 0])

(* A zero ends the text.  Six bits have no code to spare: there a value    *)
(* that is no character does, or three zeros, which are three 'A's.        *)
Unpacked(bits, width) ==
  LET n        == (127 \div width) + 1
      field    == [i \in 1 .. n |-> Field(bits, width, i)]
      padding  == {i \in 3 .. n : \A j \in i - 2 .. i : field[j] = 0}
      codes    == {Code(width, c) : c \in Alphabet(width)}
      foreign  == {i \in 1 .. n : field[i] \notin codes}
      length   == IF width = 6 THEN Min({i - 3 : i \in padding} \cup {i - 1 : i \in foreign} \cup {n})
                               ELSE Min({i - 1 : i \in foreign} \cup {n})
  IN  [i \in 1 .. length |-> CHOOSE c \in Alphabet(width) : Code(width, c) = field[i]]

Received(s) == Unpacked(Packed(s), Width(s))

-----------------------------------------------------------------------------
(* OrderBookBatchMessage: the counts of the header, all levels in a row,   *)
(* and a checksum of everything before it.                                 *)
BatchToBytes(bids, asks) ==
  [bids |-> Len(bids) % CountLimit, asks |-> Len(asks) % CountLimit,
   levels |-> bids \o asks, intact |-> TRUE]

(* Faulty variant: the asks are read from the beginning, too. *)
BatchFromStart(m) ==
  [valid |-> m.intact /\ m.bids + m.asks <= Len(m.levels),
   bids  |-> SubSeq(m.levels, 1, m.bids),
   asks  |-> SubSeq(m.levels, 1, m.asks)]

(* from_bytes takes as many levels as the header says, if there are so     *)
(* many, and does not ask whether there are more.                          *)
BatchFromBytes(m) ==
  [valid |-> m.intact /\ m.bids + m.asks <= Len(m.levels),
   bids  |-> SubSeq(m.levels, 1, m.bids),
   asks  |-> SubSeq(m.levels, m.bids + 1, m.bids + m.asks)]

-----------------------------------------------------------------------------
Number(digits) == FoldLeft(LAMBDA n, d : 10 * n + d, 0, digits)

PowerOfTen(n) == FoldLeft(LAMBDA p, i : 10 * p, 1, [i \in 1 .. n |-> i])

(* Faulty variant: excess digits are kept. *)
ParsedUncut(negative, whole, fraction) ==
  LET scaled == Number(whole \o fraction) * PowerOfTen(Max({Decimals - Len(fraction), 0}))
  IN  IF negative THEN -scaled ELSE scaled

(* parse_json_decimal_to_fixed_point of [-]whole.fraction *)
Parsed(negative, whole, fraction) ==
  LET n      == Number(whole \o fraction)
      scaled == IF Len(fraction) <= Decimals THEN n * PowerOfTen(Decimals - Len(fraction))
                                             ELSE n \div PowerOfTen(Len(fraction) - Decimals)
  IN  IF negative THEN -scaled ELSE scaled

-----------------------------------------------------------------------------
(* Symbols that come out as they went in: hexadecimal ones have no 'F',    *)
(* those of letters and digits do not end in 'A', hold no 'AAA' and are at *)
(* most 19 long, short of what their padding would be taken for.           *)
Lossless(s) ==
  CASE Width(s) = 4 -> 5 \notin ToSet(s)
    [] Width(s) = 6 -> /\ Len(s) <= 19 /\ Last(s) # 0
                       /\ ~\E i \in 3 .. Len(s) : \A j \in i - 2 .. i : s[j] = 0
    [] OTHER -> TRUE
=============================================================================
