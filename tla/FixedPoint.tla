------------------------------ MODULE FixedPoint ------------------------------
(* Arithmetic of mm_types' FixedPoint that several modules share. *)
EXTENDS Integers, SequencesExt

Magnitude(x) == IF x < 0 THEN -x ELSE x

(* num/den, towards zero like Rust's integer division and `as i64'. *)
Truncated(num, den) == IF num < 0 THEN -((-num) \div den) ELSE num \div den

Total(numbers) == FoldLeft(LAMBDA n, x : n + x, 0, numbers)

(* A rate counts tenths of a basis point: this is the rate of 100%. *)
Whole == 100000

(* apply_bps and subtract_bps *)
ApplyRate(price, rate)    == price + Truncated(price * rate, Whole)
SubtractRate(price, rate) == price - Truncated(price * rate, Whole)
=============================================================================
