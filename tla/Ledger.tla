-------------------------------- MODULE Ledger --------------------------------
(***************************************************************************)
(* The position ledger (Position of mm_types), which the strategy, the     *)
(* simulator and the backtest each keep: quantity, average entry price and *)
(* realised profit, all in fixed point.  Products and quotients of fixed   *)
(* points are computed wide (i128) and cut off towards zero.               *)
(***************************************************************************)
EXTENDS Integers

CONSTANT Unit                   \* FIXED_POINT_MULTIPLIER: what stands for 1

ASSUME UnitAssumption == Unit \in Nat \ {0}

Size(n) == IF n < 0 THEN -n ELSE n

(* a / b for b # 0, towards zero. *)
Quotient(a, b) ==
  IF (a < 0) = (b < 0) THEN Size(a) \div Size(b) ELSE -(Size(a) \div Size(b))

Times(a, b) == Quotient(a * b, Unit)
Over(a, b) == Quotient(a * Unit, b)

Flat == [quantity |-> 0, avg |-> 0, realized |-> 0]

Signed(fill) == IF fill.side = "bid" THEN fill.qty ELSE -fill.qty

Long(q) == q > 0

Open(p, fill) ==
  [p EXCEPT !.quantity = @ + Signed(fill), !.avg = fill.price]

(* Faulty variant: the average stays what it was. *)
AddUnaveraged(p, fill) == [p EXCEPT !.quantity = @ + Signed(fill)]

(* More of the same: the average price of the whole. *)
Add(p, fill) ==
  LET new == p.quantity + Signed(fill)
      totalCost == Times(p.avg, p.quantity) + Times(fill.price, Signed(fill))
  IN  [p EXCEPT !.quantity = new, !.avg = Over(totalCost, new)]

(* Across zero, or from long to zero: all of the old position is closed. *)
Flip(p, fill) ==
  [p EXCEPT !.realized = @ + Times(fill.price - p.avg, p.quantity),
            !.quantity = @ + Signed(fill),
            !.avg = fill.price]

(* Less of the same, or from short to zero. *)
Reduce(p, fill) ==
  [p EXCEPT !.realized = @ + Times(fill.price - p.avg, -Signed(fill)),
            !.quantity = @ + Signed(fill)]

ApplyFill(p, fill) ==
  LET new == p.quantity + Signed(fill)
  IN  CASE p.quantity = 0 -> Open(p, fill)
        [] p.quantity # 0 /\ Long(p.quantity) = Long(new) /\ Size(new) > Size(p.quantity)
             -> Add(p, fill)
        [] p.quantity # 0 /\ Long(p.quantity) # Long(new) -> Flip(p, fill)
        [] OTHER -> Reduce(p, fill)

(* How far a ledger is from the exact balance of the money its fills cost  *)
(* (`paid', in Unit times Unit): realised profit is what the position      *)
(* would have cost at its average price, less what was paid.               *)
Imbalance(p, paid) == Size(Unit * p.realized - (p.avg * p.quantity - paid))

(* The most one fill adds to it: two products cut off by less than one     *)
(* each, and an average price cut off by less than one for each unit held. *)
Rounding(p) == 2 * Unit + Size(p.quantity)
=============================================================================
