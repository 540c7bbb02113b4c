-------------------------------- MODULE Quoter --------------------------------
(***************************************************************************)
(* What the strategy promises the simulator, whatever its signals say: a   *)
(* quote is made for the position that is known at that moment, by one     *)
(* that has not been killed, and being killed is final.  The position and  *)
(* the moment at which an offer is gone are not its to decide.             *)
(***************************************************************************)
EXTENDS Integers, Sequences

CONSTANT Allowed     \* Allowed[q]: the quotes that fit position q

VARIABLES position,  \* the position as far as it is known
          killed,
          offers     \* quotes made and not yet gone, oldest first

QuoterInit == position = 0 /\ ~killed /\ offers = <<>>

(* What is left of the offers without the k oldest. *)
Without(k) == SubSeq(offers, k + 1, Len(offers))

Offer ==
  /\ ~killed
  /\ \E k \in 0 .. Len(offers), quote \in Allowed[position] :
       offers' = Append(Without(k), quote)
  /\ UNCHANGED <<position, killed>>

Learn ==
  /\ position' \in Int
  /\ killed' \in BOOLEAN /\ (killed => killed')
  /\ \E k \in 0 .. Len(offers) : offers' = Without(k)

QuoterNext == Offer \/ Learn

QuoterSpec == QuoterInit /\ [][QuoterNext]_<<position, killed, offers>>
=============================================================================
