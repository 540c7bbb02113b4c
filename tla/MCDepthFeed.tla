----------------------------- MODULE MCDepthFeed -----------------------------
(***************************************************************************)
(* A small market for TLC: two bid and two ask levels, a snapshot of depth *)
(* one a side, and a history in which levels are added, changed, removed   *)
(* and restored.                                                           *)
(***************************************************************************)
EXTENDS DepthFeed, Integers

MCBidLevels == {-1, -2}
MCAskLevels == {1, 2}
MCStart     == 2

QuantitiesAt ==   \* at levels -2, -1, 1, 2, from MCStart on
  << <<1, 1, 1, 0>>, <<1, 2, 1, 0>>, <<1, 2, 1, 3>>, <<1, 1, 0, 3>>,
     <<2, 0, 0, 3>>, <<2, 1, 2, 3>>, <<0, 1, 2, 0>> >>

Column(l) == CASE l = -2 -> 1 [] l = -1 -> 2 [] l = 1 -> 3 [] l = 2 -> 4

MCHistory ==
  [id \in MCStart .. MaxId |->
     [l \in MCBidLevels \cup MCAskLevels |-> QuantitiesAt[id - MCStart + 1][Column(l)]]]

(* The best level of each side. *)
MCTopLevels ==
  [id \in MCStart .. MaxId |->
     LET has(S) == {l \in S : MCHistory[id][l] # 0}
     IN  {l \in has(MCBidLevels) : \A m \in has(MCBidLevels) : m <= l}
         \cup {l \in has(MCAskLevels) : \A m \in has(MCAskLevels) : l <= m}]
=============================================================================
