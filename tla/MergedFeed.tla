----------------------------- MODULE MergedFeed -----------------------------
(***************************************************************************)
(* What the collector promises the subscribers of its streams, and all     *)
(* that DepthFeed takes of it: each connection's messages come out in the  *)
(* order they were received, none of them twice; any of them may be        *)
(* missing, and the connections interleave at will.                        *)
(***************************************************************************)
EXTENDS Naturals, Sequences

CONSTANT Sources                \* the connections that are merged

VARIABLES received,             \* received[s]: messages s has received so far
          delivered             \* delivered[s]: those published, by their numbers

feedVars == <<received, delivered>>

FeedInit ==
  /\ received = [s \in Sources |-> 0]
  /\ delivered = [s \in Sources |-> <<>>]

Receive(s) ==
  /\ received' = [received EXCEPT ![s] = @ + 1]
  /\ UNCHANGED delivered

Latest(s) ==
  IF delivered[s] = <<>> THEN 0 ELSE delivered[s][Len(delivered[s])]

Deliver(s) ==
  /\ \E m \in Latest(s) + 1 .. received[s] :
       delivered' = [delivered EXCEPT ![s] = Append(@, m)]
  /\ UNCHANGED received

FeedNext == \E s \in Sources : Receive(s) \/ Deliver(s)

FeedSpec == FeedInit /\ [][FeedNext]_feedVars
=============================================================================
