----------------------------- MODULE BookReplica -----------------------------
(***************************************************************************)
(* What a consumer of depth events promises the quoting: once it has a     *)
(* book, that is the exchange's book at some update id, and the id never   *)
(* goes back.  Nothing is said about how far it lies behind.               *)
(***************************************************************************)
EXTENDS Naturals

CONSTANTS
  Ids,     \* the exchange's update ids
  Books    \* Books[id]: what passes for the exchange's book at id

VARIABLES
  latest,  \* last update id of the exchange
  at,      \* the id of the local book, 0 before there is one
  book     \* the local book

ReplicaInit == latest \in Ids /\ at = 0

Progress ==
  /\ latest' = latest + 1
  /\ latest' \in Ids
  /\ UNCHANGED <<at, book>>

Follow ==
  /\ at' \in Ids /\ at <= at' /\ at' <= latest
  /\ book' \in Books[at']
  /\ UNCHANGED latest

ReplicaNext == Progress \/ Follow

ReplicaSpec == ReplicaInit /\ [][ReplicaNext]_<<latest, at, book>>
=============================================================================
