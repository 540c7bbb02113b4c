----------------------------- MODULE MCCollector -----------------------------
(* Two depth connections that race into one channel.  The inboxes have     *)
(* room for one message and the channel for two, so that every queue can   *)
(* be full and a third message wait in a processing thread's hand.         *)
EXTENDS Collector, TLC

CONSTANTS d1, d2, depth, state

MCConns == {d1, d2}
MCReporters == {state}
MCTopics == {depth}
MCTopicOf == [c \in MCConns |-> depth]
MCMessages == (d1 :> 2) @@ (d2 :> 1)
=============================================================================
