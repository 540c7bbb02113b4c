--------------------------- MODULE MCRateLimiters ---------------------------
(* One bucket and one window, small enough for TLC. *)
EXTENDS RateLimiters, TLC

MCBucket == [kind |-> "bucket", capacity |-> 2, rate |-> 3]
MCWindow == [kind |-> "window", limit |-> 2, length |-> 2]
MCMixed  == <<MCBucket, MCWindow>>
MCSingle == <<MCWindow>>
MCSymmetry == Permutations(Threads)
=============================================================================
