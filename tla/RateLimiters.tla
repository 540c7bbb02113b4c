----------------------------- MODULE RateLimiters -----------------------------
(***************************************************************************)
(* mm_ratelimit: a MultiLimiter over leaky buckets and fixed windows, used *)
(* by several threads at once.  The limiters hold no lock: every step of a *)
(* thread below is one atomic access of the shared words.                  *)
(*                                                                         *)
(* Both kinds keep a time (last_refill, window_start) and an amount        *)
(* (tokens, count), and both work in the same order: sample the clock,     *)
(* load the time, claim it by compare-and-swap if something is due, apply  *)
(* what is due to the amount, then take from the amount.  A loop around a  *)
(* compare-and-swap of the amount alone is one step, at its success.       *)
(***************************************************************************)
EXTENDS Integers, Sequences, FiniteSets

CONSTANTS
  Threads,
  Limiters,      \* the MultiLimiter's list: a sequence of limiter records
  Weights,       \* the weights of requests
  TokenScale,    \* tokens of a bucket per unit of weight
  RateScale,
  MaxTime        \* bound of the model on the clock

Bucket == [kind : {"bucket"}, capacity : Nat \ {0}, rate : Nat \ {0}]
Window == [kind : {"window"}, limit : Nat \ {0}, length : Nat \ {0}]

ASSUME LimiterAssumption ==
  /\ Limiters \in Seq(Bucket \cup Window) /\ Limiters # <<>>
  /\ Weights \subseteq Nat \ {0}
  /\ TokenScale \in Nat \ {0} /\ RateScale \in Nat \ {0} /\ MaxTime \in Nat

L == DOMAIN Limiters
IsBucket(l) == Limiters[l].kind = "bucket"

VARIABLES
  now,       \* the shared monotonic clock
  mark,      \* mark[l]: last_refill or window_start of limiter l
  amount,    \* amount[l]: tokens left or requests counted
  thread,    \* thread[t]: where t is, and its local variables
  granted,   \* history: granted[l], the weight limiter l has granted
  passed,    \* history: the weight of the calls that returned Ok
  inWindow,  \* history: granted[l] since the last change of mark[l]
  wiped      \* history: l granted, since then, while a reset was under way

vars == <<now, mark, amount, thread, granted, passed, inWindow, wiped>>

Sat(a, b) == IF a > b THEN a - b ELSE 0
Least(a, b) == IF a < b THEN a ELSE b

Full(l) == Limiters[l].capacity * TokenScale

(* Tokens accrued in the time elapsed, rounded down. *)
Accrued(l, elapsed) == (elapsed * Limiters[l].rate) \div RateScale

(* Something is due: at least a token, or a new window. *)
Due(l, elapsed) ==
  IF IsBucket(l) THEN Accrued(l, elapsed) > 0 ELSE elapsed >= Limiters[l].length

NewMark(l, from, at) ==
  IF IsBucket(l) THEN at
  ELSE from + ((at - from) \div Limiters[l].length) * Limiters[l].length

AfterDue(l, n, elapsed) ==
  IF IsBucket(l) THEN Least(n + Accrued(l, elapsed), Full(l)) ELSE 0

(* Faulty variant: the window is tested before the weight is added. *)
AdmitsBeforeAdding(l, n, w) ==
  IF IsBucket(l) THEN n >= w * TokenScale ELSE n < Limiters[l].limit

Admits(l, n, w) ==
  IF IsBucket(l) THEN n >= w * TokenScale ELSE n + w <= Limiters[l].limit

AfterTake(l, n, w) == IF IsBucket(l) THEN n - w * TokenScale ELSE n + w

Idle == [pc |-> "idle", op |-> "try", l |-> 1, w |-> 0, at |-> 0, from |-> 0]

Init ==
  /\ now = 0
  /\ mark = [l \in L |-> 0]
  /\ amount = [l \in L |-> IF IsBucket(l) THEN Full(l) ELSE 0]
  /\ thread = [t \in Threads |-> Idle]
  /\ granted = [l \in L |-> 0]
  /\ passed = 0
  /\ inWindow = [l \in L |-> 0]
  /\ wiped = [l \in L |-> FALSE]

history == <<granted, passed, inWindow, wiped>>

Tick ==
  /\ now < MaxTime
  /\ now' = now + 1
  /\ UNCHANGED <<mark, amount, thread, history>>

(* try_acquire returns at the first refusal, acquire tries again, available *)
(* brings every limiter up to date and takes nothing.                       *)
Call(t, op, w) ==
  /\ thread[t].pc = "idle"
  /\ thread' = [thread EXCEPT ![t] = [Idle EXCEPT !.pc = "clock", !.op = op, !.w = w]]
  /\ UNCHANGED <<now, mark, amount, history>>

SampleClock(t) ==
  /\ thread[t].pc = "clock"
  /\ thread' = [thread EXCEPT ![t].pc = "mark", ![t].at = now]
  /\ UNCHANGED <<now, mark, amount, history>>

(* A mark newer than the sample counts as no time elapsed. *)
LoadMark(t) ==
  LET l == thread[t].l IN
  /\ thread[t].pc = "mark"
  /\ thread' = [thread EXCEPT ![t].from = mark[l],
                  ![t].pc = IF Due(l, Sat(thread[t].at, mark[l])) THEN "claim" ELSE "take"]
  /\ UNCHANGED <<now, mark, amount, history>>

(* Faulty variant: the time is stored without comparing. *)
ClaimUnchecked(t) ==
  LET l == thread[t].l IN
  /\ thread[t].pc = "claim"
  /\ mark' = [mark EXCEPT ![l] = NewMark(l, thread[t].from, thread[t].at)]
  /\ inWindow' = [inWindow EXCEPT ![l] = 0]
  /\ wiped' = [wiped EXCEPT ![l] = FALSE]
  /\ thread' = [thread EXCEPT ![t].pc = "apply"]
  /\ UNCHANGED <<now, amount, granted, passed>>

(* compare_exchange of the mark: who succeeds owns what is due. *)
Claim(t) ==
  LET l == thread[t].l IN
  /\ thread[t].pc = "claim"
  /\ IF mark[l] = thread[t].from
     THEN /\ mark' = [mark EXCEPT ![l] = NewMark(l, thread[t].from, thread[t].at)]
          /\ inWindow' = [inWindow EXCEPT ![l] = 0]
          /\ wiped' = [wiped EXCEPT ![l] = FALSE]
          /\ thread' = [thread EXCEPT ![t].pc = "apply"]
     ELSE /\ thread' = [thread EXCEPT ![t].pc = "take"]
          /\ UNCHANGED <<mark, inWindow, wiped>>
  /\ UNCHANGED <<now, amount, granted, passed>>

ApplyDue(t) ==
  LET l == thread[t].l IN
  /\ thread[t].pc = "apply"
  /\ amount' = [amount EXCEPT ![l] = AfterDue(l, @, thread[t].at - thread[t].from)]
  /\ thread' = [thread EXCEPT ![t].pc = "take"]
  /\ UNCHANGED <<now, mark, history>>

(* Faulty variant: the call returns Ok after the first limiter. *)
AdvanceEarly(t) == thread' = [thread EXCEPT ![t] = Idle]

(* The thread is done with limiter l: on to the next one, or return. *)
Advance(t) ==
  LET l == thread[t].l IN
  thread' = [thread EXCEPT ![t] =
    IF l = Len(Limiters) THEN Idle
    ELSE [thread[t] EXCEPT !.pc = "clock", !.l = l + 1, !.at = 0, !.from = 0]]

ResetUnderWay(l) == \E t \in Threads : thread[t].pc = "apply" /\ thread[t].l = l

Grant(t) ==
  LET l == thread[t].l  w == thread[t].w IN
  /\ thread[t].pc = "take" /\ thread[t].op # "available"
  /\ Admits(l, amount[l], w)
  /\ Advance(t)
  /\ amount' = [amount EXCEPT ![l] = AfterTake(l, @, w)]
  /\ granted' = [granted EXCEPT ![l] = @ + w]
  /\ inWindow' = [inWindow EXCEPT ![l] = @ + w]
  /\ wiped' = [wiped EXCEPT ![l] = @ \/ ResetUnderWay(l)]
  /\ passed' = IF thread'[t].pc = "idle" THEN passed + w ELSE passed
  /\ UNCHANGED <<now, mark>>

(* Exceeded: the limiters before l keep what they have taken. *)
Refuse(t) ==
  LET l == thread[t].l IN
  /\ thread[t].pc = "take" /\ thread[t].op # "available"
  /\ ~Admits(l, amount[l], thread[t].w)
  /\ thread' = [thread EXCEPT ![t] =
       IF @.op = "try" THEN Idle ELSE [@ EXCEPT !.pc = "clock", !.at = 0, !.from = 0]]
  /\ UNCHANGED <<now, mark, amount, history>>

(* A window's compare-and-swap of the count fails, spuriously or not, and   *)
(* the window is checked again.                                             *)
Retry(t) ==
  LET l == thread[t].l IN
  /\ thread[t].pc = "take" /\ thread[t].op # "available"
  /\ ~IsBucket(l) /\ Admits(l, amount[l], thread[t].w)
  /\ thread' = [thread EXCEPT ![t].pc = "clock", ![t].at = 0, ![t].from = 0]
  /\ UNCHANGED <<now, mark, amount, history>>

ReadAvailable(t) ==
  /\ thread[t].pc = "take" /\ thread[t].op = "available"
  /\ Advance(t)
  /\ UNCHANGED <<now, mark, amount, history>>

Next ==
  \/ Tick
  \/ \E t \in Threads :
       \/ \E op \in {"try", "acquire"}, w \in Weights : Call(t, op, w)
       \/ Call(t, "available", 0)
       \/ SampleClock(t) \/ LoadMark(t) \/ Claim(t) \/ ApplyDue(t)
       \/ Grant(t) \/ Refuse(t) \/ Retry(t) \/ ReadAvailable(t)

Spec == Init /\ [][Next]_vars

-----------------------------------------------------------------------------
(* What a bucket has granted implements the promise of RateQuota: a time   *)
(* span is never credited twice, by two threads or by one after the other. *)
Quota(l) == INSTANCE RateQuota WITH
  granted <- granted[l] * TokenScale * RateScale,
  Weights <- {w * TokenScale * RateScale : w \in Weights},
  Capacity <- Full(l) * RateScale, Rate <- Limiters[l].rate, Per <- 1

BucketKeepsQuota ==
  /\ \A l \in L : IsBucket(l) => Quota(l)!Init
  /\ [][\A l \in L : IsBucket(l) => Quota(l)!Next \/ UNCHANGED <<now, granted[l]>>]_vars

(* A window grants no more than its limit unless one of its grants falls   *)
(* between another thread's claim of the window and its reset of the count. *)
WindowKeepsLimit ==
  \A l \in L : ~IsBucket(l) /\ ~wiped[l] => inWindow[l] <= Limiters[l].limit

(* A call that returned Ok has been charged to every limiter of the list.  *)
PassedEveryLimiter == \A l \in L : passed <= granted[l]

(* fixed_window.rs:15-17: a maximum number of requests in each window.     *)
WindowLimit ==
  \A l \in L : ~IsBucket(l) => inWindow[l] <= Limiters[l].limit
=============================================================================
