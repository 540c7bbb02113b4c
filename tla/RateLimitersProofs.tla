-------------------------- MODULE RateLimitersProofs --------------------------
(***************************************************************************)
(* Theorems about RateLimiters, for any number of threads and any list of  *)
(* limiters.                                                               *)
(***************************************************************************)
EXTENDS RateLimiters, FiniteSetTheorems, TLAPS

Pcs == {"idle", "clock", "mark", "claim", "apply", "take"}
ThreadStates == [pc : Pcs, op : {"try", "acquire", "available"}, l : L,
                 w : Nat, at : Nat, from : Nat]

(* Whoever found something due holds a sample later than the mark it loaded. *)
SpansArePositive ==
  \A t \in Threads : thread[t].pc \in {"claim", "apply"} => thread[t].from < thread[t].at

TypeInv ==
  /\ now \in Nat
  /\ mark \in [L -> Nat] /\ amount \in [L -> Nat]
  /\ thread \in [Threads -> ThreadStates]
  /\ granted \in [L -> Nat] /\ passed \in Nat
  /\ inWindow \in [L -> Nat] /\ wiped \in [L -> BOOLEAN]
  /\ SpansArePositive

LEMMA LimiterTypes ==
  ASSUME NEW l \in L
  PROVE  /\ IsBucket(l) => /\ Limiters[l].capacity \in Nat \ {0}
                           /\ Limiters[l].rate \in Nat \ {0}
                           /\ Full(l) \in Nat
         /\ ~IsBucket(l) => /\ Limiters[l].limit \in Nat \ {0}
                            /\ Limiters[l].length \in Nat \ {0}
<1>1. Limiters[l] \in Bucket \cup Window
  BY LimiterAssumption DEF L
<1> QED
  BY <1>1, LimiterAssumption DEF IsBucket, Bucket, Window, Full

LEMMA IdleType == Idle \in ThreadStates
  BY LimiterAssumption DEF Idle, ThreadStates, L, Pcs

(* A quotient by a positive number is a natural, and no more than that of  *)
(* the whole.                                                              *)
LEMMA QuotientType ==
  ASSUME NEW a \in Nat, NEW b \in Nat \ {0}
  PROVE  a \div b \in Nat /\ (a \div b) * b <= a /\ (a = 0 => a \div b = 0)
  OBVIOUS

LEMMA ProductType == ASSUME NEW a \in Nat, NEW b \in Nat PROVE a * b \in Nat
  OBVIOUS

(* Something is due only after some time.                                  *)
LEMMA DueTakesTime ==
  ASSUME NEW l \in L, NEW elapsed \in Nat, Due(l, elapsed)
  PROVE  elapsed > 0
<1>1. CASE IsBucket(l)
  <2>1. SUFFICES ASSUME elapsed = 0 PROVE FALSE
    OBVIOUS
  <2>2. elapsed * Limiters[l].rate = 0
    BY <1>1, <2>1, LimiterTypes
  <2>3. Accrued(l, elapsed) = 0
    BY <2>2, QuotientType, LimiterAssumption DEF Accrued
  <2> QED
    BY <1>1, <2>3 DEF Due
<1>2. CASE ~IsBucket(l)
  BY <1>2, LimiterTypes DEF Due
<1> QED
  BY <1>1, <1>2

(* What a claim stores is no later than the sample it was made from.       *)
LEMMA NewMarkType ==
  ASSUME NEW l \in L, NEW from \in Nat, NEW at \in Nat, from < at
  PROVE  NewMark(l, from, at) \in Nat /\ NewMark(l, from, at) <= at
<1>1. CASE IsBucket(l)
  BY <1>1 DEF NewMark
<1>2. CASE ~IsBucket(l)
  <2> DEFINE n == (at - from) \div Limiters[l].length
  <2>1. Limiters[l].length \in Nat \ {0} /\ at - from \in Nat
    BY <1>2, LimiterTypes
  <2>2. n \in Nat /\ n * Limiters[l].length <= at - from
    BY <2>1, QuotientType
  <2>3. n * Limiters[l].length \in Nat
    BY <2>1, <2>2, ProductType
  <2> HIDE DEF n
  <2>4. NewMark(l, from, at) = from + n * Limiters[l].length
    BY <1>2 DEF NewMark, n
  <2> QED
    BY <2>2, <2>3, <2>4
<1> QED
  BY <1>1, <1>2

LEMMA AfterDueType ==
  ASSUME NEW l \in L, NEW n \in Nat, NEW elapsed \in Nat
  PROVE  AfterDue(l, n, elapsed) \in Nat
<1>1. CASE IsBucket(l)
  <2>1. elapsed * Limiters[l].rate \in Nat
    BY <1>1, LimiterTypes, ProductType
  <2>2. Accrued(l, elapsed) \in Nat
    BY <2>1, QuotientType, LimiterAssumption DEF Accrued
  <2> QED
    BY <1>1, <2>2, LimiterTypes DEF AfterDue, Least
<1>2. CASE ~IsBucket(l)
  BY <1>2 DEF AfterDue
<1> QED
  BY <1>1, <1>2

LEMMA AfterTakeType ==
  ASSUME NEW l \in L, NEW n \in Nat, NEW w \in Nat, Admits(l, n, w)
  PROVE  AfterTake(l, n, w) \in Nat
<1>1. w * TokenScale \in Nat
  BY ProductType, LimiterAssumption
<1> QED
  BY <1>1 DEF Admits, AfterTake

(* Where a thread goes when it is done with a limiter.                     *)
LEMMA AdvanceType ==
  ASSUME TypeInv, NEW t \in Threads, Advance(t)
  PROVE  /\ thread' \in [Threads -> ThreadStates]
         /\ thread'[t].pc \in {"idle", "clock"}
         /\ \A u \in Threads \ {t} : thread'[u] = thread[u]
<1> DEFINE next == IF thread[t].l = Len(Limiters) THEN Idle
                   ELSE [thread[t] EXCEPT !.pc = "clock", !.l = thread[t].l + 1, !.at = 0, !.from = 0]
<1>1. thread' = [thread EXCEPT ![t] = next]
  BY DEF Advance, TypeInv
<1>2. next \in ThreadStates /\ next.pc \in {"idle", "clock"}
  <2>1. CASE thread[t].l = Len(Limiters)
    BY <2>1, IdleType DEF Idle
  <2>2. CASE thread[t].l # Len(Limiters)
    <3>1. thread[t] \in ThreadStates /\ thread[t].l + 1 \in L
      BY <2>2, LimiterAssumption DEF TypeInv, ThreadStates, L
    <3> QED
      BY <2>2, <3>1 DEF ThreadStates, Pcs
  <2> QED
    BY <2>1, <2>2
<1> HIDE DEF next
<1> QED
  BY <1>1, <1>2 DEF TypeInv

LEMMA InitType == Init => TypeInv
<1> SUFFICES ASSUME Init PROVE TypeInv
  OBVIOUS
<1>1. amount \in [L -> Nat]
  BY LimiterTypes DEF Init
<1>2. thread \in [Threads -> ThreadStates]
  BY IdleType DEF Init
<1>3. SpansArePositive
  BY DEF Init, Idle, SpansArePositive
<1> QED
  BY <1>1, <1>2, <1>3 DEF Init, TypeInv

LEMMA NextType == TypeInv /\ [Next]_vars => TypeInv'
<1> SUFFICES ASSUME TypeInv, [Next]_vars PROVE TypeInv'
  OBVIOUS
<1>0. ASSUME NEW t \in Threads PROVE thread[t] \in ThreadStates
  BY DEF TypeInv
<1>1. CASE Tick
  BY <1>1 DEF Tick, TypeInv, SpansArePositive, history
<1>2. ASSUME NEW t \in Threads, NEW op \in {"try", "acquire", "available"}, NEW w \in Nat,
             Call(t, op, w)
      PROVE  TypeInv'
  <2>1. [Idle EXCEPT !.pc = "clock", !.op = op, !.w = w] \in ThreadStates
    BY IdleType DEF ThreadStates, Pcs
  <2> QED
    BY <1>2, <2>1 DEF Call, TypeInv, SpansArePositive, history
<1>3. ASSUME NEW t \in Threads, SampleClock(t) PROVE TypeInv'
  <2>1. [thread[t] EXCEPT !.pc = "mark", !.at = now] \in ThreadStates
    BY <1>0 DEF ThreadStates, Pcs, TypeInv
  <2>2. thread' \in [Threads -> ThreadStates]
    BY <1>3, <2>1 DEF SampleClock, TypeInv
  <2>3. SpansArePositive'
    BY <1>0, <1>3 DEF SampleClock, TypeInv, SpansArePositive, ThreadStates
  <2> QED
    BY <1>3, <2>2, <2>3 DEF SampleClock, TypeInv, history
<1>4. ASSUME NEW t \in Threads, LoadMark(t) PROVE TypeInv'
  <2> DEFINE l == thread[t].l
             pc == IF Due(l, Sat(thread[t].at, mark[l])) THEN "claim" ELSE "take"
  <2>1. l \in L /\ mark[l] \in Nat /\ thread[t].at \in Nat
    BY <1>0 DEF ThreadStates, TypeInv
  <2>2. pc = "claim" => mark[l] < thread[t].at
    BY <2>1, DueTakesTime DEF Sat
  <2>3. pc \in {"claim", "take"}
    OBVIOUS
  <2>4. thread' = [thread EXCEPT ![t] = [@ EXCEPT !.from = mark[l], !.pc = pc]]
    BY <1>4, <1>0 DEF LoadMark, TypeInv
  <2> HIDE DEF l, pc
  <2>5. thread' \in [Threads -> ThreadStates]
    BY <1>0, <2>1, <2>3, <2>4 DEF ThreadStates, Pcs, TypeInv
  <2>6. SpansArePositive'
    BY <1>0, <2>1, <2>2, <2>3, <2>4 DEF TypeInv, SpansArePositive, ThreadStates
  <2> QED
    BY <1>4, <2>5, <2>6 DEF LoadMark, TypeInv, history
<1>5. ASSUME NEW t \in Threads, Claim(t) PROVE TypeInv'
  <2> DEFINE l == thread[t].l
  <2>1. /\ l \in L /\ thread[t].from \in Nat /\ thread[t].at \in Nat
        /\ thread[t].from < thread[t].at
    BY <1>0, <1>5 DEF ThreadStates, TypeInv, SpansArePositive, Claim
  <2>2. NewMark(l, thread[t].from, thread[t].at) \in Nat
    BY <2>1, NewMarkType
  <2>3. mark' \in [L -> Nat] /\ inWindow' \in [L -> Nat] /\ wiped' \in [L -> BOOLEAN]
    <3>1. CASE mark[l] = thread[t].from
      <4>1. /\ mark' = [mark EXCEPT ![l] = NewMark(l, thread[t].from, thread[t].at)]
            /\ inWindow' = [inWindow EXCEPT ![l] = 0]
            /\ wiped' = [wiped EXCEPT ![l] = FALSE]
        BY <1>5, <3>1 DEF Claim
      <4> HIDE DEF l
      <4> QED
        BY <2>1, <2>2, <4>1 DEF TypeInv
    <3>2. CASE mark[l] # thread[t].from
      BY <1>5, <3>2 DEF Claim, TypeInv
    <3> QED
      BY <3>1, <3>2
  <2>4. \E pc \in {"apply", "take"} : thread' = [thread EXCEPT ![t].pc = pc]
    BY <1>5 DEF Claim
  <2>5. thread' \in [Threads -> ThreadStates] /\ SpansArePositive'
    BY <1>0, <2>1, <2>4 DEF ThreadStates, Pcs, TypeInv, SpansArePositive
  <2> QED
    BY <1>5, <2>3, <2>5 DEF Claim, TypeInv
<1>6. ASSUME NEW t \in Threads, ApplyDue(t) PROVE TypeInv'
  <2> DEFINE l == thread[t].l
  <2>1. l \in L /\ thread[t].at - thread[t].from \in Nat /\ amount[l] \in Nat
    BY <1>0, <1>6 DEF ThreadStates, TypeInv, SpansArePositive, ApplyDue
  <2>2. amount' \in [L -> Nat]
    BY <1>6, <2>1, AfterDueType DEF ApplyDue, TypeInv
  <2>3. thread' \in [Threads -> ThreadStates] /\ SpansArePositive'
    BY <1>0, <1>6 DEF ApplyDue, ThreadStates, Pcs, TypeInv, SpansArePositive
  <2> QED
    BY <1>6, <2>2, <2>3 DEF ApplyDue, TypeInv, history
<1>7. ASSUME NEW t \in Threads, Grant(t) PROVE TypeInv'
  <2> DEFINE l == thread[t].l
             w == thread[t].w
  <2>1. l \in L /\ w \in Nat /\ amount[l] \in Nat
    BY <1>0 DEF ThreadStates, TypeInv
  <2>2. amount' \in [L -> Nat]
    BY <1>7, <2>1, AfterTakeType DEF Grant, TypeInv
  <2>3. /\ granted' \in [L -> Nat] /\ inWindow' \in [L -> Nat] /\ wiped' \in [L -> BOOLEAN]
        /\ passed' \in Nat
    BY <1>7, <2>1 DEF Grant, TypeInv, ResetUnderWay
  <2>4. thread' \in [Threads -> ThreadStates] /\ SpansArePositive'
    BY <1>7, AdvanceType DEF Grant, TypeInv, SpansArePositive
  <2> QED
    BY <1>7, <2>2, <2>3, <2>4 DEF Grant, TypeInv
<1>8. ASSUME NEW t \in Threads, Refuse(t) PROVE TypeInv'
  <2>1. [thread[t] EXCEPT !.pc = "clock", !.at = 0, !.from = 0] \in ThreadStates
    BY <1>0 DEF ThreadStates, Pcs
  <2>2. thread' \in [Threads -> ThreadStates] /\ SpansArePositive'
    BY <1>8, <2>1, IdleType DEF Refuse, TypeInv, SpansArePositive, Idle
  <2> QED
    BY <1>8, <2>2 DEF Refuse, TypeInv, history
<1>9. ASSUME NEW t \in Threads, Retry(t) PROVE TypeInv'
  <2>1. [thread[t] EXCEPT !.pc = "clock", !.at = 0, !.from = 0] \in ThreadStates
    BY <1>0 DEF ThreadStates, Pcs
  <2>2. thread' = [thread EXCEPT ![t] = [thread[t] EXCEPT !.pc = "clock", !.at = 0, !.from = 0]]
    BY <1>9, Zenon DEF Retry
  <2>3. thread' \in [Threads -> ThreadStates] /\ SpansArePositive'
    BY <2>1, <2>2 DEF TypeInv, SpansArePositive
  <2> QED
    BY <1>9, <2>3 DEF Retry, TypeInv, history
<1>10. ASSUME NEW t \in Threads, ReadAvailable(t) PROVE TypeInv'
  <2>1. thread' \in [Threads -> ThreadStates] /\ SpansArePositive'
    BY <1>10, AdvanceType DEF ReadAvailable, TypeInv, SpansArePositive
  <2> QED
    BY <1>10, <2>1 DEF ReadAvailable, TypeInv, history
<1>11. CASE UNCHANGED vars
  BY <1>11 DEF vars, TypeInv, SpansArePositive
<1> QED
  BY <1>1, <1>2, <1>3, <1>4, <1>5, <1>6, <1>7, <1>8, <1>9, <1>10, <1>11, LimiterAssumption DEF Next

-----------------------------------------------------------------------------
(* Why a window keeps its limit.  From a claim to the reset that follows   *)
(* it the count is that of the window before, and nothing may have been    *)
(* granted in the new one; at any other time the count covers every grant. *)
WindowInv ==
  \A l \in L : ~IsBucket(l) =>
    /\ amount[l] <= Limiters[l].limit
    /\ ~wiped[l] => IF ResetUnderWay(l) THEN inWindow[l] = 0 ELSE inWindow[l] <= amount[l]

IInv == TypeInv /\ WindowInv

(* A step of a thread outside of claim and apply starts and ends no reset. *)
LEMMA SameResets ==
  ASSUME TypeInv, NEW t \in Threads, NEW l \in L,
         \A u \in Threads \ {t} : thread'[u] = thread[u],
         thread[t].pc # "apply", thread'[t].pc # "apply"
  PROVE  ResetUnderWay(l)' <=> ResetUnderWay(l)
BY DEF ResetUnderWay

(* Steps that change neither limiters nor history.                         *)
LEMMA QuietSteps ==
  ASSUME TypeInv, WindowInv, NEW t \in Threads,
         \A u \in Threads \ {t} : thread'[u] = thread[u],
         thread[t].pc # "apply", thread'[t].pc # "apply",
         UNCHANGED <<amount, inWindow, wiped>>
  PROVE  WindowInv'
<1> SUFFICES ASSUME NEW l \in L, ~IsBucket(l)
             PROVE  /\ amount[l] <= Limiters[l].limit
                    /\ ~wiped[l] => IF ResetUnderWay(l)' THEN inWindow[l] = 0 ELSE inWindow[l] <= amount[l]
  BY Zenon DEF WindowInv
<1>1. ResetUnderWay(l)' <=> ResetUnderWay(l)
  BY SameResets
<1> QED
  BY <1>1, Zenon DEF WindowInv

LEMMA ClaimKeepsWindow == ASSUME TypeInv, WindowInv, NEW t \in Threads, Claim(t) PROVE WindowInv'
<1> DEFINE k == thread[t].l
<1>0. k \in L
  BY DEF TypeInv, ThreadStates
<1>1. CASE mark[k] # thread[t].from
  <2>1. /\ thread' = [thread EXCEPT ![t].pc = "take"]
        /\ UNCHANGED <<amount, inWindow, wiped>> /\ thread[t].pc = "claim"
    BY <1>1 DEF Claim
  <2>2. thread'[t].pc # "apply" /\ \A u \in Threads \ {t} : thread'[u] = thread[u]
    BY <2>1 DEF TypeInv, ThreadStates
  <2> QED
    BY <2>1, <2>2, QuietSteps
<1>2. CASE mark[k] = thread[t].from
  <2>1. /\ thread' = [thread EXCEPT ![t].pc = "apply"] /\ amount' = amount
        /\ inWindow' = [inWindow EXCEPT ![k] = 0] /\ wiped' = [wiped EXCEPT ![k] = FALSE]
    BY <1>2 DEF Claim
  <2> SUFFICES ASSUME NEW l \in L, ~IsBucket(l)
               PROVE  /\ amount[l] <= Limiters[l].limit
                      /\ ~wiped'[l] => IF ResetUnderWay(l)' THEN inWindow'[l] = 0
                                                            ELSE inWindow'[l] <= amount[l]
    BY <2>1, Zenon DEF WindowInv
  <2>2. amount[l] <= Limiters[l].limit
    BY DEF WindowInv
  <2>3. CASE l = k
    <3>1. ResetUnderWay(l)'
      BY <2>1, <2>3 DEF ResetUnderWay, TypeInv
    <3>2. inWindow'[l] = 0
      BY <1>0, <2>1, <2>3 DEF TypeInv
    <3> QED
      BY <2>2, <3>1, <3>2
  <2>4. CASE l # k
    <3>1. ResetUnderWay(l)' <=> ResetUnderWay(l)
      BY <2>1, <2>4 DEF ResetUnderWay, TypeInv, Claim
    <3>2. inWindow'[l] = inWindow[l] /\ wiped'[l] = wiped[l]
      BY <2>1, <2>4 DEF TypeInv
    <3> QED
      BY <2>2, <3>1, <3>2, Zenon DEF WindowInv
  <2> QED
    BY <2>3, <2>4
<1> QED
  BY <1>1, <1>2

LEMMA ApplyKeepsWindow == ASSUME TypeInv, WindowInv, NEW t \in Threads, ApplyDue(t) PROVE WindowInv'
<1> DEFINE k == thread[t].l
<1>0. k \in L /\ thread[t].pc = "apply"
  BY DEF TypeInv, ThreadStates, ApplyDue
<1>1. /\ thread' = [thread EXCEPT ![t].pc = "take"] /\ inWindow' = inWindow /\ wiped' = wiped
      /\ amount' = [amount EXCEPT ![k] = AfterDue(k, amount[k], thread[t].at - thread[t].from)]
  BY DEF ApplyDue, history
<1> SUFFICES ASSUME NEW l \in L, ~IsBucket(l)
             PROVE  /\ amount'[l] <= Limiters[l].limit
                    /\ ~wiped[l] => IF ResetUnderWay(l)' THEN inWindow[l] = 0
                                                         ELSE inWindow[l] <= amount'[l]
  BY <1>1, Zenon DEF WindowInv
<1>2. CASE l = k
  <2>1. amount'[l] = 0
    BY <1>0, <1>1, <1>2 DEF TypeInv, AfterDue
  <2>2. ResetUnderWay(l)
    BY <1>0, <1>2 DEF ResetUnderWay
  <2>3. ~wiped[l] => inWindow[l] = 0
    BY <2>2 DEF WindowInv
  <2> QED
    BY <2>1, <2>3, LimiterTypes
<1>3. CASE l # k
  <2>1. ResetUnderWay(l)' <=> ResetUnderWay(l)
    BY <1>0, <1>1, <1>3 DEF ResetUnderWay, TypeInv
  <2>2. amount'[l] = amount[l]
    BY <1>1, <1>3 DEF TypeInv
  <2> QED
    BY <2>1, <2>2, Zenon DEF WindowInv
<1> QED
  BY <1>2, <1>3

LEMMA GrantKeepsWindow == ASSUME TypeInv, WindowInv, NEW t \in Threads, Grant(t) PROVE WindowInv'
<1> DEFINE k == thread[t].l
           w == thread[t].w
<1>0. k \in L /\ w \in Nat /\ thread[t].pc = "take"
  BY DEF TypeInv, ThreadStates, Grant
<1>1. /\ amount' = [amount EXCEPT ![k] = AfterTake(k, amount[k], w)]
      /\ inWindow' = [inWindow EXCEPT ![k] = inWindow[k] + w]
      /\ wiped' = [wiped EXCEPT ![k] = wiped[k] \/ ResetUnderWay(k)]
      /\ Admits(k, amount[k], w)
  BY Zenon DEF Grant
<1>2. thread'[t].pc # "apply" /\ \A u \in Threads \ {t} : thread'[u] = thread[u]
  BY AdvanceType DEF Grant
<1> SUFFICES ASSUME NEW l \in L, ~IsBucket(l)
             PROVE  /\ amount'[l] <= Limiters[l].limit
                    /\ ~wiped'[l] => IF ResetUnderWay(l)' THEN inWindow'[l] = 0
                                                          ELSE inWindow'[l] <= amount'[l]
  BY Zenon DEF WindowInv
<1>3. ResetUnderWay(l)' <=> ResetUnderWay(l)
  BY <1>0, <1>2, SameResets
<1>4. CASE l = k
  <2>1. /\ amount'[l] = amount[l] + w /\ inWindow'[l] = inWindow[l] + w
        /\ wiped'[l] = (wiped[l] \/ ResetUnderWay(l))
    BY <1>0, <1>1, <1>4 DEF TypeInv, AfterTake
  <2>2. amount'[l] <= Limiters[l].limit
    BY <1>1, <1>4, <2>1 DEF Admits
  <2>3. ASSUME ~wiped'[l] PROVE ~ResetUnderWay(l) /\ inWindow[l] <= amount[l]
    BY <2>1, <2>3 DEF WindowInv
  <2>4. ASSUME ~wiped'[l] PROVE inWindow'[l] <= amount'[l]
    BY <1>0, <2>1, <2>3, <2>4 DEF TypeInv
  <2> QED
    BY <1>3, <2>2, <2>3, <2>4
<1>5. CASE l # k
  <2>1. amount'[l] = amount[l] /\ inWindow'[l] = inWindow[l] /\ wiped'[l] = wiped[l]
    BY <1>1, <1>5 DEF TypeInv
  <2> QED
    BY <1>3, <2>1, Zenon DEF WindowInv
<1> QED
  BY <1>4, <1>5

LEMMA InitWindow == Init => WindowInv
<1> SUFFICES ASSUME Init, NEW l \in L, ~IsBucket(l)
             PROVE  amount[l] <= Limiters[l].limit /\ inWindow[l] = 0 /\ amount[l] = 0
  BY DEF WindowInv
<1> QED
  BY LimiterTypes DEF Init

LEMMA NextWindow == TypeInv /\ WindowInv /\ [Next]_vars => WindowInv'
<1> SUFFICES ASSUME TypeInv, WindowInv, [Next]_vars PROVE WindowInv'
  OBVIOUS
<1>1. CASE Tick
  BY <1>1 DEF Tick, history, WindowInv, ResetUnderWay
<1>2. ASSUME NEW t \in Threads, NEW op, NEW w, Call(t, op, w) PROVE WindowInv'
  BY <1>2, QuietSteps DEF Call, TypeInv, history, Idle
<1>3. ASSUME NEW t \in Threads, SampleClock(t) PROVE WindowInv'
  BY <1>3, QuietSteps DEF SampleClock, TypeInv, history, ThreadStates
<1>4. ASSUME NEW t \in Threads, LoadMark(t) PROVE WindowInv'
  BY <1>4, QuietSteps DEF LoadMark, TypeInv, history, ThreadStates
<1>5. ASSUME NEW t \in Threads, Refuse(t) PROVE WindowInv'
  BY <1>5, QuietSteps DEF Refuse, TypeInv, history, Idle, ThreadStates
<1>6. ASSUME NEW t \in Threads, Retry(t) PROVE WindowInv'
  BY <1>6, QuietSteps DEF Retry, TypeInv, history, ThreadStates
<1>7. ASSUME NEW t \in Threads, ReadAvailable(t) PROVE WindowInv'
  BY <1>7, QuietSteps, AdvanceType DEF ReadAvailable, history
<1>8. CASE UNCHANGED vars
  BY <1>8 DEF vars, WindowInv, ResetUnderWay
<1> QED
  BY <1>1, <1>2, <1>3, <1>4, <1>5, <1>6, <1>7, <1>8,
     ClaimKeepsWindow, ApplyKeepsWindow, GrantKeepsWindow DEF Next

(* fixed_window.rs: no window grants more than its limit unless a grant    *)
(* falls between another thread's claim of the window and its reset of the *)
(* count.                                                                  *)
THEOREM WindowsKeepLimit == Spec => []WindowKeepsLimit
<1>1. Init => IInv
  BY InitType, InitWindow DEF IInv
<1>2. IInv /\ [Next]_vars => IInv'
  BY NextType, NextWindow DEF IInv
<1>3. IInv => WindowKeepsLimit
  <2> SUFFICES ASSUME IInv, NEW l \in L, ~IsBucket(l), ~wiped[l]
               PROVE  inWindow[l] <= Limiters[l].limit
    BY DEF WindowKeepsLimit
  <2>1. inWindow[l] = 0 \/ inWindow[l] <= amount[l]
    BY DEF IInv, WindowInv
  <2> QED
    BY <2>1, LimiterTypes DEF IInv, TypeInv, WindowInv
<1> QED
  BY <1>1, <1>2, <1>3, PTL DEF Spec

-----------------------------------------------------------------------------
(* Why a bucket keeps its quota.  The time until its mark is credited once: *)
(* either it is part of the tokens already, or it is Owed, part of the span *)
(* of a thread that claimed it and is about to apply it.  No two threads    *)
(* hold the same span, so that Credit can count what is owed.               *)
InSpan(t, l, i) ==
  /\ thread[t].pc = "apply" /\ thread[t].l = l
  /\ thread[t].from <= i /\ i < thread[t].at

Owed(l) == {i \in 0 .. mark[l] - 1 : \E t \in Threads : InSpan(t, l, i)}

Credit(l) ==
  RateScale * (granted[l] * TokenScale + amount[l]) + Limiters[l].rate * Cardinality(Owed(l))
    <= RateScale * Full(l) + Limiters[l].rate * mark[l]

ClockInv ==
  /\ \A t \in Threads : thread[t].at <= now
  /\ \A l \in L : mark[l] <= now

WeightInv ==
  \A t \in Threads : thread[t].pc # "idle" /\ thread[t].op # "available" => thread[t].w \in Weights

SpanInv ==
  \A t \in Threads : thread[t].pc = "apply" /\ IsBucket(thread[t].l) =>
    /\ thread[t].at <= mark[thread[t].l]
    /\ \A u \in Threads \ {t} : thread[u].pc = "apply" /\ thread[u].l = thread[t].l =>
         thread[u].at <= thread[t].from \/ thread[t].at <= thread[u].from

CreditInv == \A l \in L : IsBucket(l) => Credit(l)

BucketInv == ClockInv /\ WeightInv /\ SpanInv /\ CreditInv

LEMMA OwedIsFinite ==
  ASSUME TypeInv, NEW l \in L
  PROVE  IsFiniteSet(Owed(l)) /\ Cardinality(Owed(l)) \in Nat
<1>1. mark[l] - 1 \in Int
  BY DEF TypeInv
<1>2. IsFiniteSet(0 .. mark[l] - 1)
  BY <1>1, FS_Interval
<1>3. Owed(l) \in SUBSET (0 .. mark[l] - 1)
  BY DEF Owed
<1> QED
  BY <1>2, <1>3, FS_Subset, FS_CardinalityType

LEMMA SpanSize ==
  ASSUME NEW a \in Nat, NEW b \in Nat, a < b
  PROVE  IsFiniteSet(a .. b - 1) /\ Cardinality(a .. b - 1) = b - a
<1>1. b - 1 \in Int /\ ~(a > b - 1) /\ (b - 1) - a + 1 = b - a
  OBVIOUS
<1> QED
  BY <1>1, FS_Interval

(* Tokens accrued are worth no more than the time they accrued in.         *)
LEMMA AccruedIsCovered ==
  ASSUME NEW l \in L, IsBucket(l), NEW elapsed \in Nat
  PROVE  Accrued(l, elapsed) \in Nat /\ RateScale * Accrued(l, elapsed) <= Limiters[l].rate * elapsed
<1>1. elapsed * Limiters[l].rate \in Nat /\ elapsed * Limiters[l].rate = Limiters[l].rate * elapsed
  BY LimiterTypes, ProductType
<1>2. RateScale \in Nat \ {0}
  BY LimiterAssumption
<1> DEFINE n == elapsed * Limiters[l].rate
<1>3. n \div RateScale \in Nat /\ (n \div RateScale) * RateScale <= n
  BY <1>1, <1>2, QuotientType
<1>4. RateScale * (n \div RateScale) = (n \div RateScale) * RateScale
  BY <1>2, <1>3
<1> QED
  BY <1>1, <1>3, <1>4 DEF Accrued

LEMMA Distributes ==
  ASSUME NEW a \in Int, NEW b \in Int, NEW c \in Int
  PROVE  a * (b + c) = a * b + a * c
  OBVIOUS

LEMMA Ascends ==
  ASSUME NEW a \in Nat, NEW b \in Int, NEW c \in Int, b <= c
  PROVE  a * b <= a * c
  OBVIOUS

(* A span is claimed: as much time is credited as becomes owed.            *)
LEMMA ClaimArithmetic ==
  ASSUME NEW rate \in Nat, NEW size \in Nat, NEW d \in Nat, NEW m \in Nat,
         NEW x \in Int, NEW y \in Int, x + rate * size <= y + rate * m
  PROVE  x + rate * (size + d) <= y + rate * (m + d)
<1>1. rate * (size + d) = rate * size + rate * d /\ rate * (m + d) = rate * m + rate * d
  BY Distributes
<1>2. rate * size \in Int /\ rate * m \in Int /\ rate * d \in Int
  OBVIOUS
<1> QED
  BY <1>1, <1>2

(* A span is applied: the tokens it yields are worth no more than it.      *)
LEMMA ApplyArithmetic ==
  ASSUME NEW scale \in Nat, NEW g \in Nat, NEW n \in Nat, NEW n2 \in Nat, NEW acc \in Nat,
         NEW rate \in Nat, NEW size \in Nat, NEW d \in Nat, NEW bound \in Int,
         n2 <= n + acc, scale * acc <= rate * d,
         scale * (g + n) + rate * size <= bound
  PROVE  scale * (g + n2) + rate * (size - d) <= bound
<1>1. scale * (g + n2) <= scale * ((g + n) + acc)
  BY Ascends
<1>2. scale * ((g + n) + acc) = scale * (g + n) + scale * acc
  BY Distributes
<1>3. rate * (size - d) = rate * size - rate * d
  OBVIOUS
<1>4. /\ scale * (g + n2) \in Int /\ scale * (g + n) \in Int /\ scale * acc \in Int
      /\ rate * size \in Int /\ rate * d \in Int
  OBVIOUS
<1> QED
  BY <1>1, <1>2, <1>3, <1>4

(* Steps that claim, apply and grant nothing.                              *)
LEMMA QuietCredit ==
  ASSUME TypeInv, SpanInv, CreditInv, NEW t \in Threads,
         \A u \in Threads \ {t} : thread'[u] = thread[u],
         thread[t].pc # "apply", thread'[t].pc # "apply",
         UNCHANGED <<mark, amount, granted>>
  PROVE  SpanInv' /\ CreditInv'
<1>1. ASSUME NEW l \in L PROVE Owed(l)' = Owed(l)
  BY DEF Owed, InSpan
<1>2. CreditInv'
  BY <1>1 DEF CreditInv, Credit
<1>3. SpanInv'
  BY DEF SpanInv
<1> QED
  BY <1>2, <1>3

LEMMA ClaimKeepsCredit ==
  ASSUME TypeInv, ClockInv, SpanInv, CreditInv, NEW t \in Threads, Claim(t)
  PROVE  ClockInv' /\ SpanInv' /\ CreditInv'
<1>0. PICK k \in L, from \in Nat, at \in Nat :
        /\ thread[t].l = k /\ thread[t].from = from /\ thread[t].at = at /\ from < at
        /\ thread[t].pc = "claim" /\ thread[t] \in ThreadStates
  BY DEF TypeInv, ThreadStates, Claim, SpansArePositive
<1>1. CASE mark[k] # from
  <2>1. /\ thread' = [thread EXCEPT ![t].pc = "take"]
        /\ UNCHANGED <<now, mark, amount, granted>>
    BY <1>0, <1>1 DEF Claim
  <2>2. /\ thread'[t].pc # "apply" /\ thread'[t].at = thread[t].at
        /\ \A u \in Threads \ {t} : thread'[u] = thread[u]
    BY <1>0, <2>1 DEF TypeInv, ThreadStates
  <2>3. ClockInv'
    BY <2>1, <2>2 DEF ClockInv
  <2> QED
    BY <1>0, <2>1, <2>2, <2>3, QuietCredit
<1>2. CASE mark[k] = from
  <2>1. /\ thread' = [thread EXCEPT ![t].pc = "apply"]
        /\ mark' = [mark EXCEPT ![k] = NewMark(k, from, at)]
        /\ UNCHANGED <<now, amount, granted>>
    BY <1>0, <1>2 DEF Claim
  <2>2. /\ thread'[t].pc = "apply" /\ thread'[t].at = at /\ thread'[t].from = from
        /\ thread'[t].l = k
        /\ \A u \in Threads \ {t} : thread'[u] = thread[u]
    BY <1>0, <2>1 DEF TypeInv, ThreadStates
  <2>3. NewMark(k, from, at) \in Nat /\ NewMark(k, from, at) <= at
    BY <1>0, NewMarkType
  <2>4. mark'[k] = NewMark(k, from, at) /\ \A l \in L \ {k} : mark'[l] = mark[l]
    BY <1>0, <2>1 DEF TypeInv
  <2>5. ClockInv'
    <3>1. \A u \in Threads : thread'[u].at <= now'
      BY <1>0, <2>1, <2>2 DEF ClockInv
    <3>2. at <= now /\ now \in Nat
      BY <1>0 DEF ClockInv, TypeInv
    <3>3. \A l \in L : mark'[l] <= now'
      BY <1>0, <2>1, <2>3, <2>4, <3>2 DEF ClockInv
    <3> QED
      BY <3>1, <3>3 DEF ClockInv
  <2>6. CASE IsBucket(k)
    <3>1. mark'[k] = at
      BY <2>4, <2>6 DEF NewMark
    (* Every span of before ends at the old mark or earlier.               *)
    <3>2. ASSUME NEW u \in Threads, thread[u].pc = "apply", thread[u].l = k
          PROVE  thread[u].at <= from
      BY <1>0, <1>2, <2>6, <3>2 DEF SpanInv
    <3>3. SpanInv'
      <4> SUFFICES ASSUME NEW u \in Threads, thread'[u].pc = "apply", IsBucket(thread'[u].l)
                   PROVE  /\ thread'[u].at <= mark'[thread'[u].l]
                          /\ \A v \in Threads \ {u} :
                               thread'[v].pc = "apply" /\ thread'[v].l = thread'[u].l =>
                                 thread'[v].at <= thread'[u].from \/ thread'[u].at <= thread'[v].from
        BY DEF SpanInv
      <4>1. CASE u = t
        BY <1>0, <2>2, <3>1, <3>2, <4>1
      <4>2. CASE u # t
        <5>1. thread'[u] = thread[u] /\ thread[u] \in ThreadStates
          BY <2>2, <4>2 DEF TypeInv
        <5>2. thread[u].at <= mark'[thread[u].l]
          <6>1. CASE thread[u].l = k
            BY <1>0, <3>1, <3>2, <5>1, <6>1 DEF ThreadStates
          <6>2. CASE thread[u].l # k
            BY <2>4, <5>1, <6>2 DEF SpanInv, ThreadStates
          <6> QED
            BY <6>1, <6>2
        <5>3. ASSUME NEW v \in Threads \ {u}, thread'[v].pc = "apply", thread'[v].l = thread[u].l
              PROVE  thread'[v].at <= thread[u].from \/ thread[u].at <= thread'[v].from
          <6>1. CASE v = t
            BY <2>2, <3>2, <5>1, <5>3, <6>1
          <6>2. CASE v # t
            BY <2>2, <5>1, <5>3, <6>2 DEF SpanInv
          <6> QED
            BY <6>1, <6>2
        <5> QED
          BY <5>1, <5>2, <5>3
      <4> QED
        BY <4>1, <4>2
    <3>4. CreditInv'
      <4> SUFFICES ASSUME NEW l \in L, IsBucket(l) PROVE Credit(l)'
        BY DEF CreditInv
      <4>1. CASE l = k
        <5>1. Owed(k)' = Owed(k) \cup (from .. at - 1)
          <6>1. \A i : (\E u \in Threads : InSpan(u, k, i)')
                         <=> ((\E u \in Threads : InSpan(u, k, i)) \/ (from <= i /\ i < at))
            BY <1>0, <2>2 DEF InSpan
          <6>2. \A u \in Threads : \A i : InSpan(u, k, i) => i < from \/ ~(i \in Nat)
            BY <1>0, <3>2 DEF InSpan, TypeInv, ThreadStates
          <6>3. Owed(k)' = {i \in 0 .. at - 1 : \E u \in Threads : InSpan(u, k, i)'}
            BY <3>1 DEF Owed
          <6>4. Owed(k) = {i \in 0 .. from - 1 : \E u \in Threads : InSpan(u, k, i)}
            BY <1>2 DEF Owed
          <6>5. ASSUME NEW i
                PROVE  i \in Owed(k)' <=> i \in Owed(k) \/ i \in from .. at - 1
            BY <1>0, <6>1, <6>2, <6>3, <6>4
          <6> QED
            BY <6>5
        <5>2. Owed(k) \cap (from .. at - 1) = {}
          BY <1>0, <1>2 DEF Owed
        <5>3. IsFiniteSet(Owed(k)) /\ Cardinality(Owed(k)) \in Nat
          BY <1>0, OwedIsFinite
        <5>4. IsFiniteSet(from .. at - 1) /\ Cardinality(from .. at - 1) = at - from
          BY <1>0, SpanSize
        <5>5. Cardinality(Owed(k)') = Cardinality(Owed(k)) + (at - from)
          <6>1. Cardinality(Owed(k) \cup (from .. at - 1))
                  = Cardinality(Owed(k)) + Cardinality(from .. at - 1)
                      - Cardinality(Owed(k) \cap (from .. at - 1))
            BY <5>3, <5>4, FS_Union, Zenon
          <6>2. Cardinality(Owed(k) \cap (from .. at - 1)) = 0
            BY <5>2, FS_EmptySet, Zenon
          <6>3. Cardinality(Owed(k)') = Cardinality(Owed(k) \cup (from .. at - 1))
            BY <5>1, Zenon
          <6> QED
            BY <1>0, <5>3, <5>4, <6>1, <6>2, <6>3
        <5>6. /\ Limiters[k].rate \in Nat /\ at - from \in Nat /\ from + (at - from) = at
              /\ RateScale * (granted[k] * TokenScale + amount[k]) \in Int
              /\ RateScale * Full(k) \in Int
          <6>1. /\ granted[k] \in Nat /\ amount[k] \in Nat /\ Full(k) \in Nat
                /\ RateScale \in Nat /\ TokenScale \in Nat /\ Limiters[k].rate \in Nat
            BY <2>6, LimiterTypes, LimiterAssumption DEF TypeInv
          <6>2. granted[k] * TokenScale + amount[k] \in Nat
            BY <6>1
          <6> HIDE DEF Full
          <6> QED
            BY <1>0, <6>1, <6>2, ProductType
        <5>7. RateScale * (granted[k] * TokenScale + amount[k]) + Limiters[k].rate * Cardinality(Owed(k))
                <= RateScale * Full(k) + Limiters[k].rate * from
          BY <1>0, <1>2, <2>6 DEF CreditInv, Credit
        <5>8. RateScale * (granted[k] * TokenScale + amount[k])
                + Limiters[k].rate * (Cardinality(Owed(k)) + (at - from))
                <= RateScale * Full(k) + Limiters[k].rate * (from + (at - from))
          BY <1>0, <5>3, <5>6, <5>7, ClaimArithmetic
        <5> QED
          BY <2>1, <3>1, <4>1, <5>5, <5>6, <5>8 DEF Credit
      <4>2. CASE l # k
        <5>1. mark'[l] = mark[l]
          BY <2>4, <4>2
        <5>2. Owed(l)' = Owed(l)
          BY <1>0, <2>2, <4>2, <5>1 DEF Owed, InSpan
        <5> QED
          BY <2>1, <5>1, <5>2 DEF CreditInv, Credit
      <4> QED
        BY <4>1, <4>2
    <3> QED
      BY <2>5, <3>3, <3>4
  <2>7. CASE ~IsBucket(k)
    <3>1. ASSUME NEW l \in L, IsBucket(l) PROVE mark'[l] = mark[l] /\ Owed(l)' = Owed(l)
      <4>1. l # k /\ mark'[l] = mark[l]
        BY <2>4, <2>7, <3>1
      <4> QED
        BY <1>0, <2>2, <4>1 DEF Owed, InSpan
    <3>2. CreditInv'
      BY <2>1, <3>1 DEF CreditInv, Credit
    <3>3. SpanInv'
      BY <1>0, <2>2, <2>4, <2>7 DEF SpanInv, TypeInv, ThreadStates
    <3> QED
      BY <2>5, <3>2, <3>3
  <2> QED
    BY <2>6, <2>7
<1> QED
  BY <1>1, <1>2

LEMMA ApplyKeepsCredit ==
  ASSUME TypeInv, ClockInv, SpanInv, CreditInv, NEW t \in Threads, ApplyDue(t)
  PROVE  ClockInv' /\ SpanInv' /\ CreditInv'
<1>0. PICK k \in L, from \in Nat, at \in Nat :
        /\ thread[t].l = k /\ thread[t].from = from /\ thread[t].at = at /\ from < at
        /\ thread[t].pc = "apply" /\ thread[t] \in ThreadStates
  BY DEF TypeInv, ThreadStates, ApplyDue, SpansArePositive
<1>1. /\ thread' = [thread EXCEPT ![t].pc = "take"]
      /\ amount' = [amount EXCEPT ![k] = AfterDue(k, amount[k], at - from)]
      /\ UNCHANGED <<now, mark, granted>>
  BY <1>0 DEF ApplyDue, history
<1>2. /\ thread'[t].pc = "take" /\ thread'[t].at = at
      /\ \A u \in Threads \ {t} : thread'[u] = thread[u]
  BY <1>0, <1>1 DEF TypeInv, ThreadStates
<1>3. ClockInv'
  BY <1>0, <1>1, <1>2 DEF ClockInv
<1>4. SpanInv'
  BY <1>0, <1>1, <1>2 DEF SpanInv
<1>5. CreditInv'
  <2> SUFFICES ASSUME NEW l \in L, IsBucket(l) PROVE Credit(l)'
    BY DEF CreditInv
  <2>1. CASE l = k
    <3>1. at <= mark[k]
      BY <1>0, <2>1 DEF SpanInv
    <3>2. ASSUME NEW u \in Threads \ {t}, NEW i \in from .. at - 1
          PROVE  ~InSpan(u, k, i)
      <4>1. thread[u].from \in Nat /\ thread[u].at \in Nat
        BY DEF TypeInv, ThreadStates
      <4>2. thread[u].pc = "apply" /\ thread[u].l = k => thread[u].at <= from \/ at <= thread[u].from
        BY <1>0, <2>1 DEF SpanInv
      <4> QED
        BY <1>0, <4>1, <4>2 DEF InSpan
    <3>3. Owed(k)' = Owed(k) \ (from .. at - 1)
      <4>1. \A i \in Nat : InSpan(t, k, i) <=> i \in from .. at - 1
        BY <1>0 DEF InSpan
      <4>2. \A i : ~InSpan(t, k, i)'
        BY <1>2 DEF InSpan
      <4>3. \A u \in Threads \ {t} : \A i : InSpan(u, k, i)' <=> InSpan(u, k, i)
        BY <1>2 DEF InSpan
      <4>4. Owed(k)' = {i \in 0 .. mark[k] - 1 : \E u \in Threads : InSpan(u, k, i)'}
        BY <1>1 DEF Owed
      <4>5. Owed(k) = {i \in 0 .. mark[k] - 1 : \E u \in Threads : InSpan(u, k, i)}
        BY DEF Owed
      <4>6. ASSUME NEW i \in 0 .. mark[k] - 1
            PROVE  (\E u \in Threads : InSpan(u, k, i)')
                     <=> (\E u \in Threads : InSpan(u, k, i)) /\ i \notin from .. at - 1
        <5>1. i \in Nat
          BY DEF TypeInv
        <5> QED
          BY <3>2, <4>1, <4>2, <4>3, <5>1
      <4> QED
        BY <4>4, <4>5, <4>6
    <3>4. Owed(k) \cap (from .. at - 1) = from .. at - 1
      <4>1. mark[k] \in Nat
        BY DEF TypeInv
      <4>2. ASSUME NEW i \in from .. at - 1 PROVE i \in Owed(k)
        BY <1>0, <3>1, <4>1, <4>2 DEF Owed, InSpan
      <4> QED
        BY <4>2
    <3>5. IsFiniteSet(Owed(k)) /\ Cardinality(Owed(k)) \in Nat
      BY OwedIsFinite
    <3>6. Cardinality(from .. at - 1) = at - from
      BY <1>0, SpanSize
    <3>7. Cardinality(Owed(k)') = Cardinality(Owed(k)) - (at - from)
      <4>1. Cardinality(Owed(k) \ (from .. at - 1))
              = Cardinality(Owed(k)) - Cardinality(Owed(k) \cap (from .. at - 1))
        BY <3>5, FS_Difference, Zenon
      <4> QED
        BY <3>3, <3>4, <3>6, <4>1, Zenon
    <3> DEFINE g == granted[k] * TokenScale
               acc == Accrued(k, at - from)
               rate == Limiters[k].rate
    <3>8. at - from \in Nat
      BY <1>0
    <3>9. /\ granted[k] \in Nat /\ amount[k] \in Nat /\ Full(k) \in Nat /\ mark[k] \in Nat
          /\ RateScale \in Nat /\ TokenScale \in Nat /\ rate \in Nat
      BY <2>1, LimiterTypes, LimiterAssumption DEF TypeInv
    <3>10. acc \in Nat /\ RateScale * acc <= rate * (at - from)
      BY <2>1, <3>8, AccruedIsCovered
    <3>11. amount'[k] \in Nat /\ amount'[k] <= amount[k] + acc
      <4>1. amount'[k] = Least(amount[k] + acc, Full(k))
        BY <1>1, <2>1 DEF AfterDue, TypeInv
      <4> HIDE DEF acc
      <4> QED
        BY <3>9, <3>10, <4>1 DEF Least
    <3>12. g \in Nat /\ RateScale * Full(k) \in Nat /\ rate * mark[k] \in Nat
      BY <3>9, ProductType
    <3>13. RateScale * (g + amount[k]) + rate * Cardinality(Owed(k)) <= RateScale * Full(k) + rate * mark[k]
      BY <2>1 DEF CreditInv, Credit
    <3> HIDE DEF g, acc, rate
    <3>14. RateScale * (g + amount'[k]) + rate * (Cardinality(Owed(k)) - (at - from))
             <= RateScale * Full(k) + rate * mark[k]
      <4>1. RateScale * Full(k) + rate * mark[k] \in Int
        BY <3>12
      <4> QED
        BY <3>5, <3>8, <3>9, <3>10, <3>11, <3>12, <3>13, <4>1, ApplyArithmetic
    <3> QED
      BY <1>1, <2>1, <3>7, <3>14 DEF Credit, g, rate
  <2>2. CASE l # k
    <3>1. Owed(l)' = Owed(l)
      BY <1>0, <1>1, <1>2, <2>2 DEF Owed, InSpan
    <3>2. amount'[l] = amount[l]
      BY <1>1, <2>2 DEF TypeInv
    <3> QED
      BY <1>1, <3>1, <3>2 DEF CreditInv, Credit
  <2> QED
    BY <2>1, <2>2
<1> QED
  BY <1>3, <1>4, <1>5

(* What a grant takes from the tokens it adds to what was granted.         *)
LEMMA GrantKeepsCredit ==
  ASSUME TypeInv, ClockInv, SpanInv, CreditInv, NEW t \in Threads, Grant(t)
  PROVE  ClockInv' /\ SpanInv' /\ CreditInv'
<1>0. PICK k \in L, w \in Nat :
        thread[t].l = k /\ thread[t].w = w /\ thread[t].pc = "take"
  BY DEF TypeInv, ThreadStates, Grant
<1>1. /\ amount' = [amount EXCEPT ![k] = AfterTake(k, amount[k], w)]
      /\ granted' = [granted EXCEPT ![k] = granted[k] + w]
      /\ Admits(k, amount[k], w) /\ UNCHANGED <<now, mark>>
  BY <1>0 DEF Grant
<1>2. /\ thread'[t].pc # "apply" /\ \A u \in Threads \ {t} : thread'[u] = thread[u]
      /\ thread' \in [Threads -> ThreadStates]
  BY AdvanceType DEF Grant
<1>3. ASSUME NEW l \in L PROVE Owed(l)' = Owed(l)
  BY <1>0, <1>1, <1>2 DEF Owed, InSpan
<1>4. ClockInv'
  <2>1. thread'[t].at <= now
    <3>1. thread'[t].at \in {thread[t].at, 0}
      BY DEF Grant, Advance, Idle, TypeInv, ThreadStates
    <3> QED
      BY <3>1 DEF ClockInv, TypeInv
  <2> QED
    BY <1>1, <1>2, <2>1 DEF ClockInv
<1>5. SpanInv'
  BY <1>1, <1>2 DEF SpanInv
<1>6. CreditInv'
  <2> SUFFICES ASSUME NEW l \in L, IsBucket(l) PROVE Credit(l)'
    BY DEF CreditInv
  <2>1. CASE l = k
    <3>1. /\ amount'[k] = amount[k] - w * TokenScale /\ granted'[k] = granted[k] + w
      BY <1>1, <2>1 DEF AfterTake, TypeInv
    <3>2. granted[k] \in Nat /\ amount[k] \in Nat /\ TokenScale \in Nat
      BY LimiterAssumption DEF TypeInv
    <3>3. (granted[k] + w) * TokenScale = granted[k] * TokenScale + w * TokenScale
      BY <3>2
    <3>4. granted[k] * TokenScale \in Nat /\ w * TokenScale \in Nat
      BY <3>2, ProductType
    <3>5. granted'[k] * TokenScale + amount'[k] = granted[k] * TokenScale + amount[k]
      BY <3>1, <3>2, <3>3, <3>4
    <3> QED
      BY <1>1, <1>3, <2>1, <3>5 DEF CreditInv, Credit
  <2>2. CASE l # k
    <3>1. amount'[l] = amount[l] /\ granted'[l] = granted[l]
      BY <1>1, <2>2 DEF TypeInv
    <3> QED
      BY <1>1, <1>3, <3>1 DEF CreditInv, Credit
  <2> QED
    BY <2>1, <2>2
<1> QED
  BY <1>4, <1>5, <1>6

LEMMA InitBucket == Init => BucketInv
<1> SUFFICES ASSUME Init PROVE BucketInv
  OBVIOUS
<1>1. ClockInv /\ WeightInv /\ SpanInv
  BY DEF Init, Idle, ClockInv, WeightInv, SpanInv
<1>2. ASSUME NEW l \in L, IsBucket(l) PROVE Credit(l)
  <2>1. Owed(l) = {}
    BY DEF Init, Owed
  <2>2. Cardinality(Owed(l)) = 0
    BY <2>1, FS_EmptySet, Zenon
  <2>3. Full(l) \in Nat /\ Limiters[l].rate \in Nat /\ RateScale \in Nat /\ TokenScale \in Nat
    BY <1>2, LimiterTypes, LimiterAssumption
  <2>4. amount[l] = Full(l) /\ granted[l] = 0 /\ mark[l] = 0
    BY <1>2 DEF Init
  <2>5. granted[l] * TokenScale + amount[l] = Full(l)
    BY <2>3, <2>4
  <2>6. RateScale * Full(l) \in Nat /\ Limiters[l].rate * 0 = 0
    BY <2>3, ProductType
  <2> QED
    BY <2>2, <2>4, <2>5, <2>6 DEF Credit
<1> QED
  BY <1>1, <1>2 DEF BucketInv, CreditInv

(* What the steps that change no limiter, and an Advance, make of a thread. *)
LEMMA ThreadMoves ==
  ASSUME TypeInv, NEW t \in Threads,
         SampleClock(t) \/ LoadMark(t) \/ Refuse(t) \/ Retry(t) \/ Advance(t)
  PROVE  /\ \A u \in Threads \ {t} : thread'[u] = thread[u]
         /\ thread'[t].pc # "apply" /\ thread'[t].at \in {thread[t].at, 0, now}
         /\ \/ thread'[t].pc = "idle"
            \/ thread'[t].op = thread[t].op /\ thread'[t].w = thread[t].w
<1>0. thread[t] \in ThreadStates /\ thread \in [Threads -> ThreadStates]
  BY DEF TypeInv
<1>1. CASE SampleClock(t)
  BY <1>0, <1>1 DEF SampleClock, ThreadStates
<1>2. CASE LoadMark(t)
  <2>1. \E pc \in {"claim", "take"} :
          thread' = [thread EXCEPT ![t] = [thread[t] EXCEPT !.from = mark[thread[t].l], !.pc = pc]]
    BY <1>0, <1>2 DEF LoadMark
  <2> QED
    BY <1>0, <2>1 DEF ThreadStates
<1> DEFINE again == [thread[t] EXCEPT !.pc = "clock", !.at = 0, !.from = 0]
<1>3. again.pc = "clock" /\ again.at = 0 /\ again.op = thread[t].op /\ again.w = thread[t].w
  BY <1>0 DEF ThreadStates
<1>4. CASE Refuse(t)
  <2>1. thread' = [thread EXCEPT ![t] = IF thread[t].op = "try" THEN Idle ELSE again]
    BY <1>4 DEF Refuse
  <2> HIDE DEF again
  <2> QED
    BY <1>0, <1>3, <2>1 DEF Idle
<1>5. CASE Retry(t)
  <2>1. thread' = [thread EXCEPT ![t] = again]
    BY <1>5, Zenon DEF Retry
  <2> HIDE DEF again
  <2> QED
    BY <1>0, <1>3, <2>1
<1>6. CASE Advance(t)
  <2> DEFINE next == [thread[t] EXCEPT !.pc = "clock", !.l = thread[t].l + 1, !.at = 0, !.from = 0]
  <2>1. thread' = [thread EXCEPT ![t] = IF thread[t].l = Len(Limiters) THEN Idle ELSE next]
    BY <1>6 DEF Advance
  <2>2. next.pc = "clock" /\ next.at = 0 /\ next.op = thread[t].op /\ next.w = thread[t].w
    BY <1>0 DEF ThreadStates
  <2> HIDE DEF next
  <2> QED
    BY <1>0, <2>1, <2>2 DEF Idle
<1> QED
  BY <1>1, <1>2, <1>4, <1>5, <1>6

LEMMA CallMoves ==
  ASSUME TypeInv, NEW t \in Threads, NEW op, NEW w, Call(t, op, w)
  PROVE  /\ \A u \in Threads \ {t} : thread'[u] = thread[u]
         /\ thread'[t].pc = "clock" /\ thread'[t].at = 0
         /\ thread'[t].op = op /\ thread'[t].w = w
BY DEF Call, Idle, TypeInv

LEMMA NextWeights == TypeInv /\ WeightInv /\ [Next]_vars => WeightInv'
<1> SUFFICES ASSUME TypeInv, WeightInv, [Next]_vars PROVE WeightInv'
  OBVIOUS
<1>1. CASE UNCHANGED vars \/ Tick
  BY <1>1 DEF vars, Tick, WeightInv
<1>2. ASSUME NEW t \in Threads,
             \/ \E op \in {"try", "acquire"}, w \in Weights : Call(t, op, w)
             \/ Call(t, "available", 0)
      PROVE  WeightInv'
  BY <1>2, CallMoves DEF WeightInv
<1>3. ASSUME NEW t \in Threads, Claim(t) \/ ApplyDue(t) PROVE WeightInv'
  <2>1. \E pc \in {"apply", "take"} : thread' = [thread EXCEPT ![t].pc = pc]
    BY <1>3 DEF Claim, ApplyDue
  <2>2. thread[t].pc # "idle" /\ thread[t] \in ThreadStates
    BY <1>3 DEF Claim, ApplyDue, TypeInv
  <2> QED
    BY <2>1, <2>2 DEF WeightInv, TypeInv, ThreadStates
<1>4. ASSUME NEW t \in Threads,
             SampleClock(t) \/ LoadMark(t) \/ Refuse(t) \/ Retry(t) \/ Grant(t) \/ ReadAvailable(t)
      PROVE  WeightInv'
  <2>1. thread[t].pc # "idle"
    BY <1>4 DEF SampleClock, LoadMark, Refuse, Retry, Grant, ReadAvailable
  <2>2. SampleClock(t) \/ LoadMark(t) \/ Refuse(t) \/ Retry(t) \/ Advance(t)
    BY <1>4 DEF Grant, ReadAvailable
  <2> QED
    BY <2>1, <2>2, ThreadMoves DEF WeightInv
<1> QED
  BY <1>1, <1>2, <1>3, <1>4 DEF Next

LEMMA NextBucket == TypeInv /\ BucketInv /\ [Next]_vars => BucketInv'
<1> SUFFICES ASSUME TypeInv, BucketInv, [Next]_vars PROVE BucketInv'
  OBVIOUS
<1>0. WeightInv' /\ ClockInv /\ SpanInv /\ CreditInv
  BY NextWeights DEF BucketInv
<1> SUFFICES ClockInv' /\ SpanInv' /\ CreditInv'
  BY <1>0 DEF BucketInv
<1>1. CASE Tick
  <2>1. ClockInv'
    <3>1. ASSUME NEW u \in Threads PROVE thread[u].at \in Nat
      BY DEF TypeInv, ThreadStates
    <3> QED
      BY <1>0, <1>1, <3>1 DEF Tick, ClockInv, TypeInv
  <2>2. SpanInv'
    BY <1>0, <1>1 DEF Tick, SpanInv
  <2>3. CreditInv'
    BY <1>0, <1>1 DEF Tick, history, CreditInv, Credit, Owed, InSpan
  <2> QED
    BY <2>1, <2>2, <2>3
<1>2. ASSUME NEW t \in Threads,
             \/ \E op \in {"try", "acquire", "available"}, w \in Weights \cup {0} : Call(t, op, w)
             \/ SampleClock(t) \/ LoadMark(t) \/ Refuse(t) \/ Retry(t) \/ ReadAvailable(t)
      PROVE  ClockInv' /\ SpanInv' /\ CreditInv'
  <2>1. UNCHANGED <<now, mark, amount, granted>> /\ thread[t].pc # "apply"
    BY <1>2 DEF Call, SampleClock, LoadMark, Refuse, Retry, ReadAvailable, history
  <2>2. /\ \A u \in Threads \ {t} : thread'[u] = thread[u]
        /\ thread'[t].pc # "apply" /\ thread'[t].at \in {thread[t].at, 0, now}
    BY <1>2, ThreadMoves, CallMoves DEF ReadAvailable
  <2>3. ClockInv'
    BY <1>0, <2>1, <2>2 DEF ClockInv, TypeInv
  <2> QED
    BY <1>0, <2>1, <2>2, <2>3, QuietCredit
<1>3. CASE UNCHANGED vars
  BY <1>0, <1>3 DEF vars, ClockInv, SpanInv, CreditInv, Credit, Owed, InSpan
<1> QED
  BY <1>0, <1>1, <1>2, <1>3, ClaimKeepsCredit, ApplyKeepsCredit, GrantKeepsCredit DEF Next

(* A grant of a bucket is one that RateQuota allows.                       *)
LEMMA GrantIsQuota ==
  ASSUME TypeInv, BucketInv, BucketInv', TypeInv', NEW t \in Threads, Grant(t),
         NEW k \in L, thread[t].l = k, IsBucket(k)
  PROVE  Quota(k)!Next
<1>0. PICK w \in Weights : thread[t].l = k /\ thread[t].w = w
  <2>1. thread[t].pc = "take" /\ thread[t].op # "available"
    BY DEF Grant
  <2> QED
    BY <2>1 DEF TypeInv, ThreadStates, BucketInv, WeightInv
<1>1. /\ granted' = [granted EXCEPT ![k] = granted[k] + w] /\ UNCHANGED <<now, mark>>
  BY <1>0 DEF Grant
<1>2. granted'[k] = granted[k] + w
  BY <1>1 DEF TypeInv
<1> DEFINE rate == Limiters[k].rate
           g == granted'[k] * TokenScale
           c == Cardinality(Owed(k)')
<1>3. /\ granted[k] \in Nat /\ granted'[k] \in Nat /\ amount'[k] \in Nat /\ w \in Nat
      /\ TokenScale \in Nat /\ RateScale \in Nat /\ rate \in Nat /\ Full(k) \in Nat
      /\ now \in Nat /\ mark[k] \in Nat
  BY <1>0, LimiterTypes, LimiterAssumption DEF TypeInv
<1>4. g * RateScale = granted[k] * TokenScale * RateScale + w * TokenScale * RateScale
  BY <1>2, <1>3
<1>5. c \in Nat
  <2>1. mark'[k] \in Nat /\ Owed(k)' \in SUBSET (0 .. mark'[k] - 1)
    BY DEF TypeInv, Owed
  <2>2. IsFiniteSet(0 .. mark'[k] - 1)
    BY <2>1, FS_Interval
  <2> QED
    BY <2>1, <2>2, FS_Subset, FS_CardinalityType
<1>6. RateScale * (g + amount'[k]) + rate * c <= RateScale * Full(k) + rate * mark[k]
  BY <1>0, <1>1 DEF BucketInv, CreditInv, Credit
<1>7. mark[k] <= now
  BY <1>0 DEF BucketInv, ClockInv
<1>8. g \in Nat
  BY <1>3, ProductType
<1> HIDE DEF rate, g, c
<1>9. RateScale * g <= RateScale * (g + amount'[k]) /\ rate * mark[k] <= rate * now
  BY <1>3, <1>7, <1>8, Ascends
<1>10. /\ rate * c \in Nat /\ rate * mark[k] \in Nat /\ rate * now \in Nat /\ RateScale * g \in Nat
       /\ RateScale * (g + amount'[k]) \in Nat /\ RateScale * Full(k) \in Nat
  BY <1>3, <1>5, <1>8, ProductType
<1>11. RateScale * g <= RateScale * Full(k) + rate * now
  BY <1>6, <1>9, <1>10
<1>12. RateScale * g = g * RateScale /\ RateScale * Full(k) = Full(k) * RateScale
  BY <1>3, <1>8
<1>13. (granted[k] * TokenScale * RateScale + w * TokenScale * RateScale) * 1
         <= Full(k) * RateScale * 1 + rate * now
  BY <1>3, <1>4, <1>8, <1>10, <1>11, <1>12
<1>14. granted'[k] * TokenScale * RateScale = granted[k] * TokenScale * RateScale + w * TokenScale * RateScale
  BY <1>4 DEF g
<1>15. Quota(k)!Grant
  BY <1>1, <1>13, <1>14 DEF Quota!Grant, rate
<1> QED
  BY <1>0, <1>15 DEF Quota!Next

(* leaky_bucket.rs: whatever the threads do to each other, a bucket never  *)
(* grants more than its capacity and what its rate yields in the time      *)
(* passed; the detailed bucket implements RateQuota.                       *)
THEOREM BucketsKeepQuota == Spec => BucketKeepsQuota
<1>1. Init => \A l \in L : IsBucket(l) => Quota(l)!Init
  BY LimiterAssumption DEF Init, Quota!Init
<1>2. Init => TypeInv /\ BucketInv
  BY InitType, InitBucket
<1>3. TypeInv /\ BucketInv /\ [Next]_vars => (TypeInv /\ BucketInv)'
  BY NextType, NextBucket
<1>4. TypeInv /\ BucketInv /\ [Next]_vars
        => [\A l \in L : IsBucket(l) => Quota(l)!Next \/ UNCHANGED <<now, granted[l]>>]_vars
  <2> SUFFICES ASSUME TypeInv, BucketInv, Next, TypeInv', BucketInv', NEW l \in L, IsBucket(l)
               PROVE  Quota(l)!Next \/ UNCHANGED <<now, granted[l]>>
    BY <1>3
  <2>1. CASE Tick
    BY <2>1 DEF Tick, history, Quota!Next, Quota!Tick
  <2>2. ASSUME NEW t \in Threads, Grant(t) PROVE Quota(l)!Next \/ UNCHANGED <<now, granted[l]>>
    <3>1. CASE thread[t].l = l
      BY <2>2, <3>1, GrantIsQuota
    <3>2. CASE thread[t].l # l
      BY <2>2, <3>2 DEF Grant, TypeInv
    <3> QED
      BY <3>1, <3>2
  <2> QED
    BY <2>1, <2>2 DEF Next, Call, SampleClock, LoadMark, Claim, ApplyDue, Refuse, Retry,
                      ReadAvailable, history
<1> QED
  BY <1>1, <1>2, <1>3, <1>4, PTL DEF Spec, BucketKeepsQuota

(***************************************************************************)
(* A call that returns Ok was charged to every limiter.                    *)
(***************************************************************************)

(* What a thread in state u has been granted by limiter l in a call that   *)
(* is still under way.                                                     *)
Charged(u, l) == u.pc # "idle" /\ u.op # "available" /\ u.l > l
Charge(u, l) == IF Charged(u, l) THEN u.w ELSE 0

(* The sum of these charges over the threads, each unit of weight a pair.  *)
Units(u, l) == IF Charged(u, l) THEN 1 .. u.w ELSE {}
UnderWay(l) == {p \in Threads \X Nat : p[2] \in Units(thread[p[1]], l)}

(* What a limiter granted covers the calls that returned Ok and those that *)
(* it has let pass.  It covers the refused ones too, so it may be more.    *)
CallsInv ==
  \A l \in L : IsFiniteSet(UnderWay(l)) /\ passed + Cardinality(UnderWay(l)) <= granted[l]

LEMMA UnitsCount ==
  ASSUME NEW t \in Threads, NEW u \in ThreadStates, NEW l \in L
  PROVE  /\ IsFiniteSet({t} \X Units(u, l))
         /\ Cardinality({t} \X Units(u, l)) = Charge(u, l)
         /\ Units(u, l) \subseteq Nat /\ Charge(u, l) \in Nat
<1>1. u.w \in Nat
  BY DEF ThreadStates
<1>2. /\ IsFiniteSet(Units(u, l)) /\ Cardinality(Units(u, l)) = Charge(u, l)
      /\ Units(u, l) \subseteq Nat /\ Charge(u, l) \in Nat
  <2>1. CASE Charged(u, l)
    <3>1. IsFiniteSet(1 .. u.w) /\ Cardinality(1 .. u.w) = u.w
      BY <1>1, FS_Interval
    <3>2. Units(u, l) = 1 .. u.w /\ Charge(u, l) = u.w
      BY <2>1 DEF Units, Charge
    <3> QED BY <1>1, <3>1, <3>2
  <2>2. CASE ~Charged(u, l)
    BY <2>2, FS_EmptySet DEF Units, Charge
  <2> QED BY <2>1, <2>2
<1>3. IsFiniteSet({t}) /\ Cardinality({t}) = 1
  BY FS_Singleton
<1>4. /\ IsFiniteSet({t} \X Units(u, l))
      /\ Cardinality({t} \X Units(u, l)) = 1 * Charge(u, l)
  <2>1. Cardinality({t} \X Units(u, l)) = Cardinality({t}) * Cardinality(Units(u, l))
        /\ IsFiniteSet({t} \X Units(u, l))
    BY <1>2, <1>3, FS_Product
  <2> QED BY <1>2, <1>3, <2>1
<1>5. \A n \in Nat : 1 * n = n
  OBVIOUS
<1> QED BY <1>2, <1>4, <1>5

(* A step of one thread changes the sum by the change of its own charge.   *)
LEMMA OneChargeChanges ==
  ASSUME TypeInv, TypeInv', NEW t \in Threads, NEW l \in L,
         \A u \in Threads \ {t} : thread'[u] = thread[u],
         IsFiniteSet(UnderWay(l))
  PROVE  /\ IsFiniteSet(UnderWay(l)')
         /\ Cardinality(UnderWay(l)) \in Nat
         /\ Cardinality(UnderWay(l)')
              = Cardinality(UnderWay(l)) - Charge(thread[t], l) + Charge(thread'[t], l)
<1> DEFINE Others == {p \in Threads \X Nat : p[1] # t /\ p[2] \in Units(thread[p[1]], l)}
           old == {t} \X Units(thread[t], l)
           new == {t} \X Units(thread'[t], l)
<1>1. thread[t] \in ThreadStates /\ thread'[t] \in ThreadStates
  BY DEF TypeInv
<1>2. /\ IsFiniteSet(old) /\ Cardinality(old) = Charge(thread[t], l)
      /\ Units(thread[t], l) \subseteq Nat /\ Charge(thread[t], l) \in Nat
  BY <1>1, UnitsCount
<1>3. /\ IsFiniteSet(new) /\ Cardinality(new) = Charge(thread'[t], l)
      /\ Units(thread'[t], l) \subseteq Nat /\ Charge(thread'[t], l) \in Nat
  BY <1>1, UnitsCount
<1>4. UnderWay(l) = Others \cup old
  BY <1>2 DEF UnderWay
<1>5. UnderWay(l)' = Others \cup new
  <2>1. UnderWay(l)' = {p \in Threads \X Nat : p[2] \in Units(thread'[p[1]], l)}
    BY DEF UnderWay, Units, Charged
  <2>2. \A p \in Threads \X Nat : p[1] # t => thread'[p[1]] = thread[p[1]]
    OBVIOUS
  <2> QED BY <1>3, <2>1, <2>2
<1>6. Others \cap old = {} /\ Others \cap new = {}
  OBVIOUS
<1> HIDE DEF Others, old, new
<1>7. IsFiniteSet(Others)
  BY <1>4, FS_Subset
<1>8. Cardinality(UnderWay(l)) = Cardinality(Others) + Cardinality(old) - Cardinality({})
  BY <1>2, <1>4, <1>6, <1>7, FS_Union
<1>9. /\ IsFiniteSet(UnderWay(l)')
      /\ Cardinality(UnderWay(l)') = Cardinality(Others) + Cardinality(new) - Cardinality({})
  BY <1>3, <1>5, <1>6, <1>7, FS_Union
<1>10. Cardinality({}) = 0 /\ Cardinality(Others) \in Nat
  BY <1>7, FS_EmptySet, FS_CardinalityType
<1>11. \A a, b, c \in Nat : a + c - 0 = (a + b - 0) - b + c /\ a + b - 0 \in Nat
  OBVIOUS
<1> QED BY <1>2, <1>3, <1>8, <1>9, <1>10, <1>11

(* So it is enough to look at that thread.                                 *)
LEMMA CallsGoOn ==
  ASSUME TypeInv, TypeInv', CallsInv, NEW t \in Threads,
         \A u \in Threads \ {t} : thread'[u] = thread[u],
         \A l \in L : passed' + Charge(thread'[t], l) + granted[l]
                        <= passed + Charge(thread[t], l) + granted'[l]
  PROVE  CallsInv'
<1> SUFFICES ASSUME NEW l \in L
             PROVE  /\ IsFiniteSet(UnderWay(l)')
                    /\ passed' + Cardinality(UnderWay(l)') <= granted'[l]
  BY DEF CallsInv
<1>1. IsFiniteSet(UnderWay(l)) /\ passed + Cardinality(UnderWay(l)) <= granted[l]
  BY DEF CallsInv
<1>2. /\ IsFiniteSet(UnderWay(l)')
      /\ Cardinality(UnderWay(l)) \in Nat
      /\ Cardinality(UnderWay(l)')
           = Cardinality(UnderWay(l)) - Charge(thread[t], l) + Charge(thread'[t], l)
  BY <1>1, OneChargeChanges
<1>3. /\ passed \in Nat /\ passed' \in Nat /\ granted[l] \in Nat /\ granted'[l] \in Nat
      /\ Charge(thread[t], l) \in Nat /\ Charge(thread'[t], l) \in Nat
  <2>1. thread[t] \in ThreadStates /\ thread'[t] \in ThreadStates
    BY DEF TypeInv
  <2> QED BY <2>1, UnitsCount DEF TypeInv
<1>4. passed' + Charge(thread'[t], l) + granted[l] <= passed + Charge(thread[t], l) + granted'[l]
  OBVIOUS
<1> DEFINE n == Cardinality(UnderWay(l))
           m == Cardinality(UnderWay(l)')
           a == Charge(thread[t], l)
           b == Charge(thread'[t], l)
<1>5. n \in Nat /\ m = n - a + b /\ passed + n <= granted[l]
  BY <1>1, <1>2
<1>6. passed' + b + granted[l] <= passed + a + granted'[l] /\ a \in Nat /\ b \in Nat
  BY <1>3, <1>4
<1> HIDE DEF n, m, a, b
<1>7. passed' + m <= granted'[l]
  BY <1>3, <1>5, <1>6
<1> QED BY <1>2, <1>7 DEF m

(* Whoever stays in the call and at its limiter keeps its charges, and who *)
(* returns without Ok drops them.                                          *)
LEMMA ChargeStays ==
  ASSUME TypeInv, TypeInv', CallsInv, NEW t \in Threads,
         \A u \in Threads \ {t} : thread'[u] = thread[u],
         passed' = passed, granted' = granted,
         \/ thread'[t].pc = "idle"
         \/ /\ thread[t].pc # "idle" /\ thread'[t].op = thread[t].op
            /\ thread'[t].l = thread[t].l /\ thread'[t].w = thread[t].w
  PROVE  CallsInv'
<1>1. thread[t].w \in Nat /\ passed \in Nat /\ granted \in [L -> Nat]
  BY DEF TypeInv, ThreadStates
<1>2. ASSUME NEW l \in L
      PROVE  Charge(thread'[t], l) \in Nat /\ Charge(thread[t], l) \in Nat
             /\ Charge(thread'[t], l) <= Charge(thread[t], l)
  BY <1>1 DEF Charge, Charged
<1>3. \A l \in L : passed' + Charge(thread'[t], l) + granted[l]
                     <= passed + Charge(thread[t], l) + granted'[l]
  BY <1>1, <1>2
<1> QED BY <1>3, CallsGoOn

(* The last limiter's grant turns the charges of a call into its return,   *)
(* an earlier one's adds a charge.                                         *)
LEMMA GrantCounts ==
  ASSUME TypeInv, TypeInv', CallsInv, NEW t \in Threads, Grant(t)
  PROVE  CallsInv'
<1> DEFINE k == thread[t].l
           w == thread[t].w
           n == Len(Limiters)
<1>1. /\ k \in 1 .. n /\ w \in Nat /\ n \in Nat /\ L = 1 .. n /\ thread[t] \in ThreadStates
      /\ thread[t].pc = "take" /\ thread[t].op # "available"
      /\ passed \in Nat /\ granted \in [L -> Nat]
  <2>1. thread[t] \in ThreadStates /\ passed \in Nat /\ granted \in [L -> Nat]
    BY DEF TypeInv
  <2>2. thread[t].pc = "take" /\ thread[t].op # "available"
    BY DEF Grant
  <2>3. L = 1 .. n /\ n \in Nat
    BY LimiterAssumption DEF L
  <2>4. k \in L /\ w \in Nat
    BY <2>1 DEF ThreadStates
  <2> QED BY <2>1, <2>2, <2>3, <2>4
<1>2. /\ Advance(t)
      /\ granted' = [granted EXCEPT ![k] = @ + w]
      /\ passed' = IF thread'[t].pc = "idle" THEN passed + w ELSE passed
  BY DEF Grant
<1>3. \A u \in Threads \ {t} : thread'[u] = thread[u]
  BY <1>2, AdvanceType
<1>4. thread'[t] = IF k = n THEN Idle
                   ELSE [thread[t] EXCEPT !.pc = "clock", !.l = k + 1, !.at = 0, !.from = 0]
  BY <1>2 DEF Advance, TypeInv
<1>5. \A l \in L : Charge(thread[t], l) = IF l < k THEN w ELSE 0
  BY <1>1 DEF Charge, Charged
<1>6. \A l \in L : granted'[l] = IF l = k THEN granted[l] + w ELSE granted[l]
  BY <1>1, <1>2
<1>7. CASE k = n
  <2>1. thread'[t].pc = "idle" /\ passed' = passed + w
    BY <1>2, <1>4, <1>7 DEF Idle
  <2>2. \A l \in L : Charge(thread'[t], l) = 0
    BY <2>1 DEF Charge, Charged
  <2>3. \A l \in L : l < k \/ l = k
    BY <1>1, <1>7
  <2>4. ASSUME NEW l \in L
        PROVE  passed' + Charge(thread'[t], l) + granted[l]
                 <= passed + Charge(thread[t], l) + granted'[l]
    <3>1. granted[l] \in Nat
      BY <1>1
    <3>2. CASE l < k /\ l # k
      <4>1. Charge(thread[t], l) = w /\ Charge(thread'[t], l) = 0 /\ granted'[l] = granted[l]
        BY <1>5, <1>6, <2>2, <3>2
      <4> QED BY <1>1, <2>1, <3>1, <4>1
    <3>3. CASE l = k
      <4>1. Charge(thread[t], l) = 0 /\ Charge(thread'[t], l) = 0 /\ granted'[l] = granted[l] + w
        BY <1>1, <1>5, <1>6, <2>2, <3>3
      <4>2. \A p, g, v \in Nat : (p + v) + 0 + g <= p + 0 + (g + v)
        OBVIOUS
      <4> QED BY <1>1, <2>1, <3>1, <4>1, <4>2, Zenon
    <3>4. l # k => l < k
      BY <2>3
    <3> QED BY <3>2, <3>3, <3>4
  <2> QED BY <1>3, <2>4, CallsGoOn
<1>8. CASE k # n
  <2>1. /\ thread'[t].pc = "clock" /\ thread'[t].op = thread[t].op
        /\ thread'[t].l = k + 1 /\ thread'[t].w = w
    BY <1>1, <1>4, <1>8 DEF ThreadStates
  <2>2. passed' = passed
    BY <1>2, <2>1
  <2>3. \A l \in L : Charge(thread'[t], l) = IF l < k + 1 THEN w ELSE 0
    BY <1>1, <2>1 DEF Charge, Charged
  <2>4. \A l \in L : l < k + 1 <=> l < k \/ l = k
    BY <1>1
  <2>5. ASSUME NEW l \in L
        PROVE  passed' + Charge(thread'[t], l) + granted[l]
                 <= passed + Charge(thread[t], l) + granted'[l]
    <3>1. granted[l] \in Nat
      BY <1>1
    <3>2. CASE l = k
      <4>1. Charge(thread[t], l) = 0 /\ Charge(thread'[t], l) = w /\ granted'[l] = granted[l] + w
        <5>1. ~(l < k) /\ l < k + 1
          BY <1>1, <3>2
        <5> QED BY <1>5, <1>6, <2>3, <3>2, <5>1, Zenon
      <4>2. \A p, g, v \in Nat : p + v + g <= p + 0 + (g + v)
        OBVIOUS
      <4> QED BY <1>1, <2>2, <3>1, <4>1, <4>2, Zenon
    <3>3. CASE l # k
      <4>1. Charge(thread'[t], l) = Charge(thread[t], l) /\ granted'[l] = granted[l]
        BY <1>5, <1>6, <2>3, <2>4, <3>3, Zenon
      <4>2. Charge(thread[t], l) \in Nat
        BY <1>1, <1>5
      <4>3. \A p, c, g \in Nat : p + c + g <= p + c + g
        OBVIOUS
      <4> QED BY <1>1, <2>2, <3>1, <4>1, <4>2, <4>3, Zenon
    <3> QED BY <3>2, <3>3
  <2> QED BY <1>3, <2>5, CallsGoOn
<1> QED BY <1>7, <1>8

LEMMA CallsStart == Init => CallsInv
<1> SUFFICES ASSUME Init, NEW l \in L
             PROVE  IsFiniteSet(UnderWay(l)) /\ passed + Cardinality(UnderWay(l)) <= granted[l]
  BY DEF CallsInv
<1>1. \A t \in Threads : thread[t].pc = "idle"
  BY DEF Init, Idle
<1>2. UnderWay(l) = {}
  BY <1>1 DEF UnderWay, Units, Charged
<1>3. passed = 0 /\ granted[l] = 0
  BY DEF Init
<1> QED BY <1>2, <1>3, FS_EmptySet

LEMMA CallsStay == TypeInv /\ CallsInv /\ [Next]_vars => CallsInv'
<1> SUFFICES ASSUME TypeInv, CallsInv, [Next]_vars PROVE CallsInv'
  OBVIOUS
<1>0. TypeInv'
  BY NextType
<1>1. CASE Tick \/ UNCHANGED vars
  <2>1. thread' = thread /\ passed' = passed /\ granted' = granted
    BY <1>1 DEF Tick, vars, history
  <2> QED BY <2>1 DEF CallsInv, UnderWay, Units, Charged
<1>t. ASSUME NEW t \in Threads PROVE thread[t] \in ThreadStates /\ thread \in [Threads -> ThreadStates]
  BY DEF TypeInv
<1>2. ASSUME NEW t \in Threads, NEW op, NEW w, Call(t, op, w) PROVE CallsInv'
  <2>1. /\ thread[t].pc = "idle" /\ thread'[t].l = 1
        /\ \A u \in Threads \ {t} : thread'[u] = thread[u]
        /\ passed' = passed /\ granted' = granted
    BY <1>2, <1>t DEF Call, Idle, history
  <2>2. /\ \A l \in L : Charge(thread[t], l) = 0 /\ Charge(thread'[t], l) = 0
        /\ passed \in Nat /\ granted \in [L -> Nat]
    BY <2>1, LimiterAssumption DEF Charge, Charged, L, TypeInv
  <2>3. \A l \in L : passed' + Charge(thread'[t], l) + granted[l]
                       <= passed + Charge(thread[t], l) + granted'[l]
    BY <2>1, <2>2
  <2> QED BY <1>0, <2>1, <2>3, CallsGoOn
<1>3. ASSUME NEW t \in Threads, SampleClock(t) \/ LoadMark(t) \/ Claim(t) \/ ApplyDue(t) \/ Retry(t)
      PROVE  CallsInv'
  <2>1. /\ thread[t].pc # "idle" /\ thread'[t].op = thread[t].op
        /\ thread'[t].l = thread[t].l /\ thread'[t].w = thread[t].w
        /\ \A u \in Threads \ {t} : thread'[u] = thread[u]
        /\ passed' = passed /\ granted' = granted
    BY <1>3, <1>t DEF SampleClock, LoadMark, Claim, ApplyDue, Retry, ThreadStates, history
  <2> QED BY <1>0, <2>1, ChargeStays
<1>4. ASSUME NEW t \in Threads, Refuse(t) PROVE CallsInv'
  <2>1. /\ thread[t].pc # "idle" /\ passed' = passed /\ granted' = granted
        /\ \A u \in Threads \ {t} : thread'[u] = thread[u]
        /\ \/ thread'[t].pc = "idle"
           \/ /\ thread'[t].op = thread[t].op /\ thread'[t].l = thread[t].l
              /\ thread'[t].w = thread[t].w
    BY <1>4, <1>t DEF Refuse, Idle, ThreadStates, history
  <2> QED BY <1>0, <2>1, ChargeStays
<1>5. ASSUME NEW t \in Threads, ReadAvailable(t) PROVE CallsInv'
  <2>1. /\ thread[t].op = "available" /\ Advance(t) /\ passed' = passed /\ granted' = granted
    BY <1>5 DEF ReadAvailable, history
  <2>2. /\ \A u \in Threads \ {t} : thread'[u] = thread[u]
        /\ thread'[t].pc = "idle" \/ thread'[t].op = "available"
    BY <1>t, <2>1 DEF Advance, Idle, ThreadStates
  <2>3. /\ \A l \in L : Charge(thread[t], l) = 0 /\ Charge(thread'[t], l) = 0
        /\ passed \in Nat /\ granted \in [L -> Nat]
    BY <2>1, <2>2 DEF Charge, Charged, TypeInv
  <2>4. \A l \in L : passed' + Charge(thread'[t], l) + granted[l]
                       <= passed + Charge(thread[t], l) + granted'[l]
    BY <2>1, <2>3
  <2> QED BY <1>0, <2>2, <2>1, <2>4, CallsGoOn
<1> QED BY <1>0, <1>1, <1>2, <1>3, <1>4, <1>5, GrantCounts DEF Next

(* However the calls of any threads interleave and wherever they are       *)
(* refused or tried again: a call that returned Ok was charged to every    *)
(* limiter of the list.                                                    *)
THEOREM PassedAreCharged == Spec => []PassedEveryLimiter
<1>1. TypeInv /\ CallsInv => PassedEveryLimiter
  <2> SUFFICES ASSUME TypeInv, CallsInv, NEW l \in L PROVE passed <= granted[l]
    BY DEF PassedEveryLimiter
  <2>1. IsFiniteSet(UnderWay(l)) /\ passed + Cardinality(UnderWay(l)) <= granted[l]
    BY DEF CallsInv
  <2>2. Cardinality(UnderWay(l)) \in Nat /\ passed \in Nat /\ granted[l] \in Nat
    BY <2>1, FS_CardinalityType DEF TypeInv
  <2> QED BY <2>1, <2>2
<1> QED
  BY <1>1, InitType, NextType, CallsStart, CallsStay, PTL DEF Spec
=============================================================================
