------------------------ MODULE CircuitBreakerProofs ------------------------
(***************************************************************************)
(* What the circuit breaker keeps for any number of requests, any          *)
(* thresholds and any durations: the bound on its failures however requests*)
(* interleave, the rest as long as no two requests have overlapped.        *)
(***************************************************************************)
EXTENDS CircuitBreaker, FiniteSetTheorems, TLAPS

States == {"Closed", "Open", "HalfOpen"}

Pcs == {"idle", "window", "zeroTotal", "zeroFailed", "check", "sample", "opened", "clearProbes", "admit",
        "called", "success", "prove", "close", "resetTotal", "resetFailed", "resetProbes",
        "resetStart", "failure", "count", "judge", "open", "stamp"}

TypeInv ==
  /\ state \in States
  /\ total \in 0 .. CountMax /\ failed \in 0 .. CountMax /\ probes \in Nat
  /\ sinceWindow \in Nat /\ sinceOpened \in Nat
  /\ pc \in [Requests -> Pcs] /\ due \in [Requests -> Answers]
  /\ counted \in [Requests -> Nat]
  /\ serial \in BOOLEAN /\ openFor \in Nat /\ proven \in Nat

(* Nobody else is under way. *)
Alone(r) == \A q \in Requests \ {r} : pc[q] = "idle"

AloneInv == serial => \A r \in Requests : pc[r] # "idle" => Alone(r)

(* A failure is counted after its request, and the two counters are reset  *)
(* in the same order: in between no failures are too many.                 *)
CountInv ==
  serial =>
    /\ (\A r \in Requests : pc[r] \notin {"zeroFailed", "resetFailed"}) => failed <= total
    /\ \A r \in Requests :
         pc[r] \in {"called", "success", "failure", "count"} => failed < total \/ total = CountMax

(* However requests interleave: the calls that may still add a failure.    *)
Uncounted == {r \in Requests : pc[r] \in {"called", "success", "failure", "count"}}

(* Whoever has just cleared the failures is not one of them, and from then *)
(* on a failure is counted only by one of them.                            *)
NearInv ==
  (\A r \in Requests : pc[r] \notin {"zeroFailed", "resetFailed"}) =>
    total = CountMax \/ failed + Cardinality(Uncounted) <= total + Cardinality(Requests) - 1

(* The time stored is that of the opening, once it is stored.              *)
OpenInv ==
  serial =>
    /\ state = "Open" /\ (\A r \in Requests : pc[r] # "stamp") => openFor >= sinceOpened
    /\ \A r \in Requests : pc[r] = "opened" =>
         /\ state = "Open" /\ due[r] # "either"
         /\ due[r] = "yes" => openFor >= OpenTimeout
    /\ \A r \in Requests : pc[r] = "sample" => state = "Open"

(* The probes counted are successes of this half-open phase.               *)
ProvenInv ==
  serial =>
    /\ state = "HalfOpen" /\ (\A r \in Requests : pc[r] # "clearProbes") => proven >= probes
    /\ \A r \in Requests : /\ pc[r] = "prove" => state = "HalfOpen"
                           /\ pc[r] = "close" => proven >= SuccessThreshold

IInv == TypeInv /\ AloneInv /\ CountInv /\ NearInv /\ OpenInv /\ ProvenInv

LEMMA AtMostType ==
  ASSUME NEW bound \in Nat, NEW n \in Nat
  PROVE  AtMost(bound, n) \in Nat /\ AtMost(bound, n) \in 0 .. bound
  BY DEF AtMost

LEMMA BreakerTypes ==
  /\ SuccessThreshold \in Nat /\ OpenTimeout \in Nat /\ WindowDuration \in Nat /\ CountMax \in Nat
  BY BreakerAssumption

LEMMA SomeRequest ==
  /\ IsFiniteSet(Requests) /\ Cardinality(Requests) \in Nat \ {0}
  BY BreakerAssumption, FS_CardinalityType, FS_EmptySet

LEMMA UncountedType ==
  IsFiniteSet(Uncounted) /\ Cardinality(Uncounted) \in Nat
<1>1. Uncounted \in SUBSET Requests
  BY DEF Uncounted
<1> QED
  BY <1>1, SomeRequest, FS_Subset, FS_CardinalityType

LEMMA InitHolds == Init => IInv
<1> SUFFICES ASSUME Init PROVE IInv
  OBVIOUS
<1>1. TypeInv
  BY BreakerTypes DEF Init, TypeInv, States, Pcs, Answers
<1>2. NearInv
  <2>1. Uncounted = {}
    BY DEF Init, Uncounted
  <2> QED
    BY <2>1, SomeRequest, FS_EmptySet DEF Init, NearInv
<1> QED
  BY <1>1, <1>2 DEF Init, IInv, AloneInv, CountInv, OpenInv, ProvenInv

LEMMA OvertakeType ==
  ASSUME TypeInv, NEW r \in Requests, NEW loading, Overtake(r, loading)
  PROVE  due' \in [Requests -> Answers]
  BY DEF TypeInv, Overtake, Answers

LEMMA TypesHold == TypeInv /\ [Next]_vars => TypeInv'
<1> SUFFICES ASSUME TypeInv, [Next]_vars PROVE TypeInv'
  OBVIOUS
<1> USE BreakerTypes, AtMostType DEF TypeInv, States, counters, ages, history
<1>1. CASE Tick
  <2>1. sinceWindow' \in Nat /\ sinceOpened' \in Nat /\ openFor' \in Nat
    BY <1>1 DEF Tick
  <2> QED
    BY <1>1, <2>1 DEF Tick
<1>2. ASSUME NEW r \in Requests, CheckAllow(r) PROVE TypeInv'
  <2>1. pc' \in [Requests -> Pcs]
    BY <1>2 DEF CheckAllow, Begin, ResetWindow, KeepWindow, ZeroTotal, ZeroFailed, Check, Sample, Reject,
               HalfOpen, ClearProbes, Admit, Goto, Pcs
  <2>2. due' \in [Requests -> Answers]
    <3>1. CASE ResetWindow(r)
      BY <3>1, OvertakeType DEF ResetWindow
    <3>2. ASSUME ~ResetWindow(r)
          PROVE  due' = due \/ \E answer \in Answers : due' = [due EXCEPT ![r] = answer]
      BY <1>2, <3>2 DEF CheckAllow, Begin, KeepWindow, ZeroTotal, ZeroFailed,
                        Check, Sample, Reject, HalfOpen, ClearProbes, Admit, Answers
    <3> QED
      BY <3>1, <3>2
  <2>3. serial' \in BOOLEAN
    BY <1>2, Zenon DEF CheckAllow, Begin, ResetWindow, KeepWindow, ZeroTotal, ZeroFailed, Check, Sample, Reject,
               HalfOpen, ClearProbes, Admit
  <2>4. state' \in States /\ counted' = counted /\ openFor' = openFor
    BY <1>2 DEF CheckAllow, Begin, ResetWindow, KeepWindow, ZeroTotal, ZeroFailed, Check, Sample, Reject,
               HalfOpen, ClearProbes, Admit
  <2>5. proven' \in {proven, 0}
    BY <1>2 DEF CheckAllow, Begin, ResetWindow, KeepWindow, ZeroTotal, ZeroFailed, Check, Sample, Reject,
               HalfOpen, ClearProbes, Admit
  <2>6. total' \in {total, 0, AtMost(CountMax, total + 1)} /\ failed' \in {failed, 0}
    BY <1>2 DEF CheckAllow, Begin, ResetWindow, KeepWindow, ZeroTotal, ZeroFailed, Check, Sample, Reject,
               HalfOpen, ClearProbes, Admit
  <2>7. probes' \in {probes, 0} /\ sinceWindow' \in {sinceWindow, 0} /\ sinceOpened' = sinceOpened
    BY <1>2 DEF CheckAllow, Begin, ResetWindow, KeepWindow, ZeroTotal, ZeroFailed, Check, Sample, Reject,
               HalfOpen, ClearProbes, Admit
  <2>8. total' \in 0 .. CountMax
    BY <2>6
  <2>9. failed' \in 0 .. CountMax
    BY <2>6
  <2>10. probes' \in Nat /\ proven' \in Nat /\ sinceWindow' \in Nat
    BY <2>5, <2>7
  <2>11. sinceOpened' \in Nat /\ openFor' \in Nat
    BY <2>4, <2>7, Zenon
  <2>12. counted' \in [Requests -> Nat]
    BY <2>4, Zenon
  <2> QED
    BY <2>1, <2>2, <2>3, <2>4, <2>8, <2>9, <2>10, <2>11, <2>12, Zenon
<1>3. ASSUME NEW r \in Requests, Succeed(r) \/ Fail(r) PROVE TypeInv'
  BY <1>3 DEF Succeed, Fail, Goto, Pcs
<1>4. ASSUME NEW r \in Requests, Record(r) PROVE TypeInv'
  <2>1. pc' \in [Requests -> Pcs]
    BY <1>4 DEF Record, RecordSuccess, Prove, Close, ResetTotal, ResetFailed, ResetProbes,
               ResetStart, RecordFailure, Count, Judge, Open, Stamp, Goto, Pcs
  <2>2. due' \in [Requests -> Answers] /\ counted' \in [Requests -> Nat]
    BY <1>4, OvertakeType DEF Record, RecordSuccess, Prove, Close, ResetTotal, ResetFailed,
               ResetProbes, ResetStart, RecordFailure, Count, Judge, Open, Stamp
  <2>3. /\ state' \in States /\ serial' \in BOOLEAN
        /\ openFor' \in Nat /\ proven' \in Nat
    BY <1>4 DEF Record, RecordSuccess, Prove, Close, ResetTotal, ResetFailed, ResetProbes,
               ResetStart, RecordFailure, Count, Judge, Open, Stamp
  <2>4. /\ total' \in 0 .. CountMax /\ failed' \in 0 .. CountMax /\ probes' \in Nat
        /\ sinceWindow' \in Nat /\ sinceOpened' \in Nat
    BY <1>4 DEF Record, RecordSuccess, Prove, Close, ResetTotal, ResetFailed, ResetProbes,
               ResetStart, RecordFailure, Count, Judge, Open, Stamp
  <2> QED
    BY <2>1, <2>2, <2>3, <2>4
<1>5. CASE UNCHANGED vars
  BY <1>5 DEF vars
<1> QED
  BY <1>1, <1>2, <1>3, <1>4, <1>5 DEF Next, Request

(* A step of a request moves it alone, and two requests that overlap once  *)
(* have overlapped for good.                                               *)
LEMMA OneMoves ==
  ASSUME TypeInv, AloneInv, NEW r \in Requests, Request(r), serial'
  PROVE  /\ serial /\ Alone(r)
         /\ \A q \in Requests \ {r} : pc'[q] = "idle"
<1>1. serial
  BY DEF Request, CheckAllow, Record, Begin, ResetWindow, KeepWindow, ZeroTotal, ZeroFailed, Check,
         Sample, Reject, HalfOpen, ClearProbes, Admit, Succeed, Fail, RecordSuccess, Prove, Close,
         ResetTotal, ResetFailed, ResetProbes, ResetStart, RecordFailure, Count, Judge, Open,
         Stamp, history
<1>2. Alone(r)
  <2>1. CASE pc[r] = "idle"
    <3>1. Begin(r)
      BY <2>1 DEF Request, CheckAllow, Record, ResetWindow, KeepWindow, ZeroTotal, ZeroFailed, Check,
         Sample, Reject, HalfOpen, ClearProbes, Admit, Succeed, Fail, RecordSuccess, Prove, Close,
         ResetTotal, ResetFailed, ResetProbes, ResetStart, RecordFailure, Count, Judge, Open, Stamp
    <3> QED
      BY <3>1 DEF Begin, Alone
  <2>2. CASE pc[r] # "idle"
    BY <1>1, <2>2 DEF AloneInv
  <2> QED
    BY <2>1, <2>2
<1>3. \E next : pc' = [pc EXCEPT ![r] = next]
  BY DEF Request, CheckAllow, Record, Begin, ResetWindow, KeepWindow, ZeroTotal, ZeroFailed, Check,
         Sample, Reject, HalfOpen, ClearProbes, Admit, Succeed, Fail, RecordSuccess, Prove, Close,
         ResetTotal, ResetFailed, ResetProbes, ResetStart, RecordFailure, Count, Judge, Open,
         Stamp, Goto
<1> QED
  BY <1>1, <1>2, <1>3 DEF Alone, TypeInv

LEMMA AloneStays == IInv /\ TypeInv' /\ [Next]_vars => AloneInv'
<1> SUFFICES ASSUME IInv, [Next]_vars PROVE AloneInv'
  OBVIOUS
<1>1. CASE Tick \/ UNCHANGED vars
  BY <1>1, Zenon DEF Tick, vars, IInv, AloneInv, Alone, history
<1>2. ASSUME NEW r \in Requests, Request(r) PROVE AloneInv'
  <2>1. ASSUME serial', NEW q \in Requests, pc'[q] # "idle" PROVE Alone(q)'
    <3>1. \A p \in Requests \ {r} : pc'[p] = "idle"
      BY <1>2, <2>1, OneMoves DEF IInv
    <3> QED
      BY <2>1, <3>1 DEF Alone
  <2> QED
    BY <2>1 DEF AloneInv
<1> QED
  BY <1>1, <1>2 DEF Next

(* The other requests being idle, an invariant only speaks of one.         *)
LEMMA CountStays == IInv /\ TypeInv' /\ [Next]_vars => CountInv'
<1> SUFFICES ASSUME IInv, TypeInv', [Next]_vars PROVE CountInv'
  OBVIOUS
<1>1. CASE Tick \/ UNCHANGED vars
  BY <1>1, Zenon DEF Tick, vars, IInv, CountInv, counters, history
<1>2. ASSUME NEW r \in Requests, Request(r) PROVE CountInv'
  <2> SUFFICES ASSUME serial'
               PROVE  /\ pc'[r] \notin {"zeroFailed", "resetFailed"} => failed' <= total'
                      /\ pc'[r] \in {"called", "success", "failure", "count"} =>
                           failed' < total' \/ total' = CountMax
    <3>1. serial' => \A q \in Requests \ {r} : pc'[q] = "idle"
      BY <1>2, OneMoves DEF IInv
    <3> QED
      BY <3>1 DEF CountInv
  <2>1. serial /\ \A q \in Requests \ {r} : pc[q] = "idle"
    BY <1>2, OneMoves DEF IInv, Alone
  <2>2. /\ pc[r] \notin {"zeroFailed", "resetFailed"} => failed <= total
        /\ pc[r] \in {"called", "success", "failure", "count"} => failed < total \/ total = CountMax
    BY <2>1 DEF IInv, CountInv
  <2>3. /\ total \in Nat /\ failed \in Nat /\ total <= CountMax /\ failed <= CountMax /\ CountMax \in Nat
        /\ pc \in [Requests -> Pcs] /\ pc' \in [Requests -> Pcs]
        /\ total' \in Nat /\ failed' \in Nat
    BY BreakerTypes DEF IInv, TypeInv
  <2>4. CASE CheckAllow(r)
    <3>1. CASE Admit(r)
      BY <2>2, <2>3, <3>1 DEF Admit, Goto, AtMost
    <3>2. CASE ~Admit(r)
      <4>1. pc'[r] \notin {"called", "success", "failure", "count"}
        BY <2>3, <2>4, <3>2 DEF CheckAllow, Begin, ResetWindow, KeepWindow, ZeroTotal, ZeroFailed,
                                Check, Sample, Reject, HalfOpen, ClearProbes, Goto
      <4>2. CASE ZeroTotal(r) \/ ZeroFailed(r)
        BY <2>3, <4>1, <4>2 DEF ZeroTotal, ZeroFailed, Goto
      <4>3. CASE ~(ZeroTotal(r) \/ ZeroFailed(r))
        BY <2>2, <2>3, <2>4, <3>2, <4>1, <4>3
           DEF CheckAllow, Begin, ResetWindow, KeepWindow, Check, Sample, Reject, HalfOpen, ClearProbes,
               Goto, counters
      <4> QED
        BY <4>2, <4>3
    <3> QED
      BY <3>1, <3>2
  <2>5. CASE Succeed(r) \/ Fail(r)
    BY <2>2, <2>3, <2>5 DEF Succeed, Fail, Goto, counters
  <2>6. CASE Record(r)
    <3>1. CASE ResetTotal(r) \/ ResetFailed(r)
      BY <2>3, <3>1 DEF ResetTotal, ResetFailed, Goto
    <3>2. CASE Count(r)
      BY <2>2, <2>3, <3>2 DEF Count, Goto, AtMost
    <3>3. CASE RecordSuccess(r) \/ RecordFailure(r)
      BY <2>2, <2>3, <3>3 DEF RecordSuccess, RecordFailure, Goto, counters
    <3>4. CASE Prove(r) \/ Close(r) \/ ResetProbes(r) \/ ResetStart(r) \/ Judge(r) \/ Open(r) \/ Stamp(r)
      BY <2>2, <2>3, <3>4 DEF Prove, Close, ResetProbes, ResetStart, Judge, Open, Stamp, Goto, counters
    <3> QED
      BY <2>6, <3>1, <3>2, <3>3, <3>4 DEF Record
  <2> QED
    BY <1>2, <2>4, <2>5, <2>6 DEF Request
<1> QED
  BY <1>1, <1>2 DEF Next

(* A step that admits or counts nothing and clears nothing.                *)
LEMMA NearKept ==
  ASSUME TypeInv, TypeInv', NearInv, failed' = failed, total' = total,
         NEW r \in Requests, NEW next, pc' = [pc EXCEPT ![r] = next],
         next \in {"called", "success", "failure", "count"}
           => pc[r] \in {"called", "success", "failure", "count"},
         pc[r] \notin {"zeroFailed", "resetFailed"}
  PROVE  NearInv'
<1>1. Uncounted' \in SUBSET Uncounted
  BY DEF Uncounted, TypeInv
<1>2. Cardinality(Uncounted') <= Cardinality(Uncounted) /\ Cardinality(Uncounted') \in Nat
  BY <1>1, UncountedType, FS_Subset, FS_CardinalityType
<1>3. (\A q \in Requests : pc'[q] \notin {"zeroFailed", "resetFailed"})
        => \A q \in Requests : pc[q] \notin {"zeroFailed", "resetFailed"}
  BY DEF TypeInv
<1> QED
  BY <1>2, <1>3, UncountedType, SomeRequest, BreakerTypes DEF NearInv, TypeInv

(* The clearing of the failures, by a request that has none to add.        *)
LEMMA NearRestored ==
  ASSUME TypeInv, TypeInv', failed' = 0, NEW r \in Requests,
         pc'[r] \notin {"called", "success", "failure", "count"}
  PROVE  NearInv'
<1>1. Uncounted' \in SUBSET (Requests \ {r})
  BY DEF Uncounted
<1>2. /\ IsFiniteSet(Requests \ {r})
      /\ Cardinality(Requests \ {r}) = Cardinality(Requests) - 1
  BY SomeRequest, FS_RemoveElement
<1>3. Cardinality(Uncounted') <= Cardinality(Requests) - 1 /\ Cardinality(Uncounted') \in Nat
  BY <1>1, <1>2, FS_Subset, FS_CardinalityType
<1> QED
  BY <1>3, SomeRequest DEF NearInv, TypeInv

LEMMA NearStays == IInv /\ TypeInv' /\ [Next]_vars => NearInv'
<1> SUFFICES ASSUME IInv, TypeInv', [Next]_vars PROVE NearInv'
  OBVIOUS
<1>0. /\ TypeInv /\ NearInv /\ pc \in [Requests -> Pcs]
      /\ total \in 0 .. CountMax /\ failed \in 0 .. CountMax /\ CountMax \in Nat
  BY BreakerTypes DEF IInv, TypeInv
<1>1. CASE Tick \/ UNCHANGED vars
  BY <1>0, <1>1, Zenon DEF Tick, vars, NearInv, Uncounted, counters
<1>2. ASSUME NEW r \in Requests, Request(r) PROVE NearInv'
  <2>1. CASE ZeroTotal(r) \/ ResetTotal(r)
    BY <1>0, <2>1 DEF ZeroTotal, ResetTotal, Goto, NearInv
  <2>2. CASE ZeroFailed(r) \/ ResetFailed(r)
    BY <1>0, <2>2, NearRestored DEF ZeroFailed, ResetFailed, Goto
  <2>3. CASE Admit(r)
    <3>1. Uncounted' = Uncounted \cup {r} /\ r \notin Uncounted
      BY <1>0, <2>3 DEF Admit, Goto, Uncounted
    <3>2. Cardinality(Uncounted') = Cardinality(Uncounted) + 1
      BY <3>1, UncountedType, FS_AddElement
    <3>3. (\A q \in Requests : pc'[q] \notin {"zeroFailed", "resetFailed"})
            => \A q \in Requests : pc[q] \notin {"zeroFailed", "resetFailed"}
      BY <1>0, <2>3 DEF Admit, Goto
    <3>4. failed' = failed /\ total' = AtMost(CountMax, total + 1)
      BY <2>3 DEF Admit
    <3>5. total' = CountMax \/ total' = total + 1
      BY <1>0, <3>4 DEF AtMost
    <3>6. total = CountMax => total' = CountMax
      BY <1>0, <3>4 DEF AtMost
    <3> QED
      BY <1>0, <3>2, <3>3, <3>4, <3>5, <3>6, UncountedType, SomeRequest DEF NearInv
  <2>4. CASE Count(r)
    <3>1. Uncounted' = Uncounted \ {r} /\ r \in Uncounted
      BY <1>0, <2>4 DEF Count, Goto, Uncounted
    <3>2. Cardinality(Uncounted') = Cardinality(Uncounted) - 1
      BY <3>1, UncountedType, FS_RemoveElement
    <3>3. (\A q \in Requests : pc'[q] \notin {"zeroFailed", "resetFailed"})
            => \A q \in Requests : pc[q] \notin {"zeroFailed", "resetFailed"}
      BY <1>0, <2>4 DEF Count, Goto
    <3>4. total' = total /\ failed' = AtMost(CountMax, failed + 1)
      BY <2>4 DEF Count
    <3>5. failed' <= failed + 1 /\ failed' \in Nat
      BY <1>0, <3>4 DEF AtMost
    <3> QED
      BY <1>0, <3>2, <3>3, <3>4, <3>5, UncountedType, SomeRequest DEF NearInv
  <2>5. CASE CheckAllow(r) /\ ~(ZeroTotal(r) \/ ZeroFailed(r) \/ Admit(r))
    <3>1. \E next \in {"window", "zeroTotal", "check", "sample", "admit", "opened", "idle", "clearProbes"} :
            pc' = [pc EXCEPT ![r] = next]
      BY <2>5 DEF CheckAllow, Begin, ResetWindow, KeepWindow, Check, Sample, Reject, HalfOpen,
                  ClearProbes, Goto
    <3>2. pc[r] \notin {"zeroFailed", "resetFailed"} /\ failed' = failed /\ total' = total
      BY <2>5 DEF CheckAllow, Begin, ResetWindow, KeepWindow, Check, Sample, Reject, HalfOpen,
                  ClearProbes, counters
    <3> QED
      BY <1>0, <3>1, <3>2, NearKept
  <2>6. CASE Succeed(r) \/ Fail(r)
    BY <1>0, <2>6, NearKept DEF Succeed, Fail, Goto, counters
  <2>7. CASE Record(r) /\ ~(ResetTotal(r) \/ ResetFailed(r) \/ Count(r))
    <3>1. /\ pc' = [pc EXCEPT ![r] = pc'[r]]
          /\ pc'[r] \in {"called", "success", "failure", "count"} => pc[r] = "failure"
          /\ pc[r] \notin {"zeroFailed", "resetFailed"} /\ failed' = failed /\ total' = total
      <4>1. CASE RecordSuccess(r)
        BY <1>0, <4>1 DEF RecordSuccess, Goto, counters
      <4>2. CASE RecordFailure(r)
        <5>1. PICK next : pc' = [pc EXCEPT ![r] = next]
          BY <4>2, Zenon DEF RecordFailure, Goto
        <5>2. /\ pc[r] = "failure" /\ failed' = failed /\ total' = total
          BY <4>2 DEF RecordFailure, counters
        <5> QED
          BY <1>0, <5>1, <5>2
      <4>3. CASE Prove(r) \/ Judge(r)
        BY <1>0, <4>3 DEF Prove, Judge, Goto, counters
      <4>4. CASE Close(r) \/ ResetProbes(r) \/ ResetStart(r) \/ Open(r) \/ Stamp(r)
        BY <1>0, <4>4 DEF Close, ResetProbes, ResetStart, Open, Stamp, Goto, counters
      <4> QED
        BY <2>7, <4>1, <4>2, <4>3, <4>4 DEF Record
    <3> QED
      BY <1>0, <3>1, NearKept
  <2> QED
    BY <1>2, <2>1, <2>2, <2>3, <2>4, <2>5, <2>6, <2>7 DEF Request, CheckAllow, Record
<1> QED
  BY <1>1, <1>2 DEF Next

LEMMA OpenStays == IInv /\ TypeInv' /\ [Next]_vars => OpenInv'
<1> SUFFICES ASSUME IInv, TypeInv', [Next]_vars PROVE OpenInv'
  OBVIOUS
<1>0. sinceOpened \in Nat /\ openFor \in Nat /\ OpenTimeout \in Nat /\ pc \in [Requests -> Pcs]
  BY BreakerTypes DEF IInv, TypeInv
<1>1. CASE UNCHANGED vars
  BY <1>1, Zenon DEF vars, IInv, OpenInv, ages, history
<1>2. CASE Tick
  <2>1. /\ openFor >= sinceOpened => openFor' >= sinceOpened'
        /\ openFor >= OpenTimeout => openFor' >= OpenTimeout
    BY <1>0, <1>2 DEF Tick, AtMost
  <2> QED
    BY <1>2, <2>1, Zenon DEF Tick, IInv, OpenInv
<1>3. ASSUME NEW r \in Requests, Request(r) PROVE OpenInv'
  <2> SUFFICES ASSUME serial'
               PROVE  /\ state' = "Open" /\ pc'[r] # "stamp" => openFor' >= sinceOpened'
                      /\ pc'[r] = "opened" =>
                           /\ state' = "Open" /\ due'[r] # "either"
                           /\ due'[r] = "yes" => openFor' >= OpenTimeout
                      /\ pc'[r] = "sample" => state' = "Open"
    <3>1. serial' => \A q \in Requests \ {r} : pc'[q] = "idle"
      BY <1>3, OneMoves DEF IInv
    <3> QED
      BY <3>1 DEF OpenInv
  <2>1. serial /\ \A q \in Requests \ {r} : pc[q] = "idle"
    BY <1>3, OneMoves DEF IInv, Alone
  <2>2. /\ state = "Open" /\ pc[r] # "stamp" => openFor >= sinceOpened
        /\ pc[r] = "opened" =>
             /\ state = "Open" /\ due[r] # "either"
             /\ due[r] = "yes" => openFor >= OpenTimeout
        /\ pc[r] = "sample" => state = "Open"
    BY <2>1 DEF IInv, OpenInv
  <2>3. due \in [Requests -> Answers]
    BY DEF IInv, TypeInv
  <2>4. CASE CheckAllow(r)
    <3>1. CASE Check(r)
      BY <1>0, <2>2, <3>1 DEF Check, Goto, ages, history
    <3>4. CASE Sample(r)
      BY <1>0, <2>2, <2>3, <3>4 DEF Sample, Goto, ages, history
    <3>2. CASE HalfOpen(r)
      BY <1>0, <3>2 DEF HalfOpen, Goto
    <3>3. CASE ~(Check(r) \/ Sample(r) \/ HalfOpen(r))
      <4>1. pc'[r] \notin {"opened", "sample"} /\ pc[r] # "stamp"
        BY <1>0, <2>4, <3>3 DEF CheckAllow, Begin, ResetWindow, KeepWindow, ZeroTotal, ZeroFailed,
                                Reject, ClearProbes, Admit, Goto
      <4>2. state' = state /\ openFor' = openFor /\ sinceOpened' = sinceOpened
        BY <2>4, <3>3 DEF CheckAllow, Begin, ResetWindow, KeepWindow, ZeroTotal, ZeroFailed,
                          Reject, ClearProbes, Admit, ages, history
      <4> QED
        BY <2>2, <4>1, <4>2
    <3> QED
      BY <3>1, <3>2, <3>3, <3>4
  <2>5. CASE Succeed(r) \/ Fail(r)
    BY <1>0, <2>2, <2>5 DEF Succeed, Fail, Goto, ages, history
  <2>6. CASE Record(r)
    <3>1. CASE Open(r)
      BY <1>0, <3>1 DEF Open, Goto
    <3>2. CASE Stamp(r)
      BY <1>0, <3>2 DEF Stamp, Goto, history
    <3>3. CASE ~(Open(r) \/ Stamp(r))
      <4>1. pc'[r] \notin {"opened", "sample"} /\ pc[r] # "stamp"
        BY <1>0, <2>6, <3>3 DEF Record, RecordSuccess, Prove, Close, ResetTotal, ResetFailed,
             ResetProbes, ResetStart, RecordFailure, Count, Judge, Goto, IInv, TypeInv, States
      <4>2. state' \in {state, "Closed"} /\ openFor' = openFor /\ sinceOpened' = sinceOpened
        BY <2>6, <3>3 DEF Record, RecordSuccess, Prove, Close, ResetTotal, ResetFailed,
             ResetProbes, ResetStart, RecordFailure, Count, Judge, ages, history
      <4> QED
        BY <2>2, <4>1, <4>2
    <3> QED
      BY <3>1, <3>2, <3>3
  <2> QED
    BY <1>3, <2>4, <2>5, <2>6 DEF Request
<1> QED
  BY <1>1, <1>2, <1>3 DEF Next

LEMMA ProvenStays == IInv /\ TypeInv' /\ [Next]_vars => ProvenInv'
<1> SUFFICES ASSUME IInv, TypeInv', [Next]_vars PROVE ProvenInv'
  OBVIOUS
<1>0. proven \in Nat /\ probes \in Nat /\ SuccessThreshold \in Nat /\ pc \in [Requests -> Pcs]
  BY BreakerTypes DEF IInv, TypeInv
<1>1. CASE Tick \/ UNCHANGED vars
  BY <1>1, Zenon DEF Tick, vars, IInv, ProvenInv, counters, history
<1>2. ASSUME NEW r \in Requests, Request(r) PROVE ProvenInv'
  <2> SUFFICES ASSUME serial'
               PROVE  /\ state' = "HalfOpen" /\ pc'[r] # "clearProbes" => proven' >= probes'
                      /\ pc'[r] = "prove" => state' = "HalfOpen"
                      /\ pc'[r] = "close" => proven' >= SuccessThreshold
    <3>1. serial' => \A q \in Requests \ {r} : pc'[q] = "idle"
      BY <1>2, OneMoves DEF IInv
    <3> QED
      BY <3>1 DEF ProvenInv
  <2>1. serial /\ \A q \in Requests \ {r} : pc[q] = "idle"
    BY <1>2, OneMoves DEF IInv, Alone
  <2>2. /\ state = "HalfOpen" /\ pc[r] # "clearProbes" => proven >= probes
        /\ pc[r] = "prove" => state = "HalfOpen"
        /\ pc[r] = "close" => proven >= SuccessThreshold
    BY <2>1 DEF IInv, ProvenInv
  <2>3. CASE CheckAllow(r)
    <3>1. pc'[r] \notin {"prove", "close"}
      BY <1>0, <2>3 DEF CheckAllow, Begin, ResetWindow, KeepWindow, ZeroTotal, ZeroFailed, Check,
                        Sample, Reject, HalfOpen, ClearProbes, Admit, Goto
    <3>2. CASE HalfOpen(r)
      BY <1>0, <3>1, <3>2 DEF HalfOpen, Goto
    <3>3. CASE ClearProbes(r)
      BY <1>0, <3>1, <3>3 DEF ClearProbes, Goto, history
    <3>4. CASE ~(HalfOpen(r) \/ ClearProbes(r))
      <4>1. pc[r] # "clearProbes"
        BY <2>3, <3>4 DEF CheckAllow, Begin, ResetWindow, KeepWindow, ZeroTotal, ZeroFailed, Check,
                          Sample, Reject, Admit
      <4>2. state' = state /\ probes' = probes
        BY <2>3, <3>4 DEF CheckAllow, Begin, ResetWindow, KeepWindow, ZeroTotal, ZeroFailed, Check,
                          Sample, Reject, Admit, counters
      <4>3. proven' = proven
        BY <2>3, <3>4 DEF CheckAllow, Begin, ResetWindow, KeepWindow, ZeroTotal, ZeroFailed, Check,
                          Sample, Reject, Admit, history
      <4> QED
        BY <2>2, <3>1, <4>1, <4>2, <4>3
    <3> QED
      BY <3>2, <3>3, <3>4
  <2>4. CASE Succeed(r) \/ Fail(r)
    BY <1>0, <2>2, <2>4 DEF Succeed, Fail, Goto, counters, history
  <2>5. CASE Record(r)
    <3>1. CASE RecordSuccess(r)
      BY <1>0, <2>2, <3>1 DEF RecordSuccess, Goto, counters, history
    <3>2. CASE Prove(r)
      BY <1>0, <2>1, <2>2, <3>2 DEF Prove, Goto, AtMost
    <3>3. CASE Close(r) \/ Open(r)
      BY <1>0, <3>3 DEF Close, Open, Goto
    <3>4. CASE ResetProbes(r)
      BY <1>0, <2>2, <3>4 DEF ResetProbes, Goto, history
    <3>5. CASE ResetTotal(r) \/ ResetFailed(r) \/ ResetStart(r) \/ RecordFailure(r) \/ Count(r)
               \/ Judge(r) \/ Stamp(r)
      <4>1. pc'[r] \notin {"prove", "close"} /\ pc[r] # "clearProbes"
        BY <1>0, <3>5 DEF ResetTotal, ResetFailed, ResetStart, RecordFailure, Count, Judge, Stamp,
                          Goto, IInv, TypeInv, States
      <4>2. state' = state /\ probes' = probes /\ proven' = proven
        BY <3>5 DEF ResetTotal, ResetFailed, ResetStart, RecordFailure, Count, Judge, Stamp,
                    counters, history
      <4> QED
        BY <2>2, <4>1, <4>2
    <3> QED
      BY <2>5, <3>1, <3>2, <3>3, <3>4, <3>5 DEF Record
  <2> QED
    BY <1>2, <2>3, <2>4, <2>5 DEF Request
<1> QED
  BY <1>1, <1>2 DEF Next

LEMMA Inductive == IInv /\ [Next]_vars => IInv'
  BY TypesHold, AloneStays, CountStays, NearStays, OpenStays, ProvenStays DEF IInv

(* circuit_breaker.rs: unless a reset has cleared only the first counter,  *)
(* the failures exceed the requests by at most one for each other request, *)
(* and by none while requests have not overlapped: then the rate is one.   *)
THEOREM RateIsARate == Spec => []FailuresWithinTotal
<1>1. IInv => FailuresWithinTotal
  <2> SUFFICES ASSUME IInv, \A r \in Requests : pc[r] \notin {"zeroFailed", "resetFailed"}
               PROVE  failed <= total + (IF serial THEN 0 ELSE Cardinality(Requests) - 1)
    BY DEF FailuresWithinTotal
  <2>1. total \in Nat /\ failed \in Nat /\ failed <= CountMax /\ CountMax \in Nat
    BY BreakerTypes DEF IInv, TypeInv
  <2>2. CASE serial
    BY <2>1, <2>2 DEF IInv, CountInv
  <2>3. CASE ~serial
    BY <2>1, <2>3, SomeRequest, UncountedType DEF IInv, NearInv
  <2> QED
    BY <2>2, <2>3
<1> QED
  BY <1>1, InitHolds, Inductive, PTL DEF Spec

(* An open circuit lets nothing through before open_timeout has passed.    *)
THEOREM OpenLasts == Spec => OpenEnduresSerially
<1>1. IInv /\ [Next]_vars
        => [serial /\ state = "Open" /\ state' = "HalfOpen" => openFor >= OpenTimeout]_vars
  <2> SUFFICES ASSUME IInv, Next, serial, state = "Open", state' = "HalfOpen"
               PROVE  openFor >= OpenTimeout
    OBVIOUS
  <2>1. PICK r \in Requests : HalfOpen(r)
    BY DEF Next, Tick, Request, CheckAllow, Record, Begin, ResetWindow, KeepWindow, ZeroTotal,
           ZeroFailed, Check, Sample, Reject, ClearProbes, Admit, Succeed, Fail, RecordSuccess, Prove, Close,
           ResetTotal, ResetFailed, ResetProbes, ResetStart, RecordFailure, Count, Judge, Open, Stamp
  <2> QED
    BY <2>1 DEF HalfOpen, Passed, IInv, OpenInv
<1> QED
  BY <1>1, InitHolds, Inductive, PTL DEF Spec, OpenEnduresSerially

(* A half-open circuit closes after success_threshold successes, no sooner. *)
THEOREM ClosesWhenProven == Spec => ClosesOnlyWhenProven
<1>1. IInv /\ [Next]_vars
        => [serial /\ state = "HalfOpen" /\ state' = "Closed" => proven >= SuccessThreshold]_vars
  <2> SUFFICES ASSUME IInv, Next, serial, state = "HalfOpen", state' = "Closed"
               PROVE  proven >= SuccessThreshold
    OBVIOUS
  <2>1. PICK r \in Requests : Close(r)
    BY DEF Next, Tick, Request, CheckAllow, Record, Begin, ResetWindow, KeepWindow, ZeroTotal,
           ZeroFailed, Check, Sample, Reject, HalfOpen, ClearProbes, Admit, Succeed, Fail, RecordSuccess, Prove,
           ResetTotal, ResetFailed, ResetProbes, ResetStart, RecordFailure, Count, Judge, Open, Stamp
  <2> QED
    BY <2>1 DEF Close, IInv, ProvenInv
<1> QED
  BY <1>1, InitHolds, Inductive, PTL DEF Spec, ClosesOnlyWhenProven
=============================================================================
