--------------------------- MODULE CircuitBreaker ---------------------------
(***************************************************************************)
(* CircuitBreaker of mm_http (mm_http/src/circuit_breaker.rs): six atomics *)
(* that every request reads and writes without a lock, before (check_allow)*)
(* and after (record_success, record_failure) its call.  One step is one   *)
(* access to an atomic; a load is joined with the branch it decides.       *)
(*                                                                         *)
(* Only two differences of times matter, the ages of window_start and of   *)
(* opened_at, and only up to the duration they are compared with, where    *)
(* they saturate here.  The code reads the clock first and the other time  *)
(* after it.  If another request stores that time in between, the          *)
(* difference is either the old one, if the load came first, or negative,  *)
(* which an u64 turns into an enormous age: `due' is then "either".        *)
(***************************************************************************)
EXTENDS Integers, FiniteSets

CONSTANTS Requests,             \* the requests that may be under way at a time
          RateNum, RateDen,     \* failure_threshold, as a fraction
          MinimumRequests, SuccessThreshold,
          OpenTimeout, WindowDuration,
          CountMax              \* bound: the two counters saturate here

ASSUME BreakerAssumption ==
  /\ IsFiniteSet(Requests) /\ Requests # {}
  /\ RateNum \in Nat /\ RateDen \in Nat \ {0}
  /\ SuccessThreshold \in Nat \ {0} /\ MinimumRequests \in Nat
  /\ OpenTimeout \in Nat \ {0} /\ WindowDuration \in Nat \ {0}
  /\ CountMax \in Nat /\ CountMax >= MinimumRequests

VARIABLES
  state,                        \* Closed, Open, HalfOpen
  total, failed,                \* total_requests, failed_requests
  probes,                       \* half_open_successes, up to SuccessThreshold
  sinceWindow, sinceOpened,     \* the ages of window_start and opened_at
  pc,                           \* where each request is
  due,                          \* its answer to "has the duration passed?"
  counted,                      \* the number fetch_add gave a failed request
  \* History, for the properties:
  serial,                       \* no two requests have overlapped yet
  openFor,                      \* time since the circuit opened
  proven                        \* successes since it is half open, while serial

counters == <<total, failed, probes>>
ages == <<sinceWindow, sinceOpened>>
history == <<serial, openFor, proven>>
vars == <<state, counters, ages, pc, due, counted, history>>

AtMost(bound, n) == IF n < bound THEN n ELSE bound

Answers == {"yes", "no", "either"}
Passed(r) == due[r] \in {"yes", "either"}
NotPassed(r) == due[r] \in {"no", "either"}

Init ==
  /\ state = "Closed"
  /\ total = 0 /\ failed = 0 /\ probes = 0
  /\ sinceWindow = 0 /\ sinceOpened \in 0 .. OpenTimeout
  /\ pc = [r \in Requests |-> "idle"]
  /\ due = [r \in Requests |-> "no"]
  /\ counted = [r \in Requests |-> 0]
  /\ serial = TRUE /\ openFor = OpenTimeout /\ proven = 0

Goto(r, next) == pc' = [pc EXCEPT ![r] = next]

(* A store to a time that another request is about to load. *)
Overtake(r, loading) ==
  due' = [q \in Requests |-> IF q # r /\ pc[q] = loading THEN "either" ELSE due[q]]
-----------------------------------------------------------------------------
(* check_allow, with reset_window_if_needed first. *)

Begin(r) ==
  /\ pc[r] = "idle"
  /\ Goto(r, "window")
  /\ due' = [due EXCEPT ![r] = IF sinceWindow >= WindowDuration THEN "yes" ELSE "no"]
  /\ serial' = (serial /\ \A q \in Requests : pc[q] = "idle")
  /\ proven' = IF serial' THEN proven ELSE 0
  /\ UNCHANGED <<state, counters, ages, counted, openFor>>

(* The compare_exchange succeeds for the one request that still sees the   *)
(* time it loaded.                                                         *)
ResetWindow(r) ==
  /\ pc[r] = "window" /\ Passed(r)
  /\ sinceWindow' = 0
  /\ Overtake(r, "window")
  /\ Goto(r, "zeroTotal")
  /\ UNCHANGED <<state, counters, sinceOpened, counted, history>>

KeepWindow(r) ==
  /\ pc[r] = "window" /\ NotPassed(r)
  /\ Goto(r, "check")
  /\ UNCHANGED <<state, counters, ages, due, counted, history>>

ZeroTotal(r) ==
  /\ pc[r] = "zeroTotal"
  /\ total' = 0
  /\ Goto(r, "zeroFailed")
  /\ UNCHANGED <<state, failed, probes, ages, due, counted, history>>

(* Faulty variant: the failures of the last window are kept. *)
ZeroFailedNot(r) ==
  /\ pc[r] = "zeroFailed"
  /\ Goto(r, "check")
  /\ UNCHANGED <<state, counters, ages, due, counted, history>>

ZeroFailed(r) ==
  /\ pc[r] = "zeroFailed"
  /\ failed' = 0
  /\ Goto(r, "check")
  /\ UNCHANGED <<state, total, probes, ages, due, counted, history>>

Check(r) ==
  /\ pc[r] = "check"
  /\ Goto(r, IF state = "Open" THEN "sample" ELSE "admit")
  /\ UNCHANGED <<state, counters, ages, due, counted, history>>

(* The clock, of a request that has found the circuit open. *)
Sample(r) ==
  /\ pc[r] = "sample"
  /\ Goto(r, "opened")
  /\ due' = [due EXCEPT ![r] = IF sinceOpened >= OpenTimeout THEN "yes" ELSE "no"]
  /\ UNCHANGED <<state, counters, ages, counted, history>>

(* Err(CircuitBreakerOpen) *)
Reject(r) ==
  /\ pc[r] = "opened" /\ NotPassed(r)
  /\ Goto(r, "idle")
  /\ UNCHANGED <<state, counters, ages, due, counted, history>>

(* Faulty variant: the earlier probes still count. *)
HalfOpenUncleared(r) ==
  /\ pc[r] = "opened" /\ Passed(r)
  /\ state' = "HalfOpen"
  /\ proven' = 0
  /\ Goto(r, "admit")
  /\ UNCHANGED <<counters, ages, due, counted, serial, openFor>>

HalfOpen(r) ==
  /\ pc[r] = "opened" /\ Passed(r)
  /\ state' = "HalfOpen"
  /\ proven' = 0
  /\ Goto(r, "clearProbes")
  /\ UNCHANGED <<counters, ages, due, counted, serial, openFor>>

ClearProbes(r) ==
  /\ pc[r] = "clearProbes"
  /\ probes' = 0
  /\ Goto(r, "admit")
  /\ UNCHANGED <<state, total, failed, ages, due, counted, history>>

(* Faulty variant: every request forgets the probes before it. *)
AdmitAfresh(r) ==
  /\ pc[r] = "admit"
  /\ total' = AtMost(CountMax, total + 1)
  /\ probes' = 0
  /\ Goto(r, "called")
  /\ UNCHANGED <<state, failed, ages, due, counted, history>>

Admit(r) ==
  /\ pc[r] = "admit"
  /\ total' = AtMost(CountMax, total + 1)
  /\ Goto(r, "called")
  /\ UNCHANGED <<state, failed, probes, ages, due, counted, history>>
-----------------------------------------------------------------------------
(* The call itself, whose outcome call and call_async record. *)
Succeed(r) ==
  /\ pc[r] = "called"
  /\ Goto(r, "success")
  /\ UNCHANGED <<state, counters, ages, due, counted, history>>

Fail(r) ==
  /\ pc[r] = "called"
  /\ Goto(r, "failure")
  /\ UNCHANGED <<state, counters, ages, due, counted, history>>
-----------------------------------------------------------------------------
(* record_success *)
RecordSuccess(r) ==
  /\ pc[r] = "success"
  /\ Goto(r, IF state = "HalfOpen" THEN "prove" ELSE "idle")
  /\ UNCHANGED <<state, counters, ages, due, counted, history>>

Prove(r) ==
  /\ pc[r] = "prove"
  /\ probes' = AtMost(SuccessThreshold, probes + 1)
  /\ proven' = IF serial THEN AtMost(SuccessThreshold, proven + 1) ELSE 0
  /\ Goto(r, IF probes + 1 >= SuccessThreshold THEN "close" ELSE "idle")
  /\ UNCHANGED <<state, total, failed, ages, due, counted, serial, openFor>>

Close(r) ==
  /\ pc[r] = "close"
  /\ state' = "Closed"
  /\ Goto(r, "resetTotal")
  /\ UNCHANGED <<counters, ages, due, counted, history>>

(* reset_statistics *)
ResetTotal(r) ==
  /\ pc[r] = "resetTotal"
  /\ total' = 0
  /\ Goto(r, "resetFailed")
  /\ UNCHANGED <<state, failed, probes, ages, due, counted, history>>

ResetFailed(r) ==
  /\ pc[r] = "resetFailed"
  /\ failed' = 0
  /\ Goto(r, "resetProbes")
  /\ UNCHANGED <<state, total, probes, ages, due, counted, history>>

ResetProbes(r) ==
  /\ pc[r] = "resetProbes"
  /\ probes' = 0
  /\ Goto(r, "resetStart")
  /\ UNCHANGED <<state, total, failed, ages, due, counted, history>>

ResetStart(r) ==
  /\ pc[r] = "resetStart"
  /\ sinceWindow' = 0
  /\ Overtake(r, "window")
  /\ Goto(r, "idle")
  /\ UNCHANGED <<state, counters, sinceOpened, counted, history>>
-----------------------------------------------------------------------------
(* record_failure *)
RecordFailure(r) ==
  /\ pc[r] = "failure"
  /\ Goto(r, CASE state = "Closed" -> "count"
               [] state = "HalfOpen" -> "open"
               [] state = "Open" -> "idle")
  /\ UNCHANGED <<state, counters, ages, due, counted, history>>

Count(r) ==
  /\ pc[r] = "count"
  /\ failed' = AtMost(CountMax, failed + 1)
  /\ counted' = [counted EXCEPT ![r] = failed']
  /\ Goto(r, "judge")
  /\ UNCHANGED <<state, total, probes, ages, due, history>>

Judge(r) ==
  /\ pc[r] = "judge"
  /\ Goto(r, IF /\ total >= MinimumRequests
                /\ counted[r] * RateDen >= RateNum * total
             THEN "open" ELSE "idle")
  /\ counted' = [counted EXCEPT ![r] = 0]
  /\ UNCHANGED <<state, counters, ages, due, history>>

(* Faulty variant: the time of opening is not stored. *)
OpenUnstamped(r) ==
  /\ pc[r] = "open"
  /\ state' = "Open"
  /\ openFor' = 0
  /\ Goto(r, "idle")
  /\ UNCHANGED <<counters, ages, due, counted, serial, proven>>

(* open_circuit: the state first, then the time. *)
Open(r) ==
  /\ pc[r] = "open"
  /\ state' = "Open"
  /\ openFor' = 0
  /\ Goto(r, "stamp")
  /\ UNCHANGED <<counters, ages, due, counted, serial, proven>>

Stamp(r) ==
  /\ pc[r] = "stamp"
  /\ sinceOpened' = 0
  /\ Overtake(r, "opened")
  /\ Goto(r, "idle")
  /\ UNCHANGED <<state, counters, sinceWindow, counted, history>>
-----------------------------------------------------------------------------
Tick ==
  /\ sinceWindow' = AtMost(WindowDuration, sinceWindow + 1)
  /\ sinceOpened' = AtMost(OpenTimeout, sinceOpened + 1)
  /\ openFor' = AtMost(OpenTimeout, openFor + 1)
  /\ UNCHANGED <<state, counters, pc, due, counted, serial, proven>>

CheckAllow(r) ==
  \/ Begin(r) \/ ResetWindow(r) \/ KeepWindow(r) \/ ZeroTotal(r) \/ ZeroFailed(r)
  \/ Check(r) \/ Sample(r) \/ Reject(r) \/ HalfOpen(r) \/ ClearProbes(r) \/ Admit(r)

Record(r) ==
  \/ RecordSuccess(r) \/ Prove(r) \/ Close(r)
  \/ ResetTotal(r) \/ ResetFailed(r) \/ ResetProbes(r) \/ ResetStart(r)
  \/ RecordFailure(r) \/ Count(r) \/ Judge(r) \/ Open(r) \/ Stamp(r)

Request(r) == CheckAllow(r) \/ Succeed(r) \/ Fail(r) \/ Record(r)

Next == Tick \/ \E r \in Requests : Request(r)

(* Requests keep coming and every call returns: the HTTP client has a      *)
(* timeout.                                                                *)
Fairness == WF_vars(Tick) /\ \A r \in Requests : WF_vars(Request(r))

Spec == Init /\ [][Next]_vars /\ Fairness
-----------------------------------------------------------------------------
(* An open circuit lets nothing through before open_timeout has passed     *)
(* since it opened.                                                        *)
OpenEndures == [][state = "Open" /\ state' = "HalfOpen" => openFor >= OpenTimeout]_vars

(* So it is as long as requests have not overlapped. *)
OpenEnduresSerially ==
  [][serial /\ state = "Open" /\ state' = "HalfOpen" => openFor >= OpenTimeout]_vars

(* The circuit closes only after success_threshold successes of the same   *)
(* half-open phase, as long as requests have not overlapped.               *)
ClosesOnlyWhenProven ==
  [][serial /\ state = "HalfOpen" /\ state' = "Closed" => proven >= SuccessThreshold]_vars

(* A failure is counted after its request, and a reset clears the two      *)
(* counters one after the other while others go on counting.  However they *)
(* interleave, unless a reset has cleared only the first, the failures     *)
(* exceed the requests by at most one for each of the others that may have *)
(* been under way meanwhile, and by none if requests have not overlapped.  *)
FailuresWithinTotal ==
  (\A r \in Requests : pc[r] \notin {"zeroFailed", "resetFailed"}) =>
    failed <= total + (IF serial THEN 0 ELSE Cardinality(Requests) - 1)

(* However requests interleave, a half-open circuit decides ... *)
HalfOpenDecides == state = "HalfOpen" ~> state # "HalfOpen"

(* ... and once requests stop failing the circuit closes for good. *)
Recovers ==
  <>[][\A r \in Requests : ~Fail(r)]_vars => <>[](state = "Closed")
=============================================================================
