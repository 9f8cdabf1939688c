--------------------------- MODULE CircuitBreaker ---------------------------
(***************************************************************************)
(* The circuit breaker in front of /v1/tools/check (class CircuitBreaker   *)
(* of _outage.py), as operators on a breaker record: every method holds    *)
(* the breaker's lock for its whole body, so each is one atomic step.      *)
(*                                                                         *)
(* Time is the age of the last opening, counted in ticks and saturating at *)
(* the cooldown; the consecutive-failure counter saturates at the          *)
(* threshold.  The code compares both only with >=, so nothing it does     *)
(* depends on what lies beyond, and no bound on the run is needed.         *)
(***************************************************************************)
EXTENDS Naturals

CONSTANTS Threshold,   \* consecutive failures that open the circuit
          Cooldown     \* ticks the circuit stays open before a probe

\* GatewayConfig validates both: tool_check_breaker_threshold >= 1 and
\* tool_check_breaker_cooldown > 0.
ASSUME BreakerAssumption == /\ Threshold \in Nat \ {0}
                            /\ Cooldown \in Nat \ {0}

Breakers == [failures : 0..Threshold, open : BOOLEAN,
             age : 0..Cooldown, probing : BOOLEAN]

ClosedBreaker == [failures |-> 0, open |-> FALSE, age |-> 0, probing |-> FALSE]

\* acquire(): a closed circuit lets every call out, an open one a single
\* probe once it has cooled down.
Admits(b) == \/ ~b.open
             \/ ~b.probing /\ b.age = Cooldown

AfterAcquire(b) == [b EXCEPT !.probing = b.open \/ b.probing]

\* Plausible slips in the methods below, each refuted by a property.
SuccessKeepsCount(b) == [b EXCEPT !.open = FALSE, !.probing = FALSE, !.age = 0]
SuccessKeepsOpen(b) == [b EXCEPT !.failures = 0, !.probing = FALSE]
ReleaseKeepsProbing(b) == b

AfterSuccess(b) == ClosedBreaker

\* record_failure(): a failing probe re-opens the circuit for another
\* cooldown; otherwise the failure counts towards the threshold.
AfterFailure(b) ==
  IF b.probing
    THEN [b EXCEPT !.probing = FALSE, !.open = TRUE, !.age = 0]
    ELSE LET count == IF b.failures < Threshold THEN b.failures + 1 ELSE Threshold
             trips == ~b.open /\ count = Threshold
         IN [b EXCEPT !.failures = count,
                      !.open = b.open \/ trips,
                      !.age = IF trips THEN 0 ELSE b.age]

\* release_probe(): a call ended without a verdict.
AfterRelease(b) == [b EXCEPT !.probing = FALSE]

\* The monotonic clock advances by one tick.
Aged(b) == [b EXCEPT !.age = IF b.open /\ b.age < Cooldown THEN b.age + 1 ELSE b.age]
=============================================================================
