---------------------------- MODULE PlaidBreaker ----------------------------
(***************************************************************************)
(* The circuit breaker of the calls to Plaid: the row of the table         *)
(* plaid_circuit_breaker and what backend/models/plaidCircuitBreaker.js    *)
(* makes of it.  Its functions read the row and then write it, without a   *)
(* condition; the operators here say what is written, and the module that  *)
(* uses them says when each of the two happens.                            *)
(*                                                                         *)
(* A time stamp is what a reader makes of it: next_try_at is null, still   *)
(* to come or past; the window of the counter is running or over.          *)
(***************************************************************************)
EXTENDS Naturals

CONSTANT Threshold  \* PLAID_BREAKER_FAILURE_THRESHOLD

ASSUME BreakerAssumption == Threshold \in Nat \ {0}

\* Nothing distinguishes a count above Threshold from Threshold.
Breakers == [state : {"closed", "open", "half_open"}, count : 0 .. Threshold,
             nextTry : {"null", "later", "past"}, inWindow : BOOLEAN]

\* The row getPlaidCircuitBreaker inserts.  A null window starts now.
NewBreaker ==
  [state |-> "closed", count |-> 0, nextTry |-> "null", inWindow |-> TRUE]

Refuses(b) == b.state = "open" /\ b.nextTry = "later"

\* A request that is allowed while the breaker is open half-opens it.
Opens(b) == b.state = "open"

HalfOpened(b) == [b EXCEPT !.state = "half_open", !.nextTry = "later"]

AfterSuccess == NewBreaker

FailuresCounted(b) ==
  IF ~b.inWindow THEN 1 ELSE IF b.count < Threshold THEN b.count + 1 ELSE Threshold

\* Opens only with more failures than the threshold.
LateFailuresOpen(b) == b.count = Threshold

FailuresOpen(b) == FailuresCounted(b) >= Threshold

AfterFailure(b) ==
  [state |-> IF FailuresOpen(b) \/ b.state = "half_open" THEN "open" ELSE b.state,
   count |-> FailuresCounted(b),
   nextTry |-> IF FailuresOpen(b) THEN "later" ELSE b.nextTry,
   inWindow |-> TRUE]

\* What the passing of time makes of the row.  The window of a counter that is
\* zero does not matter.
Older(b) ==
  {[b EXCEPT !.nextTry = IF @ = "later" THEN "past" ELSE @],
   [b EXCEPT !.inWindow = b.count = 0]}

BreakerSound(b) ==
  /\ b.state = "closed" => b.count < Threshold
  /\ b.state # "closed" => b.nextTry # "null"
=============================================================================
