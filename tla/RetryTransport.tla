--------------------------- MODULE RetryTransport ---------------------------
(***************************************************************************)
(* StdNetTransport.Call: one request, its attempts, the waits between them *)
(* and the deadline over all of them.  The network and the server are the  *)
(* environment: they decide how an attempt ends and whether the server ran *)
(* the request, which the client cannot always tell.                       *)
(***************************************************************************)
EXTENDS Naturals

CONSTANTS
  MaxAttempts,    \* RetryPolicy.MaxAttempts
  BaseDelay,      \* RetryPolicy.BaseDelay, in clock ticks
  MaxDelay,       \* RetryPolicy.MaxDelay
  Budget,         \* ticks until the deadline of the call
  MaxRetryAfter   \* bound on the Retry-After the server sends

ASSUME AttemptsAssumption == MaxAttempts \in Nat \ {0}
ASSUME DelayAssumption == BaseDelay \in Nat \ {0} /\ MaxDelay \in Nat \ {0}
ASSUME BudgetAssumption == Budget \in Nat /\ MaxRetryAfter \in Nat

VARIABLES
  kind,        \* "read", "keyed" (ReplaySafe or Idempotency-Key) or "write"
  phase,       \* "sent" (attempt under way), "sleep" or "done"
  attempt,     \* number of the attempt, from 1
  remaining,   \* ticks until the deadline
  delay,       \* ticks left to sleep
  retryAfter,  \* the Retry-After of the latest answer, 0 if none
  slept,       \* ticks slept since that answer
  executed,    \* how many times the server ran the request
  result       \* how the call ended, "none" before

vars == <<kind, phase, attempt, remaining, delay, retryAfter, slept, executed,
          result>>

(* How an attempt ends without a response: the request cannot be built,    *)
(* the connection cannot be opened, the host has no address, TLS fails,    *)
(* the open connection breaks or times out, or it ends in an error that is *)
(* no network error.                                                       *)
TransportError == {"unbuilt", "dial", "noSuchHost", "tls", "broken", "eof"}

(* Errors and statuses after which another attempt can help. *)
retryableTransportError == {"dial", "broken"}
retryableStatus == {"unavailable", "enqueueDisabled"}

(* The request never left: repeating it is safe for any method. *)
requestNotSent_AnyNetworkError == {"dial", "broken"}

requestNotSent == {"dial"}

(* A response: success, a retryable status (408, 429, 502, 503, 504), the  *)
(* one 503 that is final (party_enqueue_disabled), a 4xx that is not       *)
(* retryable, any other status (a 500, a stray 3xx), or a body that cannot *)
(* be read or decoded.                                                     *)
Response == {"ok", "unavailable", "enqueueDisabled", "refused", "serverError",
             "badBody"}

(* What the server may have done when an attempt ends so: it ran the       *)
(* request, it did not, or either.  Assumed of the server: an attempt it   *)
(* answers with a 4xx or with party_enqueue_disabled it has not run.       *)
MayRun == {"ok", "badBody", "unavailable", "serverError", "broken", "eof"}
MayNotRun == (TransportError \cup Response) \ {"ok"}

requestIsReplayable == kind # "write"

(* retryDelay: the cap doubles with each attempt up to MaxDelay. *)
DelayCap[n \in Nat] ==
  IF n <= 1 THEN (IF BaseDelay < MaxDelay THEN BaseDelay ELSE MaxDelay)
  ELSE IF DelayCap[n - 1] > MaxDelay \div 2 THEN MaxDelay
       ELSE 2 * DelayCap[n - 1]

Init ==
  /\ kind \in {"read", "keyed", "write"}
  /\ phase = "sent"
  /\ attempt = 1
  /\ remaining = Budget
  /\ delay = 0
  /\ retryAfter = 0
  /\ slept = 0
  /\ executed = 0
  /\ result = "none"

Finish(how) ==
  /\ phase' = "done"
  /\ result' = how
  /\ UNCHANGED <<kind, attempt, remaining, delay, retryAfter, slept>>

Run(outcome) ==
  \/ outcome \in MayRun /\ executed' = executed + 1
  \/ outcome \in MayNotRun /\ UNCHANGED executed

Sleep(d, after) ==
  /\ phase' = "sleep"
  /\ delay' = d
  /\ retryAfter' = after
  /\ slept' = 0
  /\ UNCHANGED <<kind, attempt, remaining, result>>

RetryTransportError_OffByOne(error) ==
  /\ attempt <= MaxAttempts
  /\ error \in retryableTransportError
  /\ requestIsReplayable \/ error \in requestNotSent

(* The attempt fails without a response before the deadline. *)
RetryTransportError(error) ==
  /\ attempt < MaxAttempts
  /\ error \in retryableTransportError
  /\ requestIsReplayable \/ error \in requestNotSent

AttemptFails(error) ==
  /\ phase = "sent"
  /\ remaining > 0
  /\ Run(error)
  /\ IF RetryTransportError(error)
       THEN \E d \in 0..DelayCap[attempt] : Sleep(d, 0)
       ELSE Finish(error)

(* The server answers.  A Retry-After that does not fit the deadline is    *)
(* handed to the caller instead of being waited for.                       *)
RetryStatus(status) ==
  /\ attempt < MaxAttempts
  /\ requestIsReplayable
  /\ status \in retryableStatus \ {"enqueueDisabled"}

retryFitsDeadline_Unchecked(after) == TRUE

retryFitsDeadline(after) == after < remaining

Longer_OwnDelay(a, b) == a

Longer(a, b) == IF a > b THEN a ELSE b

AttemptAnswered(status, after) ==
  /\ phase = "sent"
  /\ remaining > 0
  /\ after > 0 => status \in retryableStatus
  /\ Run(status)
  /\ IF RetryStatus(status) /\ (after > 0 => retryFitsDeadline(after))
       THEN \E d \in 0..DelayCap[attempt] : Sleep(Longer(d, after), after)
       ELSE Finish(status)

(* The deadline passes, or the caller cancels, during an attempt (which    *)
(* the server may have run) or during a wait.                              *)
Interrupted ==
  /\ phase = "sent"
  /\ executed' \in {executed, executed + 1}
  /\ Finish("context")

SleepInterrupted_Deaf ==
  /\ phase = "sleep"
  /\ delay = 0
  /\ Finish("context")
  /\ UNCHANGED executed

SleepInterrupted ==
  /\ phase = "sleep"
  /\ Finish("context")
  /\ UNCHANGED executed

NextAttempt ==
  /\ phase = "sleep"
  /\ delay = 0
  /\ phase' = "sent"
  /\ attempt' = attempt + 1
  /\ UNCHANGED <<kind, remaining, delay, retryAfter, slept, executed, result>>

Tick ==
  /\ phase # "done"
  /\ remaining > 0
  /\ remaining' = remaining - 1
  /\ IF phase = "sleep"
       THEN delay > 0 /\ delay' = delay - 1 /\ slept' = slept + 1
       ELSE UNCHANGED <<delay, slept>>
  /\ UNCHANGED <<kind, phase, attempt, retryAfter, executed, result>>

Next ==
  \/ \E error \in TransportError : AttemptFails(error)
  \/ \E status \in Response, after \in 0..MaxRetryAfter :
       AttemptAnswered(status, after)
  \/ Interrupted
  \/ SleepInterrupted
  \/ NextAttempt
  \/ Tick

Spec == Init /\ [][Next]_vars

-----------------------------------------------------------------------------
(* Properties.                                                             *)

(* Types; the loop makes at most MaxAttempts attempts, and the server runs *)
(* the request at most once for each.                                      *)
TypeOK ==
  /\ kind \in {"read", "keyed", "write"}
  /\ phase \in {"sent", "sleep", "done"}
  /\ attempt \in 1..MaxAttempts
  /\ remaining \in 0..Budget
  /\ delay \in Nat
  /\ retryAfter \in Nat
  /\ slept \in Nat
  /\ executed \in 0..attempt
  /\ result \in TransportError \cup Response \cup {"none", "context"}

(* A write that is not declared safe to repeat runs at most once, however  *)
(* its attempts fail (RetryPolicy's comment).                              *)
AtMostOnce == kind = "write" => executed <= 1

(* An error that says of the last attempt that it was not sent, or that    *)
(* the server refused it, is true of the whole call: no earlier attempt    *)
(* ran either, so such a write can be made again by hand.  A 500 says no   *)
(* such thing.                                                             *)
NotRun == {"unbuilt", "dial", "noSuchHost", "tls", "refused",
           "enqueueDisabled"}

FailureIsTrue == kind = "write" /\ result \in NotRun => executed = 0

(* The next attempt is not made before the Retry-After of the last answer. *)
RetryAfterHonoured == phase = "sent" => slept >= retryAfter

(* A wait the server asked for always ends before the deadline: the call   *)
(* never spends its budget on a wait after which no attempt can run.       *)
ServerWaitFits ==
  phase = "sleep" /\ slept < retryAfter => retryAfter - slept < remaining
=============================================================================
