------------------------------ MODULE KeepFresh ------------------------------
(***************************************************************************)
(* RelayService.KeepFresh on a clock: it requests TURN credentials, hands  *)
(* them on, waits for 80% of their TTL and requests new ones; a failure    *)
(* that can pass is retried after the server's Retry-After or a backoff    *)
(* that doubles.  The relay service has outages; requests take time, the   *)
(* retries of the transport included.                                      *)
(***************************************************************************)
EXTENDS Naturals

CONSTANTS
  TTL,            \* lives of the credentials the server issues
  RetryMin,       \* relayRetryMin
  RetryMax,       \* relayRetryMax
  Latency,        \* bound on the time a request takes
  MaxRetryAfter   \* bound on the Retry-After of a refusal

ASSUME RetryAssumption ==
  RetryMin \in Nat \ {0} /\ RetryMax \in Nat /\ RetryMin <= RetryMax

(* A fifth of each life covers two answers, and exceeds no RetryMin: the   *)
(* code does not check it, and a server that issues shorter lives (one     *)
(* second, for a RetryMin of one second) is outside what is shown here.    *)
ASSUME LifeAssumption ==
  /\ TTL \subseteq Nat /\ Latency \in Nat /\ MaxRetryAfter \in Nat
  /\ \A t \in TTL : RetryMin <= (8 * t) \div 10
                    /\ (8 * t) \div 10 + 2 * Latency < t

VARIABLES
  pc,        \* "request", "answer" (on its way), "wait" or "done"
  answer,    \* the answer on its way
  busy,      \* ticks the request has taken
  wait,      \* ticks left to wait
  backoff,
  life,      \* ticks left of the credentials handed on, 0 when expired
  unbroken,  \* no request has failed since they were handed on
  quiet,     \* ticks the server has asked to wait
  up,        \* the service can issue credentials
  served     \* ticks it has been able to, up to RecoveryTime

held == <<life, unbroken>>
vars == <<pc, answer, busy, wait, backoff, held, quiet, up, served>>

Longest(a, b)  == IF a > b THEN a ELSE b
Shortest(a, b) == IF a < b THEN a ELSE b

NoAnswer == [type |-> "none", ttl |-> 0, life |-> 0, after |-> 0]

(* The last wait of an outage, the request under way when it ended, and    *)
(* the one that succeeds.                                                  *)
RecoveryTime == Longest(RetryMax, MaxRetryAfter) + 2 * Latency

Init ==
  /\ pc = "request"
  /\ answer = NoAnswer
  /\ busy = 0
  /\ wait = 0
  /\ backoff = RetryMin
  /\ life = 0
  /\ unbroken = FALSE
  /\ quiet = 0
  /\ up \in BOOLEAN
  /\ served = 0

-----------------------------------------------------------------------------
(* The server answers a request: the life of credentials begins.           *)

Answer(a) ==
  /\ pc = "request"
  /\ pc' = "answer"
  /\ answer' = a
  /\ UNCHANGED <<busy, wait, backoff, held, up, served>>

Issue(t) ==
  /\ up
  /\ Answer([NoAnswer EXCEPT !.type = "granted", !.ttl = t, !.life = t])
  /\ UNCHANGED quiet

(* No eligible relay, a rate limit or a network failure. *)
Refuse(after) ==
  /\ ~up
  /\ Answer([NoAnswer EXCEPT !.type = "retryable", !.after = after])
  /\ quiet' = after

(* Any other error, an ended session or a foreign match for example. *)
Deny == Answer([NoAnswer EXCEPT !.type = "final"]) /\ UNCHANGED quiet

(* An outage begins or ends. *)
Flip ==
  /\ up' = ~up
  /\ served' = 0
  /\ UNCHANGED <<pc, answer, busy, wait, backoff, held, quiet>>

-----------------------------------------------------------------------------
(* KeepFresh.                                                              *)

RenewalWait_AtExpiry(t) == Longest(t, RetryMin)

(* 80% of the TTL, whatever part of it the answer spent on its way. *)
RenewalWait(t) == Longest((8 * t) \div 10, RetryMin)

Pause(ticks) ==
  /\ pc' = "wait"
  /\ wait' = ticks
  /\ busy' = 0
  /\ answer' = NoAnswer
  /\ UNCHANGED <<quiet, up, served>>

(* The credentials are handed to onCredentials. *)
HandOn ==
  /\ pc = "answer" /\ answer.type = "granted"
  /\ life' = answer.life
  /\ unbroken' = TRUE
  /\ backoff' = RetryMin
  /\ Pause(RenewalWait(answer.ttl))

NextBackoff == Shortest(backoff * 2, RetryMax)

RetryWait_OwnBackoff == backoff

RetryWait_Sum == answer.after + backoff

(* A Retry-After, if there is one, replaces the backoff. *)
RetryWait == IF answer.after > 0 THEN answer.after ELSE backoff

Retry ==
  /\ pc = "answer" /\ answer.type = "retryable"
  /\ unbroken' = FALSE
  /\ backoff' = NextBackoff
  /\ Pause(RetryWait)
  /\ UNCHANGED life

(* Any other error is returned; ctx may end at any time. *)
Stop ==
  /\ pc' = "done"
  /\ UNCHANGED <<answer, busy, wait, backoff, held, quiet, up, served>>

ReturnError == pc = "answer" /\ answer.type = "final" /\ Stop

Cancelled == pc # "done" /\ Stop

Wake ==
  /\ pc = "wait" /\ wait = 0
  /\ pc' = "request"
  /\ UNCHANGED <<answer, busy, wait, backoff, held, quiet, up, served>>

Less(n) == IF n = 0 THEN 0 ELSE n - 1

(* Time passes, but not beyond a timer that is due or the longest request. *)
Tick ==
  /\ \/ pc = "wait" /\ wait > 0 /\ wait' = wait - 1 /\ UNCHANGED busy
     \/ pc \in {"request", "answer"} /\ busy < Latency /\ busy' = busy + 1
        /\ UNCHANGED wait
  /\ answer' = [answer EXCEPT !.life = Less(@)]
  /\ life' = Less(life)
  /\ quiet' = Less(quiet)
  /\ served' = IF up /\ served <= RecoveryTime THEN served + 1 ELSE served
  /\ UNCHANGED <<pc, backoff, unbroken, up>>

Next ==
  \/ \E t \in TTL : Issue(t)
  \/ \E after \in 0..MaxRetryAfter : Refuse(after)
  \/ Deny \/ Flip
  \/ HandOn \/ Retry \/ ReturnError \/ Cancelled \/ Wake
  \/ Tick

Spec == Init /\ [][Next]_vars

-----------------------------------------------------------------------------
(* Properties.                                                             *)

TypeOK ==
  /\ pc \in {"request", "answer", "wait", "done"}
  /\ answer.type \in {"none", "granted", "retryable", "final"}
  /\ busy \in 0..Latency
  /\ wait \in Nat
  /\ backoff \in RetryMin..RetryMax
  /\ life \in Nat /\ quiet \in 0..MaxRetryAfter
  /\ unbroken \in BOOLEAN /\ up \in BOOLEAN
  /\ served \in 0..(RecoveryTime + 1)

(* "the relay refuses an allocation Refresh signed with an expired         *)
(* credential" (KeepFresh): as long as every request is granted, what the  *)
(* game holds has not expired, however long each answer takes.             *)
HeldWhileGranted == unbroken /\ pc # "done" => life > 0

(* No request goes out before the Retry-After of the last refusal is over. *)
HonoursRetryAfter == pc = "request" => quiet = 0

(* After an outage, however long, fresh credentials are there within one   *)
(* longest wait and two requests.                                          *)
RecoversInTime ==
  served > RecoveryTime /\ pc # "done" => life > 0
=============================================================================
