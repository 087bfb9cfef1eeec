------------------------------- MODULE Backoff -------------------------------
(***************************************************************************)
(* The backoff loops of the SDK, step by step on fixed-width durations:    *)
(* StdNetTransport.retryDelay, between attempts of a request, and          *)
(* RealtimeClient.reconnectDelay, before a reconnection, whose first delay *)
(* has a cap of its own and whose doublings start one attempt later.       *)
(***************************************************************************)
EXTENDS Integers

CONSTANTS
  MaxInt,       \* the largest time.Duration
  MaxAttempt    \* bound on the attempts

ASSUME WidthAssumption == MaxInt \in Nat \ {0} /\ MaxAttempt \in Nat \ {0}

VARIABLES
  kind,        \* "retry" or "reconnect"
  attempt,     \* the attempt the delay is for, from 1
  base,        \* BaseDelay
  maximum,     \* MaxDelay
  first,       \* FirstDelayMax
  i,           \* the loop's counter
  capDelay,
  delay,       \* the result
  pc

inputs == <<kind, attempt, base, maximum, first>>
vars   == <<inputs, i, capDelay, delay, pc>>

Duration == -(MaxInt + 1)..MaxInt

(* A product or a sum of durations wraps around. *)
Wrap(n) == IF n > MaxInt THEN n - 2 * (MaxInt + 1) ELSE n

(* The policies replace delays that are not positive by defaults.  The     *)
(* transport has no first delay of its own.                                *)
Init ==
  /\ kind \in {"retry", "reconnect"}
  /\ attempt \in 1..MaxAttempt
  /\ base \in 1..MaxInt
  /\ maximum \in 1..MaxInt
  /\ first \in IF kind = "reconnect" /\ attempt = 1 THEN 1..MaxInt ELSE {1}
  /\ i = IF kind = "retry" THEN 1 ELSE 2
  /\ capDelay = IF kind = "reconnect" /\ attempt = 1 THEN first ELSE base
  /\ delay = 0
  /\ pc = IF kind = "reconnect" /\ attempt = 1 THEN "draw" ELSE "loop"

Looping == pc = "loop" /\ i < attempt /\ capDelay < maximum

Double_Unguarded ==
  /\ Looping
  /\ capDelay' = Wrap(2 * capDelay)
  /\ i' = i + 1
  /\ UNCHANGED <<inputs, delay, pc>>

Double_Late ==
  /\ Looping
  /\ capDelay <= maximum \div 2
  /\ capDelay' = Wrap(2 * capDelay)
  /\ i' = i + 2
  /\ UNCHANGED <<inputs, delay, pc>>

Double ==
  /\ Looping
  /\ capDelay <= maximum \div 2
  /\ capDelay' = Wrap(2 * capDelay)
  /\ i' = i + 1
  /\ UNCHANGED <<inputs, delay, pc>>

(* Doubling would pass the maximum: the loop breaks. *)
Saturate ==
  /\ Looping
  /\ capDelay > maximum \div 2
  /\ capDelay' = maximum
  /\ pc' = "clip"
  /\ UNCHANGED <<inputs, i, delay>>

Leave ==
  /\ pc = "loop"
  /\ ~Looping
  /\ pc' = "clip"
  /\ UNCHANGED <<inputs, i, capDelay, delay>>

Clip ==
  /\ pc = "clip"
  /\ capDelay' = IF capDelay > maximum THEN maximum ELSE capDelay
  /\ pc' = "draw"
  /\ UNCHANGED <<inputs, i, delay>>

Finish(d) ==
  /\ pc = "draw"
  /\ delay' = d
  /\ pc' = "done"
  /\ UNCHANGED <<inputs, i, capDelay>>

(* fullJitter: uniform in [0, capDelay], drawn below capDelay + 1, where    *)
(* crypto/rand.Int panics when that is not positive.                       *)
Panic ==
  /\ pc = "draw"
  /\ pc' = "panic"
  /\ UNCHANGED <<inputs, i, capDelay, delay>>

FullJitter ==
  LET below == Wrap(capDelay + 1)
  IN  IF below > 0 THEN \E d \in 0..(below - 1) : Finish(d) ELSE Panic

Clamp(d) == IF d < 0 THEN 0 ELSE IF d > capDelay THEN capDelay ELSE d

(* A Jitter of the caller's returns what it likes. *)
PolicyJitter == \E d \in Duration : Finish(Clamp(d))

Next == Double \/ Saturate \/ Leave \/ Clip \/ FullJitter \/ PolicyJitter

Spec == Init /\ [][Next]_vars

-----------------------------------------------------------------------------
(* Properties.                                                             *)

(* Types; a delay is never negative. *)
TypeOK ==
  /\ kind \in {"retry", "reconnect"}
  /\ attempt \in 1..MaxAttempt
  /\ {base, maximum, first} \subseteq 1..MaxInt
  /\ i \in Nat
  /\ capDelay \in Duration /\ delay \in 0..MaxInt
  /\ pc \in {"loop", "clip", "draw", "done", "panic"}

(* No doubling overflows the duration, whatever the policy: the cap stays  *)
(* positive and, once the loop is over, within the policy's maximum.  The  *)
(* delay lies between zero and its cap, whatever the jitter returns.  What *)
(* can overflow is the bound of fullJitter, and only when the policy       *)
(* allows the largest duration there is.                                   *)
NeverOverflows ==
  /\ capDelay \in 1..MaxInt
  /\ pc \in {"draw", "done", "panic"} =>
       capDelay <= IF kind = "reconnect" /\ attempt = 1 THEN first ELSE maximum
  /\ pc = "done" => delay \in 0..capDelay
  /\ pc = "panic" => capDelay = MaxInt

(* What the loops compute: the smaller of the maximum and the base doubled *)
(* once per earlier attempt (per earlier attempt but the first).           *)
Exponential ==
  LET doublings == IF kind = "retry" THEN attempt - 1 ELSE attempt - 2
      full == base * 2^doublings
  IN  pc = "done" /\ doublings >= 0 =>
        capDelay = IF full < maximum THEN full ELSE maximum
=============================================================================
