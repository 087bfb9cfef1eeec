---------------------------- MODULE BackoffProofs ----------------------------
(***************************************************************************)
(* Proofs about Backoff: for every width of a duration and every policy    *)
(* the loops are safe, and compute the power of two they stand for.        *)
(***************************************************************************)
EXTENDS Backoff, TLAPS, FiniteSetTheorems

(* The first delay of a reconnection never enters the loop, so what Clip   *)
(* leaves is within the maximum.                                           *)
CapInv ==
  /\ TypeOK
  /\ capDelay \in 1..MaxInt
  /\ pc \in {"loop", "clip"} => ~(kind = "reconnect" /\ attempt = 1)
  /\ NeverOverflows

(* The loops begin with a positive base, or with the first delay's cap.    *)
LEMMA CapInvInit == Init => CapInv
BY WidthAssumption DEF Init, CapInv, TypeOK, NeverOverflows, Duration

(* Only a cap of at most half the maximum is doubled.                      *)
LEMMA CapInvStep == CapInv /\ [Next]_vars => CapInv'
<1> SUFFICES ASSUME CapInv, [Next]_vars PROVE CapInv'
  OBVIOUS
<1> USE WidthAssumption DEF CapInv, TypeOK, NeverOverflows, inputs,
                            Duration
<1>1. CASE Double
  BY <1>1 DEF Double, Looping, Wrap
<1>2. CASE Saturate
  BY <1>2 DEF Saturate, Looping
<1>3. CASE Leave
  BY <1>3 DEF Leave, Looping
<1>4. CASE Clip
  BY <1>4 DEF Clip
<1>5. CASE FullJitter
  BY <1>5 DEF FullJitter, Finish, Panic, Wrap
<1>6. CASE PolicyJitter
  <2>1. PICK d \in Duration : Finish(Clamp(d))
    BY <1>6 DEF PolicyJitter
  <2>2. Clamp(d) \in 0..capDelay
    BY DEF Clamp
  <2> QED BY <2>1, <2>2 DEF Finish
<1>7. CASE UNCHANGED vars
  BY <1>7 DEF vars
<1> QED BY <1>1, <1>2, <1>3, <1>4, <1>5, <1>6, <1>7 DEF Next

(* The types of the loops' variables hold; in particular no delay is ever  *)
(* negative, whatever the jitter of the caller returns.                    *)
THEOREM BackoffTypes == Spec => []TypeOK
<1>1. CapInv => TypeOK
  BY DEF CapInv
<1> QED BY <1>1, CapInvInit, CapInvStep, PTL DEF Spec

(* For every width of durations and every policy, no doubling in           *)
(* retryDelay or reconnectDelay overflows, and the delay drawn lies within *)
(* a cap the policy allows; fullJitter overflows, and panics, at a cap of  *)
(* the largest duration and at no other.                                   *)
THEOREM BackoffSafe == Spec => []NeverOverflows
<1>1. CapInv => NeverOverflows
  BY DEF CapInv
<1> QED BY <1>1, CapInvInit, CapInvStep, PTL DEF Spec

-----------------------------------------------------------------------------
(* Powers of two, of which the library knows one thing: they count the     *)
(* subsets of a finite set.  The facts about them that the loops need      *)
(* follow from that without induction.                                     *)

(* 2^n is the number of sets of numbers up to n.                           *)
LEMMA PowerCounts ==
  \A n \in Nat : /\ IsFiniteSet(SUBSET (1..n))
                 /\ Cardinality(SUBSET (1..n)) = 2^n
                 /\ 2^n \in Nat
<1> SUFFICES ASSUME NEW n \in Nat
             PROVE  /\ IsFiniteSet(SUBSET (1..n))
                    /\ Cardinality(SUBSET (1..n)) = 2^n
                    /\ 2^n \in Nat
  OBVIOUS
<1>1. IsFiniteSet(1..n) /\ Cardinality(1..n) = n
  BY FS_Interval
<1>2. IsFiniteSet(SUBSET (1..n)) /\ Cardinality(SUBSET (1..n)) = 2^n
  BY <1>1, FS_SUBSET
<1> QED
  BY <1>2, FS_CardinalityType

(* Fewer numbers have fewer sets.                                          *)
LEMMA PowerMonotonic ==
  ASSUME NEW a \in Nat, NEW b \in Nat, a <= b
  PROVE  2^a <= 2^b
<1>1. SUBSET (1..a) \subseteq SUBSET (1..b)
  OBVIOUS
<1>2. /\ IsFiniteSet(SUBSET (1..b))
      /\ Cardinality(SUBSET (1..a)) = 2^a
      /\ Cardinality(SUBSET (1..b)) = 2^b
  BY PowerCounts
<1> DEFINE S == SUBSET (1..b)
           T == SUBSET (1..a)
<1> HIDE DEF S, T
<1>3. Cardinality(T) <= Cardinality(S)
  <2>1. IsFiniteSet(S) /\ T \in SUBSET S
    BY <1>1, <1>2 DEF S, T
  <2> QED
    BY <2>1, FS_Subset
<1> QED
  BY <1>2, <1>3 DEF S, T

(* Of no number there is one set.                                          *)
LEMMA PowerZero == 2^0 = 1
<1>1. SUBSET (1..0) = {{}}
  OBVIOUS
<1> QED
  BY <1>1, PowerCounts, FS_Singleton

(* A number more doubles them: each set is there without it and with it.   *)
LEMMA PowerDoubles ==
  ASSUME NEW n \in Nat
  PROVE  2^(n + 1) = 2 * 2^n
<1> DEFINE S == SUBSET (1..n)
           T == {s \cup {n + 1} : s \in S}
           f == [s \in S |-> s \cup {n + 1}]
<1>1. ExistsBijection(S, T)
  <2>1. f \in [S -> T] /\ \A s, t \in S : f[s] = f[t] => s = t
    <3>1. \A s \in S : n + 1 \notin s
      OBVIOUS
    <3>2. ASSUME NEW s \in S, NEW t \in S, f[s] = f[t]
          PROVE  s = t
      <4>1. s \cup {n + 1} = t \cup {n + 1}
        BY <3>2
      <4>2. n + 1 \notin s /\ n + 1 \notin t
        BY <3>1
      <4>3. \A x : x \in s <=> x \in t
        BY <4>1, <4>2
      <4> QED
        BY <4>3, Zenon
    <3>3. f \in [S -> T]
      BY Zenon
    <3> QED
      BY <3>2, <3>3, Zenon
  <2>2. \A t \in T : \E s \in S : f[s] = t
    OBVIOUS
  <2>3. f \in Injection(S, T)
    BY <2>1 DEF Injection, IsInjective
  <2>4. f \in Surjection(S, T)
    BY <2>1, <2>2 DEF Surjection
  <2> QED
    BY <2>3, <2>4 DEF Bijection, ExistsBijection
<1>2. SUBSET (1..(n + 1)) = S \cup T
  <2>1. ASSUME NEW u \in SUBSET (1..(n + 1))
        PROVE  u \in S \cup T
    <3>1. CASE n + 1 \in u
      <4>1. u \ {n + 1} \in S /\ u = (u \ {n + 1}) \cup {n + 1}
        BY <3>1
      <4> QED
        BY <4>1
    <3>2. CASE n + 1 \notin u
      BY <3>2
    <3> QED
      BY <3>1, <3>2
  <2>2. S \cup T \subseteq SUBSET (1..(n + 1))
    <3>1. 1..n \subseteq 1..(n + 1) /\ n + 1 \in 1..(n + 1)
      OBVIOUS
    <3> QED
      BY <3>1, Zenon
  <2> QED
    BY <2>1, <2>2
<1>3. S \cap T = {}
  OBVIOUS
<1>4. IsFiniteSet(S) /\ Cardinality(S) = 2^n /\ 2^n \in Nat
  BY PowerCounts
<1>5. Cardinality(SUBSET (1..(n + 1))) = 2^(n + 1)
  BY PowerCounts
<1> HIDE DEF S, T
<1>6. IsFiniteSet(T) /\ Cardinality(T) = Cardinality(S)
  BY <1>1, <1>4, FS_Bijection
<1>7. Cardinality(S \cup T) = Cardinality(S) + Cardinality(T)
  BY <1>3, <1>4, <1>6, FS_Union, FS_EmptySet
<1>8. 2^(n + 1) = 2^n + 2^n
  BY <1>2, <1>4, <1>5, <1>6, <1>7, Zenon
<1> QED
  BY <1>4, <1>8

-----------------------------------------------------------------------------
(* The result.                                                             *)

(* The attempts before the doublings begin.                                *)
Skipped == IF kind = "retry" THEN 1 ELSE 2

Least(m, n) == IF m < n THEN m ELSE n

Full == base * 2^(attempt - Skipped)

(* Each round of a loop has doubled the base once more, and a loop that    *)
(* ends early has reached the maximum, which the full power passes too.    *)
PowerInv ==
  /\ CapInv
  /\ pc = "loop" =>
       /\ i \in Skipped..attempt
       /\ capDelay = base * 2^(i - Skipped)
  /\ pc = "clip" => Least(capDelay, maximum) = Least(Full, maximum)
  /\ pc \in {"draw", "done"} /\ attempt >= Skipped =>
       capDelay = Least(Full, maximum)

(* A loop begins with the base, doubled no time.                           *)
LEMMA PowerInvInit == Init => PowerInv
<1> SUFFICES ASSUME Init PROVE PowerInv
  OBVIOUS
<1>1. CapInv
  BY CapInvInit
<1>2. CASE kind = "reconnect" /\ attempt = 1
  BY <1>1, <1>2 DEF Init, PowerInv, Skipped
<1>3. CASE ~(kind = "reconnect" /\ attempt = 1)
  <2>1. base * 2^(i - Skipped) = base
    <3>1. i - Skipped = 0 /\ base \in Nat
      BY DEF Init, Skipped
    <3>2. 2^(i - Skipped) = 1
      BY <3>1, PowerZero, Zenon
    <3> QED
      BY <3>1, <3>2
  <2>2. pc = "loop" /\ i = Skipped /\ i \in Skipped..attempt
    BY <1>3 DEF Init, Skipped
  <2> QED
    BY <1>1, <1>3, <2>1, <2>2 DEF Init, PowerInv
<1> QED BY <1>2, <1>3

(* No round before the last has multiplied by more than all of them do.    *)
LEMMA FullGrows ==
  ASSUME PowerInv, NEW k \in Nat, k <= attempt - Skipped
  PROVE  base * 2^k \in Nat /\ base * 2^k <= Full /\ Full \in Nat
<1>1. attempt - Skipped \in Nat /\ base \in Nat
  BY DEF PowerInv, CapInv, TypeOK, Skipped
<1>2. base \in Nat /\ 2^k \in Nat /\ 2^(attempt - Skipped) \in Nat
  BY <1>1, PowerCounts, Zenon
<1>3. 2^k <= 2^(attempt - Skipped)
  BY <1>1, PowerMonotonic
<1> DEFINE p == 2^k
           q == 2^(attempt - Skipped)
<1> HIDE DEF p, q
<1>4. base * p \in Nat /\ base * p <= base * q /\ base * q \in Nat
  <2>1. base \in Nat /\ p \in Nat /\ q \in Nat /\ p <= q
    BY <1>2, <1>3 DEF p, q
  <2> QED BY <2>1
<1> QED BY <1>4 DEF p, q, Full

(* A round of a loop multiplies by two, and any other step keeps what the  *)
(* rounds have multiplied.                                                 *)
LEMMA PowerInvStep == PowerInv /\ [Next]_vars => PowerInv'
<1> SUFFICES ASSUME PowerInv, [Next]_vars PROVE PowerInv'
  OBVIOUS
<1>1. CapInv'
  BY CapInvStep DEF PowerInv
<1>2. CASE Double
  <2>1. /\ pc = "loop" /\ pc' = "loop" /\ i' = i + 1
        /\ i < attempt /\ UNCHANGED inputs
        /\ i \in Skipped..attempt /\ i \in Nat /\ Skipped \in Nat
        /\ attempt \in Nat
    BY <1>2 DEF Double, Looping, PowerInv, CapInv, TypeOK, Skipped
  <2>2. capDelay' = 2 * capDelay
    BY <1>2, WidthAssumption
    DEF Double, Looping, PowerInv, CapInv, TypeOK, Wrap
  <2>3. capDelay = base * 2^(i - Skipped)
    BY <2>1 DEF PowerInv
  <2>4. i - Skipped \in Nat /\ i' - Skipped = (i - Skipped) + 1
    BY <2>1
  <2>5. 2^(i' - Skipped) = 2 * 2^(i - Skipped) /\ 2^(i - Skipped) \in Nat
    BY <2>4, PowerDoubles, PowerCounts
  <2>6. capDelay' = base * 2^(i' - Skipped)
    <3> DEFINE p == 2^(i - Skipped)
               q == 2^(i' - Skipped)
    <3> HIDE DEF p, q
    <3>1. capDelay' = 2 * (base * p) /\ q = 2 * p /\ p \in Nat /\ base \in Nat
      BY <2>2, <2>3, <2>5 DEF PowerInv, CapInv, TypeOK, p, q
    <3>2. capDelay' = base * q
      BY <3>1
    <3> QED BY <3>2 DEF q
  <2>7. Skipped' = Skipped /\ base' = base /\ attempt' = attempt
    BY <2>1 DEF inputs, Skipped
  <2> QED BY <1>1, <2>1, <2>6, <2>7 DEF PowerInv
<1>3. CASE Saturate
  <2>1. /\ pc = "loop" /\ pc' = "clip" /\ i < attempt
        /\ UNCHANGED inputs /\ capDelay' = maximum
        /\ i \in Skipped..attempt /\ Skipped \in Nat /\ attempt \in Nat
        /\ capDelay = base * 2^(i - Skipped)
        /\ capDelay \in Nat /\ maximum \in Nat /\ 2 * capDelay > maximum
    BY <1>3 DEF Saturate, Looping, PowerInv, CapInv, TypeOK, Skipped
  <2>2. Full >= 2 * capDelay /\ Full \in Nat
    <3> DEFINE k == (i - Skipped) + 1
               p == 2^(i - Skipped)
               q == 2^((i - Skipped) + 1)
    <3>1. k \in Nat /\ k <= attempt - Skipped /\ i - Skipped \in Nat
      BY <2>1
    <3>2. base * q <= Full /\ Full \in Nat
      BY <3>1, FullGrows
    <3>3. q = 2 * p /\ p \in Nat /\ base \in Nat /\ capDelay = base * p
      BY <2>1, <3>1, PowerDoubles, PowerCounts DEF PowerInv, CapInv, TypeOK
    <3> HIDE DEF p, q, k
    <3>4. base * q = 2 * capDelay
      BY <3>3
    <3> QED BY <3>2, <3>4, <2>1
  <2>3. Full' = Full
    BY <2>1 DEF inputs, Full, Skipped
  <2>4. Least(capDelay', maximum') = Least(Full, maximum)
    BY <2>1, <2>2 DEF Least, inputs
  <2> QED BY <1>1, <2>1, <2>3, <2>4 DEF PowerInv, inputs
<1>4. CASE Leave
  <2>1. /\ pc = "loop" /\ pc' = "clip" /\ UNCHANGED <<inputs, capDelay>>
        /\ i \in Skipped..attempt /\ Skipped \in Nat /\ attempt \in Nat
        /\ capDelay = base * 2^(i - Skipped)
        /\ i = attempt \/ capDelay >= maximum
        /\ capDelay \in Nat /\ maximum \in Nat
    BY <1>4 DEF Leave, Looping, PowerInv, CapInv, TypeOK, Skipped
  <2>2. Full >= capDelay /\ Full \in Nat
    <3>1. i - Skipped \in Nat /\ i - Skipped <= attempt - Skipped
      BY <2>1
    <3> QED BY <2>1, <3>1, FullGrows
  <2>3. i = attempt => capDelay = Full
    BY <2>1 DEF Full
  <2>4. Least(capDelay, maximum) = Least(Full, maximum)
    BY <2>1, <2>2, <2>3 DEF Least
  <2>5. Full' = Full /\ maximum' = maximum
    BY <2>1 DEF inputs, Full, Skipped
  <2> QED BY <1>1, <2>1, <2>4, <2>5 DEF PowerInv
<1>5. CASE Clip
  <2>1. /\ pc = "clip" /\ pc' = "draw" /\ UNCHANGED inputs
        /\ capDelay' = IF capDelay > maximum THEN maximum ELSE capDelay
        /\ capDelay \in Nat /\ maximum \in Nat
    BY <1>5 DEF Clip, PowerInv, CapInv, TypeOK
  <2>2. capDelay' = Least(capDelay, maximum)
    BY <2>1 DEF Least
  <2>3. Full' = Full /\ maximum' = maximum
    BY <2>1 DEF inputs, Full, Skipped
  <2> QED BY <1>1, <2>1, <2>2, <2>3 DEF PowerInv
<1>6. CASE FullJitter \/ PolicyJitter
  <2>1. /\ pc = "draw" /\ pc' \in {"done", "panic"}
        /\ UNCHANGED <<inputs, capDelay>>
    BY <1>6 DEF FullJitter, PolicyJitter, Finish, Panic
  <2>2. Full' = Full /\ Skipped' = Skipped /\ attempt' = attempt
    BY <2>1 DEF inputs, Full, Skipped
  <2> QED BY <1>1, <2>1, <2>2 DEF PowerInv, inputs
<1>7. CASE UNCHANGED vars
  <2>1. Full' = Full /\ Skipped' = Skipped
    BY <1>7 DEF vars, inputs, Full, Skipped
  <2> QED BY <1>1, <1>7, <2>1 DEF PowerInv, vars, inputs
<1> QED BY <1>2, <1>3, <1>4, <1>5, <1>6, <1>7 DEF Next

(* For every width of durations, every number of attempts and every        *)
(* policy, retryDelay and reconnectDelay draw from the smaller of the      *)
(* maximum and the base times the power of two: the loops' early exits and *)
(* the guard against overflow change nothing of what they compute.         *)
THEOREM BackoffExponential == Spec => []Exponential
<1>1. PowerInv => Exponential
  <2> SUFFICES ASSUME PowerInv, pc = "done", attempt >= Skipped
               PROVE  capDelay = Least(Full, maximum)
    BY DEF Exponential, Skipped, Full, Least, PowerInv, CapInv, TypeOK
  <2> QED BY DEF PowerInv
<1> QED BY <1>1, PowerInvInit, PowerInvStep, PTL DEF Spec
=============================================================================
