--------------------------- MODULE KeepFreshProofs ---------------------------
(* KeepFresh keeps its promises for every set of lives, every backoff and  *)
(* every latency that the assumptions of KeepFresh allow.                  *)
EXTENDS KeepFresh, TLAPS

LongestWait == Longest(RetryMax, MaxRetryAfter)

AnswerInv ==
  /\ answer \in [type : {"none", "granted", "retryable", "final"},
                 ttl : Nat, life : Nat, after : 0..MaxRetryAfter]
  /\ pc = "answer" => answer.type # "none"
  /\ pc = "answer" /\ answer.type = "granted" =>
       answer.ttl \in TTL /\ answer.life + busy >= answer.ttl

(* What is left of the credentials covers the wait and one more request. *)
LifeInv ==
  /\ unbroken /\ pc = "wait" => life > wait + Latency
  /\ unbroken /\ pc \in {"request", "answer"} => life + busy > Latency

(* Whatever the server asked for is waited for. *)
QuietInv ==
  /\ pc = "request" => quiet = 0
  /\ pc = "wait" => quiet <= wait
  /\ pc = "answer" =>
       quiet <= IF answer.type = "retryable" THEN answer.after ELSE 0

(* A refusal decided before the outage ended is at most one request old,   *)
(* and what follows it is one wait and one request.                        *)
OutageInv ==
  /\ ~up => served = 0
  /\ pc = "answer" /\ answer.type = "retryable" => served <= busy
  /\ pc = "wait" => unbroken \/ served + wait <= LongestWait + Latency
  /\ pc \in {"request", "answer"} =>
       unbroken \/ served <= LongestWait + Latency + busy

Inv == TypeOK /\ AnswerInv /\ LifeInv /\ QuietInv /\ OutageInv

LEMMA InvStep == Inv /\ [Next]_vars => Inv'
<1> SUFFICES ASSUME Inv, [Next]_vars PROVE Inv'
  OBVIOUS
<1> USE RetryAssumption, LifeAssumption
    DEF Inv, TypeOK, AnswerInv, LifeInv, QuietInv, OutageInv, held, NoAnswer,
        LongestWait, RecoveryTime, Longest, Shortest
<1>1. ASSUME NEW t \in TTL, Issue(t) PROVE Inv'
  <2>1. t \in Nat /\ t > 2 * Latency
    OBVIOUS
  <2>2. answer' = [type |-> "granted", ttl |-> t, life |-> t, after |-> 0]
    BY <1>1 DEF Issue, Answer
  <2>3. AnswerInv'
    BY <1>1, <2>1, <2>2 DEF Issue, Answer
  <2> QED BY <1>1, <2>2, <2>3 DEF Issue, Answer
<1>2. ASSUME NEW after \in 0..MaxRetryAfter, Refuse(after) PROVE Inv'
  <2>1. answer' = [type |-> "retryable", ttl |-> 0, life |-> 0,
                   after |-> after]
    BY <1>2 DEF Refuse, Answer
  <2>2. AnswerInv'
    BY <1>2, <2>1 DEF Refuse, Answer
  <2> QED BY <1>2, <2>1, <2>2 DEF Refuse, Answer
<1>3. CASE Deny
  BY <1>3 DEF Deny, Answer
<1>4. CASE Flip
  BY <1>4 DEF Flip
<1>5. CASE HandOn
  BY <1>5 DEF HandOn, Pause, RenewalWait
<1>6. CASE Retry
  <2>1. answer.after \in Nat /\ answer.after <= MaxRetryAfter
    OBVIOUS
  <2>2. RetryWait \in Nat /\ RetryWait <= LongestWait
    BY <2>1 DEF RetryWait
  <2>3. NextBackoff \in RetryMin..RetryMax
    BY DEF NextBackoff
  <2>4. quiet <= RetryWait /\ served <= Latency
    BY <1>6, <2>1 DEF Retry, RetryWait
  <2>5. answer' = [type |-> "none", ttl |-> 0, life |-> 0, after |-> 0]
    BY <1>6 DEF Retry, Pause
  <2>6. AnswerInv'
    BY <1>6, <2>1, <2>5 DEF Retry, Pause
  <2>7. /\ pc' = "wait" /\ wait' = RetryWait /\ busy' = 0 /\ unbroken' = FALSE
        /\ backoff' = NextBackoff
        /\ UNCHANGED <<life, quiet, up, served>>
    BY <1>6 DEF Retry, Pause
  <2>8. TypeOK'
    <3>1. unbroken' \in BOOLEAN /\ up' \in BOOLEAN
      BY <2>7, ZenonT(10)
    <3>2. answer'.type = "none"
      BY <2>5
    <3> QED BY <2>2, <2>3, <2>7, <3>1, <3>2
  <2>9. OutageInv'
    BY <2>2, <2>4, <2>7
  <2> QED BY <2>2, <2>4, <2>6, <2>7, <2>8, <2>9
<1>7. CASE ReturnError \/ Cancelled
  BY <1>7 DEF ReturnError, Cancelled, Stop
<1>8. CASE Wake
  BY <1>8 DEF Wake
<1>9. CASE Tick
  BY <1>9 DEF Tick, Less
<1>10. CASE UNCHANGED vars
  BY <1>10 DEF vars
<1> QED BY <1>1, <1>2, <1>3, <1>4, <1>5, <1>6, <1>7, <1>8, <1>9, <1>10 DEF Next

(* The invariant holds from the start on. *)
LEMMA InvAlways == Spec => []Inv
<1>1. Init => Inv
  <2>1. NoAnswer \in [type : {"none", "granted", "retryable", "final"},
                      ttl : Nat, life : Nat, after : 0..MaxRetryAfter]
    BY LifeAssumption DEF NoAnswer
  <2> SUFFICES ASSUME Init PROVE Inv
    OBVIOUS
  <2>2. up \in BOOLEAN /\ unbroken \in BOOLEAN
    BY DEF Init
  <2>3. RecoveryTime \in Nat /\ LongestWait \in Nat
    BY RetryAssumption, LifeAssumption DEF RecoveryTime, LongestWait, Longest
  <2>4. TypeOK
    BY <2>2, <2>3, RetryAssumption, LifeAssumption
       DEF Init, TypeOK, NoAnswer
  <2>5. AnswerInv
    BY <2>1 DEF Init, AnswerInv
  <2>6. LifeInv /\ QuietInv
    BY DEF Init, LifeInv, QuietInv
  <2>7. OutageInv
    BY <2>3, LifeAssumption DEF Init, OutageInv
  <2> QED BY <2>4, <2>5, <2>6, <2>7 DEF Inv
<1> QED BY <1>1, InvStep, PTL DEF Spec

(* Waits and ages stay within what the policy and the lives allow.         *)
THEOREM FreshTypes == Spec => []TypeOK
<1>1. Inv => TypeOK
  BY DEF Inv
<1> QED BY <1>1, InvAlways, PTL

(* The credentials the game holds do not expire while requests are granted. *)
THEOREM StaysHeld == Spec => []HeldWhileGranted
<1>1. Inv => HeldWhileGranted
  BY LifeAssumption, RetryAssumption
     DEF Inv, TypeOK, LifeInv, QuietInv, AnswerInv, LongestWait,
         HeldWhileGranted, Longest
<1> QED BY <1>1, InvAlways, PTL

(* No renewal is sent before the server's Retry-After is over.             *)
THEOREM RenewalsWait == Spec => []HonoursRetryAfter
<1>1. Inv => HonoursRetryAfter
  BY LifeAssumption, RetryAssumption
     DEF Inv, TypeOK, LifeInv, QuietInv, AnswerInv, LongestWait,
         HonoursRetryAfter, Longest
<1> QED BY <1>1, InvAlways, PTL

(* An outage of any length is made good within one longest wait and two    *)
(* requests of its end.                                                    *)
THEOREM OutagesEnd == Spec => []RecoversInTime
<1>1. Inv => RecoversInTime
  BY LifeAssumption, RetryAssumption
     DEF Inv, TypeOK, LifeInv, QuietInv, OutageInv, AnswerInv, LongestWait,
         RecoversInTime, RecoveryTime, Longest
<1> QED BY <1>1, InvAlways, PTL
=============================================================================
