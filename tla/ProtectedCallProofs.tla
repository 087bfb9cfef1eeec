------------------------ MODULE ProtectedCallProofs -------------------------
(***************************************************************************)
(* Proofs about RetryTransport and about ProtectedCall, which runs it: for *)
(* every retry policy, deadline and request of the services, the transport *)
(* runs a write at most once and waits as it is told, and a call           *)
(* implements ObjectUpdate.                                                *)
(***************************************************************************)
EXTENDS ProtectedCall, TLAPS

-----------------------------------------------------------------------------
(* The transport by itself.                                                *)

(* A write still under way has not run: every attempt so far ended in a    *)
(* connection that was never opened.                                       *)
WriteInv ==
  /\ executed \in Nat
  /\ kind = "write" =>
       /\ phase # "done" => executed = 0 /\ result = "none"
       /\ AtMostOnce
       /\ FailureIsTrue

(* What is left to sleep covers what is left of the Retry-After, and that  *)
(* fits the deadline.                                                      *)
WaitInv ==
  /\ delay \in Nat
  /\ retryAfter \in Nat
  /\ slept \in Nat
  /\ remaining \in Nat
  /\ phase = "sleep" => delay + slept >= retryAfter
  /\ RetryAfterHonoured
  /\ ServerWaitFits

LEMMA WriteInvStep == WriteInv /\ [Next]_vars => WriteInv'
<1> SUFFICES ASSUME WriteInv, [Next]_vars
             PROVE  WriteInv'
  OBVIOUS
<1> USE DEF WriteInv, AtMostOnce, FailureIsTrue, NotRun
<1>1. ASSUME NEW error \in TransportError, AttemptFails(error)
      PROVE  WriteInv'
  <2>1. kind' = kind
    BY <1>1 DEF AttemptFails, Sleep, Finish
  <2>2. CASE RetryTransportError(error)
    BY <1>1, <2>2 DEF AttemptFails, RetryTransportError, Sleep, Run,
       requestIsReplayable, requestNotSent, MayRun, MayNotRun
  <2>3. CASE ~RetryTransportError(error)
    BY <1>1, <2>3 DEF AttemptFails, Finish, Run, TransportError, MayRun,
       MayNotRun
  <2> QED
    BY <2>2, <2>3
<1>2. ASSUME NEW status \in Response, NEW after \in 0..MaxRetryAfter,
             AttemptAnswered(status, after)
      PROVE  WriteInv'
  <2>1. CASE RetryStatus(status) /\ (after > 0 => retryFitsDeadline(after))
    BY <1>2, <2>1 DEF AttemptAnswered, RetryStatus, Sleep, Run,
       requestIsReplayable
  <2>2. CASE ~(RetryStatus(status) /\ (after > 0 => retryFitsDeadline(after)))
    BY <1>2, <2>2 DEF AttemptAnswered, Finish, Run, Response, MayRun,
       MayNotRun
  <2> QED
    BY <2>1, <2>2
<1>3. CASE Interrupted
  BY <1>3 DEF Interrupted, Finish
<1>4. CASE SleepInterrupted
  BY <1>4 DEF SleepInterrupted, Finish
<1>5. CASE NextAttempt
  BY <1>5 DEF NextAttempt
<1>6. CASE Tick
  BY <1>6 DEF Tick
<1>7. CASE UNCHANGED vars
  BY <1>7 DEF vars
<1> QED
  BY <1>1, <1>2, <1>3, <1>4, <1>5, <1>6, <1>7 DEF Next

(* The invariant of writes holds from the start on. *)
LEMMA WriteInvAlways == Spec => []WriteInv
<1>1. Init => WriteInv
  BY DEF Init, WriteInv, AtMostOnce, FailureIsTrue, NotRun
<1> QED
  BY <1>1, WriteInvStep, PTL DEF Spec

(* A write runs at most once, whatever the network does.                   *)
THEOREM WritesOnce == Spec => []AtMostOnce
<1>1. WriteInv => AtMostOnce
  BY DEF WriteInv, AtMostOnce
<1> QED
  BY <1>1, WriteInvAlways, PTL

(* A write whose last attempt was not sent, or was refused with a 4xx,     *)
(* was not run by any earlier attempt either.  That the server has not run *)
(* what it answers with a 4xx is assumed, not proved (MayRun).             *)
THEOREM FailuresTrue == Spec => []FailureIsTrue
<1>1. WriteInv => FailureIsTrue
  BY DEF WriteInv, FailureIsTrue
<1> QED
  BY <1>1, WriteInvAlways, PTL

LEMMA WaitInvStep == WaitInv /\ [Next]_vars => WaitInv'
<1> SUFFICES ASSUME WaitInv, [Next]_vars
             PROVE  WaitInv'
  OBVIOUS
<1> USE DEF WaitInv, RetryAfterHonoured, ServerWaitFits
<1>1. ASSUME NEW error \in TransportError, AttemptFails(error)
      PROVE  WaitInv'
  BY <1>1 DEF AttemptFails, Sleep, Finish
<1>2. ASSUME NEW status \in Response, NEW after \in 0..MaxRetryAfter,
             AttemptAnswered(status, after)
      PROVE  WaitInv'
  <2>1. CASE RetryStatus(status) /\ (after > 0 => retryFitsDeadline(after))
    <3>1. PICK d \in 0..DelayCap[attempt] : Sleep(Longer(d, after), after)
      BY <1>2, <2>1 DEF AttemptAnswered
    <3>2. Longer(d, after) \in Nat /\ Longer(d, after) >= after
      BY <3>1, BudgetAssumption DEF Longer
    <3> QED
      BY <2>1, <3>1, <3>2, BudgetAssumption DEF Sleep, retryFitsDeadline
  <2>2. CASE ~(RetryStatus(status) /\ (after > 0 => retryFitsDeadline(after)))
    BY <1>2, <2>2 DEF AttemptAnswered, Finish
  <2> QED
    BY <2>1, <2>2
<1>3. CASE Interrupted
  BY <1>3 DEF Interrupted, Finish
<1>4. CASE SleepInterrupted
  BY <1>4 DEF SleepInterrupted, Finish
<1>5. CASE NextAttempt
  BY <1>5 DEF NextAttempt
<1>6. CASE Tick
  BY <1>6 DEF Tick
<1>7. CASE UNCHANGED vars
  BY <1>7 DEF vars
<1> QED
  BY <1>1, <1>2, <1>3, <1>4, <1>5, <1>6, <1>7 DEF Next

(* The invariant of waits holds from the start on. *)
LEMMA WaitInvAlways == Spec => []WaitInv
<1>1. Init => WaitInv
  BY BudgetAssumption DEF Init, WaitInv, RetryAfterHonoured, ServerWaitFits
<1> QED
  BY <1>1, WaitInvStep, PTL DEF Spec

(* No attempt comes before the Retry-After of the last answer is over.     *)
THEOREM RetriesWait == Spec => []RetryAfterHonoured
<1>1. WaitInv => RetryAfterHonoured
  BY DEF WaitInv
<1> QED
  BY <1>1, WaitInvAlways, PTL

(* Retry-After is waited for only when the deadline leaves time for it.    *)
THEOREM WaitsFit == Spec => []ServerWaitFits
<1>1. WaitInv => ServerWaitFits
  BY DEF WaitInv
<1> QED
  BY <1>1, WaitInvAlways, PTL

(* An attempt under way has not been run, and one that waits for the next  *)
(* is not the last.                                                        *)
CountInv ==
  /\ TypeOK
  /\ phase = "sent" => executed < attempt
  /\ phase = "sleep" => attempt < MaxAttempts

LEMMA CountInvStep == CountInv /\ [Next]_vars => CountInv'
<1> SUFFICES ASSUME CountInv, [Next]_vars
             PROVE  CountInv'
  OBVIOUS
<1> USE AttemptsAssumption, BudgetAssumption DEF CountInv, TypeOK
<1>1. ASSUME NEW error \in TransportError, AttemptFails(error)
      PROVE  CountInv'
  <2>1. executed' \in 0..attempt
    BY <1>1 DEF AttemptFails, Run
  <2>2. CASE RetryTransportError(error)
    <3>1. PICK d \in 0..DelayCap[attempt] : Sleep(d, 0)
      BY <1>1, <2>2 DEF AttemptFails
    <3> QED
      BY <2>1, <2>2, <3>1 DEF Sleep, RetryTransportError
  <2>3. CASE ~RetryTransportError(error)
    BY <1>1, <2>1, <2>3 DEF AttemptFails, Finish
  <2> QED
    BY <2>2, <2>3
<1>2. ASSUME NEW status \in Response, NEW after \in 0..MaxRetryAfter,
             AttemptAnswered(status, after)
      PROVE  CountInv'
  <2>1. executed' \in 0..attempt
    BY <1>2 DEF AttemptAnswered, Run
  <2>2. CASE RetryStatus(status) /\ (after > 0 => retryFitsDeadline(after))
    <3>1. PICK d \in 0..DelayCap[attempt] : Sleep(Longer(d, after), after)
      BY <1>2, <2>2 DEF AttemptAnswered
    <3>2. Longer(d, after) \in Nat
      BY <3>1 DEF Longer
    <3> QED
      BY <2>1, <2>2, <3>1, <3>2 DEF Sleep, RetryStatus
  <2>3. CASE ~(RetryStatus(status) /\ (after > 0 => retryFitsDeadline(after)))
    BY <1>2, <2>1, <2>3 DEF AttemptAnswered, Finish
  <2> QED
    BY <2>2, <2>3
<1>3. CASE Interrupted
  BY <1>3 DEF Interrupted, Finish
<1>4. CASE SleepInterrupted
  BY <1>4 DEF SleepInterrupted, Finish
<1>5. CASE NextAttempt
  BY <1>5 DEF NextAttempt
<1>6. CASE Tick
  BY <1>6 DEF Tick
<1>7. CASE UNCHANGED vars
  BY <1>7 DEF vars
<1> QED
  BY <1>1, <1>2, <1>3, <1>4, <1>5, <1>6, <1>7 DEF Next

(* The loop makes at most MaxAttempts attempts, the server runs at most    *)
(* one request for each, and the clock of the call stops at its deadline.  *)
THEOREM AttemptsBounded == Spec => []TypeOK
<1>1. Init => CountInv
  BY AttemptsAssumption, BudgetAssumption DEF Init, CountInv, TypeOK
<1>2. CountInv => TypeOK
  BY DEF CountInv
<1> QED
  BY <1>1, <1>2, CountInvStep, PTL DEF Spec

-----------------------------------------------------------------------------
(* The call.                                                               *)

(* What the table of operations guarantees of every entry: only requests   *)
(* that change nothing, or carry a key and a version, may be repeated.     *)
Repeatable(r) ==
  /\ r.changes \in BOOLEAN
  /\ r.guard \in {"none", "expected_version", "If-Match"}
  /\ r.method = "GET" => ~r.changes
  /\ r.repeat \in {"no", "ReplaySafe", "Idempotency-Key"}
  /\ r.repeat = "ReplaySafe" => ~r.changes
  /\ r.repeat = "Idempotency-Key" => r.guard = "expected_version"

LEMMA TableRepeatable == \A r \in Requests : Repeatable(r)
<1> USE DEF Calls, Reads, Writes, Versioned, Repeatable
<1>1. \A r \in AccountRequests \cup SignInRequests \cup SignedInRequests :
        Repeatable(r)
  BY DEF AccountRequests, SignInRequests, SignedInRequests
<1>2. \A r \in ConfigRequests \cup HealthRequests \cup FleetRequests :
        Repeatable(r)
  BY DEF ConfigRequests, HealthRequests, FleetRequests
<1>3. \A r \in FriendRequests \cup GameSessionRequests \cup InviteRequests :
        Repeatable(r)
  BY DEF FriendRequests, GameSessionRequests, InviteRequests
<1>4. \A r \in LeaderboardRequests \cup MatchmakerRequests \cup PartyReads :
        Repeatable(r)
  BY DEF LeaderboardRequests, MatchmakerRequests, PartyReads
<1>5. \A r \in PartyMemberRequests \cup PartyInviteRequests
               \cup PartyQueueRequests : Repeatable(r)
  BY DEF PartyMemberRequests, PartyInviteRequests, PartyQueueRequests
<1>6. \A r \in PlayerRequests \cup PresenceRequests \cup ProfileRequests
               \cup RealtimeTicketRequests \cup RelayRequests
               \cup RemoteAddrRequests : Repeatable(r)
  BY DEF PlayerRequests, PresenceRequests, ProfileRequests,
     RealtimeTicketRequests, RelayRequests, RemoteAddrRequests
<1>7. \A r \in ServerRequests \cup SignalRequests \cup StorageRequests :
        Repeatable(r)
  BY DEF ServerRequests, SignalRequests, StorageRequests
<1> QED
  BY <1>1, <1>2, <1>3, <1>4, <1>5, <1>6, <1>7 DEF Requests

(* The same of the request under way. *)
RequestInv ==
  /\ request.changes \in BOOLEAN
  /\ request.guard \in {"none", "expected_version", "If-Match"}
  /\ kind \in {"read", "keyed", "write"}
  /\ kind = "read" => ~request.changes
  /\ kind = "keyed" /\ request.changes =>
       /\ request.repeat = "Idempotency-Key"
       /\ request.guard = "expected_version"
  /\ kind = "write" => request.repeat = "no"

(* The object: its version has moved once the request took effect. *)
EffectInv ==
  /\ moved \in BOOLEAN
  /\ late \in BOOLEAN
  /\ effects \in {0, 1}
  /\ effects = 1 => request.changes /\ moved
  /\ phase # "done" => result = "none"
  /\ result = "ok" /\ request.changes => effects = 1
  /\ problem \in VersionPassed =>
       phase = "done" /\ effects = 0 /\ Guarded /\ moved
  /\ problem # "none" => stage = "over" \/ phase = "done"
  /\ stage = "start" => phase # "done"
  /\ stage = "refresh" => phase = "done" /\ problem # "none"

(* A plain write has not taken effect, and has no attempt that still may,  *)
(* while it is under way and when it is reported as refused.               *)
PlainInv ==
  kind = "write" =>
    /\ problem # "none" \/ result \in NotRun \cup {"none"} =>
         effects = 0 /\ ~late
    /\ late => effects = 0

CallInv == WriteInv /\ RequestInv /\ EffectInv /\ PlainInv

LEMMA CallInitInv == CallInit => CallInv
<1> SUFFICES ASSUME CallInit
             PROVE  CallInv
  OBVIOUS
<1>1. WriteInv
  BY DEF CallInit, Init, WriteInv, AtMostOnce, FailureIsTrue, NotRun
<1>2. PICK r \in Requests : request = Profile(r) /\ Kind(r) = kind
  BY DEF CallInit, Profile
<1>3. RequestInv
  BY <1>2, TableRepeatable DEF RequestInv, Repeatable, Profile, Kind
<1>4. EffectInv
  <2>1. /\ phase = "sent" /\ result = "none" /\ stage = "start"
        /\ moved = FALSE /\ effects = 0 /\ late = FALSE /\ problem = "none"
    BY DEF CallInit, Init
  <2>2. moved \in BOOLEAN /\ late \in BOOLEAN
    BY <2>1
  <2>3. /\ effects \in {0, 1} /\ effects # 1 /\ problem \notin VersionPassed
        /\ phase # "done" /\ result # "ok" /\ stage # "refresh"
    BY <2>1 DEF VersionPassed, ErrStaleVersion
  <2> QED
    BY <2>1, <2>2, <2>3, Zenon DEF EffectInv
<1>5. PlainInv
  BY DEF CallInit, Init, PlainInv
<1> QED
  BY <1>1, <1>3, <1>4, <1>5 DEF CallInv

(* What the transport's own invariant is worth across the two calls.       *)
LEMMA WriteInvKept == WriteInv /\ [CallNext]_callVars => WriteInv'
<1> SUFFICES ASSUME WriteInv, [CallNext]_callVars
             PROVE  WriteInv'
  OBVIOUS
<1>1. CASE [Next]_vars
  BY <1>1, WriteInvStep
<1>2. CASE \E left : Restart(left)
  BY <1>2 DEF Restart, WriteInv, AtMostOnce, FailureIsTrue, NotRun
<1> QED
  BY <1>1, <1>2 DEF CallNext, Fails, Answered, GivesUp, Waits, LateRun,
     RivalWrites, TokenRejected, RefusesArguments, FindsNoSession, Begins,
     Refreshes, Returns, CallsAgain, RefreshFails, CallerRepeats, Over, Next,
     callVars, vars

LEMMA RequestKept == [CallNext]_callVars => UNCHANGED <<request, kind>>
<1> SUFFICES ASSUME [CallNext]_callVars
             PROVE  UNCHANGED <<request, kind>>
  OBVIOUS
<1> USE DEF vars, callVars, UNCHANGED_call
<1>1. ASSUME NEW error \in TransportError, Fails(error)
      PROVE  UNCHANGED <<request, kind>>
  BY <1>1 DEF Fails, AttemptFails, Sleep, Finish
<1>2. ASSUME NEW status \in Response, NEW after \in 0..MaxRetryAfter,
             Answered(status, after)
      PROVE  UNCHANGED <<request, kind>>
  BY <1>2 DEF Answered, AttemptAnswered, Sleep, Finish
<1>3. CASE GivesUp \/ Waits
  BY <1>3 DEF GivesUp, Waits, Interrupted, SleepInterrupted, Finish,
     NextAttempt, Tick
<1>4. CASE CallsAgain \/ CallerRepeats
  BY <1>4 DEF CallsAgain, CallerRepeats, Restart
<1>5. CASE \/ LateRun \/ RivalWrites \/ TokenRejected \/ RefusesArguments
           \/ FindsNoSession \/ Begins \/ Refreshes \/ Returns \/ RefreshFails
           \/ UNCHANGED callVars
  BY <1>5 DEF LateRun, RivalWrites, TokenRejected, RefusesArguments,
     FindsNoSession, Begins, Refreshes, Returns, RefreshFails, Over
<1> QED
  BY <1>1, <1>2, <1>3, <1>4, <1>5 DEF CallNext

LEMMA RequestInvKept == RequestInv /\ [CallNext]_callVars => RequestInv'
  BY RequestKept DEF RequestInv

(* Whatever the server runs takes effect at most once, and only on the     *)
(* version the request names.                                              *)
LEMMA ApplyOnce ==
  ASSUME CallInv, Apply, kind = "write" => effects = 0
  PROVE  \/ UNCHANGED <<moved, effects>>
            /\ (request.changes => effects = 1)
         \/ /\ request.changes /\ effects = 0 /\ effects' = 1 /\ moved' = TRUE
            /\ Guarded => ~moved
  BY DEF CallInv, RequestInv, EffectInv, Apply, Remembered, GuardHolds

(* An attempt ends, to be followed by another or not.  After some of the   *)
(* ends it may still reach the server.                                     *)
Abandoned == {"broken", "eof", "unavailable", "serverError", "context"}

Ended(outcome) ==
  /\ Calling /\ phase = "sent" /\ Serve
  /\ outcome \in TransportError \cup Response \cup {"context"}
  /\ \/ phase' = "sleep" /\ result' = "none"
     \/ phase' = "done" /\ result' = outcome
  /\ kind = "write" /\ phase' = "sleep" => outcome = "dial"
  /\ Ran => outcome \notin NotRun
  /\ outcome = "ok" => Ran
  /\ late' = (late \/ (outcome \in Abandoned /\ ~Ran))
  /\ UNCHANGED <<kind, request, stage>>
  /\ \/ UNCHANGED problem
     \/ phase' = "done" /\ result' = "refused" /\ ~Ran /\ Refusal

(* The part of the invariant about the object, when an attempt ends.       *)
LEMMA AttemptEnds ==
  ASSUME CallInv, NEW outcome, Ended(outcome)
  PROVE  EffectInv' /\ PlainInv'
<1> USE DEF Ended
<1> USE DEF CallInv, Calling
<1>0. problem = "none" /\ result = "none"
  BY DEF EffectInv
<1>1. kind = "write" => effects = 0 /\ ~late
  BY <1>0 DEF PlainInv
<1>2. \/ UNCHANGED <<moved, effects>> /\ (Ran /\ request.changes => effects = 1)
      \/ /\ Ran /\ request.changes /\ effects = 0 /\ effects' = 1
         /\ moved' = TRUE /\ (Guarded => ~moved)
  BY <1>1, ApplyOnce DEF Serve
<1>3. moved' \in BOOLEAN /\ late' \in BOOLEAN /\ effects' \in {0, 1}
      /\ (effects' = 1 => request'.changes /\ moved')
  BY <1>2 DEF EffectInv
<1>4. problem' \in VersionPassed =>
        phase' = "done" /\ effects' = 0 /\ Guarded' /\ moved'
  <2> SUFFICES ASSUME problem' \in VersionPassed
               PROVE  phase' = "done" /\ effects' = 0 /\ Guarded' /\ moved'
    OBVIOUS
  <2> USE DEF VersionPassed, ErrStaleVersion
  <2>1. phase' = "done" /\ ~Ran /\ Refusal
    BY <1>0
  <2>2. UNCHANGED <<moved, effects>>
    BY <2>1 DEF Serve
  <2>3. Guarded /\ moved /\ ~Remembered
    BY <2>1 DEF Refusal, GuardHolds
  <2>4. effects = 0
    <3>1. CASE kind = "write"
      BY <1>1, <3>1
    <3>2. CASE kind # "write"
      BY <2>3, <3>2 DEF Remembered, RequestInv, EffectInv
    <3> QED
      BY <3>1, <3>2
  <2> QED
    BY <2>1, <2>2, <2>3, <2>4 DEF Guarded
<1>5. EffectInv'
  <2>1. phase' # "done" => result' = "none"
    OBVIOUS
  <2>2. result' = "ok" /\ request'.changes => effects' = 1
    BY <1>2 DEF EffectInv
  <2>3. problem' # "none" => stage' = "over" \/ phase' = "done"
    BY <1>0
  <2> QED
    BY <1>3, <1>4, <2>1, <2>2, <2>3 DEF EffectInv
<1>6. PlainInv'
  <2> SUFFICES ASSUME kind = "write"
               PROVE  /\ problem' # "none" \/ result' \in NotRun \cup {"none"}
                           => effects' = 0 /\ ~late'
                      /\ late' => effects' = 0
    BY DEF PlainInv
  <2>1. late' => ~Ran
    BY <1>1
  <2>2. ~Ran => effects' = 0
    BY <1>1 DEF Serve
  <2>3. problem' # "none" => ~Ran /\ result' = "refused" /\ phase' = "done"
    BY <1>0
  <2>4. result' \in NotRun \cup {"none"} => outcome \in NotRun
    BY DEF NotRun, TransportError, Response
  <2>5. outcome \in NotRun => ~Ran /\ ~late'
    BY <1>1 DEF NotRun, Abandoned
  <2>6. result' = "refused" => outcome \in NotRun
    BY <2>4 DEF NotRun
  <2> QED
    BY <2>1, <2>2, <2>3, <2>4, <2>5, <2>6
<1> QED
  BY <1>5, <1>6

LEMMA CallInvStep == CallInv /\ [CallNext]_callVars => CallInv'
<1> SUFFICES ASSUME CallInv, [CallNext]_callVars
             PROVE  EffectInv' /\ PlainInv'
  BY WriteInvKept, RequestInvKept DEF CallInv
<1> USE DEF CallInv
<1>0. WriteInv' /\ RequestInv' /\ UNCHANGED <<kind, request>>
  BY WriteInvKept, RequestKept, RequestInvKept
<1>1. ASSUME NEW error \in TransportError, Fails(error)
      PROVE  EffectInv' /\ PlainInv'
  <2>1. phase = "sent" /\ Calling /\ Serve /\ (Ran => error \in MayRun)
    BY <1>1 DEF Fails, AttemptFails, Run, Ran, WriteInv
  <2>2. \/ /\ phase' = "sleep" /\ UNCHANGED result
           /\ kind = "write" => error = "dial"
        \/ phase' = "done" /\ result' = error
    BY <1>1 DEF Fails, AttemptFails, RetryTransportError, Sleep, Finish,
       requestIsReplayable, requestNotSent
  <2>3. result = "none"
    BY <2>1 DEF EffectInv
  <2>4. Ran => error \notin NotRun
    BY <2>1 DEF MayRun, NotRun
  <2>5. /\ late' = (late \/ (error \in Abandoned /\ ~Ran))
        /\ UNCHANGED <<stage, problem>>
        /\ error # "ok"
    BY <1>1 DEF Fails, TransportError, Abandoned
  <2>6. Ended(error)
    BY <1>0, <2>1, <2>2, <2>3, <2>4, <2>5 DEF Ended
  <2> QED
    BY <2>6, AttemptEnds
<1>2. ASSUME NEW status \in Response, NEW after \in 0..MaxRetryAfter,
             Answered(status, after)
      PROVE  EffectInv' /\ PlainInv'
  <2>1. /\ phase = "sent" /\ Calling /\ Serve
        /\ Ran => status \in MayRun
        /\ ~Ran => status \in MayNotRun
    BY <1>2 DEF Answered, AttemptAnswered, Run, Ran, WriteInv
  <2>2. \/ /\ phase' = "sleep" /\ UNCHANGED result
           /\ kind # "write" /\ status = "unavailable"
        \/ phase' = "done" /\ result' = status
    BY <1>2 DEF Answered, AttemptAnswered, RetryStatus, Sleep, Finish,
       requestIsReplayable, retryableStatus
  <2>3. result = "none"
    BY <2>1 DEF EffectInv
  <2>4. (Ran => status \notin NotRun) /\ (status = "ok" => Ran)
    BY <2>1 DEF MayRun, MayNotRun, NotRun
  <2>5. /\ late' = (late \/ (status \in Abandoned /\ ~Ran))
        /\ UNCHANGED stage
        /\ IF status = "refused" THEN Refusal ELSE UNCHANGED problem
    BY <1>2 DEF Answered, Response, Abandoned
  <2>6. \/ UNCHANGED problem
        \/ phase' = "done" /\ result' = "refused" /\ ~Ran /\ Refusal
    BY <2>2, <2>4, <2>5 DEF NotRun
  <2>7. Ended(status)
    BY <1>0, <2>1, <2>2, <2>3, <2>4, <2>5, <2>6 DEF Ended
  <2> QED
    BY <2>7, AttemptEnds
<1>3. CASE GivesUp
  <2>1. CASE phase = "sent"
    <3>1. /\ Calling /\ Serve /\ phase' = "done" /\ result' = "context"
          /\ late' = (late \/ ~Ran)
          /\ UNCHANGED <<stage, problem>>
      BY <1>3, <2>1 DEF GivesUp, Interrupted, SleepInterrupted, Finish
    <3>2. Ended("context")
      BY <1>0, <2>1, <3>1 DEF Ended, NotRun, Abandoned
    <3> QED
      BY <3>2, AttemptEnds
  <2>2. CASE phase # "sent"
    <3>1. /\ phase = "sleep" /\ phase' = "done" /\ result' = "context"
          /\ Calling
          /\ UNCHANGED <<stage, problem, moved, effects, late>>
      BY <1>3, <2>2 DEF GivesUp, Interrupted, SleepInterrupted, Finish
    <3> QED
      BY <1>0, <3>1 DEF EffectInv, PlainInv, NotRun, Guarded, Calling
  <2> QED
    BY <2>1, <2>2
<1>4. CASE Waits
  <2>1. /\ UNCHANGED <<stage, problem, moved, effects, late, result>>
        /\ phase # "done" /\ phase' # "done"
    BY <1>4 DEF Waits, UNCHANGED_call, NextAttempt, Tick
  <2> QED
    BY <1>0, <2>1 DEF EffectInv, PlainInv, Guarded
<1>5. CASE LateRun
  <2>1. late /\ Apply /\ late' = FALSE /\ request.changes /\ ~Remembered
        /\ UNCHANGED <<stage, problem, phase, result>>
    BY <1>5 DEF LateRun, vars
  <2>2. kind = "write" => effects = 0
    BY <2>1 DEF PlainInv
  <2>3. effects = 0 /\ effects' = 1 /\ moved' = TRUE /\ (Guarded => ~moved)
    BY <2>1, <2>2 DEF Apply, Remembered, GuardHolds, EffectInv, RequestInv
  <2>4. kind # "write" => Guarded
    BY <2>1 DEF RequestInv, Guarded
  <2>5. problem \notin VersionPassed
    BY <2>1, <2>3 DEF EffectInv
  <2> QED
    BY <1>0, <2>1, <2>3, <2>5 DEF EffectInv, PlainInv
<1>6. CASE RivalWrites
  <2>1. moved' = TRUE /\ UNCHANGED <<stage, problem, phase, result, effects,
                                     late>>
    BY <1>6 DEF RivalWrites, vars
  <2> QED
    BY <1>0, <2>1 DEF EffectInv, PlainInv, Guarded
<1>7. CASE TokenRejected \/ Begins \/ Refreshes \/ UNCHANGED callVars
  <2>1. /\ UNCHANGED <<problem, phase, result, moved, effects, late>>
        /\ stage = "over" => stage' = "over"
        /\ stage' = "start" => stage = "start"
        /\ stage' = "refresh" =>
             stage = "refresh" \/ (phase = "done" /\ problem # "none")
    <3>1. CASE TokenRejected \/ UNCHANGED callVars
      BY <3>1 DEF TokenRejected, callVars, vars
    <3>2. CASE Begins
      BY <3>2 DEF Begins, vars
    <3>3. CASE Refreshes
      BY <3>3 DEF Refreshes, Unauthorized, ErrUnauthorized, UNCHANGED_call,
         vars
    <3> QED
      BY <1>7, <3>1, <3>2, <3>3
  <2> QED
    BY <1>0, <2>1 DEF EffectInv, PlainInv, Guarded
<1>8. CASE RefusesArguments \/ FindsNoSession \/ Returns \/ RefreshFails
  <2>1. /\ UNCHANGED <<phase, result, moved, effects, late>>
        /\ stage' = "over"
        /\ problem' \in {problem, "invalid", "noSession"}
        /\ problem' # problem => stage \in {"start", "refresh"}
    BY <1>8 DEF RefusesArguments, FindsNoSession, Returns, RefreshFails,
       Over, UNCHANGED_call, vars
  <2> QED
    BY <1>0, <2>1 DEF EffectInv, PlainInv, Guarded, VersionPassed,
       ErrStaleVersion
<1>9. CASE CallsAgain \/ CallerRepeats
  <2>1. /\ UNCHANGED <<moved, effects, late>>
        /\ phase' = "sent" /\ result' = "none" /\ problem' = "none"
        /\ stage = "refresh" \/ kind # "write"
        /\ stage' # "refresh"
    BY <1>9 DEF CallsAgain, CallerRepeats, Restart, RequestInv
  <2> QED
    BY <1>0, <2>1 DEF EffectInv, PlainInv, VersionPassed, ErrStaleVersion
<1> QED
  BY <1>1, <1>2, <1>3, <1>4, <1>5, <1>6, <1>7, <1>8, <1>9 DEF CallNext

(* Every step of a call is a step of the update or changes nothing of it.  *)
LEMMA StepUpdates ==
  ASSUME CallInv, CallInv', [CallNext]_callVars
  PROVE  [Update!UpdateNext]_(Update!updateVars)
<1> USE DEF CallInv
<1>0. UNCHANGED <<request, kind>>
  BY RequestKept
<1> DEFINE Stutters == UNCHANGED <<moved, effects, Told>>
<1>1. Stutters => UNCHANGED Update!updateVars
  BY <1>0 DEF Update!updateVars, Guarded
<1>2. ASSUME Calling, phase = "sent", Serve, UNCHANGED stage
      PROVE  [Update!UpdateNext]_(Update!updateVars)
  <2>1. Told = "none" /\ Told' = "none"
    BY <1>2 DEF Told, Calling
  <2>2. kind = "write" => effects = 0
    BY <1>2 DEF EffectInv, PlainInv
  <2>3. \/ UNCHANGED <<moved, effects>>
        \/ /\ request.changes /\ effects = 0 /\ effects' = 1 /\ moved' = TRUE
           /\ Guarded => ~moved
    BY <1>2, <2>2, ApplyOnce DEF Serve
  <2>4. CASE UNCHANGED <<moved, effects>>
    BY <1>1, <2>1, <2>4
  <2>5. CASE ~UNCHANGED <<moved, effects>>
    BY <1>0, <2>1, <2>3, <2>5 DEF Update!UpdateNext, Update!Commit, Guarded
  <2> QED
    BY <2>4, <2>5
<1>3. ASSUME NEW error \in TransportError, Fails(error)
      PROVE  [Update!UpdateNext]_(Update!updateVars)
  BY <1>2, <1>3 DEF Fails, AttemptFails
<1>4. ASSUME NEW status \in Response, NEW after \in 0..MaxRetryAfter,
             Answered(status, after)
      PROVE  [Update!UpdateNext]_(Update!updateVars)
  BY <1>2, <1>4 DEF Answered, AttemptAnswered
<1>5. CASE GivesUp
  <2>1. CASE Interrupted /\ Serve
    BY <1>2, <1>5, <2>1 DEF GivesUp, Interrupted
  <2>2. CASE UNCHANGED <<moved, effects>>
    BY <1>1, <1>5, <2>2 DEF GivesUp, Told, Calling
  <2> QED
    BY <1>5, <2>1, <2>2 DEF GivesUp
<1>6. CASE LateRun
  <2>1. /\ late /\ Apply /\ request.changes /\ ~Remembered
        /\ UNCHANGED <<stage, problem, result>>
    BY <1>6 DEF LateRun, vars
  <2>2. kind = "write" => effects = 0
    BY <2>1 DEF PlainInv
  <2>3. effects = 0 /\ effects' = 1 /\ moved' = TRUE /\ (Guarded => ~moved)
    BY <2>1, <2>2 DEF Apply, Remembered, GuardHolds, EffectInv, RequestInv
  <2>4. kind # "write" => Guarded
    BY <2>1 DEF RequestInv, Guarded
  <2>5. Told \in {"none", "unknown"}
    BY <2>1, <2>3, <2>4 DEF Told, EffectInv, PlainInv
  <2>6. UNCHANGED Told
    BY <1>0, <2>1 DEF Told
  <2> QED
    BY <1>0, <2>1, <2>3, <2>5, <2>6 DEF Update!UpdateNext, Update!Commit,
       Guarded
<1>7. CASE RivalWrites
  <2>1. moved' = TRUE /\ UNCHANGED <<effects, stage, problem, result>>
    BY <1>7 DEF RivalWrites, vars
  <2>2. UNCHANGED Told
    BY <1>0, <2>1 DEF Told
  <2> QED
    BY <1>0, <2>1, <2>2 DEF Update!UpdateNext, Update!Rival, Guarded
<1>8. CASE Waits \/ TokenRejected \/ Begins \/ Refreshes \/ UNCHANGED callVars
  <2>1. UNCHANGED <<moved, effects>>
    BY <1>8 DEF Waits, TokenRejected, Begins, Refreshes, UNCHANGED_call,
       callVars
  <2>2. \/ stage # "over" /\ stage' # "over"
        \/ UNCHANGED <<stage, problem, result>>
    BY <1>8 DEF Waits, TokenRejected, Begins, Refreshes, Unauthorized,
       Calling, callVars, vars
  <2>3. UNCHANGED Told
    BY <1>0, <2>2 DEF Told
  <2> QED
    BY <1>1, <2>1, <2>3
<1>9. CASE RefusesArguments \/ FindsNoSession \/ Returns \/ RefreshFails
  <2>1. UNCHANGED <<moved, effects>> /\ Told = "none"
    BY <1>9 DEF RefusesArguments, FindsNoSession, Returns, RefreshFails,
       Over, UNCHANGED_call, Calling, Told
  <2>2. stage' = "over"
    BY <1>9 DEF RefusesArguments, FindsNoSession, Returns, RefreshFails, Over
  <2>3. Told' \in Update!Outcome
    BY <2>2 DEF Told, Update!Outcome
  <2>4. Told' = "ok" /\ request.changes => effects = 1
    BY <1>0, <2>1, <2>2 DEF Told, EffectInv
  <2>5. Told' = "stale" => effects = 0 /\ Guarded /\ moved
    BY <1>0, <2>1, <2>2 DEF Told, EffectInv, Guarded
  <2>6. Told' = "refused" => effects = 0
    BY <1>0, <2>1, <2>2 DEF Told, PlainInv
  <2>7. Update!Report(Told')
    BY <1>0, <2>1, <2>4, <2>5, <2>6 DEF Update!Report, Update!Truthful,
       Guarded
  <2> QED
    BY <2>3, <2>7 DEF Update!UpdateNext
<1>10. CASE CallsAgain
  BY <1>1, <1>10 DEF CallsAgain, Restart, Told
<1>11. CASE CallerRepeats
  <2>1. /\ Told = "unknown" /\ request.repeat = "Idempotency-Key"
        /\ UNCHANGED <<moved, effects>> /\ Told' = "none"
    BY <1>11 DEF CallerRepeats, Restart, Told
  <2> QED
    BY <1>0, <2>1 DEF Update!UpdateNext, Update!Repeat, Guarded
<1> QED
  BY <1>3, <1>4, <1>5, <1>6, <1>7, <1>8, <1>9, <1>10, <1>11 DEF CallNext

LEMMA InitUpdates == CallInit => Update!UpdateInit
<1> SUFFICES ASSUME CallInit
             PROVE  Update!UpdateInit
  OBVIOUS
<1>1. RequestInv
  BY CallInitInv DEF CallInv
<1>2. moved = FALSE /\ effects = 0 /\ Told = "none"
  BY DEF CallInit, Told
<1> QED
  BY <1>1, <1>2 DEF RequestInv, Update!UpdateInit, Guarded

(* For every retry policy and deadline, a call of any service is an update *)
(* that takes effect at most once and is reported truthfully.              *)
THEOREM CallsUpdateOnce == CallSpec => ImplementsUpdate
BY CallInitInv, CallInvStep, InitUpdates, StepUpdates, PTL
DEF CallSpec, ImplementsUpdate, Update!UpdateSpec

(* A conflict the caller is told of is another writer's, never the echo of *)
(* the call's own write, and what was refused so does not happen later;    *)
(* only a keyed request refused for another reason than its version may.   *)
THEOREM ConflictsTrue == CallSpec => []ConflictIsTrue
<1>1. CallInv => ConflictIsTrue
  <2> SUFFICES ASSUME CallInv, problem \in ErrConflict
               PROVE  effects = 0 \/ StillOpen
    BY DEF ConflictIsTrue
  <2> USE DEF CallInv
  <2>1. CASE problem \in VersionPassed
    BY <2>1 DEF EffectInv
  <2>2. CASE kind = "write"
    BY <2>2 DEF PlainInv, ErrConflict
  <2>3. CASE kind = "read"
    BY <2>3 DEF EffectInv, RequestInv
  <2> QED
    BY <2>1, <2>2, <2>3 DEF ErrConflict, VersionPassed, ErrStaleVersion,
       RequestInv, StillOpen
<1> QED
  BY <1>1, CallInitInv, CallInvStep, PTL DEF CallSpec

(* The transport starts again with what is left of the deadline, or with a *)
(* new one: its own invariants hold through both calls.                    *)
LEMMA TransportInvKept ==
  WaitInv /\ CountInv /\ [CallNext]_callVars => WaitInv' /\ CountInv'
<1> SUFFICES ASSUME WaitInv, CountInv, [CallNext]_callVars
             PROVE  WaitInv' /\ CountInv'
  OBVIOUS
<1>1. CASE [Next]_vars
  BY <1>1, WaitInvStep, CountInvStep
<1>2. CASE CallsAgain \/ CallerRepeats
  <2>1. PICK left \in 0..Budget : Restart(left)
    BY <1>2, BudgetAssumption DEF CallsAgain, CallerRepeats, CountInv, TypeOK
  <2> QED
    BY <2>1, AttemptsAssumption, BudgetAssumption DEF Restart, WaitInv,
       CountInv, TypeOK, RetryAfterHonoured, ServerWaitFits
<1> QED
  BY <1>1, <1>2 DEF CallNext, Fails, Answered, GivesUp, Waits, LateRun,
     RivalWrites, TokenRejected, RefusesArguments, FindsNoSession, Begins,
     Refreshes, Returns, RefreshFails, Over, Next, callVars, vars

(* What the transport promises of one call holds across the second call    *)
(* after a 401 and across repetitions with the same key.                   *)
THEOREM CallKeepsTransport ==
  CallSpec => [](/\ TypeOK /\ AtMostOnce /\ FailureIsTrue
                 /\ RetryAfterHonoured /\ ServerWaitFits)
<1>1. CallInv => AtMostOnce /\ FailureIsTrue
  BY DEF CallInv, WriteInv, AtMostOnce, FailureIsTrue
<1>2. WaitInv /\ CountInv => TypeOK /\ RetryAfterHonoured /\ ServerWaitFits
  BY DEF WaitInv, CountInv
<1>3. CallInit => WaitInv /\ CountInv
  BY AttemptsAssumption, BudgetAssumption DEF CallInit, Init, WaitInv,
     CountInv, TypeOK, RetryAfterHonoured, ServerWaitFits
<1> QED
  BY <1>1, <1>2, <1>3, CallInitInv, CallInvStep, TransportInvKept, PTL
  DEF CallSpec

-----------------------------------------------------------------------------
(* How long a call can take.                                               *)

(* What is left of a call of the transport: its attempts and the waits     *)
(* before them, the ticks to its deadline, and the attempt under way.      *)
Left == 2 * (MaxAttempts - attempt) + remaining
          + (IF phase = "sent" THEN 2 ELSE IF phase = "sleep" THEN 1 ELSE 0)

(* Each step of the transport, also one after which it tries again, uses   *)
(* up some of that.                                                        *)
LEMMA TransportMovesOn ==
  ASSUME CountInv, Next
  PROVE  Left' < Left /\ remaining' <= remaining
<1>1. /\ MaxAttempts \in Nat /\ Budget \in Nat
      /\ attempt \in 1..MaxAttempts /\ remaining \in 0..Budget
      /\ phase \in {"sent", "sleep", "done"}
      /\ phase = "sleep" => attempt < MaxAttempts
  BY AttemptsAssumption, BudgetAssumption DEF CountInv, TypeOK
<1>2. ASSUME NEW error \in TransportError, AttemptFails(error)
      PROVE  Left' < Left /\ remaining' <= remaining
  BY <1>1, <1>2 DEF AttemptFails, Sleep, Finish, Left
<1>3. ASSUME NEW status \in Response, NEW after \in 0..MaxRetryAfter,
             AttemptAnswered(status, after)
      PROVE  Left' < Left /\ remaining' <= remaining
  BY <1>1, <1>3 DEF AttemptAnswered, Sleep, Finish, Left
<1>4. CASE Interrupted \/ SleepInterrupted
  BY <1>1, <1>4 DEF Interrupted, SleepInterrupted, Finish, Left
<1>5. CASE NextAttempt
  BY <1>1, <1>5 DEF NextAttempt, Left
<1>6. CASE Tick
  BY <1>1, <1>6 DEF Tick, Left
<1> QED
  BY <1>2, <1>3, <1>4, <1>5, <1>6 DEF Next

(* A call of the transport takes at most twice its attempts and once its   *)
(* ticks in steps, whatever the server answers and however long it asks to *)
(* be left alone: no answer sets the loop back.                            *)
THEOREM CallsEnd ==
  Spec => [](Left \in 0..(2 * MaxAttempts + Budget)) /\ [][Left' < Left]_vars
<1>1. Init => CountInv
  BY AttemptsAssumption, BudgetAssumption DEF Init, CountInv, TypeOK
<1>2. CountInv => Left \in 0..(2 * MaxAttempts + Budget)
  BY AttemptsAssumption, BudgetAssumption DEF CountInv, TypeOK, Left
<1>3. CountInv /\ [Next]_vars => [Left' < Left]_vars
  BY TransportMovesOn
<1> QED
  BY <1>1, <1>2, <1>3, CountInvStep, PTL DEF Spec

(* The stages of a protected call, counted from the end.                   *)
StagesLeft == IF stage = "start" THEN 4 ELSE IF stage = "first" THEN 3
              ELSE IF stage = "refresh" THEN 2
              ELSE IF stage = "second" THEN 1 ELSE 0

(* The server, the other players and attempts that arrive late do not      *)
(* concern the call.                                                       *)
Elsewhere == UNCHANGED <<vars, stage, problem>>

(* The call comes closer to its end, and never gets more time.             *)
Sooner ==
  /\ remaining' <= remaining
  /\ \/ StagesLeft' < StagesLeft
     \/ StagesLeft' = StagesLeft /\ Left' < Left

LEMMA StepMovesOn ==
  ASSUME CountInv, CallNext
  PROVE  Elsewhere \/ CallerRepeats \/ Sooner
<1>1. remaining \in Nat
  BY BudgetAssumption DEF CountInv, TypeOK
<1>2. ASSUME Next, stage' = stage
      PROVE  Sooner
  BY <1>2, TransportMovesOn DEF Sooner, StagesLeft
<1>3. ASSUME NEW error \in TransportError, Fails(error)
      PROVE  Sooner
  BY <1>2, <1>3 DEF Fails, Next
<1>4. ASSUME NEW status \in Response, NEW after \in 0..MaxRetryAfter,
             Answered(status, after)
      PROVE  Sooner
  BY <1>2, <1>4 DEF Answered, Next
<1>5. CASE GivesUp \/ Waits
  BY <1>2, <1>5 DEF GivesUp, Waits, Next
<1>6. CASE LateRun \/ RivalWrites \/ TokenRejected
  BY <1>6 DEF LateRun, RivalWrites, TokenRejected, Elsewhere
<1>7. CASE RefusesArguments \/ FindsNoSession \/ Returns \/ RefreshFails
  BY <1>1, <1>7 DEF RefusesArguments, FindsNoSession, Returns, RefreshFails,
     Calling, Over, vars, Sooner, StagesLeft
<1>8. CASE Begins \/ Refreshes
  BY <1>1, <1>8 DEF Begins, Refreshes, Unauthorized, vars, Sooner, StagesLeft
<1>9. CASE CallsAgain
  BY <1>1, <1>9 DEF CallsAgain, Restart, Sooner, StagesLeft
<1> QED
  BY <1>3, <1>4, <1>5, <1>6, <1>7, <1>8, <1>9 DEF CallNext

(* Every step of a protected call brings it closer to its return: through  *)
(* the attempts of either call, a 401, the refresh in between and the      *)
(* second call, which gets what is left of the deadline and no more.  Only *)
(* the game, by repeating it, makes a call begin again.                    *)
THEOREM ProtectedCallsEnd ==
  CallSpec => [][Elsewhere \/ CallerRepeats \/ Sooner]_callVars
<1>1. CallInit => WaitInv /\ CountInv
  BY AttemptsAssumption, BudgetAssumption DEF CallInit, Init, WaitInv,
     CountInv, TypeOK, RetryAfterHonoured, ServerWaitFits
<1>2. CountInv /\ [CallNext]_callVars =>
        [Elsewhere \/ CallerRepeats \/ Sooner]_callVars
  BY StepMovesOn
<1> QED
  BY <1>1, <1>2, TransportInvKept, PTL DEF CallSpec
=============================================================================
