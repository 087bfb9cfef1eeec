--------------------------- MODULE ProtectedCall ----------------------------
(***************************************************************************)
(* Client.callProtected around StdNetTransport.Call: one request of one of *)
(* the services, the call that carries it, the refresh and second call     *)
(* after a 401, and the object on the server it is about, which other      *)
(* players write too.  An attempt the client gave up on may still reach    *)
(* the server.  A request of the key tier goes straight to the transport.  *)
(***************************************************************************)
EXTENDS RetryTransport, Operations

VARIABLES
  request,   \* what of the request's entry in Operations matters here
  stage,     \* "start", "first" call, "refresh", "second" call or "over"
  accepted,  \* the server accepts the session's access token
  moved,     \* the object has left the version the caller read
  effects,   \* how often the request changed the object
  late,      \* an abandoned attempt may still reach the server
  problem    \* why the server, or the client itself, refused

callVars == <<vars, request, stage, accepted, moved, effects, late, problem>>

(* GET may be repeated, a write only when it says so. *)
Kind(r) ==
  IF r.method = "GET" THEN "read"
  ELSE IF r.repeat = "no" THEN "write" ELSE "keyed"

Profile(r) ==
  [kind |-> Kind(r), auth |-> r.auth, guard |-> r.guard, repeat |-> r.repeat,
   changes |-> r.changes, checks |-> r.operationId \in ChecksArguments]

(* How an error answers errors.Is: each sentinel stands for the problems   *)
(* (status and slug) it matches.  "conflict" is a 409 that is about the    *)
(* state of the object (party_full) and not about a version.               *)
ErrUnauthorized == {"unauthorized"}
ErrStaleVersion == {"stale_version"}
ErrConflict == {"precondition", "stale_version", "conflict"}

VersionPassed == ErrStaleVersion \cup {"precondition"}

GuardProblem == [g \in {"expected_version", "If-Match"} |->
                   IF g = "If-Match" THEN "precondition" ELSE "stale_version"]

Protected == request.auth = "session"
Guarded == request.guard # "none"

CallInit ==
  /\ Init
  /\ request \in {p \in {Profile(r) : r \in Requests} : p.kind = kind}
  /\ stage = "start"
  /\ accepted \in BOOLEAN
  /\ moved = FALSE
  /\ effects = 0
  /\ late = FALSE
  /\ problem = "none"

UNCHANGED_call == UNCHANGED <<request, accepted, moved, effects, late>>

(* The server.  It remembers an Idempotency-Key and answers the repetition *)
(* with what it did; the key is made once for the call.                    *)
Remembered_KeyPerAttempt == FALSE

Remembered == request.repeat = "Idempotency-Key" /\ effects > 0

GuardHolds == Guarded => ~moved

Apply ==
  IF request.changes /\ ~Remembered
    THEN GuardHolds /\ moved' = TRUE /\ effects' = effects + 1
    ELSE UNCHANGED <<moved, effects>>

Authorized == Protected => accepted

Ran == executed' # executed

(* What the server does with an attempt it runs. *)
Serve == IF Ran THEN Authorized /\ Apply ELSE UNCHANGED <<moved, effects>>

(* Why it refuses one: a version that has passed, a conflict of another    *)
(* kind, which any request can meet, or anything else.                     *)
Refusal ==
  \/ ~Authorized /\ problem' = "unauthorized"
  \/ Authorized /\ ~Remembered /\ ~GuardHolds
     /\ problem' = GuardProblem[request.guard]
  \/ Authorized /\ ~Remembered /\ problem' = "conflict"
  \/ Authorized /\ problem' = "other"

Calling == stage \in {"first", "second"}

Fails(error) ==
  /\ Calling
  /\ AttemptFails(error)
  /\ Serve
  /\ late' = (late \/ (error \in {"broken", "eof"} /\ ~Ran))
  /\ UNCHANGED <<request, stage, accepted, problem>>

Answered(status, after) ==
  /\ Calling
  /\ AttemptAnswered(status, after)
  /\ Serve
  /\ late' = (late \/ (status \in {"unavailable", "serverError"} /\ ~Ran))
  /\ IF status = "refused" THEN Refusal ELSE UNCHANGED problem
  /\ UNCHANGED <<request, stage, accepted>>

GivesUp ==
  /\ Calling
  /\ \/ Interrupted /\ Serve /\ late' = (late \/ ~Ran)
     \/ SleepInterrupted /\ UNCHANGED <<moved, effects, late>>
  /\ UNCHANGED <<request, stage, accepted, problem>>

Waits ==
  /\ Calling
  /\ NextAttempt \/ Tick
  /\ UNCHANGED_call /\ UNCHANGED <<stage, problem>>

(* An abandoned attempt reaches the server after all. *)
LateRun ==
  /\ late
  /\ request.changes /\ ~Remembered
  /\ Apply
  /\ late' = FALSE
  /\ UNCHANGED <<vars, request, stage, accepted, problem>>

(* Another player writes the object: its version only grows. *)
RivalWrites ==
  /\ Guarded
  /\ ~moved
  /\ moved' = TRUE
  /\ UNCHANGED <<vars, request, stage, accepted, effects, late, problem>>

TokenRejected ==
  /\ accepted
  /\ accepted' = FALSE
  /\ UNCHANGED <<vars, request, stage, moved, effects, late, problem>>

Over(why) ==
  /\ stage' = "over"
  /\ problem' = why
  /\ UNCHANGED vars
  /\ UNCHANGED_call

(* Before the call: the arguments are looked at, a session that is about   *)
(* to expire is refreshed, and its token attached.                         *)
RefusesArguments ==
  /\ stage = "start"
  /\ request.checks
  /\ Over("invalid")

FindsNoSession ==
  /\ stage = "start"
  /\ Protected
  /\ Over("noSession")

Begins ==
  /\ stage = "start"
  /\ stage' = "first"
  /\ \/ Protected /\ accepted' = TRUE
     \/ UNCHANGED accepted
  /\ UNCHANGED <<vars, request, moved, effects, late, problem>>

(* The call has ended: a 401 on the first one asks for a new token. *)
Unauthorized ==
  /\ stage = "first"
  /\ result = "refused"
  /\ problem \in ErrUnauthorized
  /\ Protected

Refreshes ==
  /\ phase = "done"
  /\ Unauthorized
  /\ stage' = "refresh"
  /\ UNCHANGED vars /\ UNCHANGED_call /\ UNCHANGED problem

Returns ==
  /\ Calling
  /\ phase = "done"
  /\ ~Unauthorized
  /\ Over(problem)

(* The transport starts on the request from nothing, within what is left   *)
(* of the deadline.                                                        *)
Restart(left) ==
  /\ phase' = "sent"
  /\ attempt' = 1
  /\ remaining' = left
  /\ delay' = 0
  /\ retryAfter' = 0
  /\ slept' = 0
  /\ executed' = 0
  /\ result' = "none"
  /\ problem' = "none"
  /\ UNCHANGED <<kind, request, moved, effects, late>>

CallsAgain ==
  /\ stage = "refresh"
  /\ stage' = "second"
  /\ accepted' \in BOOLEAN
  /\ \E left \in 0..remaining : Restart(left)

(* The refresh fails and the 401 stands, or the session was cleared. *)
RefreshFails ==
  /\ stage = "refresh"
  /\ \E why \in {problem, "noSession"} : Over(why)

(* What the caller makes of the return: errors that leave open whether the *)
(* request ran are "unknown"; for a keyed one, of which an attempt may     *)
(* still be on its way, so is every error but a version that has passed.   *)
Told ==
  IF stage # "over" THEN "none"
  ELSE IF result = "ok" THEN "ok"
  ELSE IF problem \in VersionPassed THEN "stale"
  ELSE IF kind = "write" /\ (problem # "none" \/ result \in NotRun)
    THEN "refused"
  ELSE "unknown"

(* The caller repeats the call with the same Idempotency-Key. *)
CallerRepeats ==
  /\ Told = "unknown"
  /\ request.repeat = "Idempotency-Key"
  /\ stage' = "start"
  /\ UNCHANGED accepted
  /\ Restart(Budget)

CallNext ==
  \/ \E error \in TransportError : Fails(error)
  \/ \E status \in Response, after \in 0..MaxRetryAfter :
       Answered(status, after)
  \/ GivesUp
  \/ Waits
  \/ LateRun
  \/ RivalWrites
  \/ TokenRejected
  \/ RefusesArguments
  \/ FindsNoSession
  \/ Begins
  \/ Refreshes
  \/ Returns
  \/ CallsAgain
  \/ RefreshFails
  \/ CallerRepeats

CallSpec == CallInit /\ [][CallNext]_callVars

(* Time passes, a goroutine whose timer fired runs, and the HTTP client    *)
(* gives an attempt up when its context ends; the goroutine of the call    *)
(* runs on, and the refresh, itself such a call, ends.                     *)
FairCallSpec ==
  /\ CallSpec
  /\ WF_callVars(Waits)
  /\ WF_callVars(remaining = 0 /\ GivesUp)
  /\ WF_callVars(Begins)
  /\ WF_callVars(Refreshes \/ Returns)
  /\ WF_callVars(CallsAgain)

-----------------------------------------------------------------------------
(* Properties.                                                             *)

Update == INSTANCE ObjectUpdate WITH
  changes <- request.changes,
  guarded <- Guarded,
  keyed <- request.repeat = "Idempotency-Key",
  outcome <- Told

(* A call is an update that takes effect at most once and is reported      *)
(* truthfully, through the transport's attempts, the retry after a 401,    *)
(* attempts that arrive late and a repetition with the same key.           *)
ImplementsUpdate == Update!UpdateSpec

(* A conflict reported to the caller (errors.Is(err, ErrConflict)) is the  *)
(* work of another writer, never of this call's own earlier attempt, and   *)
(* no attempt of it takes effect later: the caller of Storage.Put or of a  *)
(* party write may read again and retry.  The one exception is a Queue or  *)
(* Rematch refused for another reason than its version, an earlier attempt *)
(* of which may still reach the server and succeed.                        *)
StillOpen == kind = "keyed" /\ problem = "conflict"

ConflictIsTrue ==
  stage = "over" /\ problem \in ErrConflict => effects = 0 \/ StillOpen

(* Every call returns, the one inside a refresh too. *)
CallReturns == stage # "over" ~> stage = "over"
=============================================================================
