# A TLA+ model of the ggscale Go SDK

The SDK (`src/*.go`) is a client library. Most of its methods are one HTTP
request; the logic worth a model is what lies between requests: a session that
many goroutines share and refresh, a transport that decides what may be sent
again, a realtime socket that reconnects, and three loops that wait for
something (a match, a party, relay credentials) over lossy hints and polls.
The requests themselves are a table: what decides how each may be repeated and
refused, and one model of the call that carries any of them.
The modules here are translated from that code. The server is the environment
and is modelled by what the code relies on.

## Inventory

| part (source) | state it keeps | operations | how it interacts | what is hard |
|---|---|---|---|---|
| Client session (`client.go`, `auth.go`, `anonymous.go`) | `session` under `sessionMu`; the session file | `callProtected`, `DialRealtime`, `Login`, `SetSession`, `Logout`, `Disable`, `RequestDelete`, `SaveSession` | every service calls `callProtected`; it calls `Auth.Refresh` with the lock held; `OnSessionUpdate` is a callback outside the lock | concurrent refreshes, late 401s, a token that is consumed by its use, callbacks in the other order, crashes |
| HTTP transport (`transport.go`, `transport_stdnet.go`) | per call: attempt, delay, deadline | `Call` | below everything | what may be repeated, Retry-After against the deadline, overflow |
| Protected requests (`client.go`, every service) | per call: which of the two calls, the problem | `callProtected`, `callServer` | transport below, session beside, the game repeats | a write in both calls of a 401, attempts that arrive late, a repetition, versions |
| Realtime client (`realtime.go`, `realtime_options.go`) | `conn`, `closed`, `done`, `reconnectCount`, `connectedAt`, two mutexes | `ReadMessage`, `Close`, `Send`, reconnect hook | dials with the client's session; the hook runs user code | Close at any point of a reconnection, several readers, flapping |
| Matchmaker (`matchmaker.go`) | per wait: ticket, socket, channel, forwarder | `WaitForMatch`, `ConnectP2P`, single requests | dials realtime, polls tickets, joins the game session | push and poll race, tickets that replace each other, goroutine lifetime |
| Parties (`parties.go`) | `partyWatch`: version, last match; `queuedTicket` | `Watch` with a party and without, `WaitForMatch`, single requests | realtime hints, heartbeats, ticket reads, the game's callbacks | lost, late and repeated hints; a failed read between two steps |
| Relay (`relay.go`) | backoff, wait | `KeepFresh`, `GetCredentials` | hands credentials to a callback | expiry during renewal, outages |
| Pagination (`pagination.go` and the `All` methods) | cursor, page, captured options | every `All` method | calls the caller's loop body | a listing that changes between pages, loops that share options |
| Storage, configuration, leaderboards, friends, profile, players, fleets, servers, game sessions, invites, presence, signals, remote addresses, health | none between calls | one request per method | `callProtected` or the transport | the flags of each request: what may be repeated, what names a version |
| Events (`events.go`) | none | decoding of messages | payloads for the game | nothing |

What makes each part correct:

* **session** – a refresh token is sent once and only when it must be; what it
  returned replaces the session it came from; a retry carries another access
  token; the store follows the memory; every method returns. An `OfflineAuth`
  brings its session again with every login, and it is never refreshed.
* **requests** – each takes effect at most once and is reported truthfully; a
  conflict is another writer's doing.
* **transport** – a write is not run twice; a write whose last attempt was not
  sent was not run by an earlier one; the server's wait is honoured, or handed
  to the caller.
* **realtime** – no socket outlives `Close`; no stale socket is read; dials are
  bounded; `Close` wakes everyone.
* **matchmaker, parties** – what is reported is true, reported in the end, and
  nothing is left in the queue or in a goroutine.
* **relay** – credentials are valid as long as the service grants them.
* **pagination** – every steady item once, and an end, for each loop.

## Modules

| module | models | notes |
|---|---|---|
| `SessionChain` | what a game relies on when goroutines share a `Client`: a cell with compare-and-swap refresh | abstract specification |
| `ClientSession` | `client.go`, `auth.go`, `anonymous.go`, `DialRealtime` | implements `SessionChain` |
| `MCClientSession` | symmetry for the run with a store | |
| `RetryTransport` | `StdNetTransport.Call` | |
| `Backoff` | `retryDelay`, `reconnectDelay`, the jitter | fixed-width arithmetic |
| `Operations` | the requests of every service | a table, no state |
| `ObjectUpdate` | what a caller may believe about one such request | abstract specification |
| `ProtectedCall` | `callProtected` and the errors' `Is`, around `RetryTransport` and over `Operations` | implements `ObjectUpdate` |
| `Realtime` | `RealtimeClient` | |
| `TicketWait` | what a game may believe about its waits for a match | abstract specification |
| `MatchWait` | `MatchmakerService.WaitForMatch`, `ConnectP2P` | implements `TicketWait` |
| `PartyWatch` | `Parties.Watch`, `Parties.WaitForMatch` | |
| `KeepFresh` | `RelayService.KeepFresh` | on a clock |
| `Pages` | `cursorSequence` and the `All` methods | |
| `*Proofs` | theorems about the module of that name | eight of them; `ProtectedCallProofs` also holds those about `RetryTransport` |

`ProtectedCall` EXTENDS `RetryTransport` and `Operations`, so the transport's
actions are steps of the call. `ClientSession` and `ProtectedCall` describe the
same `callProtected` from two sides: the first follows the session through many
goroutines and takes a request as one step, the second follows one request
through its attempts and takes the session as a token that is accepted or not.

### ClientSession

A session is one value that stands for its access token, refresh token and
expiry; `refreshable`, `window`, `rejected` and `live` say which sessions have
a refresh token, are inside the proactive window, are answered 401, and can
still be exchanged. Each caller has a program counter. `lock` is the holder of
`sessionMu` for writing across steps: only `refreshUnderLock` keeps it over a
request, all other critical sections are single actions that need it free. An
action is one critical section, or the arrival of one answer, so every
interleaving of goroutines between them is there. `CheckWindow`, `SkipRefresh`,
`SendRefresh`, `InstallRefresh`/`AbandonRefresh`, `NotifyRefresh` are
`refreshIfNeeded` and `forceRefresh`; `AttachSession` is the bearer;
`CallUnauthorized` the one retry. `DialRealtime` is such a call too: it has the
same proactive refresh before the handshake, and the same forced refresh and one
second handshake after a 401. What ends in a `SetSession` goes on to it with
`GoOnToSet`; `SetSession` and `NotifySet` are separate because the callback runs
outside the lock, `LogoutCheck` and `SetSession` are separate because `Logout` takes two locks.
`RefreshFailed` also covers an answer lost after the server consumed the token.
A `Login` asks the server (`StartLogin`, `LoginAnswered` or `LoginFailed`: a
session never seen before), loads the file (`StartAnonymous`) or takes the one
session its `OfflineAuth` generated (`StartOffline`), the same each time: those
are the members of `Offline`, there from the start, without a refresh token and
with an expiry a century away.
`Crash` clears the memory, keeps the file, and may leave a file that was being
written unreadable.

### RetryTransport and Backoff

One call, its attempts and waits, on a clock with a deadline. How an attempt
ends decides what the server may have done (`MayRun`, `MayNotRun`); `executed`
counts that and is invisible to the client. One thing is assumed of the server
there: an attempt it answers with a 4xx that is not retryable ("refused") or
with `party_enqueue_disabled` it has not run. Any other status, a plain 500
among them ("serverError"), leaves that open. `retryableTransportError`,
`requestNotSent`, `retryableStatus` and `requestIsReplayable` are the code's
classifications over outcomes. `Backoff` runs the two doubling loops and the
jitter step by step, with durations that wrap around, for every policy. The
jitter draws below its cap plus one; for the largest duration that bound wraps
around and `crypto/rand.Int` panics (`Panic`).

### Operations, ObjectUpdate and ProtectedCall

`Operations` lists each request once, with its method, its credential, the
version it names, how it may be repeated and whether it changes anything; a
wrong `ReplaySafe` flag in a service is a wrong row here. `ProtectedCall` takes
any row through `Begins`, the transport's attempts (`Fails`, `Answered`,
`GivesUp`, `Waits`), `Refreshes`, `CallsAgain` with attempts of its own within
what is left of the deadline, and `Returns`. The server runs an attempt at most
once, refuses a passed version, and remembers an Idempotency-Key. Any request
it has not carried out it may also refuse with a 409 that is about the state of
the object and not its version ("conflict", as `party_full`), which
`ErrConflict` matches too. An attempt whose connection broke, or that was
answered by a 503 or a 500, may reach the server later (`LateRun`), other players
write the object (`RivalWrites`), and the game may make a keyed call again (`CallerRepeats`). `Told` is what the game
learns from the error.

`ObjectUpdate` says what it may make of that: one effect at most, success only
after it, a passed version ("stale") or a refusal only when there is none and
will be none, and everything else open ("unknown"). Open is what a timeout or a
500 leaves, and, for a request with an Idempotency-Key, every error but a passed
version: an earlier attempt of it may still be on its way, and the server that
refused this one need not refuse that one. `Queue` and `Rematch` are the two
requests of the kind; `StillOpen` names them in `ConflictIsTrue`.

### Realtime

`readMu` and `mu` are both there: `mu`'s critical sections are single actions,
`readMu` is held over the whole of `ReadMessage`. A reconnection is
`StartReconnect`, then per attempt `StartAttempt`, `Slept`, `Dialled` or
`DialFailed`, `Adopt` or `AdoptAfterClose`; `Close` is `CloseTake` (under the
lock) and `CloseSocket` (outside it). One reader is the reconnect hook, started
by `Adopt` in a goroutine of its own. The server drops sockets at any time and
closes the player's older one when a new one opens. `stable` is what
`shouldReconnect` asks: whether `stableRealtimeConnection` has passed since
`connectedAt`. `GrowOld` is the clock's doing alone, with the socket open or
long dropped and not yet read. `dials` counts dials since `stable` last turned
`TRUE`; whether `shouldReconnect` looks at it then or later makes no
difference to it. What the dial itself does
(the ticket, a refresh after a 401) is one step.

### MatchWait

Several calls of `WaitForMatch` for one player, as after a browser refresh or
on a second device: each dials, creates its ticket (replacing the active one
once), and selects over context, push and poll, while its forwarder moves
messages from the socket into a bounded channel. Reconnections of the socket
are here too: what was pushed in between is lost. `outcome` keeps how a call
returned; "contextOnly" is a return whose best-effort cancel failed. The calls
in `P2P` are made by `ConnectP2P`: after a match they go on with `RefuseFleet`
or `FetchRelay`, `NothingToJoin`, `JoinSession` or `JoinFailed`, and `roster`
is who the server has in the session. A `JoinFailed` may have joined: its
answer was lost.

`TicketWait` forgets the sockets, messages and polls: tickets settle once, a
wait obtains one ticket while none of the player's is queued, and ends with
what became of it, with it withdrawn, or with its fate open. `ToldAs` reads a
call's `outcome` so: an error may be the loss of any answer and leaves the
ticket open; a cancelled call that could tell the server has withdrawn it.

### PartyWatch

One goroutine, over one party or none. The party, the membership and the
tickets change on the server between any two requests; hints wait in order on
the wire and are lost at any time. `mode` says what was called: `Watch` on a
party, `Parties.WaitForMatch`, or `Watch` for invites only, whose dial must
succeed (`DialFails`) and which has no heartbeat. `ReadParty`,
`HeartbeatStale`, `ReadFails`, `ReadRemoved` are the four answers to a read;
`Report`, `CheckMatch`, `TicketShowsMatch`, `TicketFails` are `update`;
`TakeInvite`, `TakeChanged`, `TakeMatched`, `ReportPushed` the hints. A
callback of the game may end the watch with its error wherever it is called
(`GoOn`). The callback of `WaitForMatch` also remembers and looks up its queue
entry (`Remember`, `LooksUp`, `LookupSettled`, `LookupFails`).

### KeepFresh and Pages

`KeepFresh` has a clock, so that the 80 % rule and the backoff can be checked
against the life of the credentials: requests take up to `Latency`, the answer's
TTL runs from the moment the server gave it, outages begin and end freely. The
game's callback (`src/relay.go:117`) takes no time in it: one that is slow adds
its time to the wait, and credentials expire if it takes what is left of them.
`Pages` has a listing that grows and shrinks between the iterator's steps, and
a server that may send short or empty pages or repeat a cursor. `All` captures
its options once and each range loop over its value starts anew from them, so
`options` is shared: a loop that ran before, or the one this loop is nested in,
has left its own cursor there. The order of a listing is documented for storage
only; the model takes the other listings, which the same code pages through, to
keep one too. A fetch sets and uses it in one step, as one
goroutine does; two goroutines that range over one value would race.

## Runs

| run | bounds | states | shows |
|---|---|---|---|
| `session_shared` | 2 goroutines, 2 sessions of the server and 1 of an `OfflineAuth`, no store | 860,388 | `TypeOK`, `RotationFromCurrent`, `JustifiedRefresh`, `FreshRetry`, `NoReplay`, `ImplementsChain`, `CallsReturn` |
| `session_store` | 1 goroutine, 3 sessions of the server and 1 of an `OfflineAuth`, store, 2 crashes | 379,002 | `StoreLag` |
| `session_cleared` | 2 goroutines, sessions as in `session_shared`, store | | `ClearedOnDisk` is violated |
| `retry_call` | every row of `Operations`, 3 attempts per call, delays 1 to 3, deadline 6, Retry-After up to 4 | 221,150 | `TypeOK`, `AtMostOnce`, `FailureIsTrue`, `RetryAfterHonoured`, `ServerWaitFits`, `ConflictIsTrue`, `ImplementsUpdate`, `CallReturns` |
| `backoff` | 5-bit durations, 7 attempts, every policy | 68,228 | `NeverOverflows`, `Exponential` |
| `realtime` | reader and hook, 2 closers, 4 sockets, 2 attempts | 64,602 | `TypeOK`, `NoLeak`, `ReadsCurrent`, `DialBudget`, `CloseReleasesReaders` |
| `match` | 2 calls, one of `ConnectP2P`, 2 tickets, channel of 1, one device that keeps running | 440,068 | `TypeOK`, `OutcomeIsTrue`, `GivingUpLeavesQueue`, `ImplementsWait`, `SettledEndsWait`, `CancelEndsForwarder` |
| `match_forwarder` | 1 call, 1 ticket, channel of 2, no cancellation | | `DropEndsForwarder` is violated |
| `party` | all three modes, 5 versions, 2 tickets, 1 hint on the wire | 270,193 | `TypeOK`, `ReportsAreTrue`, `CatchesUp`, `MatchArrives`, `RemovalEnds` |
| `party_failure` | `WaitForMatch`, 4 versions, 1 ticket | | `FailureReturned` is violated |
| `keepfresh` | lives of 12 and 15 ticks, retries 2 to 7, latency 1, Retry-After up to 9 | 3,870 | `HeldWhileGranted`, `HonoursRetryAfter`, `RecoversInTime` |
| `pages` | 2 loops over one value, 3 items, pages of 2 | 203,433 | `InOrder`, `Complete`, `Terminates` |

Why the bounds are enough. Two sessions of the server are a login and its
refresh, or two logins; with two goroutines that already gives the late 401, the
refresh that finds the session refreshed, and the clear during a refresh. One
session of an `OfflineAuth` can come back any number of times. The safety
properties of that run are proved for any number of both. Three attempts are a
first, a middle and a last one, in each of the two calls around a refresh and
again when the game repeats. Four sockets let a flapping server use up a budget
of two attempts, renew it, and dial once more. Two calls and two tickets are
one replacement of one ticket by the other, with a push for either on a socket
of the wrong call. Five versions are a party that queues, matches, queues again
and matches again. Five-bit durations overflow within seven doublings. A page
limit below the number of items gives full, short and empty pages, and two
loops over one value are a loop after another and one nested in another.

`Session`, `Offline`, `Ticket`, `Socket`, `Modes`, `MaxVersion`, `MaxTicket`, `MaxWire`,
`MaxItem`, `MaxCrash` and `MaxRetryAfter` bound what the environment does; when
one is used up, that event no longer happens. `Caller`, `Waiter`, `Reader` and
`Closer` are the goroutines, `Loop` the range loops. `MaxAttempts`,
`BaseDelay`, `MaxDelay`, `Budget`, `Buffer`, `RetryMin`, `RetryMax` and `Limit`
are the code's own parameters, small.

Deadlock is not checked where the system stops by design: a call that has
ended, a watch that has returned, an iteration that is over.

## Fairness

* Goroutines run, so steps that stay enabled are taken (weak fairness).
* Every request is answered or times out: `CallTimeout`, the handshake timeout
  and the context's deadline bound it (`WF` of the answers, all outcomes
  together: none is promised to be a good one).
* Locks: `sync.Mutex` and `sync.RWMutex` hand over to a waiter that has starved,
  so a step that needs the lock and is enabled again and again is taken (strong
  fairness of `CallStep`, `Acquire`).
* A call's own steps happen (`FairCallSpec`): time passes, so what it waits for
  comes or its deadline does, and at the deadline the HTTP client gives the
  attempt up. The refresh in the middle is itself such a call.
* Go's `select` chooses at random among ready cases, so a case that is ready
  again and again is taken (`SF` of `TakeMessage`, `StartPoll`, `Tick`, ...).
* Of infinitely many polls, heartbeats and ticket reads one succeeds: a network
  that fails every request for ever is not claimed to deliver anything. The
  ticket lookup of `Parties.WaitForMatch` happens once, so nothing of the kind
  is assumed of it.
* In `MatchWait` only the calls in `Running` are fair: the other device may die
  anywhere.
* In `Pages` each loop that has begun runs on; none is obliged to begin.
* Nothing obliges the server to send a message, to match a ticket or to keep a
  socket, and nothing obliges a game to call.

## Disagreements between code and documentation

Checked, as runs TLC finds violated:

* `ClearedOnDisk` – `src/client.go:260`: `OnSessionUpdate` is called after the
  lock is released. A login and a `SetSession(nil)` that overlap can be saved in
  the other order, and the session of a player who logged out is loaded at the
  next start. `src/anonymous.go:108-109` promises that clearing revokes the
  persisted identity. With one goroutine it does (`StoreLag`).
* `DropEndsForwarder` – `src/matchmaker.go:379`: once `WaitForMatch` has
  returned nobody reads the channel. A forwarder with a message in hand and the
  channel full waits for the context, though the connection is closed. A caller
  whose context lives as long as the game keeps one goroutine per such wait.
* `FailureReturned` – `src/parties.go:491`: `queuedTicket` is reset before the
  error of `GetTicket` is looked at, so a single failed request loses the failed
  or cancelled entry, and the wait goes on in an idle party.

Noted while modelling, with no run of their own:

* `src/auth.go:176`: `Logout` compares under one lock and clears under another;
  a login of another goroutine in between is cleared (`LogoutCheck`, then
  `SetSession`, of the model).
* `src/parties.go:599`: only the last match is remembered, so a push delayed
  past the next match is reported a second time; `src/parties.go:420` speaks of
  "once for each match". `NoMatchTwiceRunning`, a part of `ReportsAreTrue`, is
  what holds.
* `src/parties.go:559`: a dropped socket is left to the heartbeat, but a watch
  for invites only has none: when its forwarder ends, only the context is left
  in the select, and the watch waits without telling anyone.
* `src/matchmaker.go:346`: `IsHost` compares the host with the session read
  after the wait; a login as another player meanwhile makes it wrong.
* `src/transport.go:185`: `ErrConflict` matches every 409, so a `Queue` that is
  told `party_full` looks as final as one told that its version has passed,
  though an earlier attempt of it may still succeed (`StillOpen`).
* `src/game_sessions.go:228` and the other `All` methods: two goroutines that
  range over one value race on the captured options.
* `src/transport_stdnet.go:344`: `fullJitter` adds one to its cap as an `int64`.
  With the largest duration (`MaxDelay` or `FirstDelayMax` set to
  `math.MaxInt64` for "no limit", and enough attempts to double up to it) the
  bound is negative and `crypto/rand.Int` panics, where
  `src/transport_stdnet.go:45-46` promises a delay in [0, cap]. It is the action
  `Panic` of the model, and `NeverOverflows` shows that it can be for that
  duration only.
* `src/transport_stdnet.go:38-39` says any DNS failure is retried; a host that
  does not exist is not (`src/transport_stdnet.go:513`).

## Proofs

TLAPS checks these for every value of the constants (`tlapm <module>.tla`).
Every safety invariant and every refinement a passing run checks is among them;
`*` marks what is proved and no run has as its property.

| theorem | states | from |
|---|---|---|
| `TypeCorrect` | `TypeOK` of `ClientSession` | inductive as it stands |
| `RotatesCurrent`, `RefreshesJustified` | `RotationFromCurrent`, `JustifiedRefresh` | `RefreshInv` |
| `RetriesFresh`, `TokensSentOnce` | `FreshRetry`, `NoReplay`, without a store | `RefreshInv`, `FreshInv` |
| `Implements` | `ImplementsChain`, without a store | the same |
| `StoreFollows` | `StoreLag`, with a store and one goroutine | `RefreshInv`, `LagInv` |
| `MethodsEnd`* | the lock is held in a refresh only; action property: each step brings a method closer to its return | `TypeOK`, `RefreshInv` |
| `WritesOnce`, `FailuresTrue` | `AtMostOnce`, `FailureIsTrue` of one call of the transport | `WriteInv` |
| `RetriesWait`, `WaitsFit` | `RetryAfterHonoured`, `ServerWaitFits` | `WaitInv` |
| `AttemptsBounded` | `TypeOK` of `RetryTransport` | `CountInv` |
| `CallsUpdateOnce`, `ConflictsTrue` | `ImplementsUpdate`, `ConflictIsTrue` | `CallInv` |
| `CallKeepsTransport` | all five of the transport within `ProtectedCall` | `WriteInv`, `WaitInv`, `CountInv` |
| `CallsEnd`*, `ProtectedCallsEnd`* | a bound on the steps of a call; action property: each brings it closer to its return, within one deadline | `CountInv` |
| `RealtimeTypes`, `ClosesSockets`, `ReadsInstalled`, `DialsBounded` | `TypeOK`, `NoLeak`, `ReadsCurrent`, `DialBudget` | `Inv` |
| `ClosedReadersEnd`* | action property: each step of a reader of a closed client brings it closer to its return | the same |
| `MatchTypes`, `OutcomesTrue`, `NothingLeftQueued` | `TypeOK`, `OutcomeIsTrue`, `GivingUpLeavesQueue` of `MatchWait` | `Inv` |
| `CallsWait` | `ImplementsWait` | the same, step by step |
| `TicketsOwned`* | no two calls wait for one ticket | `Inv`, `OwnInv` |
| `NothingTakenBack`* | action property: settled tickets, owned tickets and answers stay | the refinement |
| `PartyTypes`, `ReportsTrue` | `TypeOK`, `ReportsAreTrue` of `PartyWatch` | `Inv`, `TruthInv` |
| `BackoffTypes`*, `BackoffSafe` | `TypeOK` of `Backoff`, `NeverOverflows` | `CapInv` |
| `BackoffExponential` | `Exponential` | `PowerInv` |
| `FreshTypes`*, `StaysHeld`, `RenewalsWait`, `OutagesEnd` | `TypeOK` of `KeepFresh`, `HeldWhileGranted`, `HonoursRetryAfter`, `RecoversInTime` | `Inv` |
| `LoopsInOrder`, `LoopsComplete` | `InOrder`, `Complete` | `Inv` |
| `LoopsMoveOn`* | action property: a step leaves a running loop alone or takes it further | the same |

Why the strengthenings are needed:

* `RefreshInv`: `RotationFromCurrent` speaks of the moment an answer is in hand.
  It holds because the caller with a refresh under way is the holder of the
  write lock, and as long as the lock is held the session it sent cannot change.
  A token counted as failed must be known to be rejected, which is remembered
  from the 401 on.
* `FreshInv`: that a retry carries another token needs that a session enters
  the cell once. That is so of the sessions of the server (`FromServer`); an
  `OfflineAuth`'s comes back, so `FreshRetry` excepts a call it was rejected
  for, and `NoReplay` needs only that it has no refresh token. A session of the
  server in a caller's hands is therefore unseen: not
  installed, attached, failed, held by another caller or exchanged. And the
  installed session has a successor only while the caller that refreshed it
  holds the answer. With a store this is false, for a reason that is not a
  defect of the lock: `Login` may load from the file a session that the memory
  has gone past. The theorem therefore assumes `~Persist`, and so does the
  refinement.
* `LagInv`: with one goroutine, what a notification carries is what is
  installed, and a session loaded from the file or saved by the login itself is
  what will be installed; a second goroutine breaks both (`ClearedOnDisk`).
* `WriteInv`: a plain write that is still under way has not run yet, as only
  connections that were never opened are followed by another attempt.
* `WaitInv`: what is left to sleep covers what is left of the Retry-After.
* `CallInv` of `ProtectedCallProofs`: a plain write has not taken effect while
  it is under way, and has no attempt that still may, or there would be no
  other attempt and no second call (`PlainInv`): a 401 is an attempt that did not
  run, and after a 500 there is no other; once a request took effect the
  object has left its version, so that no other attempt of a keyed request
  applies (`EffectInv`). `TableRepeatable` says that every row of `Operations`
  that may be repeated changes nothing, or carries a key and a version: there a
  wrong flag would show.
* `Inv` of `MatchWaitProofs`: what a call returns is decided by messages that
  were sent long before, so whatever is on the socket, in the forwarder's hand
  or in the channel must be true of the ticket it names (`WireInv`, `ChanInv`),
  for a channel of any length; and a call that reads its ticket has been told so
  by such a message (`CallInv`). For the refinement `CallInv` also says that a
  call which is still creating has no ticket: the one that made it conflict is
  another device's and must not be waited for. Each action is then one of
  `TicketWait`'s or a stutter (`StepWaits`); another device's cancel, a match
  and a failure on the server all settle a ticket (`WaitSettles`), whichever
  call they meet.
* `Inv` of `PartyWatchProofs`: the last match reported is the one both ways of
  reporting compare with, and no step between the comparison and the report
  changes it (`MatchInv`); hints are well formed and tickets once issued stay so
  (`WireInv`, `ServerInv`, `WatchInv`). `TruthInv`: a report is made from a push
  or from a copy of the party that may be old by then, so what these say must
  stay true. It does because only a queued entry ends, a version only grows and
  nobody is taken back into the party (`Final`).
* `Inv` of `RealtimeProofs`: whoever is past `Acquire` owns `readMu`; an open
  socket is the client's, in a closer's hands or just dialled; dials are counted
  before they are made, so `dials <= count`. `count` is reset only when `stable`
  is seen `TRUE`. `dials` was reset when it became so, and who has dialled since
  is still reconnecting (`Retrying`) and ends by adopting a new connection or by
  closing the client: whoever decides on a reconnection finds `dials = 0`.
* `CapInv`: a jitter's bound overflows only for a cap that is the largest
  duration. The first delay of a reconnection, which has a cap of its own, never
  enters the loop, so what the loop doubles is at most half the maximum.
* `PowerInv`: in round `i` the cap is the base times `2^(i - Skipped)`, and a
  loop that breaks early has reached a maximum which the full power passes too.
  The library knows of powers of two only that they count the subsets of a
  finite set, and induction is out of reach; but that is enough: 1..n+1 has
  twice the subsets of 1..n (`PowerDoubles`), and the more numbers the more
  subsets (`PowerMonotonic`).
* `Inv` of `KeepFreshProofs`: while every request is granted, what is left of
  the credentials exceeds the wait and one more request; after an outage, the
  time served and the wait still to come are within the recovery time.
* `Inv` of `PagesProofs`: everything yielded lies before the page, and page and
  yield before the next cursor, if that has moved (`OrderInv`, `CursorInv`); of
  what was there all the time, what lies before the cursor has been yielded or
  is on the page (`SteadyInv`). No loop's invariant speaks of another's state
  or of `options`: a fetch writes them before it reads them.

Assumptions are the named `ASSUME`s of the modules, all on constants. The one
that narrows the program is `LifeAssumption` of `KeepFresh`: a fifth of each
life covers two requests. The code does not check it; a server that issued
credentials of one second would see them renewed after they expired.

What the theorems assume of the server is in the models' actions: a refresh
consumes its token and brings a session never seen before, a request answered
with a 4xx or `party_enqueue_disabled` was not run (`MayRun`), an
Idempotency-Key and a version are honoured. `FailureIsTrue` rests on the second
for the attempt that was refused; what is proved is that no earlier one ran.

Only model-checked: liveness under fairness (`CallsReturn`, `CallReturns`,
`CloseReleasesReaders`, `SettledEndsWait`, `CancelEndsForwarder`, `CatchesUp`,
`MatchArrives`, `RemovalEnds`, `Terminates`), which the prover cannot express;
of four of them the safety half is proved, that each step lowers a measure
which cannot go on falling: `MethodsEnd` for `CallsReturn`, `CallsEnd` and
`ProtectedCallsEnd` for `CallReturns`, `ClosedReadersEnd` for
`CloseReleasesReaders`, `LoopsMoveOn` for `Terminates`. What fairness adds, that
a step is taken while there is one, is left to the runs; the loops of
`MatchWait`, `PartyWatch` and `KeepFresh` poll for as long as it takes and have
no such measure. The three violated properties are counterexamples and have
nothing to prove.

## Not modelled

* Conversions: encoding, decoding, URL building, error parsing, the decoding of
  realtime messages (`events.go`). Where they decide something (a body that
  cannot be read, a Retry-After, a 503 that is final, the problem an error
  matches) they are an outcome.
* The browser build's handshake, whose status JavaScript hides: a refused
  handshake is a failed call there. The ticket it needs is a row of
  `Operations`.
* The entity tag of `Config.Get` and what a 304 answers: both are the caller's
  to keep and to send.
* `Send` of the realtime client, a write on the current socket; options and
  logging; the examples.
* A push without a ticket id, a cursor that goes round in a cycle longer than
  one, a `SetSession` of a session that the game kept itself (or an
  `Authenticator` of its own that hands out one), two goroutines that range over
  one value: the code promises nothing for them, or the game is at fault.

## Plan

The order was: session first (everything depends on it), then transport,
realtime, the waiting loops, relay and pagination; then the requests of the
services and the composition of the call with the transport; then proofs for
the waiting loops. What could follow:

1. The session and the transport in one module: the refresh is a request whose
   attempts last, with the lock held, while other goroutines wait on it.
2. A `PartyWatch` that implements an abstract specification of its own, as
   `MatchWait` implements `TicketWait`.
3. Players in `ClientSession`, so that a login as another player can be told
   apart in `ConnectP2P`.
