------------------------------ MODULE MatchWait ------------------------------
(***************************************************************************)
(* MatchmakerService.WaitForMatch and ConnectP2P, called on several        *)
(* devices of a player: the dial before the ticket, the replacement of an  *)
(* active ticket, the select over context, realtime push and poll, the     *)
(* goroutine that forwards realtime messages through a bounded channel,    *)
(* and for a peer-to-peer game what follows the match.  The server keeps   *)
(* one queued ticket and one socket per player.                            *)
(***************************************************************************)
EXTENDS Naturals, Sequences

CONSTANTS
  Waiter,    \* calls of WaitForMatch
  P2P,       \* those made by ConnectP2P
  Ticket,    \* tickets the server can issue: a bound
  Nil,
  Buffer,    \* capacity of the message channel (8 in the code)
  Cancels,   \* the waiters whose context may be cancelled
  Running    \* those on devices that keep running: the others may die

ASSUME NilAssumption == Nil \notin Ticket
ASSUME P2PAssumption == P2P \subseteq Waiter
ASSUME BufferAssumption == Buffer \in Nat \ {0}
ASSUME CancelsAssumption == Cancels \subseteq Waiter
ASSUME RunningAssumption == Running \subseteq Waiter

VARIABLES
  status,    \* server: status of each ticket, "none" before it is issued
  roster,    \* server: the tickets whose match's game session was joined
  pc,        \* where each call stands
  ticket,    \* its ticket, or Nil
  active,    \* the active ticket its first create ran into
  outcome,   \* how it returned, "none" before
  ctx,       \* its context is cancelled
  conn,      \* its socket: "none", "open" or "down"
  pushes,    \* tickets whose match the server has pushed to that socket
  fwd,       \* its forwarder: "off", "read", "send" or "ended"
  held,      \* the message the forwarder is sending
  chan       \* the channel

call   == <<pc, ticket, active, outcome>>
socket == <<conn, pushes>>
relay  == <<fwd, held, chan>>
vars   == <<status, roster, call, ctx, socket, relay>>

(* A message names the ticket that was matched, or is of another type. *)
Other == "other"
Message == Ticket \cup {Other}

ASSUME OtherAssumption == Other \notin Ticket \cup {Nil}

Settled == {"matched", "failed", "cancelled"}

(* How ConnectP2P returns after a match. *)
AfterMatch == {"wrongMode", "peers", "joined", "joinError"}

Init ==
  /\ status = [t \in Ticket |-> "none"]
  /\ roster = {}
  /\ pc = [w \in Waiter |-> "idle"]
  /\ ticket = [w \in Waiter |-> Nil]
  /\ active = [w \in Waiter |-> Nil]
  /\ outcome = [w \in Waiter |-> "none"]
  /\ ctx = [w \in Waiter |-> FALSE]
  /\ conn = [w \in Waiter |-> "none"]
  /\ pushes = [w \in Waiter |-> {}]
  /\ fwd = [w \in Waiter |-> "off"]
  /\ held = [w \in Waiter |-> Nil]
  /\ chan = [w \in Waiter |-> <<>>]

Goto(w, label) == pc' = [pc EXCEPT ![w] = label]

(* WaitForMatch returns; its deferred Close takes the socket down.         *)
(* ConnectP2P goes on with a match, and returns anything else as it is.    *)
Finish(w, how) ==
  /\ Goto(w, IF w \in P2P /\ how = "matched" THEN "connect" ELSE "done")
  /\ outcome' = [outcome EXCEPT ![w] = how]
  /\ active' = [active EXCEPT ![w] = Nil]
  /\ conn' = [conn EXCEPT ![w] = IF @ = "open" THEN "down" ELSE @]
  /\ pushes' = [pushes EXCEPT ![w] = {}]

Return(w, how) == Finish(w, how) /\ UNCHANGED <<ticket, roster>>

Queued == {t \in Ticket : status[t] = "queued"}

-----------------------------------------------------------------------------
(* The call. *)

(* The server keeps one socket per player: a new one closes the older.     *)
Opened(w) == [x \in Waiter |-> IF x = w THEN "open"
                               ELSE IF conn[x] = "open" THEN "down"
                               ELSE conn[x]]

(* Best effort: without a socket the poll alone finds the match.           *)
Dial(w) ==
  /\ pc[w] = "idle"
  /\ Goto(w, "create")
  /\ conn' = Opened(w) \/ UNCHANGED conn
  /\ UNCHANGED <<status, roster, ticket, active, outcome, ctx, pushes, relay>>

Creating(w) == pc[w] \in {"create", "recreate"}

(* The ticket is queued: the forwarder starts and the select begins. *)
CreateQueued(w, t) ==
  /\ Creating(w)
  /\ Queued = {} /\ status[t] = "none"
  /\ status' = [status EXCEPT ![t] = "queued"]
  /\ ticket' = [ticket EXCEPT ![w] = t]
  /\ fwd' = [fwd EXCEPT ![w] = IF conn[w] = "none" THEN "off" ELSE "read"]
  /\ active' = [active EXCEPT ![w] = Nil]
  /\ Goto(w, "select")
  /\ UNCHANGED <<roster, outcome, ctx, socket, held, chan>>

(* The ticket is settled in the answer to its creation. *)
CreateSettled(w, t) ==
  /\ Creating(w)
  /\ Queued = {} /\ status[t] = "none"
  /\ \E how \in {"matched", "failed"} :
       /\ status' = [status EXCEPT ![t] = how]
       /\ Finish(w, how)
  /\ ticket' = [ticket EXCEPT ![w] = t]
  /\ UNCHANGED <<roster, ctx, relay>>

CreateConflict_Adopts(w, t) ==
  /\ Creating(w)
  /\ t \in Queued
  /\ ticket' = [ticket EXCEPT ![w] = t]
  /\ Goto(w, "select")
  /\ UNCHANGED <<status, roster, active, outcome, ctx, socket, relay>>

(* ErrTicketActive names the active ticket; the second one is returned. *)
CreateConflict(w, t) ==
  /\ Creating(w)
  /\ t \in Queued
  /\ IF pc[w] = "create"
       THEN /\ active' = [active EXCEPT ![w] = t]
            /\ Goto(w, "cancelActive")
            /\ UNCHANGED <<ticket, outcome, socket, roster>>
       ELSE Return(w, "error")
  /\ UNCHANGED <<status, ctx, relay>>

(* Any other error, the context's included; when only the answer was lost  *)
(* the ticket is queued all the same, and nobody knows its id.             *)
CreateFailed(w) ==
  /\ Creating(w)
  /\ \/ UNCHANGED status
     \/ \E t \in Ticket : /\ Queued = {} /\ status[t] = "none"
                          /\ status' = [status EXCEPT ![t] = "queued"]
  /\ Return(w, "error")
  /\ UNCHANGED <<ctx, relay>>

CancelTicket(t) ==
  status' = [status EXCEPT ![t] = IF @ = "queued" THEN "cancelled" ELSE @]

(* ErrConflict: the active ticket has ended meanwhile; that is as good. *)
CancelActive(w) ==
  /\ pc[w] = "cancelActive"
  /\ CancelTicket(active[w])
  /\ Goto(w, "recreate")
  /\ UNCHANGED <<roster, ticket, active, outcome, ctx, socket, relay>>

CancelActiveFailed(w) ==
  /\ pc[w] = "cancelActive"
  /\ Return(w, "error")
  /\ UNCHANGED <<status, ctx, relay>>

(* select: ctx.Done() *)
SeeCancelled(w) ==
  /\ pc[w] = "select"
  /\ ctx[w]
  /\ Goto(w, "abort")
  /\ UNCHANGED <<status, roster, ticket, active, outcome, ctx, socket, relay>>

CancelBestEffort_SameContext(w) ==
  /\ pc[w] = "abort"
  /\ Return(w, "context")
  /\ UNCHANGED <<status, ctx, relay>>

(* cancelBestEffort, with a context that is not cancelled. *)
CancelBestEffort(w) ==
  /\ pc[w] = "abort"
  /\ CancelTicket(ticket[w])
  /\ Return(w, "context")
  /\ UNCHANGED <<ctx, relay>>

CancelBestEffortFailed(w) ==
  /\ pc[w] = "abort"
  /\ Return(w, "contextOnly")
  /\ UNCHANGED <<status, ctx, relay>>

TakeMessage_AnyTicket(w) ==
  /\ pc[w] = "select"
  /\ chan[w] # <<>>
  /\ chan' = [chan EXCEPT ![w] = Tail(@)]
  /\ Goto(w, IF Head(chan[w]) # Other THEN "read" ELSE "select")
  /\ UNCHANGED <<status, roster, ticket, active, outcome, ctx, socket, fwd,
                 held>>

(* select: a message.  Only a push for this call's own ticket counts. *)
TakeMessage(w) ==
  /\ pc[w] = "select"
  /\ chan[w] # <<>>
  /\ chan' = [chan EXCEPT ![w] = Tail(@)]
  /\ Goto(w, IF Head(chan[w]) = ticket[w] THEN "read" ELSE "select")
  /\ UNCHANGED <<status, roster, ticket, active, outcome, ctx, socket, fwd,
                 held>>

(* The ticket is read for the complete result ...                          *)
ReadSettled(w) ==
  /\ pc[w] = "read"
  /\ status[ticket[w]] \in Settled
  /\ Return(w, status[ticket[w]])
  /\ UNCHANGED <<status, ctx, relay>>

(* ... and when that fails, or does not show the match yet, the push is    *)
(* the result.                                                             *)
ReadUnsettled(w) ==
  /\ pc[w] = "read"
  /\ Return(w, "matched")
  /\ UNCHANGED <<status, ctx, relay>>

(* select: the ticker; GetTicket fails or shows a ticket still queued ...  *)
StartPoll(w) ==
  /\ pc[w] = "select"
  /\ Goto(w, "poll")
  /\ UNCHANGED <<status, roster, ticket, active, outcome, ctx, socket, relay>>

PollAgain(w) ==
  /\ pc[w] = "poll"
  /\ Goto(w, "select")
  /\ UNCHANGED <<status, roster, ticket, active, outcome, ctx, socket, relay>>

PollSettled_MatchedOnly(w) ==
  /\ pc[w] = "poll"
  /\ status[ticket[w]] = "matched"
  /\ Return(w, status[ticket[w]])
  /\ UNCHANGED <<status, ctx, relay>>

(* ... or a ticket that has settled. *)
PollSettled(w) ==
  /\ pc[w] = "poll"
  /\ status[ticket[w]] \in Settled
  /\ Return(w, status[ticket[w]])
  /\ UNCHANGED <<status, ctx, relay>>

-----------------------------------------------------------------------------
(* ConnectP2P, once matched: it refuses a match of the wrong mode, fetches *)
(* relay credentials as best it can, and joins the match's game session,   *)
(* if the match has one.                                                   *)
Connected(w, how) ==
  /\ Goto(w, "done")
  /\ outcome' = [outcome EXCEPT ![w] = how]
  /\ UNCHANGED <<status, ticket, active, ctx, socket, relay>>

RefuseFleet(w) ==
  /\ pc[w] = "connect"
  /\ Connected(w, "wrongMode")
  /\ UNCHANGED roster

FetchRelay(w) ==
  /\ pc[w] = "connect"
  /\ Goto(w, "join")
  /\ UNCHANGED <<status, roster, ticket, active, outcome, ctx, socket, relay>>

NothingToJoin(w) ==
  /\ pc[w] = "join"
  /\ Connected(w, "peers")
  /\ UNCHANGED roster

JoinSession(w) ==
  /\ pc[w] = "join"
  /\ roster' = roster \cup {ticket[w]}
  /\ Connected(w, "joined")

(* The result of the match is dropped; the join may have been carried out. *)
JoinFailed(w) ==
  /\ pc[w] = "join"
  /\ roster' \in {roster, roster \cup {ticket[w]}}
  /\ Connected(w, "joinError")

-----------------------------------------------------------------------------
(* readMatchMessages, in a goroutine of its own. *)

(* What the server pushed before the socket went down can still be read,   *)
(* unless it was the call that closed it.                                  *)
ForwardRead(w, m) ==
  /\ fwd[w] = "read"
  /\ m \in pushes[w] \cup {Other}
  /\ conn[w] = "open" \/ m # Other
  /\ pushes' = [pushes EXCEPT ![w] = @ \ {m}]
  /\ fwd' = [fwd EXCEPT ![w] = "send"]
  /\ held' = [held EXCEPT ![w] = m]
  /\ UNCHANGED <<status, roster, call, ctx, conn, chan>>

(* ReadMessage reconnects: the server does not replay what was pushed      *)
(* meanwhile, and closes the player's older socket once more.              *)
Reconnect(w) ==
  /\ fwd[w] = "read"
  /\ conn[w] = "down" /\ pc[w] # "done" /\ ~ctx[w]
  /\ conn' = Opened(w)
  /\ pushes' = [pushes EXCEPT ![w] = {}]
  /\ UNCHANGED <<status, roster, call, ctx, relay>>

(* ReadMessage returns an error: the socket is down, and cannot be opened  *)
(* again, or the context is over.                                          *)
ForwardReadFails(w) ==
  /\ fwd[w] = "read"
  /\ conn[w] = "down" \/ ctx[w]
  /\ fwd' = [fwd EXCEPT ![w] = "ended"]
  /\ UNCHANGED <<status, roster, call, ctx, socket, held, chan>>

ForwardSend_Unbounded(w) ==
  /\ fwd[w] = "send"
  /\ chan' = [chan EXCEPT ![w] = Append(@, held[w])]
  /\ held' = [held EXCEPT ![w] = Nil]
  /\ fwd' = [fwd EXCEPT ![w] = "read"]
  /\ UNCHANGED <<status, roster, call, ctx, socket>>

ForwardSend(w) ==
  /\ fwd[w] = "send"
  /\ Len(chan[w]) < Buffer
  /\ chan' = [chan EXCEPT ![w] = Append(@, held[w])]
  /\ held' = [held EXCEPT ![w] = Nil]
  /\ fwd' = [fwd EXCEPT ![w] = "read"]
  /\ UNCHANGED <<status, roster, call, ctx, socket>>

ForwardSendCancelled_BlindSend(w) == FALSE /\ UNCHANGED vars

ForwardSendCancelled(w) ==
  /\ fwd[w] = "send"
  /\ ctx[w]
  /\ held' = [held EXCEPT ![w] = Nil]
  /\ fwd' = [fwd EXCEPT ![w] = "ended"]
  /\ UNCHANGED <<status, roster, call, ctx, socket, chan>>

-----------------------------------------------------------------------------
(* The server and the game. *)

(* A match is pushed to the player's open socket, if there is one. *)
Match(t) ==
  /\ t \in Queued
  /\ status' = [status EXCEPT ![t] = "matched"]
  /\ pushes' = [w \in Waiter |-> IF conn[w] = "open" THEN pushes[w] \cup {t}
                                 ELSE pushes[w]]
  /\ UNCHANGED <<roster, call, ctx, conn, relay>>

Fail(t) ==
  /\ t \in Queued
  /\ status' = [status EXCEPT ![t] = "failed"]
  /\ UNCHANGED <<roster, call, ctx, socket, relay>>

Drop(w) ==
  /\ conn[w] = "open"
  /\ conn' = [conn EXCEPT ![w] = "down"]
  /\ UNCHANGED <<status, roster, call, ctx, pushes, relay>>

Cancel(w) ==
  /\ w \in Cancels
  /\ ~ctx[w]
  /\ ctx' = [ctx EXCEPT ![w] = TRUE]
  /\ UNCHANGED <<status, roster, call, socket, relay>>

-----------------------------------------------------------------------------
Create(w) ==
  \/ CreateFailed(w)
  \/ \E t \in Ticket : CreateQueued(w, t) \/ CreateSettled(w, t)
                         \/ CreateConflict(w, t)
  \/ CancelActive(w) \/ CancelActiveFailed(w)

Select(w) ==
  \/ SeeCancelled(w) \/ CancelBestEffort(w) \/ CancelBestEffortFailed(w)
  \/ ReadSettled(w) \/ ReadUnsettled(w)

Connect(w) ==
  \/ RefuseFleet(w) \/ FetchRelay(w) \/ NothingToJoin(w)
  \/ JoinSession(w) \/ JoinFailed(w)

Forward(w) ==
  \/ ForwardReadFails(w) \/ ForwardSend(w) \/ ForwardSendCancelled(w)

Next ==
  \/ \E w \in Waiter :
       \/ Dial(w) \/ Create(w) \/ Select(w) \/ TakeMessage(w)
       \/ StartPoll(w) \/ PollAgain(w) \/ PollSettled(w) \/ Connect(w)
       \/ Forward(w) \/ \E m \in Message : ForwardRead(w, m)
       \/ Reconnect(w) \/ Drop(w) \/ Cancel(w)
  \/ \E t \in Ticket : Match(t) \/ Fail(t)

Spec == Init /\ [][Next]_vars

(* Go's select picks a ready case at random, so a case that stays ready is *)
(* taken; of infinitely many polls one is answered; goroutines run, on the *)
(* devices that do.                                                        *)
Fairness ==
  \A w \in Running :
    /\ WF_vars(Create(w)) /\ SF_vars(Select(w)) /\ SF_vars(TakeMessage(w))
    /\ SF_vars(StartPoll(w)) /\ WF_vars(PollAgain(w)) /\ SF_vars(PollSettled(w))
    /\ WF_vars(Connect(w)) /\ WF_vars(Forward(w))

FairSpec == Spec /\ Fairness

-----------------------------------------------------------------------------
(* Properties.                                                             *)

TypeOK ==
  /\ status \in [Ticket -> Settled \cup {"none", "queued"}]
  /\ roster \subseteq Ticket
  /\ pc \in [Waiter -> {"idle", "create", "cancelActive", "recreate",
                        "select", "abort", "read", "poll", "connect", "join",
                        "done"}]
  /\ ticket \in [Waiter -> Ticket \cup {Nil}]
  /\ active \in [Waiter -> Ticket \cup {Nil}]
  /\ outcome \in [Waiter -> Settled \cup AfterMatch \cup
                             {"none", "error", "context", "contextOnly"}]
  /\ ctx \in [Waiter -> BOOLEAN]
  /\ conn \in [Waiter -> {"none", "open", "down"}]
  /\ pushes \in [Waiter -> SUBSET Ticket]
  /\ fwd \in [Waiter -> {"off", "read", "send", "ended"}]
  /\ held \in [Waiter -> Message \cup {Nil}]
  /\ \A w \in Waiter : chan[w] \in Seq(Message) /\ Len(chan[w]) <= Buffer
  /\ \A w \in Waiter : pc[w] \in {"select", "abort", "read", "poll"} =>
       ticket[w] # Nil /\ status[ticket[w]] # "none"

(* What WaitForMatch returns is true of its own ticket, whichever of the   *)
(* player's matches is pushed to its socket, and in whatever order push    *)
(* and poll find out; and a player told by ConnectP2P that it joined is in *)
(* the session of that very match.                                         *)
OutcomeIsTrue ==
  \A w \in Waiter :
    /\ outcome[w] \in Settled => status[ticket[w]] = outcome[w]
    /\ outcome[w] \in AfterMatch => status[ticket[w]] = "matched"
    /\ outcome[w] = "joined" => ticket[w] \in roster

(* A call that gave up and could tell the server leaves no ticket behind   *)
(* that could still be matched without it.                                 *)
GivingUpLeavesQueue ==
  \A w \in Waiter :
    outcome[w] = "context" => status[ticket[w]] # "queued"

(* How a call that ended so speaks of its ticket.                          *)
ToldAs(how) == IF how \in AfterMatch THEN "matched"
               ELSE IF how = "context" THEN "withdrawn"
               ELSE IF how \in {"error", "contextOnly"} THEN "unknown"
               ELSE how

Wait == INSTANCE TicketWait
          WITH own <- ticket, answer <- [w \in Waiter |-> ToldAs(outcome[w])]

(* WaitForMatch and ConnectP2P on several devices of a player, their       *)
(* forwarders, pushes and polls implement TicketWait: every call waits for *)
(* one ticket of its own, ends once, with what became of that ticket, or   *)
(* with the ticket out of the queue, or leaving it open.                   *)
ImplementsWait == Wait!WaitSpec

(* A ticket that settles ends its call, though the push may be lost with   *)
(* its socket, be drowned in other messages or never be sent.              *)
SettledEndsWait ==
  \A w \in Running :
    pc[w] = "select" /\ status[ticket[w]] \in Settled ~> pc[w] = "done"

(* A cancelled context ends the forwarder, also when nobody reads the      *)
(* channel any more.                                                       *)
CancelEndsForwarder ==
  \A w \in Running :
    ctx[w] /\ fwd[w] \in {"read", "send"} ~> fwd[w] = "ended"

(* "forwards realtime messages to out until the connection drops or ctx is *)
(* cancelled, then closes out" (readMatchMessages): a socket that is down  *)
(* and stays down ends the forwarder.                                      *)
DropEndsForwarder ==
  \A w \in Running :
    conn[w] = "down" /\ fwd[w] \in {"read", "send"} ~>
      fwd[w] = "ended" \/ conn[w] = "open"
=============================================================================
