----------------------------- MODULE PartyWatch -----------------------------
(***************************************************************************)
(* Parties.Watch on one party: one goroutine that selects over realtime    *)
(* hints and a heartbeat, reads the party and the caller's ticket, and     *)
(* reports to fn; Watch on no party, which reports invites only; and       *)
(* Parties.WaitForMatch, which is Watch with a callback of its own.  The   *)
(* party changes on the server meanwhile, between any two requests; hints  *)
(* wait on the wire, in order, and can be lost.                            *)
(***************************************************************************)
EXTENDS Naturals, Sequences

CONSTANTS
  Modes,        \* the calls to start from, of those below
  MaxVersion,   \* bound on the versions of the party
  MaxTicket,    \* bound on the caller's tickets; ticket t settles as match t
  MaxWire       \* bound on the messages on the wire

(* Watch on a party, WaitForMatch, and Watch with partyID 0. *)
ASSUME ModesAssumption == Modes \subseteq {"watch", "wait", "invites"}
ASSUME BoundsAssumption ==
  MaxVersion \in Nat \ {0} /\ MaxTicket \in Nat /\ MaxWire \in Nat

VARIABLES
  party,       \* server: the party as a request would return it
  member,      \* server: the caller is a member
  ticket,      \* server: status of each ticket
  wire,        \* messages sent and not yet handled
  online,      \* the realtime socket: "none", "open" or "down"
  mode,        \* the call: it says which callback fn is
  pc,          \* where Watch stands
  version,     \* partyWatch.version
  lastMatch,   \* partyWatch.lastMatch
  snap,        \* the party last read
  hint,        \* the match a push announced
  queued,      \* WaitForMatch's queuedTicket
  matches,     \* the matches reported, in order
  outcome      \* how the call returned, "none" before

server == <<party, member, ticket>>
watch  == <<mode, pc, version, lastMatch, snap, hint, queued, matches,
            outcome>>
vars   == <<server, wire, online, watch>>

Tickets == 1..MaxTicket

NoParty == [version |-> 0, state |-> "idle", match |-> 0, mine |-> 0]

Init ==
  /\ party = [NoParty EXCEPT !.version = 1]
  /\ member = TRUE
  /\ ticket = [t \in Tickets |-> "none"]
  /\ wire = <<>>
  /\ online = "none"
  /\ mode \in Modes
  /\ pc = "dial"
  /\ version = 0
  /\ lastMatch = 0
  /\ snap = NoParty
  /\ hint = 0
  /\ queued = 0
  /\ matches = <<>>
  /\ outcome = "none"

-----------------------------------------------------------------------------
(* The server.  Each change makes a version and may send hints.            *)

Changed(v) == [type |-> "party_changed", of |-> v]
Matched(t) == [type |-> "matchmaker_matched", of |-> t]
Invited == [type |-> "party_invite", of |-> 0]

(* Some of the hints make it to the socket, in order. *)
Send(hints) ==
  wire' \in {wire \o h : h \in
    {<<>>} \cup (IF online = "open" /\ Len(wire) + Len(hints) <= MaxWire
                 THEN {hints} ELSE {})}

Change(p) ==
  /\ member
  /\ party.version < MaxVersion
  /\ party' = [p EXCEPT !.version = party.version + 1]
  /\ UNCHANGED <<member, online, watch>>

Edit ==
  /\ Change(party)
  /\ Send(<<Changed(party.version + 1)>>)
  /\ UNCHANGED ticket

(* Queue, or Rematch after a match: the member gets a new ticket. *)
Queue(t) ==
  /\ party.state # "queued"
  /\ ticket[t] = "none"
  /\ \A u \in Tickets : u < t => ticket[u] # "none"
  /\ Change([party EXCEPT !.state = "queued", !.mine = t])
  /\ ticket' = [ticket EXCEPT ![t] = "queued"]
  /\ Send(<<Changed(party.version + 1)>>)

FormMatch ==
  /\ party.state = "queued"
  /\ Change([party EXCEPT !.state = "matched", !.match = party.mine])
  /\ ticket' = [ticket EXCEPT ![party.mine] = "matched"]
  /\ Send(<<Matched(party.mine)>>)

EndQueue ==
  /\ party.state = "queued"
  /\ Change([party EXCEPT !.state = "idle"])
  /\ \E how \in {"failed", "cancelled"} :
       ticket' = [ticket EXCEPT ![party.mine] = how]
  /\ Send(<<Changed(party.version + 1)>>)

(* The caller is kicked, or the party disbanded. *)
Remove ==
  /\ member
  /\ member' = FALSE
  /\ UNCHANGED <<party, ticket, wire, online, watch>>

(* A friend invites the caller, to this party or another. *)
Invite ==
  /\ Send(<<Invited>>)
  /\ UNCHANGED <<server, online, watch>>

(* The socket breaks, with what is on its way; ReadMessage may reconnect,  *)
(* and nothing is replayed.                                                *)
Disconnect ==
  /\ online = "open"
  /\ online' = "down"
  /\ wire' \in {SubSeq(wire, 1, n) : n \in 0..Len(wire)}
  /\ UNCHANGED <<server, watch>>

Reconnect ==
  /\ online = "down"
  /\ online' = "open"
  /\ pc # "done"
  /\ UNCHANGED <<server, wire, watch>>

-----------------------------------------------------------------------------
(* Watch.                                                                  *)

Goto(label) == pc' = label

Step(from, to) == pc = from /\ Goto(to)

locals == <<mode, version, lastMatch, snap, hint, queued, matches, outcome>>

Return(how) ==
  /\ Goto("done")
  /\ outcome' = how

(* fn has returned: an error of the game's callback ends the watch. *)
GoOn(label) ==
  \/ Goto(label) /\ UNCHANGED outcome
  \/ mode # "wait" /\ Return("callback")

InvitesOnly == mode = "invites"

Dial ==
  /\ Step("dial", IF InvitesOnly THEN "select" ELSE "refresh")
  /\ online' = "open"
  /\ UNCHANGED <<server, wire, locals>>

(* With a party a failed dial is logged: the heartbeat keeps it current. *)
DialFails ==
  /\ pc = "dial"
  /\ IF InvitesOnly THEN Return("dialError")
                    ELSE Goto("refresh") /\ UNCHANGED outcome
  /\ UNCHANGED <<server, wire, online, mode, version, lastMatch, snap, hint,
                 queued, matches>>

Tick ==
  /\ ~InvitesOnly
  /\ Step("select", "heartbeat")
  /\ UNCHANGED <<server, wire, online, locals>>

TakeHint ==
  /\ pc = "select"
  /\ wire # <<>>
  /\ wire' = Tail(wire)
  /\ hint' = Head(wire).of

TakeInvite ==
  /\ TakeHint
  /\ Head(wire) = Invited
  /\ GoOn("select")
  /\ UNCHANGED <<server, online, mode, version, lastMatch, snap, queued,
                 matches>>

(* party_changed of a version already reported is dropped. *)
TakeChanged ==
  /\ TakeHint
  /\ Head(wire).type = "party_changed"
  /\ Goto(IF ~InvitesOnly /\ Head(wire).of > version THEN "refresh"
                                                    ELSE "select")
  /\ UNCHANGED <<server, online, mode, version, lastMatch, snap, queued,
                 matches, outcome>>

TakeMatched_Unfiltered ==
  /\ TakeHint
  /\ Head(wire).type = "matchmaker_matched"
  /\ Goto(IF InvitesOnly THEN "select" ELSE "pushed")
  /\ UNCHANGED <<server, online, mode, version, lastMatch, snap, queued,
                 matches, outcome>>

(* So is a push of the match last reported. *)
TakeMatched ==
  /\ TakeHint
  /\ Head(wire).type = "matchmaker_matched"
  /\ Goto(IF InvitesOnly \/ Head(wire).of = lastMatch THEN "select"
                                                      ELSE "pushed")
  /\ UNCHANGED <<server, online, mode, version, lastMatch, snap, queued,
                 matches, outcome>>

(* refresh and heartbeat read the party ...                                *)
ReadParty ==
  /\ pc \in {"refresh", "heartbeat"}
  /\ member
  /\ snap' = party
  /\ Goto("update")
  /\ UNCHANGED <<server, wire, online, mode, version, lastMatch, hint,
                 queued, matches, outcome>>

HeartbeatStale_Ignored ==
  /\ Step("heartbeat", "select")
  /\ member
  /\ party.version # version
  /\ UNCHANGED <<server, wire, online, locals>>

(* ... a heartbeat with a stale version reads it again ...                 *)
HeartbeatStale ==
  /\ Step("heartbeat", "refresh")
  /\ member
  /\ party.version # version
  /\ UNCHANGED <<server, wire, online, locals>>

(* ... any other failure is left to the next heartbeat ...                 *)
ReadFails ==
  /\ pc \in {"refresh", "heartbeat"}
  /\ Goto("select")
  /\ UNCHANGED <<server, wire, online, locals>>

ReadRemoved_Transient ==
  /\ pc \in {"refresh", "heartbeat"}
  /\ ~member
  /\ Goto("select")
  /\ UNCHANGED <<server, wire, online, locals>>

(* ... and 404 means the caller is no member any more.                     *)
ReadRemoved ==
  /\ pc \in {"refresh", "heartbeat"}
  /\ ~member
  /\ Return("removed")
  /\ UNCHANGED <<server, wire, online, mode, version, lastMatch, snap, hint,
                 queued, matches>>

(* WaitForMatch's callback on a party: it remembers the ticket of the      *)
(* queue entry, and looks it up when the entry is gone without a match.    *)
Remember ==
  IF mode = "wait" /\ snap.state = "queued" THEN snap.mine ELSE queued

LooksUp_NoTicket == mode = "wait" /\ snap.state = "idle"

LooksUp == mode = "wait" /\ snap.state = "idle" /\ queued # 0

(* update reports a newer party ... *)
Report ==
  /\ pc = "update"
  /\ snap.version > version
  /\ version' = snap.version
  /\ queued' = Remember
  /\ IF LooksUp THEN Goto("lookup") /\ UNCHANGED outcome
                ELSE GoOn("checkMatch")
  /\ UNCHANGED <<server, wire, online, mode, lastMatch, snap, hint, matches>>

ReportNothing ==
  /\ Step("update", "checkMatch")
  /\ snap.version <= version
  /\ UNCHANGED <<server, wire, online, locals>>

(* The callback's GetTicket.  The entry is forgotten, whatever it returns. *)
LookupSettled ==
  /\ pc = "lookup"
  /\ ticket[queued] \in {"failed", "cancelled"}
  /\ queued' = 0
  /\ Return(ticket[queued])
  /\ UNCHANGED <<server, wire, online, mode, version, lastMatch, snap, hint,
                 matches>>

LookupFails ==
  /\ Step("lookup", "checkMatch")
  /\ queued' = 0
  /\ UNCHANGED <<server, wire, online, mode, version, lastMatch, snap, hint,
                 matches, outcome>>

(* ... then looks for a match not reported yet ... *)
NewMatch ==
  /\ snap.state = "matched"
  /\ snap.match \notin {0, lastMatch}
  /\ snap.mine # 0

CheckMatch ==
  /\ Step("checkMatch", IF NewMatch THEN "ticket" ELSE "select")
  /\ UNCHANGED <<server, wire, online, locals>>

(* fn is called with a match; WaitForMatch returns it. *)
ReportMatch(t) ==
  /\ lastMatch' = t
  /\ matches' = Append(matches, t)
  /\ IF mode = "wait" THEN Return("matched") ELSE GoOn("select")
  /\ UNCHANGED <<server, wire, online, mode, version, snap, hint, queued>>

(* ... and reports it from the caller's ticket, if that shows it. *)
TicketShowsMatch ==
  /\ pc = "ticket"
  /\ ticket[snap.mine] = "matched"
  /\ snap.mine = snap.match
  /\ ReportMatch(snap.match)

TicketFails_Forgets ==
  /\ Step("ticket", "select")
  /\ lastMatch' = snap.match
  /\ UNCHANGED <<server, wire, online, mode, version, snap, hint, queued,
                 matches, outcome>>

TicketFails ==
  /\ Step("ticket", "select")
  /\ UNCHANGED <<server, wire, online, locals>>

(* The pushed match is reported, from the ticket or else from the push. *)
ReportPushed ==
  /\ pc = "pushed"
  /\ ReportMatch(hint)

(* ctx ends. *)
Stop ==
  /\ pc = "select"
  /\ Return("context")
  /\ UNCHANGED <<server, wire, online, mode, version, lastMatch, snap, hint,
                 queued, matches>>

-----------------------------------------------------------------------------
ServerStep ==
  \/ Edit \/ FormMatch \/ EndQueue \/ Remove \/ Disconnect
  \/ Reconnect \/ Invite
  \/ \E t \in Tickets : Queue(t)

WatchStep ==
  \/ Dial \/ DialFails \/ ReadRemoved \/ HeartbeatStale
  \/ Report \/ ReportNothing \/ CheckMatch \/ ReportPushed

Read == ReadParty \/ TicketShowsMatch \/ LookupSettled

Fails == ReadFails \/ TicketFails \/ LookupFails

Next ==
  \/ ServerStep
  \/ WatchStep \/ Read \/ Fails
  \/ Tick \/ TakeInvite \/ TakeChanged \/ TakeMatched
  \/ Stop

Spec == Init /\ [][Next]_vars

(* The ticker fires and select takes it in the end; every request returns; *)
(* of infinitely many heartbeats, party reads and ticket reads some        *)
(* succeed.  The callback's lookup has no second chance, so none is asked  *)
(* of the network either.                                                  *)
Answered == ReadParty \/ HeartbeatStale \/ ReadRemoved

Fairness ==
  /\ WF_vars(WatchStep)
  /\ WF_vars(Read \/ Fails)
  /\ SF_vars(Tick)
  /\ SF_vars(pc = "refresh" /\ Answered)
  /\ SF_vars(pc = "heartbeat" /\ Answered)
  /\ SF_vars(TicketShowsMatch)

FairSpec == Spec /\ Fairness

-----------------------------------------------------------------------------
(* Properties.                                                             *)

Labels == {"dial", "refresh", "heartbeat", "select", "update", "lookup",
           "checkMatch", "ticket", "pushed", "done"}

(* Types.  Every ticket looked up has been issued. *)
TypeOK ==
  /\ party.version \in 1..MaxVersion
  /\ party.state \in {"idle", "queued", "matched"}
  /\ party.match \in 0..MaxTicket /\ party.mine \in 0..MaxTicket
  /\ member \in BOOLEAN
  /\ ticket \in [Tickets -> {"none", "queued", "matched", "failed",
                             "cancelled"}]
  /\ Len(wire) <= MaxWire
  /\ online \in {"none", "open", "down"}
  /\ mode \in Modes
  /\ pc \in Labels
  /\ version \in 0..MaxVersion
  /\ lastMatch \in 0..MaxTicket
  /\ snap.version \in 0..MaxVersion
  /\ pc = "lookup" => queued \in Tickets /\ ticket[queued] # "none"
  /\ pc = "ticket" => snap.mine \in Tickets /\ ticket[snap.mine] # "none"
  /\ outcome \in {"none", "context", "removed", "matched", "failed",
                  "cancelled", "dialError", "callback"}

(* A match is not reported twice in a row, though the push and the         *)
(* heartbeat both bring it.                                                *)
NoMatchTwiceRunning ==
  \A i \in 1..(Len(matches) - 1) : matches[i] # matches[i + 1]

(* What the watch tells the game is true, by whatever way and however late *)
(* it learns it: a match it reports has been made, and not the one before; *)
(* the party it reports has been so, which the server never takes back;    *)
(* who is told of its removal is out, and who is told that its entry has   *)
(* failed or was cancelled had an entry that did.                          *)
ReportsAreTrue ==
  /\ NoMatchTwiceRunning
  /\ \A i \in 1..Len(matches) :
       matches[i] \in Tickets /\ ticket[matches[i]] = "matched"
  /\ version <= party.version
  /\ outcome = "removed" => ~member
  /\ outcome \in {"failed", "cancelled"} =>
       \E t \in Tickets : ticket[t] = outcome

(* Watch has a party and has not returned. *)
Watching == ~InvitesOnly /\ pc # "done"

(* "Events are a hint: when one is lost, the next heartbeat catches up"    *)
(* (Watch): the latest version is reported, unless the watch ends first or *)
(* the party changes again.                                                *)
CatchesUp ==
  \A v \in 1..MaxVersion :
    party.version = v /\ member /\ Watching ~>
      version = v \/ party.version # v \/ ~member \/ ~Watching

(* A match the party stays in is reported though its push is lost.         *)
MatchArrives ==
  \A t \in Tickets :
    party.match = t /\ party.state = "matched" /\ member /\ Watching ~>
      \/ \E i \in 1..Len(matches) : matches[i] = t
      \/ party.state # "matched" \/ party.match # t \/ ~member \/ ~Watching

(* A removed member learns it: the watch ends. *)
RemovalEnds == ~member ~> ~Watching

(* "When the queue entry fails or is cancelled, it returns                 *)
(* *MatchFailedError or ErrMatchCancelled" (WaitForMatch): an entry it has *)
(* seen in the queue and that ended does not leave it waiting in an idle   *)
(* party.                                                                  *)
FailureReturned ==
  \A t \in Tickets :
    queued = t /\ ticket[t] \in {"failed", "cancelled"} ~>
      pc = "done" \/ party.state # "idle" \/ ~member
=============================================================================
