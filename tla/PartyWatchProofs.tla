--------------------------- MODULE PartyWatchProofs ---------------------------
(***************************************************************************)
(* Proofs about PartyWatch, for any number of versions, tickets and        *)
(* messages on the wire.                                                   *)
(***************************************************************************)
EXTENDS PartyWatch, SequenceTheorems, TLAPS

Hint == [type : {"party_changed"}, of : Nat]
          \cup [type : {"matchmaker_matched", "party_invite"},
                of : 0..MaxTicket]

Party == [version : 0..MaxVersion, state : {"idle", "queued", "matched"},
          match : 0..MaxTicket, mine : 0..MaxTicket]

Issued(t) == t \in 1..MaxTicket => ticket[t] # "none"

(* What the server holds; a ticket that the party, a copy of the party or  *)
(* the callback names has been issued.                                     *)
ServerInv ==
  /\ party \in Party /\ party.version # 0
  /\ party.state = "queued" => party.mine # 0
  /\ member \in BOOLEAN
  /\ ticket \in [1..MaxTicket -> {"none", "queued", "matched", "failed",
                                  "cancelled"}]
  /\ online \in {"none", "open", "down"}
  /\ Issued(party.mine)

WireInv == wire \in Seq(Hint) /\ Len(wire) <= MaxWire

WatchInv ==
  /\ mode \in Modes
  /\ pc \in Labels
  /\ version \in 0..MaxVersion
  /\ snap \in Party /\ Issued(snap.mine)
  /\ snap.state = "queued" => snap.mine # 0
  /\ queued \in 0..MaxTicket /\ Issued(queued)
  /\ pc = "lookup" => queued # 0
  /\ pc = "ticket" => snap.mine # 0
  /\ outcome \in {"none", "context", "removed", "matched", "failed",
                  "cancelled", "dialError", "callback"}

(* The match last reported is the one both ways of reporting compare with, *)
(* and no step between the comparison and the report changes it.           *)
MatchInv ==
  /\ hint \in Nat
  /\ lastMatch \in 0..MaxTicket
  /\ matches \in Seq(Nat)
  /\ \A i \in 1..Len(matches) : i = Len(matches) => matches[i] = lastMatch
  /\ pc = "pushed" => hint # lastMatch /\ hint \in 0..MaxTicket
  /\ pc = "ticket" => snap.match # lastMatch
  /\ NoMatchTwiceRunning

Inv == ServerInv /\ WireInv /\ WatchInv /\ MatchInv

(* The invariant holds before the watch dials.                             *)
LEMMA InitInv == Init => Inv
<1> SUFFICES ASSUME Init
             PROVE  Inv
  OBVIOUS
<1>1. <<>> \in Seq(Hint) /\ <<>> \in Seq(Nat) /\ Len(<<>>) = 0
  BY EmptySeq
<1>2. MaxVersion \in Nat \ {0} /\ MaxTicket \in Nat /\ MaxWire \in Nat
  BY BoundsAssumption
<1>3. WireInv /\ MatchInv
  BY <1>1, <1>2 DEF Init, WireInv, MatchInv, NoMatchTwiceRunning
<1>4. NoParty \in Party /\ NoParty.mine = 0 /\ NoParty.state = "idle"
  BY <1>2 DEF NoParty, Party
<1>5. party \in Party /\ party.mine = 0 /\ party.version = 1
      /\ party.state = "idle"
  <2>1. party = [version |-> 1, state |-> "idle", match |-> 0, mine |-> 0]
    BY DEF Init, NoParty
  <2>2. 0 \in 0..MaxTicket /\ 1 \in 0..MaxVersion
    BY <1>2
  <2> QED
    BY <2>1, <2>2 DEF Party
<1>6. ServerInv
  BY <1>2, <1>5 DEF Init, ServerInv, Issued, Tickets
<1>7. WatchInv
  BY <1>2, <1>4 DEF Init, WatchInv, Issued, Labels
<1> QED
  BY <1>3, <1>6, <1>7 DEF Inv

(* A match other than the last one can be appended.                        *)
LEMMA AppendMatch ==
  ASSUME NEW s \in Seq(Nat), NEW last, NEW t \in Nat, t # last,
         \A i \in 1..Len(s) : i = Len(s) => s[i] = last,
         \A i \in 1..(Len(s) - 1) : s[i] # s[i + 1]
  PROVE  /\ Append(s, t) \in Seq(Nat)
         /\ \A i \in 1..Len(Append(s, t)) :
              i = Len(Append(s, t)) => Append(s, t)[i] = t
         /\ \A i \in 1..(Len(Append(s, t)) - 1) :
              Append(s, t)[i] # Append(s, t)[i + 1]
<1>1. Len(s) \in Nat
  BY LenProperties
<1>2. /\ Append(s, t) \in Seq(Nat) /\ Len(Append(s, t)) = Len(s) + 1
      /\ Append(s, t)[Len(s) + 1] = t
      /\ \A i \in 1..Len(s) : Append(s, t)[i] = s[i]
  BY AppendProperties
<1>3. ASSUME NEW i \in 1..(Len(Append(s, t)) - 1)
      PROVE  Append(s, t)[i] # Append(s, t)[i + 1]
  <2>1. i \in 1..Len(s)
    BY <1>1, <1>2
  <2>2. CASE i = Len(s)
    BY <1>1, <1>2, <2>1, <2>2
  <2>3. CASE i # Len(s)
    BY <1>1, <1>2, <2>1, <2>3
  <2> QED
    BY <2>2, <2>3
<1> QED
  BY <1>1, <1>2, <1>3

(* A hint that is sent, or lost, leaves the wire within its bound.         *)
LEMMA WireSends ==
  ASSUME WireInv, NEW h \in Hint, Send(<<h>>)
  PROVE  WireInv'
<1>1. /\ <<>> \in Seq(Hint) /\ <<h>> \in Seq(Hint) /\ Len(<<h>>) = 1
      /\ wire \in Seq(Hint) /\ Len(wire) \in Nat /\ Len(<<>>) = 0
      /\ Len(wire) <= MaxWire
  BY LenProperties, EmptySeq DEF WireInv
<1>2. /\ wire \o <<>> = wire
      /\ wire \o <<h>> \in Seq(Hint) /\ Len(wire \o <<h>>) = Len(wire) + 1
  BY <1>1, ConcatProperties, ConcatEmptySeq
<1> QED
  BY <1>1, <1>2, BoundsAssumption DEF WireInv, Send

(* Taking a message leaves a shorter wire.                                 *)
LEMMA WireTaken ==
  ASSUME WireInv, wire # <<>>
  PROVE  Head(wire) \in Hint /\ Tail(wire) \in Seq(Hint)
         /\ Len(Tail(wire)) <= MaxWire
<1>1. wire \in Seq(Hint) /\ Len(wire) \in Nat /\ Len(wire) <= MaxWire
  BY LenProperties DEF WireInv
<1>2. /\ Head(wire) \in Hint /\ Tail(wire) \in Seq(Hint)
      /\ Len(Tail(wire)) = Len(wire) - 1
  BY <1>1, HeadTailProperties
<1> QED
  BY <1>1, <1>2, BoundsAssumption

(* A socket that breaks keeps a prefix of the messages.                    *)
LEMMA WireBreaks ==
  ASSUME WireInv, NEW n \in 0..Len(wire)
  PROVE  SubSeq(wire, 1, n) \in Seq(Hint) /\ Len(SubSeq(wire, 1, n)) <= MaxWire
<1>1. wire \in Seq(Hint) /\ Len(wire) \in Nat /\ Len(wire) <= MaxWire
  BY LenProperties DEF WireInv
<1>2. SubSeq(wire, 1, n) \in Seq(Hint) /\ Len(SubSeq(wire, 1, n)) = n
  BY <1>1, SubSeqProperties
<1> QED
  BY <1>1, <1>2, BoundsAssumption

(* A change of the party makes its next version, of which a hint can tell. *)
LEMMA Changes ==
  ASSUME Inv, NEW p \in Party, Change(p)
  PROVE  /\ party'.version # 0 /\ party' \in Party
         /\ party'.state = p.state /\ party'.match = p.match
         /\ party'.mine = p.mine
         /\ Changed(party.version + 1) \in Hint
<1>1. MaxVersion \in Nat /\ party.version + 1 \in 0..MaxVersion
      /\ party.version + 1 # 0
  BY BoundsAssumption DEF Inv, ServerInv, Party, Change
<1>2. party' = [p EXCEPT !.version = party.version + 1]
  BY DEF Change
<1> QED
  BY <1>1, <1>2 DEF Party, Changed, Hint

(* Every step of the server keeps the invariant: tickets once issued stay  *)
(* issued, and what the watch holds does not change.                       *)
LEMMA ServerKeeps ==
  ASSUME Inv, ServerStep
  PROVE  Inv'
<1> USE DEF Inv
<1>0. MaxVersion \in Nat /\ MaxTicket \in Nat /\ Tickets = 1..MaxTicket
  BY BoundsAssumption DEF Tickets
<1>1. UNCHANGED watch => MatchInv'
  BY DEF watch, MatchInv, NoMatchTwiceRunning
<1>2. /\ UNCHANGED watch
      /\ \A t \in 1..MaxTicket : ticket[t] # "none" => ticket'[t] # "none"
      => WatchInv'
  BY DEF watch, WatchInv, Issued
<1>3. CASE Edit
  <2>1. party \in Party /\ Change(party) /\ UNCHANGED ticket
    BY <1>3 DEF Edit, ServerInv
  <2>2. ServerInv' /\ UNCHANGED watch
    BY <2>1, Changes DEF ServerInv, Change, Issued
  <2>3. WireInv'
    BY <1>3, <2>1, Changes, WireSends DEF Edit
  <2> QED
    BY <1>1, <1>2, <2>1, <2>2, <2>3
<1>4. ASSUME NEW t \in Tickets, Queue(t)
      PROVE  Inv'
  <2> DEFINE p == [party EXCEPT !.state = "queued", !.mine = t]
  <2>0. Change(p)
    BY <1>4 DEF Queue
  <2>1. p \in Party /\ p.mine = t /\ p.state = "queued" /\ Change(p)
    <3>1. party \in Party /\ t \in 0..MaxTicket
      BY <1>0, <1>4 DEF ServerInv
    <3> DEFINE q == [party EXCEPT !.state = "queued"]
    <3>2. q \in Party /\ q.state = "queued"
      BY ONLY <3>1 DEF Party
    <3>3. p = [q EXCEPT !.mine = t]
      BY ONLY <3>1 DEF Party
    <3> HIDE DEF p, q
    <3>4. p \in Party /\ p.mine = t /\ p.state = q.state
      BY ONLY <3>1, <3>2, <3>3 DEF Party
    <3> QED
      BY <2>0, <3>2, <3>4
  <2>2. ticket' = [ticket EXCEPT ![t] = "queued"]
    BY <1>4 DEF Queue
  <2> HIDE DEF p
  <2>3. ServerInv' /\ UNCHANGED watch
    BY <1>0, <2>1, <2>2, Changes DEF ServerInv, Change, Issued
  <2>4. WireInv'
    BY <1>4, <2>1, Changes, WireSends DEF Queue
  <2>5. \A u \in 1..MaxTicket : ticket[u] # "none" => ticket'[u] # "none"
    BY <1>0, <2>2 DEF ServerInv
  <2> QED
    BY <1>1, <1>2, <2>3, <2>4, <2>5
<1>5. CASE FormMatch
  <2> DEFINE p == [party EXCEPT !.state = "matched", !.match = party.mine]
  <2>1. /\ p \in Party /\ p.mine = party.mine /\ p.state = "matched"
        /\ Change(p) /\ party.mine \in 1..MaxTicket
    <3>1. Change(p) /\ party.state = "queued"
      BY <1>5 DEF FormMatch
    <3>2. party \in Party /\ party.mine \in 1..MaxTicket
      BY <1>0, <3>1 DEF ServerInv, Party
    <3> QED
      BY <1>0, <3>1, <3>2 DEF Party
  <2>2. ticket' = [ticket EXCEPT ![party.mine] = "matched"]
    BY <1>5 DEF FormMatch
  <2> HIDE DEF p
  <2>3. ServerInv' /\ UNCHANGED watch
    BY <1>0, <2>1, <2>2, Changes DEF ServerInv, Change, Issued
  <2>4. Matched(party.mine) \in Hint
    BY <2>1 DEF Matched, Hint
  <2>5. WireInv'
    BY <1>5, <2>4, WireSends DEF FormMatch
  <2>6. \A u \in 1..MaxTicket : ticket[u] # "none" => ticket'[u] # "none"
    BY <1>0, <2>2 DEF ServerInv
  <2> QED
    BY <1>1, <1>2, <2>3, <2>5, <2>6
<1>6. CASE EndQueue
  <2> DEFINE p == [party EXCEPT !.state = "idle"]
  <2>1. /\ p \in Party /\ p.mine = party.mine /\ p.state = "idle"
        /\ Change(p) /\ party.mine \in 1..MaxTicket
    <3>1. Change(p) /\ party.state = "queued"
      BY <1>6 DEF EndQueue
    <3>2. party \in Party /\ party.mine \in 1..MaxTicket
      BY <1>0, <3>1 DEF ServerInv, Party
    <3> QED
      BY <1>0, <3>1, <3>2 DEF Party
  <2>2. PICK how \in {"failed", "cancelled"} :
          ticket' = [ticket EXCEPT ![party.mine] = how]
    BY <1>6 DEF EndQueue
  <2> HIDE DEF p
  <2>3. ServerInv' /\ UNCHANGED watch
    BY <1>0, <2>1, <2>2, Changes DEF ServerInv, Change, Issued
  <2>4. WireInv'
    BY <1>6, <2>1, Changes, WireSends DEF EndQueue
  <2>5. \A u \in 1..MaxTicket : ticket[u] # "none" => ticket'[u] # "none"
    BY <1>0, <2>2 DEF ServerInv
  <2> QED
    BY <1>1, <1>2, <2>3, <2>4, <2>5
<1>7. CASE Remove
  BY <1>1, <1>2, <1>7 DEF Remove, ServerInv, WireInv, Issued
<1>8. CASE Invite
  <2>1. Invited \in Hint
    BY <1>0 DEF Invited, Hint
  <2>2. WireInv'
    BY <1>8, <2>1, WireSends DEF Invite
  <2> QED
    BY <1>1, <1>2, <1>8, <2>2 DEF Invite, server, ServerInv, Issued
<1>9. CASE Disconnect
  <2>1. PICK n \in 0..Len(wire) : wire' = SubSeq(wire, 1, n)
    BY <1>9 DEF Disconnect
  <2>2. WireInv'
    BY <2>1, WireBreaks DEF WireInv
  <2> QED
    BY <1>1, <1>2, <1>9, <2>2 DEF Disconnect, server, ServerInv, Issued
<1>10. CASE Reconnect
  BY <1>1, <1>2, <1>10 DEF Reconnect, server, ServerInv, WireInv, Issued
<1> QED
  BY <1>3, <1>4, <1>5, <1>6, <1>7, <1>8, <1>9, <1>10 DEF ServerStep

(* What the watch reads of the server does not change it.                  *)
LEMMA ServerSame ==
  ASSUME Inv, UNCHANGED <<server, online>>
  PROVE  ServerInv' /\ (\A t : Issued(t) => Issued(t)')
BY DEF Inv, server, ServerInv, Issued

(* A match is reported that is not the one last reported.                  *)
LEMMA Reports ==
  ASSUME Inv, NEW t \in 0..MaxTicket, t # lastMatch, ReportMatch(t)
  PROVE  Inv'
<1>1. /\ lastMatch' = t /\ matches' = Append(matches, t)
      /\ pc' \in {"done", "select"}
      /\ outcome' \in {"matched", "callback", outcome}
      /\ UNCHANGED <<server, wire, mode, version, snap, hint, queued>>
      /\ UNCHANGED online
  BY DEF ReportMatch, Return, Goto, GoOn
<1>2. ServerInv' /\ \A u : Issued(u) => Issued(u)'
  BY <1>1, ServerSame
<1>3. t \in Nat
  BY BoundsAssumption
<1>4. /\ matches \in Seq(Nat)
      /\ \A i \in 1..Len(matches) : i = Len(matches) => matches[i] = lastMatch
      /\ \A i \in 1..(Len(matches) - 1) : matches[i] # matches[i + 1]
  BY DEF Inv, MatchInv, NoMatchTwiceRunning
<1>5. /\ matches' \in Seq(Nat)
      /\ \A i \in 1..Len(matches') : i = Len(matches') => matches'[i] = t
      /\ \A i \in 1..(Len(matches') - 1) : matches'[i] # matches'[i + 1]
  BY ONLY <1>1, <1>3, <1>4, t # lastMatch, AppendMatch
<1>6. MatchInv'
  BY <1>1, <1>5 DEF Inv, MatchInv, NoMatchTwiceRunning
<1>7. WatchInv'
  BY <1>1, <1>2 DEF Inv, WatchInv, Labels
<1> QED
  BY <1>1, <1>2, <1>6, <1>7 DEF Inv, WireInv

(* A step that reports no match keeps what has been reported.              *)
LEMMA NoReport ==
  ASSUME Inv, UNCHANGED <<matches, lastMatch>>, hint' \in Nat,
         pc' = "pushed" => hint' # lastMatch /\ hint' \in 0..MaxTicket,
         pc' = "ticket" => snap'.match # lastMatch
  PROVE  MatchInv'
BY DEF Inv, MatchInv, NoMatchTwiceRunning

(* Taking a message off the wire.                                          *)
LEMMA HintTaken ==
  ASSUME Inv, TakeHint
  PROVE  /\ WireInv' /\ hint' \in Nat /\ pc = "select"
         /\ Head(wire).type = "matchmaker_matched" => hint' \in 0..MaxTicket
<1>1. pc = "select" /\ wire # <<>> /\ wire' = Tail(wire)
      /\ hint' = Head(wire).of
  BY DEF TakeHint
<1>2. Head(wire) \in Hint /\ WireInv'
  BY <1>1, WireTaken DEF Inv, WireInv
<1> QED
  BY <1>1, <1>2, BoundsAssumption DEF Hint

(* Every step of the watch keeps the invariant.                            *)
LEMMA WatchKeeps ==
  ASSUME Inv,
         \/ WatchStep \/ Read \/ Fails \/ Stop
         \/ Tick \/ TakeInvite \/ TakeChanged \/ TakeMatched
  PROVE  Inv'
<1> USE DEF Goto, Step, GoOn, Return
<1>0. /\ hint \in Nat
      /\ pc = "pushed" => hint # lastMatch /\ hint \in 0..MaxTicket
      /\ pc = "ticket" => snap.match # lastMatch
  BY DEF Inv, MatchInv
<1>1. CASE Dial
  <2>1. UNCHANGED <<party, member, ticket, wire, locals>>
        /\ online' = "open" /\ pc' \in {"select", "refresh"}
    BY <1>1 DEF Dial, server
  <2>2. ServerInv' /\ \A t : Issued(t) => Issued(t)'
    BY <2>1 DEF Inv, ServerInv, Issued
  <2> QED
    BY <1>0, <2>1, <2>2, NoReport
    DEF Inv, WireInv, WatchInv, locals, Labels
<1>2. CASE DialFails
  <2>1. ServerInv' /\ (\A t : Issued(t) => Issued(t)') /\ WireInv'
    BY <1>2, ServerSame
    DEF DialFails, Inv, ServerInv, server, WireInv, Issued
  <2>2. WatchInv'
    BY <1>2, <2>1
    DEF DialFails, Inv, WatchInv, locals, Labels
  <2> QED
    BY <1>2, <1>0, <2>1, <2>2, NoReport DEF DialFails, Inv, locals
<1>3. CASE ReadRemoved
  <2>1. ServerInv' /\ (\A t : Issued(t) => Issued(t)') /\ WireInv'
    BY <1>3, ServerSame
    DEF ReadRemoved, Inv, ServerInv, server, WireInv, Issued
  <2>2. WatchInv'
    BY <1>3, <2>1
    DEF ReadRemoved, Inv, WatchInv, locals, Labels
  <2> QED
    BY <1>3, <1>0, <2>1, <2>2, NoReport DEF ReadRemoved, Inv, locals
<1>4. CASE HeartbeatStale
  <2>1. ServerInv' /\ (\A t : Issued(t) => Issued(t)') /\ WireInv'
    BY <1>4, ServerSame
    DEF HeartbeatStale, Inv, ServerInv, server, WireInv, Issued
  <2>2. WatchInv'
    BY <1>4, <2>1
    DEF HeartbeatStale, Inv, WatchInv, locals, Labels
  <2> QED
    BY <1>4, <1>0, <2>1, <2>2, NoReport DEF HeartbeatStale, Inv, locals
<1>5. CASE ReportNothing
  <2>1. ServerInv' /\ (\A t : Issued(t) => Issued(t)') /\ WireInv'
    BY <1>5, ServerSame
    DEF ReportNothing, Inv, ServerInv, server, WireInv, Issued
  <2>2. WatchInv'
    BY <1>5, <2>1
    DEF ReportNothing, Inv, WatchInv, locals, Labels
  <2> QED
    BY <1>5, <1>0, <2>1, <2>2, NoReport DEF ReportNothing, Inv, locals
<1>6. CASE ReadFails
  <2>1. ServerInv' /\ (\A t : Issued(t) => Issued(t)') /\ WireInv'
    BY <1>6, ServerSame
    DEF ReadFails, Inv, ServerInv, server, WireInv, Issued
  <2>2. WatchInv'
    BY <1>6, <2>1
    DEF ReadFails, Inv, WatchInv, locals, Labels
  <2> QED
    BY <1>6, <1>0, <2>1, <2>2, NoReport DEF ReadFails, Inv, locals
<1>7. CASE TicketFails
  <2>1. ServerInv' /\ (\A t : Issued(t) => Issued(t)') /\ WireInv'
    BY <1>7, ServerSame
    DEF TicketFails, Inv, ServerInv, server, WireInv, Issued
  <2>2. WatchInv'
    BY <1>7, <2>1
    DEF TicketFails, Inv, WatchInv, locals, Labels
  <2> QED
    BY <1>7, <1>0, <2>1, <2>2, NoReport DEF TicketFails, Inv, locals
<1>8. CASE LookupFails
  <2>1. ServerInv' /\ (\A t : Issued(t) => Issued(t)') /\ WireInv'
    BY <1>8, ServerSame
    DEF LookupFails, Inv, ServerInv, server, WireInv, Issued
  <2>2. WatchInv'
    BY <1>8, <2>1, BoundsAssumption
    DEF LookupFails, Inv, WatchInv, locals, Labels, Issued
  <2> QED
    BY <1>8, <1>0, <2>1, <2>2, NoReport DEF LookupFails, Inv, locals
<1>9. CASE LookupSettled
  <2>1. ServerInv' /\ (\A t : Issued(t) => Issued(t)') /\ WireInv'
    BY <1>9, ServerSame
    DEF LookupSettled, Inv, ServerInv, server, WireInv, Issued
  <2>2. WatchInv'
    BY <1>9, <2>1, BoundsAssumption
    DEF LookupSettled, Inv, WatchInv, locals, Labels, Issued
  <2> QED
    BY <1>9, <1>0, <2>1, <2>2, NoReport DEF LookupSettled, Inv, locals
<1>10. CASE Tick
  <2>1. ServerInv' /\ (\A t : Issued(t) => Issued(t)') /\ WireInv'
    BY <1>10, ServerSame
    DEF Tick, Inv, ServerInv, server, WireInv, Issued
  <2>2. WatchInv'
    BY <1>10, <2>1
    DEF Tick, Inv, WatchInv, locals, Labels
  <2> QED
    BY <1>10, <1>0, <2>1, <2>2, NoReport DEF Tick, Inv, locals
<1>11. CASE Stop
  <2>1. ServerInv' /\ (\A t : Issued(t) => Issued(t)') /\ WireInv'
    BY <1>11, ServerSame
    DEF Stop, Inv, ServerInv, server, WireInv, Issued
  <2>2. WatchInv'
    BY <1>11, <2>1
    DEF Stop, Inv, WatchInv, locals, Labels
  <2> QED
    BY <1>11, <1>0, <2>1, <2>2, NoReport DEF Stop, Inv, locals
<1>12. CASE Report
  <2>1. /\ pc' \in {"lookup", "checkMatch", "done"}
        /\ pc' = "lookup" => queued' # 0
        /\ queued' \in {queued, snap.mine}
        /\ version' = snap.version /\ outcome' \in {outcome, "callback"}
        /\ UNCHANGED <<server, wire, online, mode, lastMatch, snap, hint,
                       matches>>
    BY <1>12 DEF Report, LooksUp, Remember
  <2>2. ServerInv' /\ (\A t : Issued(t) => Issued(t)') /\ WireInv'
    BY <2>1, ServerSame DEF Inv, ServerInv, server, WireInv, Issued
  <2>3. snap.version \in 0..MaxVersion /\ snap.mine \in 0..MaxTicket
    BY DEF Inv, WatchInv, Party
  <2>4. Issued(queued') /\ queued' \in 0..MaxTicket
    BY <2>1, <2>3 DEF Inv, WatchInv
  <2>5. WatchInv'
    BY <2>1, <2>2, <2>3, <2>4 DEF Inv, WatchInv, Labels
  <2> QED
    BY <1>0, <2>1, <2>2, <2>5, NoReport DEF Inv
<1>13. CASE CheckMatch
  <2>1. ServerInv' /\ (\A t : Issued(t) => Issued(t)') /\ WireInv'
    BY <1>13, ServerSame
    DEF CheckMatch, Inv, ServerInv, server, WireInv, Issued
  <2>2. /\ pc' \in {"ticket", "select"} /\ UNCHANGED locals
        /\ pc' = "ticket" => snap.match # lastMatch /\ snap.mine # 0
    BY <1>13 DEF CheckMatch, NewMatch
  <2>3. WatchInv'
    BY <2>1, <2>2 DEF Inv, WatchInv, locals, Labels
  <2> QED
    BY <1>0, <2>1, <2>2, <2>3, NoReport DEF Inv, locals
<1>14. CASE ReadParty
  <2>1. /\ snap' = party /\ pc' = "update"
        /\ UNCHANGED <<server, wire, online, mode, version, lastMatch, hint,
                       queued, matches, outcome>>
    BY <1>14 DEF ReadParty
  <2>2. ServerInv' /\ (\A t : Issued(t) => Issued(t)') /\ WireInv'
    BY <2>1, ServerSame DEF Inv, ServerInv, server, WireInv, Issued
  <2>3. WatchInv'
    BY <2>1, <2>2 DEF Inv, WatchInv, ServerInv, Labels
  <2> QED
    BY <1>0, <2>1, <2>2, <2>3, NoReport DEF Inv
<1>15. CASE ReportPushed
  BY <1>15, <1>0, Reports DEF ReportPushed
<1>16. CASE TicketShowsMatch
  <2>1. snap.match \in 0..MaxTicket
    BY DEF Inv, WatchInv, Party
  <2> QED
    BY <1>16, <1>0, <2>1, Reports DEF TicketShowsMatch
<1>17. CASE TakeInvite
  <2>1. TakeHint /\ UNCHANGED <<server, online, mode, version, lastMatch, snap,
                                queued, matches>>
    BY <1>17 DEF TakeInvite
  <2>2. WireInv' /\ hint' \in Nat /\ pc = "select"
    BY <2>1, HintTaken
  <2>3. /\ pc' \in {"select", "refresh", "pushed", "done"}
        /\ outcome' \in {outcome, "callback"}
        /\ pc' = "pushed" => hint' # lastMatch /\ hint' \in 0..MaxTicket
    BY <1>17, <2>1, HintTaken DEF TakeInvite, TakeHint
  <2>4. ServerInv' /\ \A t : Issued(t) => Issued(t)'
    BY <2>1, ServerSame DEF Inv, ServerInv, server, Issued
  <2>5. WatchInv'
    BY <2>1, <2>3, <2>4 DEF Inv, WatchInv, Labels
  <2> QED
    BY <2>1, <2>2, <2>3, <2>4, <2>5, NoReport DEF Inv
<1>18. CASE TakeChanged
  <2>1. TakeHint /\ UNCHANGED <<server, online, mode, version, lastMatch, snap,
                                queued, matches>>
    BY <1>18 DEF TakeChanged
  <2>2. WireInv' /\ hint' \in Nat /\ pc = "select"
    BY <2>1, HintTaken
  <2>3. /\ pc' \in {"select", "refresh", "pushed", "done"}
        /\ outcome' \in {outcome, "callback"}
        /\ pc' = "pushed" => hint' # lastMatch /\ hint' \in 0..MaxTicket
    BY <1>18, <2>1, HintTaken DEF TakeChanged, TakeHint
  <2>4. ServerInv' /\ \A t : Issued(t) => Issued(t)'
    BY <2>1, ServerSame DEF Inv, ServerInv, server, Issued
  <2>5. WatchInv'
    BY <2>1, <2>3, <2>4 DEF Inv, WatchInv, Labels
  <2> QED
    BY <2>1, <2>2, <2>3, <2>4, <2>5, NoReport DEF Inv
<1>19. CASE TakeMatched
  <2>1. TakeHint /\ UNCHANGED <<server, online, mode, version, lastMatch, snap,
                                queued, matches>>
    BY <1>19 DEF TakeMatched
  <2>2. WireInv' /\ hint' \in Nat /\ pc = "select"
    BY <2>1, HintTaken
  <2>3. /\ pc' \in {"select", "refresh", "pushed", "done"}
        /\ outcome' \in {outcome, "callback"}
        /\ pc' = "pushed" => hint' # lastMatch /\ hint' \in 0..MaxTicket
    BY <1>19, <2>1, HintTaken DEF TakeMatched, TakeHint
  <2>4. ServerInv' /\ \A t : Issued(t) => Issued(t)'
    BY <2>1, ServerSame DEF Inv, ServerInv, server, Issued
  <2>5. WatchInv'
    BY <2>1, <2>3, <2>4 DEF Inv, WatchInv, Labels
  <2> QED
    BY <2>1, <2>2, <2>3, <2>4, <2>5, NoReport DEF Inv
<1> QED
  BY <1>1, <1>2, <1>3, <1>4, <1>5, <1>6, <1>7, <1>8, <1>9, <1>10, <1>11,
     <1>12, <1>13, <1>14, <1>15, <1>16, <1>17, <1>18, <1>19
  DEF WatchStep, Read, Fails

(* Every step, the server's or the watch's, keeps the invariant.           *)
LEMMA InvStep == Inv /\ [Next]_vars => Inv'
<1> SUFFICES ASSUME Inv, [Next]_vars
             PROVE  Inv'
  OBVIOUS
<1>1. CASE UNCHANGED vars
  BY <1>1 DEF Inv, vars, server, watch, ServerInv, WireInv, WatchInv, MatchInv,
              NoMatchTwiceRunning, Issued
<1>2. CASE Next
  BY <1>2, ServerKeeps, WatchKeeps DEF Next
<1> QED
  BY <1>1, <1>2

(* The invariant holds from the start on. *)
LEMMA InvAlways == Spec => []Inv
BY InitInv, InvStep, PTL DEF Spec

(* Every ticket the watch looks up has been issued, and the wire keeps     *)
(* within its bound.                                                       *)
THEOREM PartyTypes == Spec => []TypeOK
<1>1. Inv => TypeOK
  BY BoundsAssumption DEF Inv, TypeOK, ServerInv, WireInv, WatchInv, MatchInv,
                          Party, Issued, Tickets
<1> QED
  BY <1>1, InvAlways, PTL

-----------------------------------------------------------------------------
(* What the watch tells the game is true.                                  *)

Made == {t \in 1..MaxTicket : ticket[t] = "matched"}

(* Every push of a match in s is about one of T.                           *)
About(s, T) ==
  \A i \in 1..Len(s) : s[i].type = "matchmaker_matched" => s[i].of \in T

(* Only a queued entry ends, so what a push, a copy of the party or a      *)
(* report says of a ticket or of a version stays true.                     *)
TruthInv ==
  /\ party.state = "queued" => ticket[party.mine] = "queued"
  /\ About(wire, Made)
  /\ pc = "pushed" => hint \in Made
  /\ \A i \in 1..Len(matches) : matches[i] \in Made
  /\ version <= party.version /\ snap.version <= party.version
  /\ outcome = "removed" => ~member
  /\ outcome \in {"failed", "cancelled"} =>
       \E t \in 1..MaxTicket : ticket[t] = outcome

(* Nothing is reported before the watch dials.                             *)
LEMMA InitTruth == Init => TruthInv
<1> SUFFICES ASSUME Init
             PROVE  TruthInv
  OBVIOUS
<1>1. Len(wire) = 0 /\ Len(matches) = 0
  BY EmptySeq DEF Init
<1>2. party.state = "idle" /\ party.version = 1 /\ snap.version = 0
  BY DEF Init, NoParty
<1> QED
  BY <1>1, <1>2 DEF Init, TruthInv, About

(* What the server has once decided it does not take back.                 *)
Final ==
  /\ \A t \in 1..MaxTicket :
       ticket[t] \in {"matched", "failed", "cancelled"} =>
         ticket'[t] = ticket[t]
  /\ party'.version >= party.version
  /\ ~member => ~member'
  /\ party'.state = "queued" => ticket'[party'.mine] = "queued"

LEMMA ServerFinal ==
  ASSUME Inv, TruthInv, ServerStep
  PROVE  Final
<1> USE DEF Final
<1>0. MaxVersion \in Nat /\ MaxTicket \in Nat /\ Tickets = 1..MaxTicket
  BY BoundsAssumption DEF Tickets
<1>1. /\ party \in Party /\ party.version \in Nat
      /\ party.mine \in 0..MaxTicket
      /\ ticket \in [1..MaxTicket -> {"none", "queued", "matched", "failed",
                                      "cancelled"}]
      /\ party.state = "queued" => /\ party.mine \in 1..MaxTicket
                                   /\ ticket[party.mine] = "queued"
  BY <1>0 DEF Inv, ServerInv, Party, TruthInv
<1>2. ASSUME NEW p \in Party, Change(p)
      PROVE  /\ party'.version >= party.version /\ member'= member
             /\ party'.state = p.state /\ party'.mine = p.mine
  <2>1. party' = [p EXCEPT !.version = party.version + 1]
        /\ member' = member
    BY <1>2 DEF Change
  <2> QED
    BY <1>1, <1>2, <2>1, Changes DEF Party
<1>3. CASE Edit
  BY <1>1, <1>2, <1>3 DEF Edit
<1>4. ASSUME NEW t \in Tickets, Queue(t)
      PROVE  Final
  <2> DEFINE q == [party EXCEPT !.state = "queued"]
  <2>1. q \in Party
    BY ONLY <1>1 DEF Party
  <2>a. [party EXCEPT !.state = "queued", !.mine = t] = [q EXCEPT !.mine = t]
    BY ONLY <1>1 DEF Party
  <2> HIDE DEF q
  <2> DEFINE p == [q EXCEPT !.mine = t]
  <2>2. p \in Party /\ p.mine = t
    BY ONLY <2>1, <1>0, t \in Tickets DEF Party
  <2>3. Change([party EXCEPT !.state = "queued", !.mine = t])
        /\ ticket[t] = "none" /\ ticket' = [ticket EXCEPT ![t] = "queued"]
    BY <1>4 DEF Queue
  <2>5. Change(p)
    BY <2>3, <2>a
  <2> HIDE DEF p
  <2>6. party'.version >= party.version /\ member' = member /\ party'.mine = t
    BY <1>2, <2>2, <2>5
  <2> QED
    BY <1>0, <1>1, <2>3, <2>6
<1>5. CASE FormMatch
  <2> DEFINE p == [party EXCEPT !.state = "matched", !.match = party.mine]
  <2>1. party.state = "queued" /\ Change(p)
        /\ ticket' = [ticket EXCEPT ![party.mine] = "matched"]
    BY <1>5 DEF FormMatch
  <2>2. p \in Party /\ p.state = "matched"
    BY ONLY <1>1 DEF Party
  <2> HIDE DEF p
  <2>3. party'.version >= party.version /\ member' = member
        /\ party'.state = "matched"
    BY <1>2, <2>1, <2>2
  <2> QED
    BY <1>1, <2>1, <2>3
<1>6. CASE EndQueue
  <2> DEFINE p == [party EXCEPT !.state = "idle"]
  <2>1. party.state = "queued" /\ Change(p)
    BY <1>6 DEF EndQueue
  <2>2. PICK how \in {"failed", "cancelled"} :
          ticket' = [ticket EXCEPT ![party.mine] = how]
    BY <1>6 DEF EndQueue
  <2>3. p \in Party /\ p.state = "idle"
    BY ONLY <1>1 DEF Party
  <2> HIDE DEF p
  <2>4. party'.version >= party.version /\ member' = member
        /\ party'.state = "idle"
    BY <1>2, <2>1, <2>3
  <2> QED
    BY <1>1, <2>1, <2>2, <2>4
<1>7. CASE Remove \/ Invite \/ Disconnect \/ Reconnect
  <2>1. party' = party /\ ticket' = ticket /\ (member' \in {member, FALSE})
    BY <1>7 DEF Remove, Invite, Disconnect, Reconnect, server
  <2>2. ~member => ~member'
    BY <1>7, Zenon DEF Remove, Invite, Disconnect, Reconnect, server
  <2> QED
    BY <1>1, <2>1, <2>2
<1> QED
  BY <1>3, <1>4, <1>5, <1>6, <1>7 DEF ServerStep

(* A push that is sent, lost or read leaves true ones on the wire.         *)
LEMMA HintsSent ==
  ASSUME WireInv, NEW T, About(wire, T), NEW h \in Hint, Send(<<h>>),
         h.type = "matchmaker_matched" => h.of \in T
  PROVE  About(wire', T)
<1>1. wire \in Seq(Hint) /\ Len(wire) \in Nat
      /\ <<h>> \in Seq(Hint) /\ Len(<<h>>) = 1 /\ <<h>>[1] = h
  BY LenProperties DEF WireInv
<1>2. CASE wire' = wire
  BY <1>2
<1>3. CASE wire' = wire \o <<h>>
  <2>1. /\ Len(wire') = Len(wire) + 1
        /\ \A i \in 1..(Len(wire) + 1) :
             wire'[i] = IF i <= Len(wire) THEN wire[i] ELSE <<h>>[i - Len(wire)]
    BY <1>1, <1>3, ConcatProperties
  <2> QED
    BY <1>1, <2>1 DEF About
<1>4. wire \o <<>> = wire
  BY <1>1, ConcatEmptySeq
<1> QED
  BY <1>2, <1>3, <1>4 DEF Send

(* The watch takes the first of them ...                                   *)
LEMMA HintsTaken ==
  ASSUME WireInv, NEW T, About(wire, T), TakeHint
  PROVE  /\ About(wire', T)
         /\ Head(wire).type = "matchmaker_matched" => hint' \in T
<1>1. wire \in Seq(Hint) /\ wire # <<>> /\ Len(wire) \in Nat /\ Len(wire) # 0
      /\ wire' = Tail(wire) /\ hint' = Head(wire).of
  BY LenProperties, EmptySeq DEF WireInv, TakeHint
<1>2. /\ Head(wire) = wire[1] /\ Len(wire') = Len(wire) - 1
      /\ \A i \in 1..Len(wire') : wire'[i] = wire[i + 1]
  BY <1>1, HeadTailProperties
<1> QED
  BY <1>1, <1>2 DEF About

(* ... and a broken socket drops the last of them.                         *)
LEMMA HintsLeft ==
  ASSUME WireInv, NEW T, About(wire, T), NEW n \in 0..Len(wire),
         wire' = SubSeq(wire, 1, n)
  PROVE  About(wire', T)
<1>1. wire \in Seq(Hint) /\ Len(wire) \in Nat
  BY LenProperties DEF WireInv
<1>2. Len(wire') = n /\ \A i \in 1..n : wire'[i] = wire[i]
  BY <1>1, SubSeqProperties
<1> QED
  BY <1>1, <1>2 DEF About

(* A match that was made stays made.                                       *)
LEMMA MadeStays ==
  ASSUME Final
  PROVE  Made \subseteq Made'
BY DEF Final, Made

(* The server's steps leave true what the watch holds, and send no push of *)
(* a match that is not made.                                               *)
LEMMA ServerTruth ==
  ASSUME Inv, TruthInv, ServerStep
  PROVE  TruthInv'
<1>0. MaxVersion \in Nat /\ MaxTicket \in Nat /\ Tickets = 1..MaxTicket
  BY BoundsAssumption DEF Tickets
<1>1. Final /\ Made \subseteq Made'
  BY ServerFinal, MadeStays
<1>2. /\ WireInv /\ party.version \in Nat /\ party'.version \in Nat
      /\ version \in Nat /\ snap.version \in Nat
      /\ party.mine \in 0..MaxTicket
      /\ ticket \in [1..MaxTicket -> {"none", "queued", "matched", "failed",
                                      "cancelled"}]
  <2>1. ServerInv /\ ServerInv' /\ WatchInv
    BY ServerKeeps DEF Inv
  <2> QED
    BY <1>0, <2>1 DEF Inv, ServerInv, WatchInv, Party
<1>3. UNCHANGED watch
  BY DEF ServerStep, Edit, Queue, FormMatch, EndQueue, Change, Remove, Invite,
         Disconnect, Reconnect
<1>4. About(wire, Made')
  BY <1>1 DEF TruthInv, About
<1>5. Changed(party.version + 1) \in Hint /\ Invited \in Hint
      /\ Changed(party.version + 1).type # "matchmaker_matched"
      /\ Invited.type # "matchmaker_matched"
  BY <1>0, <1>2 DEF Changed, Invited, Hint
<1>6. About(wire', Made')
  <2>1. CASE Edit \/ EndQueue \/ \E t \in Tickets : Queue(t)
    <3>1. Send(<<Changed(party.version + 1)>>)
      BY <2>1 DEF Edit, EndQueue, Queue
    <3> QED
      BY <1>2, <1>4, <1>5, <3>1, HintsSent
  <2>2. CASE FormMatch
    <3>1. /\ Send(<<Matched(party.mine)>>) /\ party.state = "queued"
          /\ ticket' = [ticket EXCEPT ![party.mine] = "matched"]
      BY <2>2 DEF FormMatch
    <3>2. Matched(party.mine) \in Hint /\ Matched(party.mine).of = party.mine
      BY <1>2 DEF Matched, Hint
    <3>3. party.mine \in Made'
      BY <1>0, <1>2, <3>1 DEF Made, Inv, ServerInv
    <3> QED
      BY <1>2, <1>4, <3>1, <3>2, <3>3, HintsSent
  <2>3. CASE Invite
    BY <1>2, <1>4, <1>5, <2>3, HintsSent DEF Invite
  <2>4. CASE Disconnect
    BY <1>2, <1>4, <2>4, HintsLeft DEF Disconnect
  <2>5. CASE Remove \/ Reconnect
    BY <1>4, <2>5 DEF Remove, Reconnect
  <2> QED
    BY <2>1, <2>2, <2>3, <2>4, <2>5 DEF ServerStep
<1>7. version <= party'.version /\ snap.version <= party'.version
  BY <1>1, <1>2 DEF TruthInv, Final
<1>8. outcome \in {"failed", "cancelled"} =>
        \E t \in 1..MaxTicket : ticket'[t] = outcome
  BY <1>1 DEF TruthInv, Final
<1> QED
  BY <1>1, <1>3, <1>6, <1>7, <1>8 DEF TruthInv, Final, watch

(* A report of a match that was made.                                      *)
LEMMA MatchTold ==
  ASSUME Inv, TruthInv, NEW t \in Made, ReportMatch(t)
  PROVE  TruthInv'
<1>1. /\ matches' = Append(matches, t) /\ UNCHANGED <<server, wire>>
      /\ UNCHANGED <<version, snap>> /\ pc' \in {"done", "select"}
      /\ outcome' \in {"matched", "callback", outcome}
  BY DEF ReportMatch, Return, Goto, GoOn
<1>2. matches \in Seq(Nat) /\ Len(matches) \in Nat /\ t \in Nat
  BY LenProperties, BoundsAssumption DEF Inv, MatchInv, Made
<1>3. /\ Len(matches') = Len(matches) + 1
      /\ matches'[Len(matches) + 1] = t
      /\ \A i \in 1..Len(matches) : matches'[i] = matches[i]
  BY <1>1, <1>2, AppendProperties
<1>4. \A i \in 1..Len(matches') : matches'[i] \in Made
  BY <1>2, <1>3 DEF TruthInv
<1> QED
  BY <1>1, <1>4 DEF TruthInv, Made, server

(* The watch reports what is true of what it has read.                     *)
LEMMA WatchTruth ==
  ASSUME Inv, TruthInv,
         \/ WatchStep \/ Read \/ Fails \/ Stop
         \/ Tick \/ TakeInvite \/ TakeChanged \/ TakeMatched
  PROVE  TruthInv'
<1> USE DEF Goto, Step, GoOn, Return
<1>0. /\ MaxTicket \in Nat /\ party.version \in Nat /\ version \in Nat
      /\ snap.version \in Nat /\ queued \in 0..MaxTicket
      /\ pc = "lookup" => queued # 0
      /\ pc = "ticket" => snap.mine \in 1..MaxTicket
  BY BoundsAssumption DEF Inv, ServerInv, WatchInv, Party
<1>1. CASE TakeInvite \/ TakeChanged \/ TakeMatched
  <2>1. TakeHint /\ UNCHANGED <<server, version, snap, matches>>
    BY <1>1 DEF TakeInvite, TakeChanged, TakeMatched
  <2>2. About(wire', Made)
        /\ (Head(wire).type = "matchmaker_matched" => hint' \in Made)
    BY <2>1, HintsTaken DEF Inv, TruthInv
  <2>3. outcome' \in {outcome, "callback"}
        /\ (pc' = "pushed" => Head(wire).type = "matchmaker_matched")
    BY <1>1 DEF TakeInvite, TakeChanged, TakeMatched
  <2> QED
    BY <2>1, <2>2, <2>3 DEF TruthInv, Made, server
<1>2. CASE ReportPushed
  BY <1>2, MatchTold DEF ReportPushed, TruthInv
<1>3. CASE TicketShowsMatch
  <2>1. snap.match \in Made
    BY <1>0, <1>3 DEF TicketShowsMatch, Made
  <2> QED
    BY <1>3, <2>1, MatchTold DEF TicketShowsMatch
<1>4. CASE LookupSettled
  <2>1. queued \in 1..MaxTicket /\ ticket[queued] = outcome'
    BY <1>0, <1>4 DEF LookupSettled
  <2> QED
    BY <1>4, <2>1 DEF LookupSettled, TruthInv, Made, server
<1>5. CASE ReadRemoved
  BY <1>5 DEF ReadRemoved, TruthInv, Made, server
<1>6. CASE ReadParty
  BY <1>0, <1>6 DEF ReadParty, TruthInv, Made, server
<1>7. CASE Report
  <2>1. /\ pc' # "pushed" /\ version' = snap.version
        /\ outcome' \in {outcome, "callback"}
        /\ UNCHANGED <<server, wire, snap, matches>>
    BY <1>7 DEF Report
  <2> QED
    BY <2>1 DEF TruthInv, Made, server
<1>8. CASE \/ Dial \/ DialFails \/ HeartbeatStale \/ ReportNothing \/ CheckMatch
           \/ ReadFails \/ TicketFails \/ LookupFails \/ Stop \/ Tick
  <2>1. /\ UNCHANGED <<server, wire, version, snap, matches>>
        /\ pc' # "pushed" /\ outcome' \in {outcome, "dialError", "context"}
    BY <1>8 DEF Dial, DialFails, HeartbeatStale, ReportNothing, CheckMatch,
                ReadFails, TicketFails, LookupFails, Stop, Tick, locals
  <2> QED
    BY <2>1 DEF TruthInv, Made, server
<1> QED
  BY <1>1, <1>2, <1>3, <1>4, <1>5, <1>6, <1>7, <1>8 DEF WatchStep, Read, Fails

(* Every step keeps true what the watch has told.                          *)
LEMMA TruthStep == Inv /\ TruthInv /\ [Next]_vars => TruthInv'
<1> SUFFICES ASSUME Inv, TruthInv, [Next]_vars
             PROVE  TruthInv'
  OBVIOUS
<1>1. CASE UNCHANGED vars
  BY <1>1 DEF TruthInv, Made, vars, server, watch
<1>2. CASE Next
  BY <1>2, ServerTruth, WatchTruth DEF Next
<1> QED
  BY <1>1, <1>2

(* However many versions, tickets and hints there are, and whichever of    *)
(* push, heartbeat and hint brings a match first: the watch reports no     *)
(* match that is not made and none twice running, no party that was not    *)
(* so, no removal of a member, and no failure without an entry that ended. *)
THEOREM ReportsTrue == Spec => []ReportsAreTrue
<1>1. Inv => NoMatchTwiceRunning
  BY DEF Inv, MatchInv
<1>2. TruthInv /\ NoMatchTwiceRunning => ReportsAreTrue
  BY DEF TruthInv, ReportsAreTrue, Made, Tickets
<1> QED
  BY <1>1, <1>2, InvAlways, InitTruth, TruthStep, PTL DEF Spec
=============================================================================
