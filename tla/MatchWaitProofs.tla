--------------------------- MODULE MatchWaitProofs ---------------------------
(***************************************************************************)
(* Proofs about MatchWait, for any number of devices, tickets and messages *)
(* in the channel.                                                         *)
(***************************************************************************)
EXTENDS MatchWait, SequenceTheorems, TLAPS

(* Whatever is on its way to a call about a ticket is true of it: the      *)
(* server pushed it when the ticket was matched.                           *)
WireInv ==
  \A w \in Waiter :
    /\ \A t \in pushes[w] : status[t] = "matched"
    /\ held[w] \in Ticket => status[held[w]] = "matched"
    /\ fwd[w] = "send" => held[w] \in Message

ChanInv ==
  /\ chan \in [Waiter -> Seq(Message)]
  /\ \A w \in Waiter : \A i \in 1..Len(chan[w]) :
       chan[w][i] \in Ticket => status[chan[w][i]] = "matched"

(* A call has no outcome before it has returned from WaitForMatch, and no  *)
(* ticket before one is created; a message made it read its own ticket,    *)
(* and ConnectP2P goes on with a match only.                               *)
CallInv ==
  \A w \in Waiter :
    /\ outcome[w] = "none" <=> pc[w] \notin {"connect", "join", "done"}
    /\ pc[w] \in {"idle", "create", "cancelActive", "recreate"} =>
         ticket[w] = Nil
    /\ pc[w] = "read" => status[ticket[w]] = "matched"
    /\ pc[w] \in {"connect", "join"} => outcome[w] = "matched"
    /\ outcome[w] \in Settled \cup AfterMatch => ticket[w] \in Ticket
    /\ pc[w] = "cancelActive" => active[w] \in Ticket
    /\ outcome[w] = "context" =>
         ticket[w] \in Ticket /\ status[ticket[w]] \in Settled

(* Inductive: OutcomeIsTrue alone is not, since a message in the channel   *)
(* or in the forwarder's hand decides what the call will return.           *)
Inv == TypeOK /\ WireInv /\ ChanInv /\ CallInv /\ OutcomeIsTrue

(* The invariant holds before any call.                                    *)
LEMMA InitInv == Init => Inv
<1> SUFFICES ASSUME Init
             PROVE  Inv
  OBVIOUS
<1>1. chan \in [Waiter -> Seq(Message)] /\ \A w \in Waiter : chan[w] = <<>>
  BY EmptySeq DEF Init
<1>2. \A w \in Waiter : Len(chan[w]) = 0
  BY <1>1, EmptySeq
<1>3. /\ ChanInv
      /\ \A w \in Waiter : chan[w] \in Seq(Message) /\ Len(chan[w]) <= Buffer
  BY <1>1, <1>2, BufferAssumption DEF ChanInv
<1>4. WireInv /\ CallInv /\ OutcomeIsTrue
  BY NilAssumption
  DEF Init, WireInv, CallInv, OutcomeIsTrue, Settled, AfterMatch
<1>5. TypeOK
  BY <1>3 DEF Init, TypeOK, Settled, AfterMatch
<1> QED
  BY <1>3, <1>4, <1>5 DEF Inv

(* What taking a message leaves in a call's channel ...                    *)
LEMMA TakenFrom ==
  ASSUME NEW s \in Seq(Message), s # <<>>, Len(s) <= Buffer
  PROVE  /\ Head(s) = s[1] /\ 1 \in 1..Len(s)
         /\ Tail(s) \in Seq(Message) /\ Len(Tail(s)) <= Buffer
         /\ \A i \in 1..Len(Tail(s)) :
              i + 1 \in 1..Len(s) /\ Tail(s)[i] = s[i + 1]
<1>1. Len(s) \in Nat /\ Len(s) # 0
  BY LenProperties, EmptySeq
<1>2. Tail(s) \in Seq(Message) /\ Len(Tail(s)) = Len(s) - 1
  BY HeadTailProperties
<1>3. \A i \in 1..Len(Tail(s)) : Tail(s)[i] = s[i + 1]
  BY HeadTailProperties
<1> QED
  BY <1>1, <1>2, <1>3, BufferAssumption

(* ... and what a sent one leaves there.                                   *)
LEMMA SentTo ==
  ASSUME NEW s \in Seq(Message), NEW m \in Message, Len(s) < Buffer
  PROVE  /\ Append(s, m) \in Seq(Message) /\ Len(Append(s, m)) <= Buffer
         /\ \A i \in 1..Len(Append(s, m)) :
              \/ i \in 1..Len(s) /\ Append(s, m)[i] = s[i]
              \/ Append(s, m)[i] = m
<1>1. Len(s) \in Nat
  BY LenProperties
<1>2. /\ Append(s, m) \in Seq(Message) /\ Len(Append(s, m)) = Len(s) + 1
      /\ Append(s, m)[Len(s) + 1] = m
  BY AppendProperties
<1>3. \A i \in 1..Len(s) : Append(s, m)[i] = s[i]
  BY AppendProperties
<1> QED
  BY <1>1, <1>2, <1>3, BufferAssumption

(* Every step of a call, of its forwarder, of the server and of the game   *)
(* keeps the invariant.                                                    *)
LEMMA InvStep == Inv /\ [Next]_vars => Inv'
<1> SUFFICES ASSUME Inv, [Next]_vars
             PROVE  Inv'
  OBVIOUS
<1> USE NilAssumption, OtherAssumption
    DEF Inv, TypeOK, WireInv, ChanInv, CallInv, OutcomeIsTrue, Settled,
        AfterMatch, Message, call, socket, relay, Goto, Finish, Return,
        Connected, Creating, Queued, CancelTicket, Opened
<1>1. ASSUME NEW w \in Waiter, Create(w)
      PROVE  Inv'
  <2>1. CASE CreateFailed(w)
    <3>1. CASE UNCHANGED status
      BY <2>1, <3>1 DEF CreateFailed
    <3>2. ASSUME NEW t \in Ticket, status[t] = "none",
                 status' = [status EXCEPT ![t] = "queued"]
          PROVE  Inv'
      BY <2>1, <3>2 DEF CreateFailed
    <3> QED
      BY <2>1, <3>1, <3>2 DEF CreateFailed
  <2>2. ASSUME NEW t \in Ticket, CreateQueued(w, t)
        PROVE  Inv'
    BY <2>2 DEF CreateQueued
  <2>3. ASSUME NEW t \in Ticket, CreateSettled(w, t)
        PROVE  Inv'
    BY <2>3 DEF CreateSettled
  <2>4. ASSUME NEW t \in Ticket, CreateConflict(w, t)
        PROVE  Inv'
    <3>1. t \in Ticket /\ UNCHANGED <<status, ctx, relay, ticket, roster>>
      BY <2>4 DEF CreateConflict
    <3>2. CASE pc[w] = "create"
      <4>1. /\ pc' = [pc EXCEPT ![w] = "cancelActive"]
            /\ active' = [active EXCEPT ![w] = t]
            /\ UNCHANGED <<outcome, socket>>
        BY <2>4, <3>2 DEF CreateConflict
      <4> QED
        BY <3>1, <3>2, <4>1
    <3>3. CASE pc[w] # "create"
      <4>1. Return(w, "error")
        BY ONLY <2>4, <3>3 DEF CreateConflict
      <4> QED
        BY <3>1, <3>3, <4>1
    <3> QED
      BY <3>2, <3>3
  <2>5. CASE CancelActive(w)
    BY <2>5 DEF CancelActive
  <2>6. CASE CancelActiveFailed(w)
    BY <2>6 DEF CancelActiveFailed
  <2> QED
    BY <1>1, <2>1, <2>2, <2>3, <2>4, <2>5, <2>6 DEF Create
<1>2. ASSUME NEW w \in Waiter, Select(w)
      PROVE  Inv'
  <2>1. CASE SeeCancelled(w)
    BY <2>1 DEF SeeCancelled
  <2>2. CASE CancelBestEffort(w)
    BY <2>2 DEF CancelBestEffort
  <2>3. CASE CancelBestEffortFailed(w)
    BY <2>3 DEF CancelBestEffortFailed
  <2>4. CASE ReadSettled(w)
    BY <2>4 DEF ReadSettled
  <2>5. CASE ReadUnsettled(w)
    BY <2>5 DEF ReadUnsettled
  <2> QED
    BY <1>2, <2>1, <2>2, <2>3, <2>4, <2>5 DEF Select
<1>3. ASSUME NEW w \in Waiter, Connect(w)
      PROVE  Inv'
  <2>1. CASE RefuseFleet(w)
    BY <2>1 DEF RefuseFleet
  <2>2. CASE FetchRelay(w)
    BY <2>2 DEF FetchRelay
  <2>3. CASE NothingToJoin(w)
    BY <2>3 DEF NothingToJoin
  <2>4. CASE JoinSession(w)
    BY <2>4 DEF JoinSession
  <2>5. CASE JoinFailed(w)
    BY <2>5 DEF JoinFailed
  <2> QED
    BY <1>3, <2>1, <2>2, <2>3, <2>4, <2>5 DEF Connect
<1>4. ASSUME NEW w \in Waiter, Forward(w)
      PROVE  Inv'
  <2>1. CASE ForwardReadFails(w)
    <3>1. /\ fwd' = [fwd EXCEPT ![w] = "ended"]
          /\ UNCHANGED <<status, roster, call, ctx, socket, held, chan>>
      BY ONLY <2>1 DEF ForwardReadFails
    <3>2. fwd' \in [Waiter -> {"off", "read", "send", "ended"}]
      BY <3>1
    <3>3. TypeOK' /\ ChanInv'
      BY <3>1, <3>2
    <3>4. WireInv'
      BY <3>1
    <3>5. CallInv' /\ OutcomeIsTrue'
      BY <3>1
    <3> QED
      BY ONLY <3>3, <3>4, <3>5 DEF Inv
  <2>2. CASE ForwardSend(w)
    <3> DEFINE new == Append(chan[w], held[w])
    <3>0. fwd[w] = "send" /\ Len(chan[w]) < Buffer
      BY <2>2 DEF ForwardSend
    <3>1. /\ chan[w] \in Seq(Message) /\ Len(chan[w]) < Buffer
          /\ held[w] \in Message
      BY <3>0
    <3>2. /\ new \in Seq(Message) /\ Len(new) <= Buffer
          /\ \A i \in 1..Len(new) :
               \/ i \in 1..Len(chan[w]) /\ new[i] = chan[w][i]
               \/ new[i] = held[w]
      BY ONLY <3>1, SentTo DEF Message
    <3>3. \A i \in 1..Len(new) :
            new[i] \in Ticket => status[new[i]] = "matched"
      BY <3>2
    <3>4. /\ chan' = [chan EXCEPT ![w] = new]
          /\ held' = [held EXCEPT ![w] = Nil]
          /\ fwd' = [fwd EXCEPT ![w] = "read"]
          /\ UNCHANGED <<status, roster, call, ctx, socket>>
      BY <2>2 DEF ForwardSend
    <3> HIDE DEF new
    <3> QED
      BY <3>2, <3>3, <3>4
  <2>3. CASE ForwardSendCancelled(w)
    BY <2>3 DEF ForwardSendCancelled
  <2> QED
    BY <1>4, <2>1, <2>2, <2>3 DEF Forward
<1>5. ASSUME NEW w \in Waiter, Dial(w)
      PROVE  Inv'
  BY <1>5 DEF Dial
<1>6. ASSUME NEW w \in Waiter, StartPoll(w)
      PROVE  Inv'
  BY <1>6 DEF StartPoll
<1>7. ASSUME NEW w \in Waiter, PollAgain(w)
      PROVE  Inv'
  BY <1>7 DEF PollAgain
<1>8. ASSUME NEW w \in Waiter, PollSettled(w)
      PROVE  Inv'
  BY <1>8 DEF PollSettled
<1>9. ASSUME NEW w \in Waiter, Reconnect(w)
      PROVE  Inv'
  BY <1>9 DEF Reconnect
<1>10. ASSUME NEW w \in Waiter, Drop(w)
      PROVE  Inv'
  BY <1>10 DEF Drop
<1>11. ASSUME NEW w \in Waiter, Cancel(w)
      PROVE  Inv'
  BY <1>11 DEF Cancel
<1>12. ASSUME NEW w \in Waiter, TakeMessage(w)
      PROVE  Inv'
  <2> DEFINE new == Tail(chan[w])
  <2>1. chan[w] \in Seq(Message) /\ chan[w] # <<>> /\ Len(chan[w]) <= Buffer
    BY <1>12 DEF TakeMessage
  <2>2. /\ Head(chan[w]) = chan[w][1] /\ 1 \in 1..Len(chan[w])
        /\ new \in Seq(Message) /\ Len(new) <= Buffer
        /\ \A i \in 1..Len(new) : i + 1 \in 1..Len(chan[w])
                                 /\ new[i] = chan[w][i + 1]
    BY ONLY <2>1, TakenFrom DEF Message
  <2>3. \A i \in 1..Len(new) : new[i] \in Ticket => status[new[i]] = "matched"
    BY <2>2
  <2>4. Head(chan[w]) = ticket[w] /\ pc[w] = "select" =>
          status[ticket[w]] = "matched"
    BY <2>2
  <2>5. /\ pc[w] = "select"
        /\ chan' = [chan EXCEPT ![w] = new]
        /\ \/ Head(chan[w]) = ticket[w] /\ pc' = [pc EXCEPT ![w] = "read"]
           \/ pc' = [pc EXCEPT ![w] = "select"]
        /\ UNCHANGED <<status, roster, ticket, active, outcome, ctx, socket,
                       fwd, held>>
    BY <1>12 DEF TakeMessage
  <2> HIDE DEF new
  <2>6. TypeOK'
    <3>1. \A x \in Waiter :
            chan'[x] \in Seq(Message) /\ Len(chan'[x]) <= Buffer
      BY ONLY <2>2, <2>5, TypeOK, ChanInv, w \in Waiter DEF TypeOK, ChanInv
    <3>2. pc' \in [Waiter -> {"idle", "create", "cancelActive", "recreate",
                        "select", "abort", "read", "poll", "connect", "join",
                        "done"}]
      BY ONLY <2>5, TypeOK, w \in Waiter DEF TypeOK
    <3>3. \A x \in Waiter : pc'[x] \in {"select", "abort", "read", "poll"} =>
            ticket[x] # Nil /\ status[ticket[x]] # "none"
      BY <2>5
    <3> QED
      BY <2>5, <3>1, <3>2, <3>3
  <2>7. ChanInv'
    BY <2>2, <2>3, <2>5
  <2>8. WireInv' /\ OutcomeIsTrue'
    BY <2>5
  <2>9. CallInv'
    BY <2>4, <2>5
  <2> QED
    BY ONLY <2>6, <2>7, <2>8, <2>9 DEF Inv
<1>13. ASSUME NEW w \in Waiter, NEW m \in Message, ForwardRead(w, m)
      PROVE  Inv'
  BY <1>13 DEF ForwardRead
<1>14. ASSUME NEW t \in Ticket, Match(t)
      PROVE  Inv'
  BY <1>14 DEF Match
<1>15. ASSUME NEW t \in Ticket, Fail(t)
      PROVE  Inv'
  BY <1>15 DEF Fail
<1>16. CASE UNCHANGED vars
  BY <1>16 DEF vars
<1> QED
  BY <1>1, <1>2, <1>3, <1>4, <1>5, <1>6, <1>7, <1>8, <1>9, <1>10,
     <1>11, <1>12, <1>13, <1>14, <1>15, <1>16
  DEF Next

(* A call that gave up after telling the server leaves a settled ticket.   *)
LEMMA InvGivesUp == Inv => GivingUpLeavesQueue
BY DEF Inv, CallInv, GivingUpLeavesQueue, Settled

(* Whatever order push and poll find out in, whichever of the player's     *)
(* matches is pushed, and however many messages the channel holds, what    *)
(* WaitForMatch and ConnectP2P return is true of the call's own ticket.    *)
THEOREM OutcomesTrue == Spec => []OutcomeIsTrue
<1>1. Inv => OutcomeIsTrue
  BY DEF Inv
<1> QED
  BY <1>1, InitInv, InvStep, PTL DEF Spec

(* The channel never holds more than its capacity, and a call that waits   *)
(* waits for a ticket the server has issued.                               *)
THEOREM MatchTypes == Spec => []TypeOK
<1>1. Inv => TypeOK
  BY DEF Inv
<1> QED
  BY <1>1, InitInv, InvStep, PTL DEF Spec

(* A call that gave up and could tell the server leaves no ticket behind   *)
(* that could still be matched, with any number of devices and tickets.    *)
THEOREM NothingLeftQueued == Spec => []GivingUpLeavesQueue
BY InitInv, InvStep, InvGivesUp, PTL DEF Spec

-----------------------------------------------------------------------------
(* MatchWait implements TicketWait.                                        *)

Answers == [w \in Waiter |-> ToldAs(outcome[w])]

(* The names TicketWait has for how a call ends.                           *)
LEMMA Names ==
  /\ ToldAs("none") = "none"
  /\ ToldAs("context") = "withdrawn"
  /\ ToldAs("error") = "unknown" /\ ToldAs("contextOnly") = "unknown"
  /\ \A how \in Settled : ToldAs(how) = how
  /\ \A how \in AfterMatch : ToldAs(how) = "matched"
BY DEF ToldAs, Settled, AfterMatch

(* A call that returns ends its wait.                                      *)
LEMMA WaitEnds ==
  ASSUME TypeOK, NEW w \in Waiter, NEW how, outcome[w] = "none",
         outcome' = [outcome EXCEPT ![w] = how]
  PROVE  Wait!End(w, ToldAs(how))
<1>1. ToldAs(outcome[w]) = "none"
  BY Names
<1>2. \A x \in Waiter : ToldAs(outcome'[x]) =
                          IF x = w THEN ToldAs(how) ELSE ToldAs(outcome[x])
  BY DEF TypeOK
<1>3. Answers' = [Answers EXCEPT ![w] = ToldAs(how)]
  BY <1>2 DEF Answers
<1> QED
  BY <1>1, <1>3 DEF Wait!End, Answers

(* How ConnectP2P goes on after its match adds nothing to the wait.        *)
LEMMA WaitGoesOn ==
  ASSUME TypeOK, NEW w \in Waiter, NEW how \in AfterMatch,
         outcome[w] = "matched", outcome' = [outcome EXCEPT ![w] = how],
         UNCHANGED <<status, ticket>>
  PROVE  UNCHANGED Wait!waitVars
<1>1. ToldAs(outcome[w]) = "matched" /\ ToldAs(how) = "matched"
  BY Names DEF Settled
<1>2. \A x \in Waiter : ToldAs(outcome'[x]) = ToldAs(outcome[x])
  BY <1>1 DEF TypeOK
<1> QED
  BY <1>2 DEF Wait!waitVars

(* A step of the call's own business does not concern the wait.            *)
LEMMA WaitSame ==
  ASSUME UNCHANGED <<status, ticket, outcome>>
  PROVE  UNCHANGED Wait!waitVars
BY DEF Wait!waitVars

(* A call returns what its own ticket has become ...                       *)
LEMMA WaitAnswers ==
  ASSUME TypeOK, NEW w \in Waiter, NEW how \in Settled,
         outcome[w] = "none", ticket[w] \in Ticket, status[ticket[w]] = how,
         Finish(w, how), UNCHANGED <<status, ticket>>
  PROVE  Wait!WaitNext
<1>1. outcome' = [outcome EXCEPT ![w] = how]
  BY DEF Finish
<1>2. Wait!End(w, how)
  BY <1>1, WaitEnds, Names
<1>3. ticket[w] # Nil /\ how \in Wait!Ended
  BY NilAssumption DEF Settled, Wait!Ended
<1>4. Wait!Answer(w)
  BY <1>2, <1>3 DEF Wait!Answer
<1> QED
  BY <1>4 DEF Wait!WaitNext

(* ... or an error, which leaves open what becomes of it.                  *)
LEMMA WaitGivesUp ==
  ASSUME TypeOK, NEW w \in Waiter, NEW how \in {"error", "contextOnly"},
         outcome[w] = "none", Finish(w, how), UNCHANGED <<status, ticket>>
  PROVE  Wait!WaitNext
<1>1. outcome' = [outcome EXCEPT ![w] = how]
  BY DEF Finish
<1>2. Wait!End(w, "unknown")
  BY <1>1, WaitEnds, Names
<1>3. Wait!GiveUp(w)
  BY <1>2 DEF Wait!GiveUp
<1> QED
  BY <1>3 DEF Wait!WaitNext

(* A ticket taken out of the queue has settled; any other stays as it is.  *)
LEMMA CancelSettles ==
  ASSUME TypeOK, NEW t \in Ticket, CancelTicket(t)
  PROVE  \/ status[t] = "queued" /\ Wait!Become(t, "cancelled")
         \/ status[t] # "queued" /\ UNCHANGED status
<1>1. CASE status[t] = "queued"
  BY <1>1 DEF CancelTicket, Wait!Become
<1>2. CASE status[t] # "queued"
  BY <1>2 DEF CancelTicket, TypeOK
<1> QED
  BY <1>1, <1>2

(* A ticket settles by the server's hand or by another device's.           *)
LEMMA WaitSettles ==
  ASSUME NEW t \in Ticket, NEW how \in Settled, status[t] = "queued",
         Wait!Become(t, how), UNCHANGED <<ticket, outcome>>
  PROVE  Wait!WaitNext
<1>1. how \in Wait!Ended
  BY DEF Settled, Wait!Ended
<1>2. Wait!Settle(t)
  BY <1>1 DEF Wait!Settle
<1> QED
  BY <1>2 DEF Wait!WaitNext

(* The creation of a ticket.                                               *)
LEMMA WaitCreates ==
  ASSUME Inv, NEW w \in Waiter, Create(w)
  PROVE  Wait!WaitNext \/ UNCHANGED Wait!waitVars
<1>0. TypeOK
  BY DEF Inv
<1>1. Creating(w) => outcome[w] = "none" /\ ticket[w] = Nil
  BY DEF Inv, CallInv, Creating
<1>2. ASSUME NEW t \in Ticket, Queued = {}, status[t] = "none",
             NEW how, status' = [status EXCEPT ![t] = how]
      PROVE  Wait!Create(t, how)
  BY <1>2 DEF Wait!Create, Wait!Become, Queued
<1>3. CASE CreateFailed(w)
  <2>1. /\ Creating(w) /\ Finish(w, "error") /\ UNCHANGED ticket
        /\ outcome' = [outcome EXCEPT ![w] = "error"]
    BY <1>3 DEF CreateFailed, Return, Finish
  <2>2. CASE UNCHANGED status
    BY <1>0, <1>1, <2>1, <2>2, WaitGivesUp
  <2>3. ASSUME NEW t \in Ticket, Queued = {}, status[t] = "none",
               status' = [status EXCEPT ![t] = "queued"]
        PROVE  Wait!WaitNext
    <3>1. Wait!Create(t, "queued")
      BY <1>2, <2>3
    <3>2. Wait!End(w, "unknown")
      BY <1>0, <1>1, <2>1, WaitEnds, Names
    <3>3. Wait!Lose(w, t)
      BY <1>1, <2>1, <3>1, <3>2 DEF Wait!Lose
    <3> QED
      BY <3>3 DEF Wait!WaitNext
  <2> QED
    BY <1>3, <2>2, <2>3 DEF CreateFailed
<1>4. ASSUME NEW t \in Ticket, CreateQueued(w, t)
      PROVE  Wait!WaitNext
  <2>1. /\ Creating(w) /\ Queued = {} /\ status[t] = "none"
        /\ status' = [status EXCEPT ![t] = "queued"]
        /\ ticket' = [ticket EXCEPT ![w] = t] /\ UNCHANGED outcome
    BY <1>4 DEF CreateQueued
  <2>2. Wait!Create(t, "queued")
    BY <1>2, <2>1
  <2>3. Answers[w] = "none" /\ UNCHANGED Answers
    BY <1>1, <2>1, Names DEF Answers
  <2>4. Wait!Obtain(w, t)
    BY <1>1, <2>1, <2>2, <2>3 DEF Wait!Obtain, Answers
  <2> QED
    BY <2>4 DEF Wait!WaitNext
<1>5. ASSUME NEW t \in Ticket, CreateSettled(w, t)
      PROVE  Wait!WaitNext
  <2>1. PICK how \in {"matched", "failed"} :
          status' = [status EXCEPT ![t] = how] /\ Finish(w, how)
    BY <1>5 DEF CreateSettled
  <2>2. /\ Creating(w) /\ Queued = {} /\ status[t] = "none"
        /\ ticket' = [ticket EXCEPT ![w] = t]
        /\ outcome' = [outcome EXCEPT ![w] = how]
    BY <1>5, <2>1 DEF CreateSettled, Finish
  <2>3. Wait!Create(t, how)
    BY <1>2, <2>1, <2>2
  <2>4. how \in Wait!Ended /\ ToldAs(how) = how
    BY Names DEF Wait!Ended, Settled
  <2>5. Wait!End(w, how)
    BY <1>0, <1>1, <2>2, <2>4, WaitEnds
  <2>6. Answers[w] = "none"
    BY <1>1, <2>2, Names DEF Answers
  <2>7. Wait!Obtain(w, t)
    BY <1>1, <2>2, <2>3, <2>4, <2>5, <2>6 DEF Wait!Obtain, Answers
  <2> QED
    BY <2>7 DEF Wait!WaitNext
<1>6. ASSUME NEW t \in Ticket, CreateConflict(w, t)
      PROVE  Wait!WaitNext \/ UNCHANGED Wait!waitVars
  <2>1. CASE pc[w] = "create"
    BY <1>6, <2>1, WaitSame DEF CreateConflict
  <2>2. CASE pc[w] # "create"
    <3>1. Creating(w) /\ Return(w, "error") /\ UNCHANGED status
      BY <1>6, <2>2 DEF CreateConflict
    <3> QED
      BY <1>0, <1>1, <3>1, WaitGivesUp DEF Return
  <2> QED
    BY <2>1, <2>2
<1>7. CASE CancelActive(w)
  <2>1. /\ active[w] \in Ticket /\ CancelTicket(active[w])
        /\ UNCHANGED <<ticket, outcome>>
    BY <1>7 DEF CancelActive, Inv, CallInv
  <2> QED
    BY <1>0, <2>1, CancelSettles, WaitSettles, WaitSame DEF Settled
<1>8. CASE CancelActiveFailed(w)
  <2>1. /\ Finish(w, "error") /\ outcome[w] = "none"
        /\ UNCHANGED <<status, ticket>>
    BY <1>8 DEF CancelActiveFailed, Return, Inv, CallInv
  <2> QED
    BY <1>0, <2>1, WaitGivesUp
<1> QED
  BY <1>3, <1>4, <1>5, <1>6, <1>7, <1>8 DEF Create

(* Every other way a call comes to its end.                                *)
LEMMA WaitSelects ==
  ASSUME Inv, NEW w \in Waiter, Select(w) \/ PollSettled(w)
  PROVE  Wait!WaitNext \/ UNCHANGED Wait!waitVars
<1>0. TypeOK
  BY DEF Inv
<1>1. pc[w] \in {"abort", "read", "poll"} =>
        /\ outcome[w] = "none" /\ ticket[w] \in Ticket /\ ticket[w] # Nil
        /\ status[ticket[w]] \in Settled \cup {"queued"}
  BY NilAssumption DEF Inv, CallInv, TypeOK
<1>2. CASE SeeCancelled(w)
  BY <1>2, WaitSame DEF SeeCancelled
<1>3. CASE CancelBestEffort(w)
  <2>1. /\ pc[w] = "abort" /\ CancelTicket(ticket[w]) /\ UNCHANGED ticket
        /\ outcome' = [outcome EXCEPT ![w] = "context"]
    BY <1>3 DEF CancelBestEffort, Return, Finish
  <2>2. Wait!End(w, "withdrawn")
    BY <1>0, <1>1, <2>1, WaitEnds, Names
  <2>3. \/ status[ticket[w]] = "queued" /\ Wait!Become(ticket[w], "cancelled")
        \/ status[ticket[w]] \in Wait!Ended /\ UNCHANGED status
    BY <1>0, <1>1, <2>1, CancelSettles DEF Settled, Wait!Ended
  <2>4. Wait!Withdraw(w)
    BY <1>1, <2>1, <2>2, <2>3 DEF Wait!Withdraw
  <2> QED
    BY <2>4 DEF Wait!WaitNext
<1>4. CASE CancelBestEffortFailed(w)
  <2>1. /\ pc[w] = "abort" /\ Finish(w, "contextOnly")
        /\ UNCHANGED <<status, ticket>>
    BY <1>4 DEF CancelBestEffortFailed, Return
  <2> QED
    BY <1>0, <1>1, <2>1, WaitGivesUp
<1>5. CASE ReadSettled(w) \/ PollSettled(w)
  <2>1. /\ pc[w] \in {"read", "poll"} /\ status[ticket[w]] \in Settled
        /\ Finish(w, status[ticket[w]]) /\ UNCHANGED <<status, ticket>>
    BY <1>5 DEF ReadSettled, PollSettled, Return
  <2> QED
    BY <1>0, <1>1, <2>1, WaitAnswers
<1>6. CASE ReadUnsettled(w)
  <2>1. /\ pc[w] = "read" /\ Finish(w, "matched")
        /\ UNCHANGED <<status, ticket>>
    BY <1>6 DEF ReadUnsettled, Return
  <2>2. status[ticket[w]] = "matched"
    BY <2>1 DEF Inv, CallInv
  <2> QED
    BY <1>0, <1>1, <2>1, <2>2, WaitAnswers DEF Settled
<1> QED
  BY <1>2, <1>3, <1>4, <1>5, <1>6 DEF Select

(* What ConnectP2P does after the match.                                   *)
LEMMA WaitConnects ==
  ASSUME Inv, NEW w \in Waiter, Connect(w)
  PROVE  UNCHANGED Wait!waitVars
<1>1. CASE FetchRelay(w)
  BY <1>1, WaitSame DEF FetchRelay
<1>2. CASE ~FetchRelay(w)
  <2>1. PICK how \in AfterMatch : Connected(w, how)
    BY <1>2 DEF Connect, RefuseFleet, NothingToJoin, JoinSession, JoinFailed,
                AfterMatch
  <2>2. outcome[w] = "matched"
    BY <1>2 DEF Connect, RefuseFleet, NothingToJoin, JoinSession, JoinFailed,
                Inv, CallInv
  <2> QED
    BY <2>1, <2>2, WaitGoesOn DEF Connected, Inv
<1> QED
  BY <1>1, <1>2

(* Every step of MatchWait is a step of TicketWait, or none of it.         *)
LEMMA StepWaits ==
  ASSUME Inv, [Next]_vars
  PROVE  [Wait!WaitNext]_(Wait!waitVars)
<1>1. ASSUME NEW w \in Waiter, Dial(w) \/ StartPoll(w) \/ PollAgain(w)
                               \/ TakeMessage(w) \/ Reconnect(w) \/ Drop(w)
                               \/ Cancel(w) \/ Forward(w)
      PROVE  UNCHANGED Wait!waitVars
  BY <1>1, WaitSame DEF Dial, StartPoll, PollAgain, TakeMessage, Reconnect,
     Drop, Cancel, Forward, ForwardReadFails, ForwardSend,
     ForwardSendCancelled, call
<1>2. ASSUME NEW w \in Waiter, NEW m \in Message, ForwardRead(w, m)
      PROVE  UNCHANGED Wait!waitVars
  BY <1>2, WaitSame DEF ForwardRead, call
<1>3. ASSUME NEW t \in Ticket, Match(t) \/ Fail(t)
      PROVE  Wait!WaitNext
  <2>1. PICK how \in {"matched", "failed"} :
          /\ status[t] = "queued" /\ Wait!Become(t, how)
          /\ UNCHANGED <<ticket, outcome>>
    BY <1>3 DEF Match, Fail, Queued, call, Wait!Become
  <2> QED
    BY <2>1, WaitSettles DEF Settled
<1>4. CASE UNCHANGED vars
  BY <1>4, WaitSame DEF vars, call
<1> QED
  BY <1>1, <1>2, <1>3, <1>4, WaitCreates, WaitSelects, WaitConnects DEF Next

(* Before any call, nobody waits.                                          *)
LEMMA InitWaits == Init => Wait!WaitInit
<1> SUFFICES ASSUME Init
             PROVE  Wait!WaitInit
  OBVIOUS
<1>1. Answers = [w \in Waiter |-> "none"]
  BY Names DEF Init, Answers
<1> QED
  BY <1>1 DEF Init, Wait!WaitInit, Answers

(* For any number of devices, tickets and messages in the channel, every   *)
(* call of WaitForMatch and ConnectP2P is a wait as TicketWait has it.     *)
THEOREM CallsWait == Spec => ImplementsWait
BY InitInv, InvStep, InitWaits, StepWaits, PTL
DEF Spec, ImplementsWait, Wait!WaitSpec

-----------------------------------------------------------------------------
(* What a game gets from that.                                             *)

OwnTickets ==
  \A w, x \in Waiter : ticket[w] = ticket[x] /\ ticket[w] # Nil => w = x

(* A ticket that is somebody's has been created: nobody obtains it again.  *)
OwnInv ==
  /\ OwnTickets
  /\ \A w \in Waiter : ticket[w] # Nil => status[ticket[w]] # "none"

LEMMA OwnStep == Inv /\ OwnInv /\ [Next]_vars => OwnInv'
<1> SUFFICES ASSUME Inv, OwnInv, [Next]_vars
             PROVE  OwnInv'
  OBVIOUS
<1> USE NilAssumption DEF OwnInv, OwnTickets
<1>1. [Wait!WaitNext]_(Wait!waitVars)
  BY StepWaits
<1>2. /\ status \in [Ticket -> Settled \cup {"none", "queued"}]
      /\ ticket \in [Waiter -> Ticket \cup {Nil}]
  BY DEF Inv, TypeOK
<1>3. ASSUME UNCHANGED ticket,
             \A t \in Ticket : status[t] # "none" => status'[t] # "none"
      PROVE  OwnInv'
  BY <1>2, <1>3
<1>4. CASE UNCHANGED Wait!waitVars
  BY <1>3, <1>4 DEF Wait!waitVars
<1>5. ASSUME NEW w \in Waiter, NEW t \in Ticket, Wait!Obtain(w, t)
      PROVE  OwnInv'
  <2>1. PICK how \in Wait!Ended \cup {"queued"} : Wait!Create(t, how)
    BY <1>5 DEF Wait!Obtain
  <2>2. /\ status[t] = "none" /\ status' = [status EXCEPT ![t] = how]
        /\ ticket' = [ticket EXCEPT ![w] = t]
    BY <1>5, <2>1 DEF Wait!Obtain, Wait!Create, Wait!Become
  <2> QED
    BY <1>2, <2>1, <2>2 DEF Wait!Ended
<1>6. ASSUME NEW w \in Waiter, NEW t \in Ticket, Wait!Lose(w, t)
      PROVE  OwnInv'
  BY <1>2, <1>3, <1>6 DEF Wait!Lose, Wait!Create, Wait!Become
<1>7. ASSUME NEW w \in Waiter, Wait!Withdraw(w)
      PROVE  OwnInv'
  BY <1>2, <1>3, <1>7 DEF Wait!Withdraw, Wait!Become
<1>8. ASSUME NEW w \in Waiter, Wait!Answer(w) \/ Wait!GiveUp(w)
      PROVE  OwnInv'
  BY <1>3, <1>8 DEF Wait!Answer, Wait!GiveUp
<1>9. ASSUME NEW t \in Ticket, Wait!Settle(t)
      PROVE  OwnInv'
  BY <1>2, <1>3, <1>9 DEF Wait!Settle, Wait!Become, Wait!Ended
<1> QED
  BY <1>1, <1>4, <1>5, <1>6, <1>7, <1>8, <1>9 DEF Wait!WaitNext

(* No two calls, on whichever devices, wait for the same ticket.           *)
THEOREM TicketsOwned == Spec => []OwnTickets
<1>1. Init => OwnInv
  BY DEF Init, OwnInv, OwnTickets
<1>2. OwnInv => OwnTickets
  BY DEF OwnInv
<1> QED
  BY <1>1, <1>2, InitInv, InvStep, OwnStep, PTL DEF Spec

(* What a ticket has become, whose it is, and how a wait ended.            *)
Kept ==
  /\ \A t \in Ticket : status[t] \in Settled => status'[t] = status[t]
  /\ \A w \in Waiter : ticket[w] # Nil => ticket'[w] = ticket[w]
  /\ \A w \in Waiter : outcome[w] # "none" => Answers'[w] = Answers[w]

LEMMA WaitKeeps == Inv /\ [Next]_vars => Kept
<1> SUFFICES ASSUME Inv, [Next]_vars
             PROVE  Kept
  OBVIOUS
<1>1. [Wait!WaitNext]_(Wait!waitVars)
  BY StepWaits
<1>2. /\ status \in [Ticket -> Settled \cup {"none", "queued"}]
      /\ ticket \in [Waiter -> Ticket \cup {Nil}]
  BY DEF Inv, TypeOK
<1>3. \A w \in Waiter : outcome[w] # "none" => Answers[w] # "none"
  BY DEF Inv, TypeOK, Answers, ToldAs, Settled, AfterMatch
<1>4. Answers = [w \in Waiter |-> Answers[w]]
  BY DEF Answers
<1>5. ASSUME NEW w \in Waiter, NEW how, Wait!End(w, how)
      PROVE  \A x \in Waiter : outcome[x] # "none" => Answers'[x] = Answers[x]
  <2>1. Answers[w] = "none" /\ Answers' = [Answers EXCEPT ![w] = how]
    BY <1>5 DEF Wait!End, Answers
  <2> QED
    BY <1>3, <1>4, <2>1
<1>6. ASSUME Wait!waitVars' = Wait!waitVars
      PROVE  Kept
  BY <1>6 DEF Wait!waitVars, Kept, Answers
<1>7. ASSUME NEW t \in Ticket, Wait!Settle(t)
      PROVE  Kept
  <2>1. UNCHANGED <<ticket, Answers>>
    BY <1>7 DEF Wait!Settle, Answers
  <2> QED
    BY <1>2, <1>7, <2>1 DEF Wait!Settle, Wait!Become, Kept, Settled
<1>8. ASSUME NEW w \in Waiter, NEW t \in Ticket, Wait!Obtain(w, t)
      PROVE  Kept
  <2>1. PICK how : Wait!Create(t, how)
    BY <1>8 DEF Wait!Obtain
  <2>2. \A u \in Ticket : status[u] \in Settled => status'[u] = status[u]
    BY <1>2, <2>1 DEF Wait!Create, Wait!Become, Settled
  <2>3. UNCHANGED Answers \/ \E h : Wait!End(w, h)
    BY <1>8 DEF Wait!Obtain, Answers
  <2>4. \A x \in Waiter : ticket[x] # Nil => ticket'[x] = ticket[x]
    BY <1>2, <1>8 DEF Wait!Obtain
  <2> QED
    BY <1>5, <2>2, <2>3, <2>4 DEF Kept
<1>9. ASSUME NEW w \in Waiter,
             \/ Wait!Answer(w) \/ Wait!GiveUp(w) \/ Wait!Withdraw(w)
             \/ \E t \in Ticket : Wait!Lose(w, t)
      PROVE  Kept
  <2>1. UNCHANGED ticket /\ \E how : Wait!End(w, how)
    BY <1>9 DEF Wait!Answer, Wait!GiveUp, Wait!Withdraw, Wait!Lose
  <2>2. \A u \in Ticket : status[u] \in Settled => status'[u] = status[u]
    BY <1>2, <1>9 DEF Wait!Answer, Wait!GiveUp, Wait!Withdraw, Wait!Lose,
                      Wait!Create, Wait!Become, Settled
  <2> QED
    BY <1>5, <2>1, <2>2 DEF Kept
<1> QED
  BY <1>1, <1>6, <1>7, <1>8, <1>9 DEF Wait!WaitNext

(* A ticket that has settled stays so, a call keeps the ticket it got, and *)
(* how it ended is never told otherwise: what OutcomeIsTrue says of an     *)
(* answer stays true for good.                                             *)
THEOREM NothingTakenBack == Spec => [][Kept]_vars
<1>1. Inv /\ [Next]_vars => [Kept]_vars
  BY WaitKeeps
<1> QED
  BY <1>1, InitInv, InvStep, PTL DEF Spec
=============================================================================
