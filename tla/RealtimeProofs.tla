--------------------------- MODULE RealtimeProofs ---------------------------
(***************************************************************************)
(* Proofs about Realtime, for any number of readers, closers and sockets   *)
(* and any reconnection budget.                                            *)
(***************************************************************************)
EXTENDS Realtime, TLAPS

Reconnecting == {"attempt", "sleep", "dial", "adopt"}

(* One reader at a time is inside ReadMessage; it holds the client's       *)
(* socket, which is closed once a reconnection has begun.                  *)
ReaderInv ==
  \A r \in Reader :
    /\ pc[r] \notin {"idle", "waiting"} <=> readMu = r
    /\ pc[r] \notin {"idle", "waiting", "top"} => cur[r] \in Socket
    /\ pc[r] \in Reconnecting => sock[cur[r]] = "closed"
    /\ pc[r] = "adopt" => next[r] \in Socket

(* An open socket is the client's, is being closed, or has just been       *)
(* dialled; a closed client has none of its own.                           *)
SocketInv ==
  /\ closed => conn = Nil
  /\ \A k \in Socket : sock[k] = "open" =>
       \/ k = conn
       \/ \E c \in Closer : closing[c] = k
       \/ \E r \in Reader : pc[r] = "adopt" /\ next[r] = k

(* Every dial was paid for by an attempt counted before its wait.  When    *)
(* the budget is about to be renewed none has been made since the          *)
(* connection grew old: the reader that made one still reconnects, and     *)
(* makes the connection young again or closes the client.                  *)
Retrying == Reconnecting \cup {"reconnect", "mark"}

BudgetInv ==
  /\ dials <= count
  /\ stable /\ ~closed /\ dials > 0 => \E r \in Reader : pc[r] \in Retrying
  /\ \A r \in Reader :
       /\ pc[r] = "sleep" => dials < count
       /\ pc[r] = "attempt" => attempt[r] = count + 1
       /\ pc[r] \in {"sleep", "dial", "adopt"} => attempt[r] = count

Inv == TypeOK /\ ReaderInv /\ ReadsCurrent /\ SocketInv /\ BudgetInv

LEMMA InitInv == Init => Inv
<1> SUFFICES ASSUME Init
             PROVE  Inv
  OBVIOUS
<1>1. First \in Socket
  BY SocketAssumption DEF First
<1>2. TypeOK
  <2>1. sock \in [Socket -> {"new", "open", "dropped", "closed"}]
    BY DEF Init
  <2>2. doneCloses = IF closed THEN 1 ELSE 0
    BY DEF Init
  <2>3. attempt \in [Reader -> 0..(MaxAttempts + 1)] /\ count \in 0..MaxAttempts
    BY AttemptsAssumption DEF Init
  <2> QED
    BY <1>1, <2>1, <2>2, <2>3 DEF Init, TypeOK, Labels
<1>3. SocketInv
  BY <1>1 DEF Init, SocketInv
<1>4. ReaderInv /\ ReadsCurrent /\ BudgetInv
  BY SocketAssumption DEF Init, ReaderInv, ReadsCurrent, BudgetInv, Reconnecting
<1> QED
  BY <1>2, <1>3, <1>4 DEF Inv

LEMMA InvStep == Inv /\ [Next]_vars => Inv'
<1> SUFFICES ASSUME Inv, [Next]_vars
             PROVE  Inv'
  OBVIOUS
<1> USE SocketAssumption, AttemptsAssumption
    DEF Inv, TypeOK, ReaderInv, ReadsCurrent, SocketInv, BudgetInv, Labels,
        Reconnecting, Retrying, client, readers, Goto, Return, Shut, CloseDone
<1>1. ASSUME NEW r \in Reader,
             Call(r) \/ Acquire(r) \/ Receive(r) \/ ReadCancelled(r)
      PROVE  Inv'
  <2>1. CASE Call(r)
    BY <2>1 DEF Call
  <2>2. CASE Acquire(r)
    BY <2>2 DEF Acquire
  <2>3. CASE Receive(r)
    BY <2>3 DEF Receive
  <2>4. CASE ReadCancelled(r)
    BY <2>4 DEF ReadCancelled
  <2> QED
    BY <1>1, <2>1, <2>2, <2>3, <2>4
<1>2. ASSUME NEW r \in Reader, ReadStep(r)
      PROVE  Inv'
  <2>1. CASE FindClosed(r)
    BY <2>1 DEF FindClosed
  <2>2. CASE StartRead(r)
    BY <2>2 DEF StartRead
  <2>3. CASE ReadFails(r)
    BY <2>3 DEF ReadFails
  <2>4. CASE shouldReconnect(r)
    BY <2>4 DEF shouldReconnect, Renewed, Exhausted
  <2>5. CASE StartReconnect(r)
    BY <2>5 DEF StartReconnect
  <2>6. CASE StartAttempt(r)
    BY <2>6 DEF StartAttempt
  <2>7. CASE Slept(r)
    BY <2>7 DEF Slept
  <2>8. CASE SleepInterrupted(r)
    BY <2>8 DEF SleepInterrupted
  <2>9. CASE Adopt(r)
    <3>1. TypeOK'
      <4>1. pc[r] = "adopt" /\ pc' = [pc EXCEPT ![r] = "top"]
        BY <2>9 DEF Adopt
      <4>2. conn' \in Socket /\ count' = count /\ hooks' = hooks + 1
        BY <2>9, <4>1 DEF Adopt
      <4>3. UNCHANGED <<closed, doneCloses, readMu, cur, next, attempt, closing,
                        sock, dials>>
        BY <2>9 DEF Adopt
      <4>4. stable' \in BOOLEAN
        BY <2>9 DEF Adopt
      <4> QED
        BY <4>1, <4>2, <4>3, <4>4
    <3>2. ReaderInv'
      BY <2>9 DEF Adopt
    <3>3. ReadsCurrent'
      BY <2>9 DEF Adopt
    <3>4. SocketInv'
      BY <2>9 DEF Adopt
    <3>5. BudgetInv'
      BY <2>9 DEF Adopt
    <3> QED
      BY <3>1, <3>2, <3>3, <3>4, <3>5
  <2>10. CASE AdoptAfterClose(r)
    BY <2>10 DEF AdoptAfterClose
  <2>11. CASE markClosed(r)
    BY <2>11 DEF markClosed
  <2> QED
    BY <1>2, <2>1, <2>2, <2>3, <2>4, <2>5, <2>6, <2>7, <2>8, <2>9,
       <2>10, <2>11 DEF ReadStep
<1>3. ASSUME NEW r \in Reader, DialStep(r)
      PROVE  Inv'
  <2>1. CASE DialFailed(r)
    BY <2>1 DEF DialFailed
  <2>2. ASSUME NEW k \in Socket, Dialled(r, k)
        PROVE  Inv'
    BY <2>2 DEF Dialled
  <2> QED
    BY <1>3, <2>1, <2>2 DEF DialStep
<1>4. ASSUME NEW c \in Closer, CloseTake(c) \/ CloseSocket(c)
      PROVE  Inv'
  <2>1. CASE CloseTake(c)
    BY <2>1 DEF CloseTake
  <2>2. CASE CloseSocket(c)
    BY <2>2 DEF CloseSocket
  <2> QED
    BY <1>4, <2>1, <2>2
<1>5. ASSUME NEW k \in Socket, Drop(k)
      PROVE  Inv'
  BY <1>5 DEF Drop
<1>6. CASE GrowOld
  BY <1>6 DEF GrowOld
<1>7. CASE UNCHANGED vars
  BY <1>7 DEF vars
<1> QED
  BY <1>1, <1>2, <1>3, <1>4, <1>5, <1>6, <1>7 DEF Next

(* The invariant holds from the start on. *)
LEMMA InvAlways == Spec => []Inv
BY InitInv, InvStep, PTL DEF Spec

(* done is closed once, and no reader is where its socket or its attempts  *)
(* do not allow it.                                                        *)
THEOREM RealtimeTypes == Spec => []TypeOK
<1>1. Inv => TypeOK
  BY SocketAssumption, AttemptsAssumption
     DEF Inv, TypeOK, SocketInv, BudgetInv
<1> QED
  BY <1>1, InvAlways, PTL

(* Close leaves no socket behind, also when it comes while a reader is     *)
(* dialling.                                                               *)
THEOREM ClosesSockets == Spec => []NoLeak
<1>1. Inv => NoLeak
  BY SocketAssumption DEF Inv, TypeOK, SocketInv, NoLeak
<1> QED
  BY <1>1, InvAlways, PTL

(* A reader never reads a socket that has been replaced.                   *)
THEOREM ReadsInstalled == Spec => []ReadsCurrent
<1>1. Inv => ReadsCurrent
  BY DEF Inv
<1> QED
  BY <1>1, InvAlways, PTL

(* A server that accepts and drops is dialled at most MaxAttempts times    *)
(* before 30 seconds pass without a new connection.                        *)
THEOREM DialsBounded == Spec => []DialBudget
<1>1. Inv => DialBudget
  BY AttemptsAssumption DEF Inv, TypeOK, BudgetInv, DialBudget
<1> QED
  BY <1>1, InvAlways, PTL

-----------------------------------------------------------------------------
(* How Close gets the readers out.                                         *)

(* The steps a reader of a closed client can still take.  It may have been *)
(* closed anywhere in a reconnection, before the wait of any attempt.      *)
RoundsLeft(r) == 3 * (MaxAttempts + 1 - attempt[r])

StepsLeft(r) ==
  IF pc[r] = "idle" THEN 0
  ELSE IF pc[r] \in {"top", "mark"} THEN 1
  ELSE IF pc[r] \in {"waiting", "decide", "adopt"} THEN 2
  ELSE IF pc[r] = "reading" THEN 3
  ELSE IF pc[r] = "dial" THEN RoundsLeft(r)
  ELSE IF pc[r] = "sleep" THEN RoundsLeft(r) + 1
  ELSE IF pc[r] = "attempt" THEN RoundsLeft(r) + 2
  ELSE 3 * MaxAttempts + 3

Untouched(r) == pc'[r] = pc[r] /\ attempt'[r] = attempt[r]

(* A step of a reader of a closed client uses one of them up, or more, and *)
(* no other step adds any.                                                 *)
LEMMA ClosedMovesOn ==
  ASSUME Inv, Next, closed, NEW r \in Reader, pc[r] # "idle"
  PROVE  Untouched(r) \/ StepsLeft(r)' < StepsLeft(r)
<1> USE AttemptsAssumption DEF Untouched, StepsLeft, RoundsLeft, Goto, Return
<1>1. /\ MaxAttempts \in Nat /\ count \in 0..MaxAttempts
      /\ pc \in [Reader -> Labels]
      /\ attempt \in [Reader -> 0..(MaxAttempts + 1)]
      /\ pc[r] \in {"sleep", "dial"} => attempt[r] <= MaxAttempts
  BY DEF Inv, TypeOK, BudgetInv
<1>2. ASSUME NEW x \in Reader, x # r,
             \/ Call(x) \/ Acquire(x) \/ ReadStep(x) \/ DialStep(x)
             \/ Receive(x) \/ ReadCancelled(x)
      PROVE  Untouched(r)
  BY <1>1, <1>2 DEF Call, Acquire, Receive, ReadCancelled, ReadStep, DialStep,
     FindClosed, StartRead, ReadFails, shouldReconnect, StartReconnect,
     StartAttempt, Slept, SleepInterrupted, Adopt, AdoptAfterClose, markClosed,
     DialFailed, Dialled, readers
<1>3. CASE Call(r) \/ Acquire(r) \/ Receive(r) \/ ReadCancelled(r)
  BY <1>1, <1>3 DEF Call, Acquire, Receive, ReadCancelled, Labels
<1>4. CASE ReadStep(r)
  <2>1. CASE FindClosed(r) \/ StartRead(r) \/ ReadFails(r)
    BY <1>1, <2>1 DEF FindClosed, StartRead, ReadFails
  <2>2. CASE shouldReconnect(r)
    BY <1>1, <2>2 DEF shouldReconnect
  <2>3. CASE StartReconnect(r)
    BY <1>1, <2>3 DEF StartReconnect
  <2>4. CASE StartAttempt(r)
    BY <1>1, <2>4 DEF StartAttempt
  <2>5. CASE Slept(r) \/ SleepInterrupted(r)
    BY <1>1, <2>5 DEF Slept, SleepInterrupted
  <2>6. CASE Adopt(r) \/ AdoptAfterClose(r) \/ markClosed(r)
    BY <1>1, <2>6 DEF Adopt, AdoptAfterClose, markClosed
  <2> QED
    BY <1>4, <2>1, <2>2, <2>3, <2>4, <2>5, <2>6 DEF ReadStep
<1>5. CASE DialStep(r)
  BY <1>1, <1>5 DEF DialStep, DialFailed, Dialled
<1>6. ASSUME NEW c \in Closer, CloseTake(c) \/ CloseSocket(c)
      PROVE  Untouched(r)
  BY <1>6 DEF CloseTake, CloseSocket, readers
<1>7. ASSUME NEW k \in Socket, Drop(k)
      PROVE  Untouched(r)
  BY <1>7 DEF Drop, readers
<1>8. CASE GrowOld
  BY <1>8 DEF GrowOld, readers
<1> QED
  BY <1>2, <1>3, <1>4, <1>5, <1>6, <1>7, <1>8 DEF Next

(* Once the client is closed, a ReadMessage wherever it stands has a       *)
(* bounded number of steps left, and every one it takes brings it closer   *)
(* to its return: it starts no read and no reconnection.                   *)
THEOREM ClosedReadersEnd ==
  Spec => [][closed => \A r \in Reader :
               pc[r] # "idle" =>
                 Untouched(r) \/ StepsLeft(r)' < StepsLeft(r)]_vars
<1>1. Inv /\ [Next]_vars =>
        [closed => \A r \in Reader :
           pc[r] # "idle" =>
             Untouched(r) \/ StepsLeft(r)' < StepsLeft(r)]_vars
  BY ClosedMovesOn
<1> QED
  BY <1>1, InvAlways, PTL DEF Spec
=============================================================================
