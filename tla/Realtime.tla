------------------------------ MODULE Realtime ------------------------------
(***************************************************************************)
(* A RealtimeClient: goroutines in ReadMessage, one at a time under        *)
(* readMu, which reconnect after a retryable closure; goroutines in Close; *)
(* the OnRealtimeReconnect hook, which runs in a goroutine of its own and  *)
(* may use the client again; and the server, which drops sockets and keeps *)
(* one per player.                                                         *)
(***************************************************************************)
EXTENDS Naturals

CONSTANTS
  Reader,       \* goroutines that call ReadMessage
  Hook,         \* the reader that is the reconnect hook
  Closer,       \* goroutines that call Close
  Socket,       \* sockets that can be opened: bounds the dials that succeed
  Nil,
  MaxAttempts   \* ReconnectPolicy.MaxAttempts, 0 when Disabled

ASSUME HookAssumption == Hook \in Reader
ASSUME SocketAssumption == Socket # {} /\ Nil \notin Socket \cup Reader
ASSUME AttemptsAssumption == MaxAttempts \in Nat

VARIABLES
  conn, closed,   \* RealtimeClient.conn and .closed, under mu
  doneCloses,     \* how often close(done) was called: twice is a panic
  count,          \* reconnectCount
  stable,         \* stableRealtimeConnection has passed since connectedAt
  readMu,         \* the reader in ReadMessage, or Nil
  pc,             \* where each reader stands
  cur,            \* the socket it reads, then the one that failed
  next,           \* the socket it has just dialled
  attempt,        \* its reconnection attempt
  closing,        \* the socket each closer has taken and has yet to close
  hooks,          \* hook goroutines started and not yet running
  sock,           \* "new", "open", "dropped" by the server, "closed" by us
  dials           \* dials since stable last turned TRUE

client  == <<conn, closed, doneCloses, count, stable>>
readers == <<readMu, pc, cur, next, attempt>>
vars    == <<client, readers, closing, hooks, sock, dials>>

First == CHOOSE k \in Socket : TRUE

(* DialRealtime has just succeeded. *)
Init ==
  /\ conn = First
  /\ closed = FALSE
  /\ doneCloses = 0
  /\ count = 0
  /\ stable = FALSE
  /\ readMu = Nil
  /\ pc = [r \in Reader |-> "idle"]
  /\ cur = [r \in Reader |-> Nil]
  /\ next = [r \in Reader |-> Nil]
  /\ attempt = [r \in Reader |-> 0]
  /\ closing = [c \in Closer |-> Nil]
  /\ hooks = 0
  /\ sock = [k \in Socket |-> IF k = First THEN "open" ELSE "new"]
  /\ dials = 0

Goto(r, label) == pc' = [pc EXCEPT ![r] = label]

Shut(k) == sock' = [sock EXCEPT ![k] = "closed"]

(* ReadMessage returns and gives readMu back. *)
Return(r) ==
  /\ Goto(r, "idle")
  /\ readMu' = Nil
  /\ cur' = [cur EXCEPT ![r] = Nil]
  /\ next' = [next EXCEPT ![r] = Nil]
  /\ attempt' = [attempt EXCEPT ![r] = 0]

-----------------------------------------------------------------------------
(* ReadMessage. *)

Call(r) ==
  /\ pc[r] = "idle"
  /\ IF r = Hook THEN hooks > 0 /\ hooks' = hooks - 1 ELSE UNCHANGED hooks
  /\ Goto(r, "waiting")
  /\ UNCHANGED <<client, readMu, cur, next, attempt, closing, sock, dials>>

Acquire_Unserialized(r) ==
  /\ pc[r] = "waiting"
  /\ readMu' = r
  /\ Goto(r, "top")
  /\ UNCHANGED <<client, cur, next, attempt, closing, hooks, sock, dials>>

Acquire(r) ==
  /\ pc[r] = "waiting"
  /\ readMu = Nil
  /\ readMu' = r
  /\ Goto(r, "top")
  /\ UNCHANGED <<client, cur, next, attempt, closing, hooks, sock, dials>>

(* The top of the loop looks at conn and closed under mu. *)
FindClosed(r) ==
  /\ pc[r] = "top"
  /\ conn = Nil \/ closed
  /\ Return(r)
  /\ UNCHANGED <<client, closing, hooks, sock, dials>>

StartRead(r) ==
  /\ pc[r] = "top"
  /\ conn # Nil /\ ~closed
  /\ cur' = [cur EXCEPT ![r] = conn]
  /\ Goto(r, "reading")
  /\ UNCHANGED <<client, readMu, next, attempt, closing, hooks, sock, dials>>

(* A message, well formed or not. *)
Receive(r) ==
  /\ pc[r] = "reading"
  /\ sock[cur[r]] = "open"
  /\ Return(r)
  /\ UNCHANGED <<client, closing, hooks, sock, dials>>

(* The caller's context ends: the read returns its error, and the library  *)
(* may have torn the socket down.                                          *)
ReadCancelled(r) ==
  /\ pc[r] = "reading"
  /\ \/ UNCHANGED sock
     \/ sock[cur[r]] = "open" /\ sock' = [sock EXCEPT ![cur[r]] = "dropped"]
  /\ Return(r)
  /\ UNCHANGED <<client, closing, hooks, dials>>

ReadFails(r) ==
  /\ pc[r] = "reading"
  /\ sock[cur[r]] \in {"dropped", "closed"}
  /\ Goto(r, "decide")
  /\ UNCHANGED <<client, readMu, cur, next, attempt, closing, hooks, sock,
                 dials>>

(* shouldReconnect: a connection made long enough ago renews the budget;   *)
(* the close code decides when the budget is not used up.                  *)
Renewed == ~closed /\ stable

Exhausted == (IF Renewed THEN 0 ELSE count) >= MaxAttempts

shouldReconnect(r) ==
  /\ pc[r] = "decide"
  /\ count' = IF Renewed THEN 0 ELSE count
  /\ \/ Goto(r, "mark")
     \/ ~closed /\ ~Exhausted /\ Goto(r, "reconnect")
  /\ UNCHANGED <<conn, closed, doneCloses, stable, readMu, cur, next, attempt,
                 closing, hooks, sock, dials>>

(* reconnect: the failed socket is closed; each attempt is counted before  *)
(* its wait.                                                               *)
StartReconnect(r) ==
  /\ pc[r] = "reconnect"
  /\ Shut(cur[r])
  /\ attempt' = [attempt EXCEPT ![r] = count + 1]
  /\ Goto(r, "attempt")
  /\ UNCHANGED <<client, readMu, cur, next, closing, hooks, dials>>

StartAttempt(r) ==
  /\ pc[r] = "attempt"
  /\ IF attempt[r] <= MaxAttempts
       THEN count' = attempt[r] /\ Goto(r, "sleep")
       ELSE UNCHANGED count /\ Goto(r, "mark")
  /\ UNCHANGED <<conn, closed, doneCloses, stable, readMu, cur, next, attempt,
                 closing, hooks, sock, dials>>

(* The wait ends: by its timer, or early because the client was closed,    *)
(* the context ended or the wait does not fit the context's deadline.      *)
Slept(r) ==
  /\ pc[r] = "sleep"
  /\ dials' = dials + 1
  /\ Goto(r, "dial")
  /\ UNCHANGED <<client, readMu, cur, next, attempt, closing, hooks, sock>>

SleepInterrupted(r) ==
  /\ pc[r] = "sleep"
  /\ Goto(r, "mark")
  /\ UNCHANGED <<client, readMu, cur, next, attempt, closing, hooks, sock,
                 dials>>

(* The server accepts the dial and closes the player's older socket. *)
Dialled(r, k) ==
  /\ pc[r] = "dial"
  /\ sock[k] = "new"
  /\ sock' = [x \in Socket |-> IF x = k THEN "open"
                               ELSE IF sock[x] = "open" THEN "dropped"
                               ELSE sock[x]]
  /\ next' = [next EXCEPT ![r] = k]
  /\ Goto(r, "adopt")
  /\ UNCHANGED <<client, readMu, cur, attempt, closing, hooks, dials>>

(* The dial fails, or times out: try again, or give up on a status that no *)
(* retry cures.                                                            *)
DialFailed(r) ==
  /\ pc[r] = "dial"
  /\ \/ Goto(r, "attempt") /\ attempt' = [attempt EXCEPT ![r] = @ + 1]
     \/ Goto(r, "mark") /\ UNCHANGED attempt
  /\ UNCHANGED <<client, readMu, cur, next, closing, hooks, sock, dials>>

Adopt_Unchecked(r) ==
  /\ pc[r] = "adopt"
  /\ conn' = next[r]
  /\ stable' = FALSE
  /\ count' = attempt[r]
  /\ hooks' = hooks + 1
  /\ Goto(r, "top")
  /\ UNCHANGED <<closed, doneCloses, readMu, cur, next, attempt, closing,
                 sock, dials>>

Adopt_Renews(r) ==
  /\ pc[r] = "adopt"
  /\ ~closed
  /\ conn' = next[r]
  /\ stable' = FALSE
  /\ count' = 0
  /\ hooks' = hooks + 1
  /\ Goto(r, "top")
  /\ UNCHANGED <<closed, doneCloses, readMu, cur, next, attempt, closing,
                 sock, dials>>

(* The new socket becomes the client's, and the hook is started ...        *)
Adopt(r) ==
  /\ pc[r] = "adopt"
  /\ ~closed
  /\ conn' = next[r]
  /\ stable' = FALSE
  /\ count' = attempt[r]
  /\ hooks' = hooks + 1
  /\ Goto(r, "top")
  /\ UNCHANGED <<closed, doneCloses, readMu, cur, next, attempt, closing,
                 sock, dials>>

(* ... unless Close came first: then the new socket is closed at once.     *)
AdoptAfterClose(r) ==
  /\ pc[r] = "adopt"
  /\ closed
  /\ Shut(next[r])
  /\ Goto(r, "mark")
  /\ UNCHANGED <<client, readMu, cur, next, attempt, closing, hooks, dials>>

CloseDone_Always ==
  /\ closed' = TRUE
  /\ doneCloses' = doneCloses + 1

(* The first to close the client closes done. *)
CloseDone ==
  /\ closed' = TRUE
  /\ doneCloses' = IF closed THEN doneCloses ELSE doneCloses + 1

markClosed(r) ==
  /\ pc[r] = "mark"
  /\ conn' = IF conn = cur[r] THEN Nil ELSE conn
  /\ CloseDone
  /\ Shut(cur[r])
  /\ Return(r)
  /\ UNCHANGED <<count, stable, closing, hooks, dials>>

-----------------------------------------------------------------------------
(* Close: under mu, then the socket outside it. *)
CloseTake(c) ==
  /\ closing[c] = Nil
  /\ closing' = [closing EXCEPT ![c] = conn]
  /\ conn' = Nil
  /\ CloseDone
  /\ UNCHANGED <<count, stable, readers, hooks, sock, dials>>

CloseSocket_Forgotten(c) ==
  /\ closing[c] # Nil
  /\ closing' = [closing EXCEPT ![c] = Nil]
  /\ UNCHANGED <<client, readers, hooks, sock, dials>>

CloseSocket(c) ==
  /\ closing[c] # Nil
  /\ Shut(closing[c])
  /\ closing' = [closing EXCEPT ![c] = Nil]
  /\ UNCHANGED <<client, readers, hooks, dials>>

(* The server drops a socket. *)
Drop(k) ==
  /\ sock[k] = "open"
  /\ sock' = [sock EXCEPT ![k] = "dropped"]
  /\ UNCHANGED <<client, readers, closing, hooks, dials>>

(* stableRealtimeConnection passes since the client connected.  The clock  *)
(* does not ask whether the socket still stands, or whether a reader has   *)
(* noticed that it does not.                                               *)
GrowOld ==
  /\ conn # Nil
  /\ ~stable
  /\ stable' = TRUE
  /\ dials' = 0
  /\ UNCHANGED <<conn, closed, doneCloses, count, readers, closing, hooks,
                 sock>>

-----------------------------------------------------------------------------
ReadStep(r) ==
  \/ FindClosed(r) \/ StartRead(r) \/ ReadFails(r) \/ shouldReconnect(r)
  \/ StartReconnect(r) \/ StartAttempt(r) \/ Slept(r) \/ SleepInterrupted(r)
  \/ Adopt(r) \/ AdoptAfterClose(r) \/ markClosed(r)

DialStep(r) == DialFailed(r) \/ \E k \in Socket : Dialled(r, k)

Next ==
  \/ \E r \in Reader : Call(r) \/ Acquire(r) \/ ReadStep(r) \/ DialStep(r)
                         \/ Receive(r) \/ ReadCancelled(r)
  \/ \E c \in Closer : CloseTake(c) \/ CloseSocket(c)
  \/ \E k \in Socket : Drop(k)
  \/ GrowOld

Spec == Init /\ [][Next]_vars

(* Goroutines run, a dial ends within the handshake timeout, and a Mutex   *)
(* starves no waiter.  Nothing obliges the server to send a message.       *)
Fairness ==
  /\ \A r \in Reader : WF_vars(ReadStep(r)) /\ WF_vars(DialStep(r))
                         /\ SF_vars(Acquire(r))
  /\ \A c \in Closer : WF_vars(CloseSocket(c))

FairSpec == Spec /\ Fairness

-----------------------------------------------------------------------------
(* Properties.                                                             *)

Labels == {"idle", "waiting", "top", "reading", "decide", "reconnect",
           "attempt", "sleep", "dial", "adopt", "mark"}

(* Types; close(done) happens at most once (a second one panics).          *)
TypeOK ==
  /\ conn \in Socket \cup {Nil}
  /\ closed \in BOOLEAN
  /\ doneCloses = IF closed THEN 1 ELSE 0
  /\ count \in 0..MaxAttempts
  /\ stable \in BOOLEAN
  /\ readMu \in Reader \cup {Nil}
  /\ pc \in [Reader -> Labels]
  /\ cur \in [Reader -> Socket \cup {Nil}]
  /\ next \in [Reader -> Socket \cup {Nil}]
  /\ attempt \in [Reader -> 0..(MaxAttempts + 1)]
  /\ closing \in [Closer -> Socket \cup {Nil}]
  /\ hooks \in Nat
  /\ sock \in [Socket -> {"new", "open", "dropped", "closed"}]
  /\ dials \in Nat

(* Nothing stays open behind a closed client: a Close that comes while a   *)
(* reader is dialling still closes the socket of that dial.                *)
NoLeak ==
  closed => \A k \in Socket :
    sock[k] = "open" =>
      \/ \E c \in Closer : closing[c] = k
      \/ \E r \in Reader : pc[r] = "adopt" /\ next[r] = k

(* Readers never read, or mourn, a socket that has been replaced: as long  *)
(* as the client is open, the socket a reader holds is the client's own.   *)
ReadsCurrent ==
  \A r \in Reader :
    pc[r] \notin {"idle", "waiting", "top"} => closed \/ cur[r] = conn

(* A server that accepts and drops the client again and again, or refuses  *)
(* it, gets at most MaxAttempts dials out of it, over any number of        *)
(* reconnections and ReadMessage calls, before 30 seconds pass in which    *)
(* the client does not connect anew.                                       *)
DialBudget == dials <= MaxAttempts

(* After Close every blocked ReadMessage returns, also when it was waiting *)
(* for the other one, sleeping or dialling.                                *)
CloseReleasesReaders ==
  \A r \in Reader : closed /\ pc[r] # "idle" ~> pc[r] = "idle"
=============================================================================
