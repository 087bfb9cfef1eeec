----------------------------- MODULE TicketWait -----------------------------
(***************************************************************************)
(* What a player's game may believe about its waits for a match, whatever  *)
(* pushes, polls, sockets and other devices did underneath:                *)
(*   - a wait has one ticket, created for it while none of the player's    *)
(*     was in the queue; it never goes on with another one, and a ticket   *)
(*     that has settled stays as it is;                                    *)
(*   - a wait ends once, with what became of its own ticket;               *)
(*   - or withdrawn, its ticket out of the queue for good;                 *)
(*   - or unknown: its ticket may still be matched.                        *)
(***************************************************************************)
CONSTANTS Waiter, Ticket, Nil

VARIABLES
  status,   \* of each ticket, "none" before it is created
  own,      \* the ticket of each wait, or Nil
  answer    \* how each wait ended, "none" before

waitVars == <<status, own, answer>>

Ended == {"matched", "failed", "cancelled"}

WaitInit ==
  /\ status = [t \in Ticket |-> "none"]
  /\ own = [w \in Waiter |-> Nil]
  /\ answer = [w \in Waiter |-> "none"]

Become(t, how) == status' = [status EXCEPT ![t] = how]

Create(t, how) ==
  /\ status[t] = "none"
  /\ \A u \in Ticket : status[u] # "queued"
  /\ Become(t, how)

End(w, how) ==
  /\ answer[w] = "none"
  /\ answer' = [answer EXCEPT ![w] = how]

Obtain(w, t) ==
  /\ own[w] = Nil /\ answer[w] = "none"
  /\ own' = [own EXCEPT ![w] = t]
  /\ \/ Create(t, "queued") /\ UNCHANGED answer
     \/ \E how \in Ended : Create(t, how) /\ End(w, how)

(* The ticket is created, and the wait never learns of it. *)
Lose(w, t) ==
  /\ own[w] = Nil
  /\ Create(t, "queued")
  /\ End(w, "unknown")
  /\ UNCHANGED own

Settle(t) ==
  /\ status[t] = "queued"
  /\ \E how \in Ended : Become(t, how)
  /\ UNCHANGED <<own, answer>>

Answer(w) ==
  /\ own[w] # Nil
  /\ status[own[w]] \in Ended
  /\ End(w, status[own[w]])
  /\ UNCHANGED <<status, own>>

Withdraw(w) ==
  /\ own[w] # Nil
  /\ \/ status[own[w]] = "queued" /\ Become(own[w], "cancelled")
     \/ status[own[w]] \in Ended /\ UNCHANGED status
  /\ End(w, "withdrawn")
  /\ UNCHANGED own

GiveUp(w) ==
  /\ End(w, "unknown")
  /\ UNCHANGED <<status, own>>

WaitNext ==
  \/ \E w \in Waiter :
       \/ Answer(w) \/ Withdraw(w) \/ GiveUp(w)
       \/ \E t \in Ticket : Obtain(w, t) \/ Lose(w, t)
  \/ \E t \in Ticket : Settle(t)

WaitSpec == WaitInit /\ [][WaitNext]_waitVars
=============================================================================
