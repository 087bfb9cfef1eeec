---------------------------- MODULE SessionChain ----------------------------
(***************************************************************************)
(* What a game relies on when many goroutines share one Client.  The       *)
(* installed session is a cell that changes in three ways only:            *)
(*   - a refresh is a compare-and-swap: it replaces the very session whose *)
(*     refresh token was exchanged, never a login that came in between;    *)
(*   - a login installs the session it obtained from the server, or the    *)
(*     one an OfflineAuth keeps;                                           *)
(*   - logging out, disabling or deleting the player, and the end of the   *)
(*     process, clear it.                                                  *)
(* A session of the server enters the cell at most once, so a call that    *)
(* saw its token rejected never meets that token again.  An OfflineAuth's  *)
(* enters as often as the game logs in with it, and is never exchanged.    *)
(***************************************************************************)
CONSTANTS
  Session,
  Offline,   \* the sessions OfflineAuths keep, a part of Session
  Nil

VARIABLES
  current,   \* the installed session, or Nil
  issued,    \* the sessions that exist
  pending,   \* those on their way from the server to the cell
  parent     \* parent[s]: the session exchanged for s, Nil if s is a login's

chainVars == <<current, issued, pending, parent>>

ChainInit ==
  /\ current = Nil
  /\ issued = Offline
  /\ pending = {}
  /\ parent = [s \in Session |-> Nil]

(* The server answers a login (p = Nil) or a refresh of the session p. *)
Issue(s, p) ==
  /\ s \notin issued
  /\ p \in (issued \ Offline) \cup {Nil}
  /\ issued' = issued \cup {s}
  /\ pending' = pending \cup {s}
  /\ parent' = [parent EXCEPT ![s] = p]
  /\ UNCHANGED current

Rotate(s) ==
  /\ s \in pending
  /\ current # Nil
  /\ parent[s] = current
  /\ current' = s
  /\ pending' = pending \ {s}
  /\ UNCHANGED <<issued, parent>>

Install(s) ==
  /\ s \in pending
  /\ parent[s] = Nil
  /\ current' = s
  /\ pending' = pending \ {s}
  /\ UNCHANGED <<issued, parent>>

InstallOffline(s) ==
  /\ s \in Offline
  /\ current' = s
  /\ UNCHANGED <<issued, pending, parent>>

Clear ==
  /\ current' = Nil
  /\ UNCHANGED <<issued, pending, parent>>

(* The process ends: what it held in memory is gone. *)
Restart ==
  /\ current' = Nil
  /\ pending' = {}
  /\ UNCHANGED <<issued, parent>>

ChainNext ==
  \/ \E s \in Session, p \in Session \cup {Nil} : Issue(s, p)
  \/ \E s \in Session : Rotate(s) \/ Install(s) \/ InstallOffline(s)
  \/ Clear
  \/ Restart

ChainSpec == ChainInit /\ [][ChainNext]_chainVars
=============================================================================
