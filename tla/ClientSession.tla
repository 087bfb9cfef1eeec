--------------------------- MODULE ClientSession ---------------------------
(***************************************************************************)
(* The session of a Client shared by many goroutines: the read/write lock  *)
(* around it, callProtected and DialRealtime with their refresh before the *)
(* request and their single refresh and retry after a 401, Login, Logout,  *)
(* SetSession(nil), Disable and RequestDelete, and the OnSessionUpdate     *)
(* hook that writes the session to the store AnonymousAuth loads at the    *)
(* next start.                                                             *)
(*                                                                         *)
(* A session is a member of Session: it stands for its access token, its   *)
(* refresh token and its expiry.  The server's part is what src/ relies    *)
(* on: a refresh consumes the refresh token it is given.  An OfflineAuth   *)
(* makes its session itself and brings the same one at every Login.        *)
(***************************************************************************)
EXTENDS Naturals

CONSTANTS
  Caller,     \* goroutines that use the client
  Session,    \* sessions there can be: bounds logins plus refreshes
  Offline,    \* those of them that OfflineAuths generated
  Nil,        \* no session, no lock holder
  Persist,    \* TRUE iff OnSessionUpdate = AnonymousAuth.SaveSession
  MaxCrash    \* bound on process restarts

ASSUME NilAssumption == Nil \notin Caller \cup Session
ASSUME OfflineAssumption == Offline \subseteq Session
ASSUME PersistAssumption == Persist \in BOOLEAN
ASSUME MaxCrashAssumption == MaxCrash \in Nat

VARIABLES
  session,     \* Client.session
  lock,        \* who holds sessionMu for writing across a step, or Nil
  pc, op,      \* where each caller stands, and in which method
  failed,      \* access token of this call's first, rejected attempt, or Nil
  attached,    \* access token attached to the latest attempt
  token,       \* session whose refresh token the caller sent or will send
  note,        \* value the caller installs or hands to OnSessionUpdate
  store,       \* persisted session, or Nil when absent or unreadable
  issued,      \* sessions issued so far, by the server or an OfflineAuth
  parent,      \* server: parent[s] was exchanged for s, Nil after a login
  live,        \* server: sessions whose refresh token is accepted
  rejected,    \* server: sessions whose access token is answered 401
  refreshable, \* sessions issued with a refresh token
  window,      \* sessions the client's clock sees in the refresh window
  crashes

memory == <<session, lock, pc, op, failed, attached, token, note>>
server == <<issued, parent, live, rejected, refreshable>>
vars   == <<memory, store, server, window, crashes>>

Known == issued \cup {Nil}

FromServer == Session \ Offline

PC == {"idle", "window", "lock", "refreshing", "replied", "notify", "attach",
       "sending", "mint", "install", "announce", "logout", "check"}

Method == {"call", "disable", "login", "anonymous", "logout", "set"}

(* Types, and the two places where the code dereferences the session: a    *)
(* request carries a session and a refresh carries a refresh token.        *)
TypeOK ==
  /\ session \in Known
  /\ lock \in Caller \cup {Nil}
  /\ pc \in [Caller -> PC]
  /\ op \in [Caller -> Method]
  /\ failed \in [Caller -> Known]
  /\ attached \in [Caller -> Known]
  /\ token \in [Caller -> Known]
  /\ note \in [Caller -> Known]
  /\ store \in Known
  /\ Offline \subseteq issued /\ issued \subseteq Session
  /\ parent \in [Session -> Known]
  /\ live \subseteq issued
  /\ rejected \subseteq issued
  /\ refreshable \subseteq issued \ Offline
  /\ window \subseteq issued
  /\ crashes \in 0..MaxCrash
  /\ \A c \in Caller :
       /\ pc[c] = "sending" => attached[c] # Nil
       /\ pc[c] \in {"refreshing", "replied"} => token[c] \in refreshable

Init ==
  /\ session = Nil
  /\ lock = Nil
  /\ pc = [c \in Caller |-> "idle"]
  /\ op = [c \in Caller |-> "call"]
  /\ failed = [c \in Caller |-> Nil]
  /\ attached = [c \in Caller |-> Nil]
  /\ token = [c \in Caller |-> Nil]
  /\ note = [c \in Caller |-> Nil]
  /\ store = Nil
  /\ issued = Offline
  /\ parent = [s \in Session |-> Nil]
  /\ live = {}
  /\ rejected = {}
  /\ refreshable = {}
  /\ window = {}
  /\ crashes = 0

-----------------------------------------------------------------------------
(* Steps of a caller.  Each reads or writes the session under sessionMu,   *)
(* so it needs the lock free; only refreshUnderLock keeps it for longer.   *)

Free == lock = Nil

Goto(c, label) == pc' = [pc EXCEPT ![c] = label]

Start(c, method, label) ==
  /\ pc[c] = "idle"
  /\ op' = [op EXCEPT ![c] = method]
  /\ Goto(c, label)

(* The method returns: its locals are gone. *)
Return(c) ==
  /\ Goto(c, "idle")
  /\ op' = [op EXCEPT ![c] = "call"]
  /\ failed' = [failed EXCEPT ![c] = Nil]
  /\ attached' = [attached EXCEPT ![c] = Nil]
  /\ token' = [token EXCEPT ![c] = Nil]
  /\ note' = [note EXCEPT ![c] = Nil]

locals == <<failed, attached, token, note>>

(* What is left of the method is a SetSession(s). *)
GoOnToSet(c, s) ==
  /\ Goto(c, "install")
  /\ op' = [op EXCEPT ![c] = "set"]
  /\ failed' = [failed EXCEPT ![c] = Nil]
  /\ attached' = [attached EXCEPT ![c] = Nil]
  /\ token' = [token EXCEPT ![c] = Nil]
  /\ note' = [note EXCEPT ![c] = s]

(* A service method is called (callProtected), or one that clears the      *)
(* session when the server has agreed (Disable, RequestDelete).            *)
(* DialRealtime is a call too: dialRealtime has the same refresh before    *)
(* the WebSocket handshake, and the same single refresh and second         *)
(* handshake after a 401.                                                  *)
StartCall(c) ==
  /\ \E method \in {"call", "disable"} : Start(c, method, "window")
  /\ UNCHANGED <<session, lock, locals, store, server, window, crashes>>

(* The session can be refreshed and its access token is about to expire. *)
Stale == session \in refreshable \cap window

(* refreshIfNeeded looks at the session under the read lock. *)
CheckWindow(c) ==
  /\ pc[c] = "window"
  /\ Free
  /\ Goto(c, IF Stale THEN "lock" ELSE "attach")
  /\ UNCHANGED <<session, lock, op, locals, store, server, window, crashes>>

(* refreshUnderLock under the write lock.  After a 401 (failed[c] # Nil)   *)
(* the rejected token must still be the installed one; before the request  *)
(* the window is checked again.                                            *)
Superseded_Unchecked(c) == FALSE

Superseded(c) == failed[c] # Nil /\ session # Nil /\ session # failed[c]

MustRefresh(c) == IF failed[c] = Nil THEN Stale
                  ELSE ~Superseded(c) /\ session \in refreshable

SkipRefresh_IgnoresForce(c) ==
  /\ pc[c] = "lock"
  /\ Free
  /\ ~Stale
  /\ Goto(c, "attach")
  /\ UNCHANGED <<session, lock, op, locals, store, server, window, crashes>>

SkipRefresh(c) ==
  /\ pc[c] = "lock"
  /\ Free
  /\ Superseded(c) \/ (failed[c] = Nil /\ ~MustRefresh(c))
  /\ Goto(c, "attach")
  /\ UNCHANGED <<session, lock, op, locals, store, server, window, crashes>>

(* Nothing to refresh with: the call returns its 401. *)
RefuseRefresh(c) ==
  /\ pc[c] = "lock"
  /\ Free
  /\ failed[c] # Nil /\ ~Superseded(c) /\ ~MustRefresh(c)
  /\ Return(c)
  /\ UNCHANGED <<session, lock, store, server, window, crashes>>

(* Auth.Refresh is called with the write lock held. *)
SendRefresh_Unlocked(c) ==
  /\ pc[c] = "lock"
  /\ Free
  /\ MustRefresh(c)
  /\ token' = [token EXCEPT ![c] = session]
  /\ Goto(c, "refreshing")
  /\ UNCHANGED <<session, lock, op, failed, attached, note, store, server,
                 window, crashes>>

SendRefresh(c) ==
  /\ pc[c] = "lock"
  /\ Free
  /\ MustRefresh(c)
  /\ lock' = c
  /\ token' = [token EXCEPT ![c] = session]
  /\ Goto(c, "refreshing")
  /\ UNCHANGED <<session, op, failed, attached, note, store, server, window,
                 crashes>>

(* The refreshed session replaces the installed one; the lock is released  *)
(* and only then is OnSessionUpdate called.                                *)
InstallRefresh_NotKept(c) ==
  /\ pc[c] = "replied"
  /\ note[c] # Nil
  /\ lock' = Nil
  /\ Goto(c, "notify")
  /\ UNCHANGED <<session, op, locals, store, server, window, crashes>>

InstallRefresh_Unannounced(c) ==
  /\ pc[c] = "replied"
  /\ note[c] # Nil
  /\ session' = note[c]
  /\ lock' = Nil
  /\ Goto(c, "attach")
  /\ UNCHANGED <<op, locals, store, server, window, crashes>>

InstallRefresh(c) ==
  /\ pc[c] = "replied"
  /\ note[c] # Nil
  /\ session' = note[c]
  /\ lock' = Nil
  /\ Goto(c, "notify")
  /\ UNCHANGED <<op, locals, store, server, window, crashes>>

(* The refresh failed: its error, or the 401 it was meant to cure, is      *)
(* returned.                                                               *)
AbandonRefresh_KeepsLock(c) ==
  /\ pc[c] = "replied"
  /\ note[c] = Nil
  /\ Return(c)
  /\ UNCHANGED <<session, lock, store, server, window, crashes>>

AbandonRefresh(c) ==
  /\ pc[c] = "replied"
  /\ note[c] = Nil
  /\ lock' = Nil
  /\ Return(c)
  /\ UNCHANGED <<session, store, server, window, crashes>>

(* SaveSession, called as OnSessionUpdate: writes or removes the file. *)
Save(c) == store' = IF Persist THEN note[c] ELSE store

NotifyRefresh(c) ==
  /\ pc[c] = "notify"
  /\ Save(c)
  /\ token' = [token EXCEPT ![c] = Nil]
  /\ note' = [note EXCEPT ![c] = Nil]
  /\ Goto(c, "attach")
  /\ UNCHANGED <<session, lock, op, failed, attached, server, window, crashes>>

AttachSession_NoNilCheck(c) ==
  /\ pc[c] = "attach"
  /\ Free
  /\ attached' = [attached EXCEPT ![c] = session]
  /\ Goto(c, "sending")
  /\ UNCHANGED <<session, lock, op, failed, token, note, store, server,
                 window, crashes>>

AttachSession(c) ==
  /\ pc[c] = "attach"
  /\ Free
  /\ session # Nil
  /\ attached' = [attached EXCEPT ![c] = session]
  /\ Goto(c, "sending")
  /\ UNCHANGED <<session, lock, op, failed, token, note, store, server,
                 window, crashes>>

(* "no session - call Login or SetSession first" *)
AttachNothing(c) ==
  /\ pc[c] = "attach"
  /\ Free
  /\ session = Nil
  /\ Return(c)
  /\ UNCHANGED <<session, lock, store, server, window, crashes>>

(* The request is answered, the connection upgraded; a Disable or          *)
(* RequestDelete goes on to clear the session the server has just revoked. *)
CallAccepted(c) ==
  /\ pc[c] = "sending"
  /\ attached[c] \notin rejected
  /\ op[c] = "call"
  /\ Return(c)
  /\ UNCHANGED <<session, lock, store, server, window, crashes>>

DisableAccepted(c) ==
  /\ pc[c] = "sending"
  /\ attached[c] \notin rejected
  /\ op[c] = "disable"
  /\ live' = live \ {attached[c]}
  /\ rejected' = rejected \cup {attached[c]}
  /\ GoOnToSet(c, Nil)
  /\ UNCHANGED <<session, lock, store, issued, parent, refreshable, window,
                 crashes>>

(* 401 to the first attempt: refresh, then retry; to the second: return. *)
CallUnauthorized(c) ==
  /\ pc[c] = "sending"
  /\ attached[c] \in rejected
  /\ failed[c] = Nil
  /\ failed' = [failed EXCEPT ![c] = attached[c]]
  /\ Goto(c, "lock")
  /\ UNCHANGED <<session, lock, op, attached, token, note, store, server,
                 window, crashes>>

CallUnauthorizedAgain(c) ==
  /\ pc[c] = "sending"
  /\ attached[c] \in rejected
  /\ failed[c] # Nil
  /\ Return(c)
  /\ UNCHANGED <<session, lock, store, server, window, crashes>>

(* Any other error of the request, the call timeout included. *)
CallFailed(c) ==
  /\ pc[c] = "sending"
  /\ Return(c)
  /\ UNCHANGED <<session, lock, store, server, window, crashes>>

(* SetSession: assign under the lock, call OnSessionUpdate outside it. *)
SetSession(c) ==
  /\ pc[c] = "install"
  /\ Free
  /\ session' = note[c]
  /\ Goto(c, "announce")
  /\ UNCHANGED <<lock, op, locals, store, server, window, crashes>>

NotifySet(c) ==
  /\ pc[c] = "announce"
  /\ Save(c)
  /\ Return(c)
  /\ UNCHANGED <<session, lock, server, window, crashes>>

(* SetSession(nil) called by the game. *)
StartClear(c) ==
  /\ pc[c] = "idle"
  /\ GoOnToSet(c, Nil)
  /\ UNCHANGED <<session, lock, store, server, window, crashes>>

(* Login with an AnonymousAuth that keeps a file: a saved session with a   *)
(* refresh token is used as it is, otherwise a player is registered.       *)
Loadable == store \in refreshable

StartAnonymous(c) ==
  /\ Persist
  /\ IF Loadable THEN pc[c] = "idle" /\ GoOnToSet(c, store)
     ELSE Start(c, "anonymous", "mint") /\ UNCHANGED locals
  /\ UNCHANGED <<session, lock, store, server, window, crashes>>

(* Login with an OfflineAuth: no request, always the same session. *)
StartOffline(c, s) ==
  /\ s \in Offline
  /\ pc[c] = "idle"
  /\ GoOnToSet(c, s)
  /\ UNCHANGED <<session, lock, store, server, window, crashes>>

(* Login with an Authenticator that asks the server, an AnonymousAuth      *)
(* without a file among them.                                              *)
StartLogin(c) ==
  /\ Start(c, "login", "mint")
  /\ UNCHANGED <<session, lock, locals, store, server, window, crashes>>

(* The server issues s in exchange for the refresh token of p (Nil: for a  *)
(* login).                                                                 *)
Issue(s, p) ==
  /\ s \notin issued
  /\ issued' = issued \cup {s}
  /\ parent' = [parent EXCEPT ![s] = p]
  /\ UNCHANGED rejected

LoginAnswered(c, s) ==
  /\ pc[c] = "mint"
  /\ Issue(s, Nil)
  /\ live' = live \cup {s}
  /\ refreshable' = refreshable \cup {s}
  /\ store' = IF Persist /\ op[c] = "anonymous" THEN s ELSE store
  /\ GoOnToSet(c, s)
  /\ UNCHANGED <<session, lock, window, crashes>>

LoginFailed(c) ==
  /\ pc[c] = "mint"
  /\ Return(c)
  /\ UNCHANGED <<session, lock, store, server, window, crashes>>

(* Auth.Logout of the refresh token of s, this device's or another's. *)
StartLogout(c, s) ==
  /\ s \in refreshable
  /\ Start(c, "logout", "logout")
  /\ token' = [token EXCEPT ![c] = s]
  /\ UNCHANGED <<session, lock, failed, attached, note, store, server, window,
                 crashes>>

LogoutAnswered(c) ==
  /\ pc[c] = "logout"
  /\ live' = live \ {token[c]}
  /\ Goto(c, "check")
  /\ UNCHANGED <<session, lock, op, locals, store, issued, parent, rejected,
                 refreshable, window, crashes>>

LogoutFailed(c) ==
  /\ pc[c] = "logout"
  /\ Return(c)
  /\ UNCHANGED <<session, lock, store, server, window, crashes>>

(* Session() is read under one lock, SetSession(nil) takes another. *)
LogoutCheck(c) ==
  /\ pc[c] = "check"
  /\ Free
  /\ IF session = token[c] THEN GoOnToSet(c, Nil) ELSE Return(c)
  /\ UNCHANGED <<session, lock, store, server, window, crashes>>

-----------------------------------------------------------------------------
(* The server, the clock and the end of the process.                       *)

(* A refresh consumes its refresh token and issues a new session. *)
RefreshGranted(c, s) ==
  /\ pc[c] = "refreshing"
  /\ token[c] \in live
  /\ Issue(s, token[c])
  /\ live' = (live \ {token[c]}) \cup {s}
  /\ refreshable' = refreshable \cup {s}
  /\ note' = [note EXCEPT ![c] = s]
  /\ Goto(c, "replied")
  /\ UNCHANGED <<session, lock, op, failed, attached, token, store, window,
                 crashes>>

(* The answer is an error.  When it is a lost answer or a timeout the      *)
(* server may have consumed the refresh token all the same.                *)
RefreshFailed(c) ==
  /\ pc[c] = "refreshing"
  /\ live' \in {live, live \ {token[c]}}
  /\ Goto(c, "replied")
  /\ UNCHANGED <<session, lock, op, locals, store, issued, parent, rejected,
                 refreshable, window, crashes>>

(* The access token of s nears its expiry (an OfflineAuth's lives for a    *)
(* century), is refused from now on; the refresh token of s is revoked     *)
(* (ChangePassword, another device).                                       *)
EnterWindow(s) ==
  /\ s \in issued \ (window \cup Offline)
  /\ window' = window \cup {s}
  /\ UNCHANGED <<memory, store, server, crashes>>

RejectAccess(s) ==
  /\ s \in issued \ rejected
  /\ rejected' = rejected \cup {s}
  /\ UNCHANGED <<memory, store, issued, parent, live, refreshable, window,
                 crashes>>

RevokeRefresh(s) ==
  /\ s \in live
  /\ live' = live \ {s}
  /\ UNCHANGED <<memory, store, issued, parent, rejected, refreshable, window,
                 crashes>>

(* The process is killed and started again.  A session file that was being *)
(* written is left truncated, which loadSessionFile takes for none.        *)
Crash ==
  /\ crashes < MaxCrash
  /\ crashes' = crashes + 1
  /\ session' = Nil
  /\ lock' = Nil
  /\ pc' = [c \in Caller |-> "idle"]
  /\ op' = [c \in Caller |-> "call"]
  /\ failed' = [c \in Caller |-> Nil]
  /\ attached' = [c \in Caller |-> Nil]
  /\ token' = [c \in Caller |-> Nil]
  /\ note' = [c \in Caller |-> Nil]
  /\ \/ UNCHANGED store
     \/ /\ Persist
        /\ \E c \in Caller : pc[c] \in {"notify", "announce"}
        /\ store' = Nil
  /\ UNCHANGED <<server, window>>

-----------------------------------------------------------------------------
CallStep(c) ==
  \/ CheckWindow(c) \/ SkipRefresh(c) \/ RefuseRefresh(c) \/ SendRefresh(c)
  \/ InstallRefresh(c) \/ AbandonRefresh(c) \/ NotifyRefresh(c)
  \/ AttachSession(c) \/ AttachNothing(c)
  \/ SetSession(c) \/ NotifySet(c) \/ LogoutCheck(c)

Answer(c) ==
  \/ CallAccepted(c) \/ DisableAccepted(c) \/ CallUnauthorized(c)
  \/ CallUnauthorizedAgain(c) \/ CallFailed(c)
  \/ \E s \in Session : LoginAnswered(c, s) \/ RefreshGranted(c, s)
  \/ LoginFailed(c) \/ LogoutAnswered(c) \/ LogoutFailed(c)
  \/ RefreshFailed(c)

Begin(c) ==
  \/ StartCall(c) \/ StartClear(c) \/ StartAnonymous(c) \/ StartLogin(c)
  \/ \E s \in Session : StartOffline(c, s) \/ StartLogout(c, s)

Environment ==
  \/ \E s \in Session : EnterWindow(s) \/ RejectAccess(s) \/ RevokeRefresh(s)
  \/ Crash

Next ==
  \/ \E c \in Caller : Begin(c) \/ CallStep(c) \/ Answer(c)
  \/ Environment

Spec == Init /\ [][Next]_vars

(* Every request is answered or times out (CallTimeout), a goroutine that  *)
(* can run does, and sync.RWMutex lets no waiter starve.                   *)
Fairness == \A c \in Caller : SF_vars(CallStep(c)) /\ WF_vars(Answer(c))

FairSpec == Spec /\ Fairness

-----------------------------------------------------------------------------
(* Properties.                                                             *)

(* A session obtained by a refresh was obtained for the session that is    *)
(* installed, so storing it cannot undo a Login, a Logout or another       *)
(* caller's refresh that happened meanwhile (refreshUnderLock).            *)
RotationFromCurrent ==
  \A c \in Caller :
    pc[c] = "replied" /\ note[c] # Nil => parent[note[c]] = session

(* A refresh token is rotated only for a session about to expire or for    *)
(* one whose own access token this call saw rejected: a late 401 against   *)
(* the previous token never rotates its successor.                         *)
JustifiedRefresh ==
  \A c \in Caller :
    pc[c] = "refreshing" =>
      IF failed[c] = Nil THEN token[c] \in window
      ELSE token[c] = failed[c] /\ failed[c] \in rejected

(* The retry after a 401 never carries the access token that was rejected, *)
(* unless it is one that an OfflineAuth has brought back in the meantime.  *)
FreshRetry ==
  \A c \in Caller :
    pc[c] = "sending" /\ failed[c] \in FromServer => attached[c] # failed[c]

(* A refresh token the server has exchanged, the new session being known   *)
(* to the client, is never presented again by any goroutine: a server that *)
(* treats reuse as theft never sees it.                                    *)
NoReplay ==
  \A c \in Caller :
    pc[c] = "refreshing" => \A s \in issued : parent[s] # token[c]

(* The sessions of the server a caller holds and has still to install. *)
Obtained == {s \in FromServer : \E c \in Caller :
               pc[c] \in {"replied", "install"} /\ note[c] = s}

Chain == INSTANCE SessionChain WITH current <- session, pending <- Obtained

(* Without a store the client is the cell of SessionChain: a refresh is a  *)
(* compare-and-swap, and a session of the server is installed at most      *)
(* once; an OfflineAuth's returns with every Login.                        *)
ImplementsChain == Chain!ChainSpec

(* With one goroutine, the store is behind the memory only while the       *)
(* notification of that very change is under way (and ahead of it only     *)
(* while Login is installing what it saved), or after a restart, before    *)
(* the next Login.                                                         *)
StoreLag ==
  \/ store = session
  \/ session = Nil /\ crashes > 0
  \/ \E c \in Caller :
       \/ pc[c] \in {"notify", "announce"} /\ note[c] = session
       \/ pc[c] = "install" /\ note[c] \in {store, Nil}

(* Every method returns, whatever the server answers: each goroutine is    *)
(* out of the client's methods again and again.                            *)
CallsReturn == \A c \in Caller : []<>(pc[c] = "idle")

(* "SetSession(nil), Auth.Disable, and Auth.Logout revoke the persisted    *)
(* identity as well as clearing memory" (SaveSession): when everything has *)
(* returned and no session is installed, none is on disk.                  *)
Quiescent == \A c \in Caller : pc[c] = "idle"

ClearedOnDisk == Quiescent /\ session = Nil => store = Nil
=============================================================================
