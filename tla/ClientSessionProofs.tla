------------------------ MODULE ClientSessionProofs ------------------------
(***************************************************************************)
(* Proofs about ClientSession, for every set of goroutines and sessions.   *)
(***************************************************************************)
EXTENDS ClientSession, TLAPS

-----------------------------------------------------------------------------
(* Type correctness, with the two dereferences: no step of the client      *)
(* attaches a session that is not there or sends a refresh token it does   *)
(* not have.                                                               *)
THEOREM TypeCorrect == Spec => []TypeOK
<1>1. Init => TypeOK
  BY OfflineAssumption, MaxCrashAssumption DEF Init, TypeOK, PC, Method, Known
<1>2. TypeOK /\ [Next]_vars => TypeOK'
  <2> SUFFICES ASSUME TypeOK, [Next]_vars
               PROVE  TypeOK'
    OBVIOUS
  <2> USE NilAssumption, OfflineAssumption, MaxCrashAssumption
      DEF TypeOK, PC, Method, Known, server, locals, Goto, GoOnToSet, Return,
          Start, Free
  <2>1. ASSUME NEW c \in Caller, Begin(c)
        PROVE  TypeOK'
    <3>1. CASE StartCall(c)
      BY <3>1 DEF StartCall
    <3>2. CASE StartClear(c)
      BY <3>2 DEF StartClear
    <3>3. CASE StartAnonymous(c)
      BY <3>3 DEF StartAnonymous, Loadable
    <3>4. CASE StartLogin(c)
      BY <3>4 DEF StartLogin
    <3>5. ASSUME NEW s \in Session, StartOffline(c, s) \/ StartLogout(c, s)
          PROVE  TypeOK'
      BY <3>5 DEF StartOffline, StartLogout
    <3> QED
      BY <2>1, <3>1, <3>2, <3>3, <3>4, <3>5 DEF Begin
  <2>2. ASSUME NEW c \in Caller, CallStep(c)
        PROVE  TypeOK'
    <3>1. CASE CheckWindow(c)
      BY <3>1 DEF CheckWindow
    <3>2. CASE SkipRefresh(c)
      BY <3>2 DEF SkipRefresh
    <3>3. CASE RefuseRefresh(c)
      BY <3>3 DEF RefuseRefresh
    <3>4. CASE SendRefresh(c)
      BY <3>4 DEF SendRefresh, MustRefresh, Stale
    <3>5. CASE InstallRefresh(c)
      BY <3>5 DEF InstallRefresh
    <3>6. CASE AbandonRefresh(c)
      BY <3>6 DEF AbandonRefresh
    <3>7. CASE NotifyRefresh(c)
      BY <3>7 DEF NotifyRefresh, Save
    <3>8. CASE AttachSession(c)
      BY <3>8 DEF AttachSession
    <3>9. CASE AttachNothing(c)
      BY <3>9 DEF AttachNothing
    <3>10. CASE SetSession(c)
      BY <3>10 DEF SetSession
    <3>11. CASE NotifySet(c)
      BY <3>11 DEF NotifySet, Save
    <3>12. CASE LogoutCheck(c)
      BY <3>12 DEF LogoutCheck
    <3> QED
      BY <2>2, <3>1, <3>2, <3>3, <3>4, <3>5, <3>6, <3>7, <3>8, <3>9, <3>10,
         <3>11, <3>12 DEF CallStep
  <2>3. ASSUME NEW c \in Caller, Answer(c)
        PROVE  TypeOK'
    <3>1. CASE CallAccepted(c)
      BY <3>1 DEF CallAccepted
    <3>2. CASE DisableAccepted(c)
      BY <3>2 DEF DisableAccepted
    <3>3. CASE CallUnauthorized(c)
      BY <3>3 DEF CallUnauthorized
    <3>4. CASE CallUnauthorizedAgain(c)
      BY <3>4 DEF CallUnauthorizedAgain
    <3>5. CASE CallFailed(c)
      BY <3>5 DEF CallFailed
    <3>6. ASSUME NEW s \in Session, LoginAnswered(c, s)
          PROVE  TypeOK'
      BY <3>6 DEF LoginAnswered, Issue
    <3>7. ASSUME NEW s \in Session, RefreshGranted(c, s)
          PROVE  TypeOK'
      BY <3>7 DEF RefreshGranted, Issue
    <3>8. CASE LoginFailed(c)
      BY <3>8 DEF LoginFailed
    <3>9. CASE LogoutAnswered(c)
      BY <3>9 DEF LogoutAnswered
    <3>10. CASE LogoutFailed(c)
      BY <3>10 DEF LogoutFailed
    <3>11. CASE RefreshFailed(c)
      BY <3>11 DEF RefreshFailed
    <3> QED
      BY <2>3, <3>1, <3>2, <3>3, <3>4, <3>5, <3>6, <3>7, <3>8, <3>9, <3>10,
         <3>11 DEF Answer
  <2>4. CASE Environment
    <3>1. ASSUME NEW s \in Session,
                 EnterWindow(s) \/ RejectAccess(s) \/ RevokeRefresh(s)
          PROVE  TypeOK'
      BY <3>1 DEF EnterWindow, RejectAccess, RevokeRefresh, memory
    <3>2. CASE Crash
      BY <3>2 DEF Crash
    <3> QED
      BY <2>4, <3>1, <3>2 DEF Environment
  <2>5. CASE UNCHANGED vars
    BY <2>5 DEF vars, memory
  <2> QED
    BY <2>1, <2>2, <2>3, <2>4, <2>5 DEF Next
<1> QED
  BY <1>1, <1>2, PTL DEF Spec

-----------------------------------------------------------------------------
(* A caller holds a session to install or to announce in these steps only. *)
NoteInv ==
  \A c \in Caller :
    pc[c] \notin {"replied", "notify", "install", "announce"} => note[c] = Nil

(* The write lock is held exactly while a refresh is under way, and the    *)
(* session it exchanges stays installed for that time.  A token counted as *)
(* failed was rejected by the server.                                      *)
RefreshInv ==
  /\ \A c \in Caller :
       /\ pc[c] \in {"refreshing", "replied"} <=> lock = c
       /\ lock = c => token[c] = session
       /\ failed[c] # Nil => failed[c] \in rejected
  /\ NoteInv
  /\ RotationFromCurrent
  /\ JustifiedRefresh

LEMMA RefreshInvStep == TypeOK /\ RefreshInv /\ [Next]_vars => RefreshInv'
<1> SUFFICES ASSUME TypeOK, RefreshInv, [Next]_vars
             PROVE  RefreshInv'
  OBVIOUS
<1> USE NilAssumption, OfflineAssumption
    DEF TypeOK, Known, PC, RefreshInv, NoteInv, RotationFromCurrent,
        JustifiedRefresh, server, locals, Goto, GoOnToSet, Return, Start,
        Free
<1>1. ASSUME NEW c \in Caller, Begin(c)
      PROVE  RefreshInv'
  <2>1. CASE StartCall(c)
    BY <2>1 DEF StartCall
  <2>2. CASE StartClear(c)
    BY <2>2 DEF StartClear
  <2>3. CASE StartAnonymous(c)
    BY <2>3 DEF StartAnonymous, Loadable
  <2>4. CASE StartLogin(c)
    BY <2>4 DEF StartLogin
  <2>5. ASSUME NEW s \in Session, StartOffline(c, s) \/ StartLogout(c, s)
        PROVE  RefreshInv'
    BY <2>5 DEF StartOffline, StartLogout
  <2> QED
    BY <1>1, <2>1, <2>2, <2>3, <2>4, <2>5 DEF Begin
<1>2. ASSUME NEW c \in Caller, CallStep(c)
      PROVE  RefreshInv'
  <2>1. CASE CheckWindow(c)
    BY <2>1 DEF CheckWindow
  <2>2. CASE SkipRefresh(c)
    BY <2>2 DEF SkipRefresh
  <2>3. CASE RefuseRefresh(c)
    BY <2>3 DEF RefuseRefresh
  <2>4. CASE SendRefresh(c)
    BY <2>4 DEF SendRefresh, MustRefresh, Stale, Superseded
  <2>5. CASE InstallRefresh(c)
    BY <2>5 DEF InstallRefresh
  <2>6. CASE AbandonRefresh(c)
    BY <2>6 DEF AbandonRefresh
  <2>7. CASE NotifyRefresh(c)
    BY <2>7 DEF NotifyRefresh, Save
  <2>8. CASE AttachSession(c)
    BY <2>8 DEF AttachSession
  <2>9. CASE AttachNothing(c)
    BY <2>9 DEF AttachNothing
  <2>10. CASE SetSession(c)
    BY <2>10 DEF SetSession
  <2>11. CASE NotifySet(c)
    BY <2>11 DEF NotifySet, Save
  <2>12. CASE LogoutCheck(c)
    BY <2>12 DEF LogoutCheck
  <2> QED
    BY <1>2, <2>1, <2>2, <2>3, <2>4, <2>5, <2>6, <2>7, <2>8, <2>9, <2>10,
       <2>11, <2>12 DEF CallStep
<1>3. ASSUME NEW c \in Caller, Answer(c)
      PROVE  RefreshInv'
  <2>1. CASE CallAccepted(c)
    BY <2>1 DEF CallAccepted
  <2>2. CASE DisableAccepted(c)
    BY <2>2 DEF DisableAccepted
  <2>3. CASE CallUnauthorized(c)
    BY <2>3 DEF CallUnauthorized
  <2>4. CASE CallUnauthorizedAgain(c)
    BY <2>4 DEF CallUnauthorizedAgain
  <2>5. CASE CallFailed(c)
    BY <2>5 DEF CallFailed
  <2>6. ASSUME NEW s \in Session, LoginAnswered(c, s)
        PROVE  RefreshInv'
    BY <2>6 DEF LoginAnswered, Issue
  <2>7. ASSUME NEW s \in Session, RefreshGranted(c, s)
        PROVE  RefreshInv'
    BY <2>7 DEF RefreshGranted, Issue
  <2>8. CASE LoginFailed(c)
    BY <2>8 DEF LoginFailed
  <2>9. CASE LogoutAnswered(c)
    BY <2>9 DEF LogoutAnswered
  <2>10. CASE LogoutFailed(c)
    BY <2>10 DEF LogoutFailed
  <2>11. CASE RefreshFailed(c)
    BY <2>11 DEF RefreshFailed
  <2> QED
    BY <1>3, <2>1, <2>2, <2>3, <2>4, <2>5, <2>6, <2>7, <2>8, <2>9, <2>10,
       <2>11 DEF Answer
<1>4. CASE Environment
  <2>1. ASSUME NEW s \in Session,
               EnterWindow(s) \/ RejectAccess(s) \/ RevokeRefresh(s)
        PROVE  RefreshInv'
    BY <2>1 DEF EnterWindow, RejectAccess, RevokeRefresh, memory
  <2>2. CASE Crash
    BY <2>2 DEF Crash
  <2> QED
    BY <1>4, <2>1, <2>2 DEF Environment
<1>5. CASE UNCHANGED vars
  BY <1>5 DEF vars, memory
<1> QED
  BY <1>1, <1>2, <1>3, <1>4, <1>5 DEF Next

(* The strengthening holds from the start on. *)
LEMMA RefreshInvAlways == Spec => []RefreshInv
<1>1. Init => RefreshInv
  BY NilAssumption DEF Init, RefreshInv, NoteInv, RotationFromCurrent,
                       JustifiedRefresh
<1> QED
  BY <1>1, RefreshInvStep, TypeCorrect, PTL DEF Spec

(* A refreshed session replaces the very session whose token was exchanged *)
(* for it, for any number of goroutines, logins and restarts.              *)
THEOREM RotatesCurrent == Spec => []RotationFromCurrent
<1>1. RefreshInv => RotationFromCurrent
  BY DEF RefreshInv
<1> QED
  BY <1>1, RefreshInvAlways, PTL

(* Every refresh token the client sends is justified: the session is about *)
(* to expire, or was rejected for this very call.                          *)
THEOREM RefreshesJustified == Spec => []JustifiedRefresh
<1>1. RefreshInv => JustifiedRefresh
  BY DEF RefreshInv
<1> QED
  BY <1>1, RefreshInvAlways, PTL

-----------------------------------------------------------------------------
(* Without a store, a session of the server enters the cell once.  One     *)
(* that a caller is about to install has never been installed, attached or *)
(* rejected, is in no other caller's hands and has no successor.           *)
Holds(c, s) == pc[c] \in {"replied", "install"} /\ note[c] = s

UnseenInv ==
  \A c \in Caller : \A s \in FromServer :
    Holds(c, s) =>
      /\ s # session
      /\ \A d \in Caller : failed[d] # s /\ attached[d] # s
      /\ \A d \in Caller : Holds(d, s) => d = c
      /\ \A t \in Session : parent[t] # s
      /\ pc[c] = "install" => parent[s] = Nil

(* After a rejection the installed session is another one from the refresh *)
(* on; the installed session has a successor only while the caller that    *)
(* refreshed it has the answer in hand.                                    *)
FreshInv ==
  /\ store = Nil
  /\ UnseenInv
  /\ FreshRetry
  /\ \A c \in Caller :
       /\ pc[c] \in {"idle", "window"} => failed[c] = Nil
       /\ pc[c] \in {"notify", "attach", "sending"} /\ failed[c] \in FromServer
            => session # failed[c]
       /\ pc[c] = "replied" => note[c] \in FromServer \cup {Nil}
  /\ \A t \in Session :
       session \in FromServer /\ parent[t] = session
         => \E c \in Caller : pc[c] = "replied" /\ note[c] = t
  /\ NoReplay

LEMMA FreshInvStep ==
  ASSUME ~Persist
  PROVE  TypeOK /\ RefreshInv /\ FreshInv /\ [Next]_vars => FreshInv'
<1> SUFFICES ASSUME TypeOK, RefreshInv, FreshInv, [Next]_vars
             PROVE  FreshInv'
  OBVIOUS
<1> USE NilAssumption, OfflineAssumption
    DEF TypeOK, Known, PC, RefreshInv, NoteInv, RotationFromCurrent,
        FreshInv, Holds, UnseenInv, FreshRetry, NoReplay, FromServer,
        server, locals, Goto, GoOnToSet, Return, Start,
        Free
<1>1. ASSUME NEW c \in Caller, Begin(c)
      PROVE  FreshInv'
  <2>1. CASE StartCall(c)
    BY <2>1 DEF StartCall
  <2>2. CASE StartClear(c)
    BY <2>2 DEF StartClear
  <2>3. CASE StartAnonymous(c)
    BY <2>3 DEF StartAnonymous, Loadable
  <2>4. CASE StartLogin(c)
    BY <2>4 DEF StartLogin
  <2>5. ASSUME NEW s \in Session, StartOffline(c, s) \/ StartLogout(c, s)
        PROVE  FreshInv'
    BY <2>5 DEF StartOffline, StartLogout
  <2> QED
    BY <1>1, <2>1, <2>2, <2>3, <2>4, <2>5 DEF Begin
<1>2. ASSUME NEW c \in Caller, CallStep(c)
      PROVE  FreshInv'
  <2>1. CASE CheckWindow(c)
    BY <2>1 DEF CheckWindow
  <2>2. CASE SkipRefresh(c)
    BY <2>2 DEF SkipRefresh, Superseded
  <2>3. CASE RefuseRefresh(c)
    BY <2>3 DEF RefuseRefresh
  <2>4. CASE SendRefresh(c)
    BY <2>4 DEF SendRefresh, MustRefresh, Stale, Superseded
  <2>5. CASE InstallRefresh(c)
    BY <2>5 DEF InstallRefresh
  <2>6. CASE AbandonRefresh(c)
    BY <2>6 DEF AbandonRefresh
  <2>7. CASE NotifyRefresh(c)
    BY <2>7 DEF NotifyRefresh, Save
  <2>8. CASE AttachSession(c)
    BY <2>8 DEF AttachSession
  <2>9. CASE AttachNothing(c)
    BY <2>9 DEF AttachNothing
  <2>10. CASE SetSession(c)
    BY <2>10 DEF SetSession
  <2>11. CASE NotifySet(c)
    BY <2>11 DEF NotifySet, Save
  <2>12. CASE LogoutCheck(c)
    BY <2>12 DEF LogoutCheck
  <2> QED
    BY <1>2, <2>1, <2>2, <2>3, <2>4, <2>5, <2>6, <2>7, <2>8, <2>9, <2>10,
       <2>11, <2>12 DEF CallStep
<1>3. ASSUME NEW c \in Caller, Answer(c)
      PROVE  FreshInv'
  <2>1. CASE CallAccepted(c)
    BY <2>1 DEF CallAccepted
  <2>2. CASE DisableAccepted(c)
    BY <2>2 DEF DisableAccepted
  <2>3. CASE CallUnauthorized(c)
    BY <2>3 DEF CallUnauthorized
  <2>4. CASE CallUnauthorizedAgain(c)
    BY <2>4 DEF CallUnauthorizedAgain
  <2>5. CASE CallFailed(c)
    BY <2>5 DEF CallFailed
  <2>6. ASSUME NEW s \in Session, LoginAnswered(c, s)
        PROVE  FreshInv'
    BY <2>6 DEF LoginAnswered, Issue
  <2>7. ASSUME NEW s \in Session, RefreshGranted(c, s)
        PROVE  FreshInv'
    BY <2>7 DEF RefreshGranted, Issue
  <2>8. CASE LoginFailed(c)
    BY <2>8 DEF LoginFailed
  <2>9. CASE LogoutAnswered(c)
    BY <2>9 DEF LogoutAnswered
  <2>10. CASE LogoutFailed(c)
    BY <2>10 DEF LogoutFailed
  <2>11. CASE RefreshFailed(c)
    BY <2>11 DEF RefreshFailed
  <2> QED
    BY <1>3, <2>1, <2>2, <2>3, <2>4, <2>5, <2>6, <2>7, <2>8, <2>9, <2>10,
       <2>11 DEF Answer
<1>4. CASE Environment
  <2>1. ASSUME NEW s \in Session,
               EnterWindow(s) \/ RejectAccess(s) \/ RevokeRefresh(s)
        PROVE  FreshInv'
    BY <2>1 DEF EnterWindow, RejectAccess, RevokeRefresh, memory
  <2>2. CASE Crash
    BY <2>2 DEF Crash
  <2> QED
    BY <1>4, <2>1, <2>2 DEF Environment
<1>5. CASE UNCHANGED vars
  BY <1>5 DEF vars, memory
<1> QED
  BY <1>1, <1>2, <1>3, <1>4, <1>5 DEF Next

(* The program starts with both strengthenings. *)
LEMMA FreshInvInit == Init => RefreshInv /\ FreshInv
<1> SUFFICES ASSUME Init
             PROVE  RefreshInv /\ FreshInv
  OBVIOUS
<1>1. RefreshInv
  BY NilAssumption
     DEF Init, RefreshInv, NoteInv, RotationFromCurrent, JustifiedRefresh
<1>2. UnseenInv
  BY NilAssumption DEF Init, Holds, UnseenInv
<1>3. FreshRetry /\ NoReplay
  BY DEF Init, FreshRetry, NoReplay
<1>4. session \notin FromServer
  BY NilAssumption DEF Init, FromServer
<1> QED
  BY <1>1, <1>2, <1>3, <1>4 DEF Init, FreshInv

(* When no stale copy of a session is kept outside the client, sessions    *)
(* stay fresh from the start on.                                           *)
LEMMA FreshInvAlways ==
  ASSUME ~Persist
  PROVE  Spec => []FreshInv
BY FreshInvInit, RefreshInvStep, FreshInvStep, TypeCorrect, PTL DEF Spec

(* The retry after a 401 never repeats the access token it was refused     *)
(* with, whoever refreshed meanwhile.                                      *)
THEOREM RetriesFresh ==
  ASSUME ~Persist
  PROVE  Spec => []FreshRetry
<1>1. FreshInv => FreshRetry
  BY DEF FreshInv
<1> QED
  BY <1>1, FreshInvAlways, PTL

(* A refresh token that was exchanged is never presented again.            *)
THEOREM TokensSentOnce ==
  ASSUME ~Persist
  PROVE  Spec => []NoReplay
<1>1. FreshInv => NoReplay
  BY DEF FreshInv
<1> QED
  BY <1>1, FreshInvAlways, PTL

-----------------------------------------------------------------------------
(* Without a store, Client is the cell SessionChain describes.             *)
THEOREM Implements ==
  ASSUME ~Persist
  PROVE  Spec => ImplementsChain
<1>1. Init => Chain!ChainInit
  BY NilAssumption DEF Init, Obtained, Chain!ChainInit
<1>2. TypeOK /\ RefreshInv /\ FreshInv /\ [Next]_vars
        => [Chain!ChainNext]_<<session, issued, Obtained, parent>>
  <2> DEFINE ChainStep ==
        [Chain!ChainNext]_<<session, issued, Obtained, parent>>
  <2> SUFFICES ASSUME TypeOK, RefreshInv, FreshInv, [Next]_vars
               PROVE  ChainStep
    OBVIOUS
  <2> USE NilAssumption, OfflineAssumption
      DEF TypeOK, Known, PC, RefreshInv, NoteInv, RotationFromCurrent,
          FreshInv, Holds, UnseenInv, FromServer, Obtained, server, locals,
          Goto, GoOnToSet, Return, Start, Free, Chain!ChainNext, Chain!Issue,
          Chain!Rotate, Chain!Install, Chain!InstallOffline, Chain!Clear,
          Chain!Restart
  <2>1. ASSUME NEW c \in Caller, Begin(c)
        PROVE  ChainStep
    <3>1. CASE StartCall(c)
      BY <3>1 DEF StartCall
    <3>2. CASE StartClear(c)
      BY <3>2 DEF StartClear
    <3>3. CASE StartAnonymous(c)
      BY <3>3 DEF StartAnonymous, Loadable
    <3>4. CASE StartLogin(c)
      BY <3>4 DEF StartLogin
    <3>5. ASSUME NEW s \in Session, StartOffline(c, s) \/ StartLogout(c, s)
          PROVE  ChainStep
      BY <3>5 DEF StartOffline, StartLogout
    <3> QED
      BY <2>1, <3>1, <3>2, <3>3, <3>4, <3>5 DEF Begin
  <2>2. ASSUME NEW c \in Caller, CallStep(c)
        PROVE  ChainStep
    <3>1. CASE CheckWindow(c)
      BY <3>1 DEF CheckWindow
    <3>2. CASE SkipRefresh(c)
      BY <3>2 DEF SkipRefresh
    <3>3. CASE RefuseRefresh(c)
      BY <3>3 DEF RefuseRefresh
    <3>4. CASE SendRefresh(c)
      BY <3>4 DEF SendRefresh, MustRefresh, Stale, Superseded
    <3>5. CASE InstallRefresh(c)
      BY <3>5 DEF InstallRefresh
    <3>6. CASE AbandonRefresh(c)
      BY <3>6 DEF AbandonRefresh
    <3>7. CASE NotifyRefresh(c)
      BY <3>7 DEF NotifyRefresh, Save
    <3>8. CASE AttachSession(c)
      BY <3>8 DEF AttachSession
    <3>9. CASE AttachNothing(c)
      BY <3>9 DEF AttachNothing
    <3>10. CASE SetSession(c)
      BY <3>10 DEF SetSession
    <3>11. CASE NotifySet(c)
      BY <3>11 DEF NotifySet, Save
    <3>12. CASE LogoutCheck(c)
      BY <3>12 DEF LogoutCheck
    <3> QED
      BY <2>2, <3>1, <3>2, <3>3, <3>4, <3>5, <3>6, <3>7, <3>8, <3>9, <3>10,
         <3>11, <3>12 DEF CallStep
  <2>3. ASSUME NEW c \in Caller, Answer(c)
        PROVE  ChainStep
    <3>1. CASE CallAccepted(c)
      BY <3>1 DEF CallAccepted
    <3>2. CASE DisableAccepted(c)
      BY <3>2 DEF DisableAccepted
    <3>3. CASE CallUnauthorized(c)
      BY <3>3 DEF CallUnauthorized
    <3>4. CASE CallUnauthorizedAgain(c)
      BY <3>4 DEF CallUnauthorizedAgain
    <3>5. CASE CallFailed(c)
      BY <3>5 DEF CallFailed
    <3>6. ASSUME NEW s \in Session, LoginAnswered(c, s)
          PROVE  ChainStep
      <4>1. Obtained' = Obtained \cup {s}
        BY <3>6 DEF LoginAnswered, Issue
      <4>2. Chain!Issue(s, Nil)
        BY <3>6, <4>1 DEF LoginAnswered, Issue
      <4> QED
        BY <4>2
    <3>7. ASSUME NEW s \in Session, RefreshGranted(c, s)
          PROVE  ChainStep
      <4>1. Obtained' = Obtained \cup {s}
        BY <3>7 DEF RefreshGranted, Issue
      <4>2. Chain!Issue(s, token[c])
        BY <3>7, <4>1 DEF RefreshGranted, Issue
      <4>3. token[c] \in Session \cup {Nil}
        OBVIOUS
      <4> QED
        BY <4>2, <4>3
    <3>8. CASE LoginFailed(c)
      BY <3>8 DEF LoginFailed
    <3>9. CASE LogoutAnswered(c)
      BY <3>9 DEF LogoutAnswered
    <3>10. CASE LogoutFailed(c)
      BY <3>10 DEF LogoutFailed
    <3>11. CASE RefreshFailed(c)
      BY <3>11 DEF RefreshFailed
    <3> QED
      BY <2>3, <3>1, <3>2, <3>3, <3>4, <3>5, <3>6, <3>7, <3>8, <3>9, <3>10,
         <3>11 DEF Answer
  <2>4. CASE Environment
    <3>1. ASSUME NEW s \in Session,
                 EnterWindow(s) \/ RejectAccess(s) \/ RevokeRefresh(s)
          PROVE  ChainStep
      BY <3>1 DEF EnterWindow, RejectAccess, RevokeRefresh, memory
    <3>2. CASE Crash
      BY <3>2 DEF Crash
    <3> QED
      BY <2>4, <3>1, <3>2 DEF Environment
  <2>5. CASE UNCHANGED vars
    BY <2>5 DEF vars, memory
  <2> QED
    BY <2>1, <2>2, <2>3, <2>4, <2>5 DEF Next
<1> QED
  BY <1>1, <1>2, FreshInvInit, RefreshInvStep, FreshInvStep, TypeCorrect, PTL
     DEF Spec, ImplementsChain, Chain!ChainSpec, Chain!chainVars

-----------------------------------------------------------------------------
(* The store follows the memory of a program with one goroutine: what it   *)
(* announces is what is installed, and what it has loaded or saved itself  *)
(* is what it will install.                                                *)
Announces(c) == pc[c] \in {"notify", "announce"}

LagInv ==
  /\ \A c \in Caller : Announces(c) => note[c] = session
  /\ \/ \E c \in Caller : Announces(c)
     \/ store = session
     \/ session = Nil /\ crashes > 0
     \/ \E c \in Caller : pc[c] = "install" /\ note[c] \in {store, Nil}

(* LagInv is kept when there is no other goroutine whose notification      *)
(* could come in between.                                                  *)
LEMMA LagInvStep ==
  ASSUME Persist, NEW g \in Caller, Caller = {g},
         TypeOK, NoteInv, LagInv, [Next]_vars
  PROVE  LagInv'
<1> USE NilAssumption, OfflineAssumption
    DEF TypeOK, PC, NoteInv, LagInv, Announces, server, locals, Goto,
        GoOnToSet, Return, Start, Free
<1>1. CASE Begin(g)
  <2>1. CASE StartCall(g)
    BY <2>1 DEF StartCall
  <2>3. CASE StartClear(g)
    BY <2>3 DEF StartClear
  <2>4. CASE StartAnonymous(g)
    BY <2>4 DEF StartAnonymous, Loadable
  <2>5. CASE StartLogin(g)
    BY <2>5 DEF StartLogin
  <2>6. ASSUME NEW s \in Session, StartOffline(g, s) \/ StartLogout(g, s)
        PROVE  LagInv'
    BY <2>6 DEF StartOffline, StartLogout
  <2> QED
    BY <1>1, <2>1, <2>3, <2>4, <2>5, <2>6 DEF Begin
<1>2. CASE CallStep(g)
  <2>1. CASE CheckWindow(g)
    BY <2>1 DEF CheckWindow
  <2>2. CASE SkipRefresh(g)
    BY <2>2 DEF SkipRefresh
  <2>3. CASE RefuseRefresh(g)
    BY <2>3 DEF RefuseRefresh
  <2>4. CASE SendRefresh(g)
    BY <2>4 DEF SendRefresh
  <2>5. CASE InstallRefresh(g)
    BY <2>5 DEF InstallRefresh
  <2>6. CASE AbandonRefresh(g)
    BY <2>6 DEF AbandonRefresh
  <2>7. CASE NotifyRefresh(g)
    BY <2>7 DEF NotifyRefresh, Save
  <2>8. CASE AttachSession(g)
    BY <2>8 DEF AttachSession
  <2>9. CASE AttachNothing(g)
    BY <2>9 DEF AttachNothing
  <2>10. CASE SetSession(g)
    BY <2>10 DEF SetSession
  <2>11. CASE NotifySet(g)
    BY <2>11 DEF NotifySet, Save
  <2>12. CASE LogoutCheck(g)
    BY <2>12 DEF LogoutCheck
  <2> QED
    BY <1>2, <2>1, <2>2, <2>3, <2>4, <2>5, <2>6, <2>7, <2>8, <2>9, <2>10,
       <2>11, <2>12 DEF CallStep
<1>3. CASE Answer(g)
  <2>1. CASE CallAccepted(g)
    BY <2>1 DEF CallAccepted
  <2>3. CASE DisableAccepted(g)
    BY <2>3 DEF DisableAccepted
  <2>4. CASE CallUnauthorized(g)
    BY <2>4 DEF CallUnauthorized
  <2>5. CASE CallUnauthorizedAgain(g)
    BY <2>5 DEF CallUnauthorizedAgain
  <2>6. CASE CallFailed(g)
    BY <2>6 DEF CallFailed
  <2>7. ASSUME NEW s \in Session, LoginAnswered(g, s)
        PROVE  LagInv'
    BY <2>7 DEF LoginAnswered, Issue
  <2>8. ASSUME NEW s \in Session, RefreshGranted(g, s)
        PROVE  LagInv'
    BY <2>8 DEF RefreshGranted, Issue
  <2>9. CASE LoginFailed(g)
    BY <2>9 DEF LoginFailed
  <2>10. CASE LogoutAnswered(g)
    BY <2>10 DEF LogoutAnswered
  <2>11. CASE LogoutFailed(g)
    BY <2>11 DEF LogoutFailed
  <2>12. CASE RefreshFailed(g)
    BY <2>12 DEF RefreshFailed
  <2> QED
    BY <1>3, <2>1, <2>3, <2>4, <2>5, <2>6, <2>7, <2>8, <2>9, <2>10, <2>11,
       <2>12 DEF Answer
<1>4. CASE Environment
  <2>1. CASE Crash
    BY <2>1 DEF Crash
  <2>2. CASE \E s \in Session :
               EnterWindow(s) \/ RejectAccess(s) \/ RevokeRefresh(s)
    BY <2>2 DEF EnterWindow, RejectAccess, RevokeRefresh, memory
  <2> QED
    BY <1>4, <2>1, <2>2 DEF Environment
<1>5. CASE UNCHANGED vars
  BY <1>5 DEF vars, memory
<1> QED
  BY <1>1, <1>2, <1>3, <1>4, <1>5 DEF Next

(* With one goroutine and a session file, for any number of sessions and   *)
(* crashes, the file is behind the memory by at most the notification      *)
(* under way.                                                              *)
THEOREM StoreFollows ==
  ASSUME Persist, NEW g \in Caller, Caller = {g}
  PROVE  Spec => []StoreLag
<1>1. Init => LagInv /\ RefreshInv
  BY NilAssumption, OfflineAssumption
     DEF Init, LagInv, Announces, RefreshInv, NoteInv, RotationFromCurrent,
         JustifiedRefresh
<1>2. LagInv => StoreLag
  BY DEF LagInv, Announces, StoreLag
<1>3. TypeOK /\ RefreshInv /\ LagInv /\ [Next]_vars => LagInv'
  BY LagInvStep DEF RefreshInv
<1> QED
  BY <1>1, <1>2, <1>3, RefreshInvStep, TypeCorrect, PTL DEF Spec

-----------------------------------------------------------------------------
(* Every method comes to an end.                                           *)

(* How far a caller is from its return, at most.  Before its first 401 a   *)
(* call has the refresh and the retry still to come.                       *)
StepsLeft(c) ==
  IF pc[c] = "idle" THEN 0
  ELSE IF pc[c] = "announce" THEN 1
  ELSE IF pc[c] = "install" THEN 2
  ELSE (IF failed[c] = Nil THEN 6 ELSE 0)
       + (IF pc[c] \in {"sending", "mint", "check"} THEN 3
          ELSE IF pc[c] \in {"attach", "logout"} THEN 4
          ELSE IF pc[c] = "notify" THEN 5
          ELSE IF pc[c] = "replied" THEN 6
          ELSE IF pc[c] = "refreshing" THEN 7
          ELSE IF pc[c] = "lock" THEN 8 ELSE 9)

Untouched(c) == pc'[c] = pc[c] /\ failed'[c] = failed[c]

LEMMA MethodMovesOn ==
  ASSUME TypeOK, Next, NEW c \in Caller, pc[c] # "idle"
  PROVE  Untouched(c) \/ StepsLeft(c)' < StepsLeft(c)
<1> USE NilAssumption
    DEF Untouched, StepsLeft, Goto, GoOnToSet, Return, Start, locals
<1>1. pc \in [Caller -> PC] /\ failed \in [Caller -> Known]
  BY DEF TypeOK
<1>2. ASSUME NEW d \in Caller, Begin(d)
      PROVE  Untouched(c)
  BY <1>1, <1>2 DEF Begin, StartCall, StartClear, StartAnonymous,
     StartOffline, StartLogin, StartLogout
<1>3. ASSUME NEW d \in Caller, CallStep(d)
      PROVE  Untouched(c) \/ StepsLeft(c)' < StepsLeft(c)
  <2>1. CASE CheckWindow(d) \/ SkipRefresh(d) \/ RefuseRefresh(d)
    BY <1>1, <2>1 DEF CheckWindow, SkipRefresh, RefuseRefresh
  <2>2. CASE SendRefresh(d) \/ InstallRefresh(d) \/ AbandonRefresh(d)
    BY <1>1, <2>2 DEF SendRefresh, InstallRefresh, AbandonRefresh
  <2>3. CASE NotifyRefresh(d) \/ AttachSession(d) \/ AttachNothing(d)
    BY <1>1, <2>3 DEF NotifyRefresh, AttachSession, AttachNothing
  <2>4. CASE SetSession(d) \/ NotifySet(d) \/ LogoutCheck(d)
    BY <1>1, <2>4 DEF SetSession, NotifySet, LogoutCheck
  <2> QED
    BY <1>3, <2>1, <2>2, <2>3, <2>4 DEF CallStep
<1>4. ASSUME NEW d \in Caller, Answer(d)
      PROVE  Untouched(c) \/ StepsLeft(c)' < StepsLeft(c)
  <2>1. CASE CallAccepted(d) \/ DisableAccepted(d)
    BY <1>1, <2>1 DEF CallAccepted, DisableAccepted
  <2>2. CASE CallUnauthorized(d)
    <3>1. attached[d] # Nil
      BY <2>2 DEF CallUnauthorized, TypeOK
    <3> QED
      BY <1>1, <2>2, <3>1 DEF CallUnauthorized
  <2>3. CASE CallUnauthorizedAgain(d) \/ CallFailed(d)
    BY <1>1, <2>3 DEF CallUnauthorizedAgain, CallFailed
  <2>4. ASSUME NEW s \in Session, LoginAnswered(d, s) \/ RefreshGranted(d, s)
        PROVE  Untouched(c) \/ StepsLeft(c)' < StepsLeft(c)
    BY <1>1, <2>4 DEF LoginAnswered, RefreshGranted
  <2>5. CASE LoginFailed(d) \/ LogoutAnswered(d) \/ LogoutFailed(d)
    BY <1>1, <2>5 DEF LoginFailed, LogoutAnswered, LogoutFailed
  <2>6. CASE RefreshFailed(d)
    BY <1>1, <2>6 DEF RefreshFailed
  <2> QED
    BY <1>4, <2>1, <2>2, <2>3, <2>4, <2>5, <2>6 DEF Answer
<1>5. ASSUME NEW s \in Session,
             EnterWindow(s) \/ RejectAccess(s) \/ RevokeRefresh(s)
      PROVE  Untouched(c)
  BY <1>5 DEF EnterWindow, RejectAccess, RevokeRefresh, memory
<1>6. CASE Crash
  BY <1>1, <1>6 DEF Crash, PC
<1> QED
  BY <1>2, <1>3, <1>4, <1>5, <1>6 DEF Next, Environment

(* Every step of a method brings it closer to its return, and the steps    *)
(* are bounded, whatever the server answers and whatever other goroutines  *)
(* install in between: no 401 sends a call round again.  Whoever holds the *)
(* write lock is in its refresh, so nobody waits for a lock left behind.   *)
THEOREM MethodsEnd ==
  Spec => /\ [](\A c \in Caller :
                  lock = c <=> pc[c] \in {"refreshing", "replied"})
          /\ [][\A c \in Caller :
                  pc[c] # "idle" =>
                    Untouched(c) \/ StepsLeft(c)' < StepsLeft(c)]_vars
<1>1. RefreshInv =>
        \A c \in Caller : lock = c <=> pc[c] \in {"refreshing", "replied"}
  BY DEF RefreshInv
<1>2. TypeOK /\ [Next]_vars =>
        [\A c \in Caller :
           pc[c] # "idle" =>
             Untouched(c) \/ StepsLeft(c)' < StepsLeft(c)]_vars
  BY MethodMovesOn
<1> QED
  BY <1>1, <1>2, RefreshInvAlways, TypeCorrect, PTL DEF Spec
=============================================================================
