----------------------------- MODULE Operations -----------------------------
(***************************************************************************)
(* The requests the services of a Client send: for each operation, what    *)
(* decides how it may be repeated and refused.  Paths, bodies and answers  *)
(* are left out.                                                           *)
(*   method  the HTTP method                                               *)
(*   auth    "session" (callProtected), "key" (Transport.Call with the API *)
(*           key) or "open" (no credential)                                *)
(*   guard   "none", "expected_version" (in the body, refused with 409     *)
(*           stale_version) or "If-Match" (refused with 412)               *)
(*   repeat  "no", "ReplaySafe" or "Idempotency-Key"                       *)
(*   changes whether running it changes what the server keeps              *)
(***************************************************************************)
Calls(ops, method, auth, guard, repeat, changes) ==
  [operationId : ops, method : {method}, auth : {auth}, guard : {guard},
   repeat : {repeat}, changes : {changes}]

Reads(ops, auth) == Calls(ops, "GET", auth, "none", "no", FALSE)
Writes(method, ops, auth) == Calls(ops, method, auth, "none", "no", TRUE)
Versioned(method, ops) ==
  Calls(ops, method, "session", "expected_version", "no", TRUE)

(* Methods that refuse some arguments without sending anything. *)
ChecksArguments == {"fleetServersList", "verifyPlayerSession",
                    "fleetHeartbeat", "serverSubmitScore"}

(* Signing up, signing in and account upkeep.  A refresh token or a login  *)
(* travels in the body, so only the calls about the player signed in need  *)
(* the session.                                                            *)
AccountRequests ==
  Writes("POST", {"authSignup", "authVerify", "resendVerification",
                  "requestPasswordReset", "confirmPasswordReset"}, "key")

SignInRequests ==
  Writes("POST", {"authLogin", "authCustomToken", "authSteam",
                  "authAnonymous", "authRefresh", "authLogout",
                  "authDeleteCancel"}, "key")

SignedInRequests ==
  Writes("POST", {"linkEmail", "linkSteam", "changePassword",
                  "disablePlayer", "requestPlayerDelete"}, "session")

ConfigRequests == Reads({"getRemoteConfig"}, "key")
HealthRequests == Reads({"healthz"}, "open")

FleetRequests == Reads({"fleetServersList"}, "session")

FriendRequests ==
  Reads({"listFriends", "getFriendRemoteAddrs"}, "session")
  \cup Writes("POST", {"requestFriend", "acceptFriend", "rejectFriend",
                       "blockFriend", "unblockFriend"}, "session")
  \cup Writes("DELETE", {"deleteFriend"}, "session")

GameSessionRequests ==
  Reads({"getGameSession", "resolveGameSession", "listGameSessions"},
        "session")
  \cup Writes("POST", {"createGameSession", "joinGameSession",
                       "heartbeatGameSession"}, "session")
  \cup Writes("DELETE", {"leaveGameSession"}, "session")

InviteRequests ==
  Reads({"listGameInvites"}, "session")
  \cup Writes("POST", {"createGameInvite"}, "session")
  \cup Writes("DELETE", {"deleteGameInvite"}, "session")

LeaderboardRequests ==
  Reads({"listLeaderboards", "leaderboardTop", "leaderboardAroundMe",
         "leaderboardFriends", "listLeaderboardPeriods",
         "leaderboardPeriodTop"}, "session")
  \cup Writes("POST", {"submitScore"}, "session")

MatchmakerRequests_TicketReplaySafe ==
  Reads({"getMatchmakerTicket"}, "session")
  \cup Calls({"createMatchmakerTicket"}, "POST", "session", "none",
             "ReplaySafe", TRUE)
  \cup Writes("DELETE", {"cancelMatchmakerTicket"}, "session")

MatchmakerRequests ==
  Reads({"getMatchmakerTicket"}, "session")
  \cup Writes("POST", {"createMatchmakerTicket"}, "session")
  \cup Writes("DELETE", {"cancelMatchmakerTicket"}, "session")

(* The party itself, its members, its codes and its invites. *)
PartyReads ==
  Reads({"getCurrentParty", "getParty", "listPartyInvites"}, "session")

PartyMemberRequests ==
  Writes("POST", {"createParty", "joinPartyCode"}, "session")
  \cup Versioned("PATCH", {"updateParty"})
  \cup Versioned("POST", {"heartbeatParty"})
  \cup Versioned("PUT", {"readyPartyMember"})
  \cup Versioned("DELETE", {"disbandParty", "leaveParty", "kickPartyMember"})

PartyInviteRequests ==
  Versioned("POST", {"createPartyCode", "invitePartyFriend",
                     "acceptPartyInvite"})
  \cup Versioned("DELETE", {"revokePartyCode", "declinePartyInvite"})

(* Queue and Rematch send an Idempotency-Key, made once for the call and   *)
(* kept by all its attempts, so that the server runs it once.              *)
PartyQueueRequests ==
  Calls({"queueParty", "rematchParty"}, "POST", "session",
        "expected_version", "Idempotency-Key", TRUE)
  \cup Versioned("DELETE", {"cancelPartyQueue"})

PlayerRequests ==
  Reads({"getPlayer", "resolvePlayers", "resolveFriendCode"}, "session")

PresenceRequests == Writes("PUT", {"updatePresence"}, "session")

ProfileRequests ==
  Reads({"getProfile"}, "session")
  \cup Writes("PATCH", {"patchProfile"}, "session")
  \cup Writes("POST", {"regenerateFriendCode"}, "session")

RealtimeTicketRequests == Writes("POST", {"createRealtimeTicket"}, "session")

(* Minting relay credentials changes no server state. *)
RelayRequests ==
  Calls({"issueRelayCredentials"}, "POST", "session", "none", "ReplaySafe",
        FALSE)

RemoteAddrRequests ==
  Reads({"getAccountRemoteAddrs"}, "session")
  \cup Writes("PUT", {"putAccountRemoteAddrs"}, "session")

(* The server tier: a secret key, no player session. *)
ServerRequests ==
  Writes("POST", {"verifyPlayerSession", "fleetHeartbeat",
                  "serverSubmitScore"}, "key")
  \cup Reads({"serverGetPlayerRemoteAddrs", "serverGetStorageObject",
              "serverListStorageObjects"}, "key")
  \cup Writes("PUT", {"serverPutStorageObject"}, "key")
  \cup Calls({"serverPutStorageObject"}, "PUT", "key", "If-Match", "no", TRUE)

SignalRequests ==
  Reads({"pollGameSessionSignals"}, "session")
  \cup Writes("POST", {"sendGameSessionSignal"}, "session")

(* Put is conditional when the caller passes IfMatch. *)
StorageRequests ==
  Reads({"getStorageObject", "listStorageObjects"}, "session")
  \cup Writes("PUT", {"putStorageObject"}, "session")
  \cup Calls({"putStorageObject"}, "PUT", "session", "If-Match", "no", TRUE)
  \cup Writes("DELETE", {"deleteStorageObject"}, "session")

Requests ==
  UNION {AccountRequests, SignInRequests, SignedInRequests, ConfigRequests,
         HealthRequests, FleetRequests, FriendRequests, GameSessionRequests,
         InviteRequests, LeaderboardRequests, MatchmakerRequests, PartyReads,
         PartyMemberRequests, PartyInviteRequests, PartyQueueRequests,
         PlayerRequests, PresenceRequests, ProfileRequests,
         RealtimeTicketRequests, RelayRequests, RemoteAddrRequests,
         ServerRequests, SignalRequests, StorageRequests}
=============================================================================
