---------------------------- MODULE ObjectUpdate ----------------------------
(***************************************************************************)
(* What a caller may believe about one request that changes something on   *)
(* the server, whatever its attempts, the renewed session and a repetition *)
(* with the same Idempotency-Key did underneath:                           *)
(*   - it takes effect at most once, and a request guarded by a version    *)
(*     only while the object is still at that version;                     *)
(*   - success is reported only when it took effect;                       *)
(*   - a stale version is reported only when the object has left the one   *)
(*     the request names, and this or a refusal only when the request did  *)
(*     not take effect, and then never will;                               *)
(*   - any other failure leaves it open, and it may still take effect.     *)
(***************************************************************************)
EXTENDS Naturals

VARIABLES
  changes,   \* the request changes something
  guarded,   \* it names the version it is about
  keyed,     \* it carries an Idempotency-Key
  moved,     \* the object has left the version the caller read
  effects,   \* how often the request took effect
  outcome    \* what the caller was told, "none" before

updateVars == <<changes, guarded, keyed, moved, effects, outcome>>

Outcome == {"ok", "stale", "refused", "unknown"}

UpdateInit ==
  /\ changes \in BOOLEAN
  /\ guarded \in BOOLEAN
  /\ keyed \in BOOLEAN
  /\ moved = FALSE
  /\ effects = 0
  /\ outcome = "none"

Rival ==
  /\ moved' = TRUE
  /\ UNCHANGED <<changes, guarded, keyed, effects, outcome>>

Commit ==
  /\ changes
  /\ effects = 0
  /\ guarded => ~moved
  /\ outcome \in {"none", "unknown"}
  /\ moved' = TRUE
  /\ effects' = 1
  /\ UNCHANGED <<changes, guarded, keyed, outcome>>

Truthful(told) ==
  /\ told = "ok" /\ changes => effects = 1
  /\ told \in {"stale", "refused"} => effects = 0
  /\ told = "stale" => guarded /\ moved

Report(told) ==
  /\ outcome = "none"
  /\ Truthful(told)
  /\ outcome' = told
  /\ UNCHANGED <<changes, guarded, keyed, moved, effects>>

(* The caller makes the same call again with the same key. *)
Repeat ==
  /\ keyed
  /\ outcome = "unknown"
  /\ outcome' = "none"
  /\ UNCHANGED <<changes, guarded, keyed, moved, effects>>

UpdateNext ==
  \/ Rival
  \/ Commit
  \/ \E told \in Outcome : Report(told)
  \/ Repeat

UpdateSpec == UpdateInit /\ [][UpdateNext]_updateVars
=============================================================================
