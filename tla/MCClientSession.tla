-------------------------- MODULE MCClientSession --------------------------
(* Instances of ClientSession for TLC. *)
EXTENDS ClientSession, TLC

(* The sessions the server issues are interchangeable. *)
Symmetry == Permutations(Session \ Offline)
=============================================================================
