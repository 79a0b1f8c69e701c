-------------------------- MODULE MCSessionManager --------------------------
(* Small instances of SessionManager for TLC.                              *)
EXTENDS SessionManager, TLC

(* Actors are interchangeable, and so are session identifiers and callers. *)
Symmetry == Permutations(Actors) \cup Permutations(SessionIDs) \cup Permutations(Callers)
=============================================================================
