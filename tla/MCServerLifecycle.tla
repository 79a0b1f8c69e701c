-------------------------- MODULE MCServerLifecycle --------------------------
(* Small instances of ServerLifecycle for TLC.                             *)
EXTENDS ServerLifecycle, TLC

Symmetry == Permutations(Actors) \cup Permutations(SessionIDs)
=============================================================================
