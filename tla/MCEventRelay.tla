---------------------------- MODULE MCEventRelay ----------------------------
(* Small instances of EventRelay for TLC.                                  *)
EXTENDS EventRelay, TLC

(* Subscriptions are interchangeable; not used with liveness.              *)
Symmetry == Permutations(Subs)
=============================================================================
