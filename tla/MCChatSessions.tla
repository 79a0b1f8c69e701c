--------------------------- MODULE MCChatSessions ---------------------------
(* Small instances of ChatSessions for TLC.                                *)
EXTENDS ChatSessions, TLC

(* Handlers are interchangeable, and so are runs.                          *)
Symmetry == Permutations(Requests) \cup Permutations(Actors)
=============================================================================
