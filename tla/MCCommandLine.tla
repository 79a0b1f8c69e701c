--------------------------- MODULE MCCommandLine ----------------------------
(* Instantiates CommandLine for TLC.                                       *)
EXTENDS CommandLine
=============================================================================
