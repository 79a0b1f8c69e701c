--------------------------- MODULE MCPluginTools ---------------------------
(* Small instances of PluginTools for TLC.                                 *)
EXTENDS PluginTools
=============================================================================
