------------------------- MODULE MCPluginServices -------------------------
(* Small instances of PluginServices: the application's thread and the      *)
(* thread of another service.                                               *)
EXTENDS PluginServices

CONSTANTS app, other

BothCallers == {app, other}
AppOnly == {app}
===========================================================================
