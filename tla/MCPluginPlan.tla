--------------------------- MODULE MCPluginPlan ---------------------------
(* Small instances of PluginPlan.                                          *)
EXTENDS PluginPlan
===========================================================================
