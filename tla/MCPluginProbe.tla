---------------------------- MODULE MCPluginProbe ----------------------------
(* An instance of PluginProbe: the pipes are strings. *)
EXTENDS PluginProbe

MCStream == {"out", "err"}
=============================================================================
