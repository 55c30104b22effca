---------------------------- MODULE MCPluginServer ----------------------------
(* PluginServer on small instances for TLC. *)
EXTENDS PluginServer, TLC

CONSTANT c1    \* the one FTP connection
==============================================================================
