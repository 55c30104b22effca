----------------------------- MODULE MCFtpServer -----------------------------
(* FtpServer on small instances for TLC. *)
EXTENDS FtpServer, TLC

CONSTANTS s1, s2    \* two connections

\* The order of the connections does not matter to any safety property.
Connections == Permutations({s1, s2})
==============================================================================
