----------------------------- MODULE MCFtpFiles -----------------------------
(* FtpFiles on small instances for TLC. *)
EXTENDS FtpFiles, TLC

CONSTANTS s1, s2,       \* two connections
          a, b,         \* two paths
          f1, f2, f3    \* three files

\* Connections, paths and files are interchangeable.
Renamings == Permutations({s1, s2}) \cup Permutations({a, b}) \cup Permutations({f1, f2, f3})
=============================================================================
