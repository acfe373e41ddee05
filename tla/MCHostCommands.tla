--------------------------- MODULE MCHostCommands ---------------------------
(***************************************************************************)
(* Instances of HostCommands for TLC. Processes and paths are model values.*)
(***************************************************************************)
EXTENDS HostCommands, TLC

\* Processes are alike until they begin, and so are paths without a secret.
Alike == Permutations(Processes) \cup Permutations(Paths)
=============================================================================
