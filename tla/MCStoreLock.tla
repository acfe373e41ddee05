---------------------------- MODULE MCStoreLock ----------------------------
(***************************************************************************)
(* Instances of StoreLock for TLC. The processes are model values.         *)
(***************************************************************************)
EXTENDS StoreLock

\* One process namespace: everybody sees everybody.
OneHost == Procs \X Procs
=============================================================================
