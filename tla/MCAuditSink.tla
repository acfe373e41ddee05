---------------------------- MODULE MCAuditSink ----------------------------
(***************************************************************************)
(* Instances of AuditSink for TLC. The constants are numbers and sets that *)
(* the .cfg files give; CliDevices is a set of sets, so it is defined here. *)
(***************************************************************************)
EXTENDS AuditSink

\* A command without --audit-file opens the store's device alone.
StoreAlone == {{Sqlite}}

\* A command with --audit-file opens the first file beside it.
StoreAndFile == {{Sqlite}, {Sqlite, 2}}
=============================================================================
