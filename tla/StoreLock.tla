------------------------------ MODULE StoreLock ------------------------------
(***************************************************************************)
(* The lock file that keeps a store to one writing process                 *)
(* (crates/ciphr-store/src/lock.rs). Every system call on the file is a    *)
(* step of its own, because the file is shared by processes that know of   *)
(* each other through nothing else.                                        *)
(*                                                                         *)
(* A process is one life of one program: a process id and a start time. A  *)
(* restart is another process. The identity a process writes into the file *)
(* is the process.                                                         *)
(***************************************************************************)
CONSTANTS
  Procs,     \* the processes that are ever started
  Nobody,    \* no process: there is no file, or read_raw answered None
  Crashing,  \* the processes that may be killed
  Sees,      \* <<p, q>>: the /proc that p reads is one that q is in
  Writers,   \* the processes that may change the directory of the store
  Serial     \* whether a process is started only when no other is acquiring

ASSUME ProcAssumption ==
  /\ Nobody \notin Procs
  /\ Crashing \subseteq Procs
  /\ Sees \subseteq Procs \X Procs
  /\ Writers \subseteq Procs
  /\ Serial \in BOOLEAN

VARIABLES
  pc,       \* per process: the system call it is at
  owner,    \* who created the file that has the name, or Nobody
  written,  \* whether that file has its identity in it
  existing  \* per process: the identity it decided about

vars == <<pc, owner, written, existing>>

\* In the loop of StoreLock::acquire.
Acquiring == {"create", "write", "readback", "look", "judge", "check", "remove"}

\* Between the acquisition and the end of Drop.
Holding == {"held", "dropcheck", "dropremove"}

Running == Acquiring \cup Holding

\* read_raw: no file and an empty file are both None.
Raw == IF written THEN owner ELSE Nobody

\* Mutant of IsAlive: every holder looks dead.
IsAliveNever(p, q) == FALSE

\* is_alive: a process of another process namespace has no entry under its id,
\* or one with another start time.
IsAlive(p, q) == pc[q] \in Running /\ <<p, q>> \in Sees

Goto(p, at) == pc' = [pc EXCEPT ![p] = at]

-----------------------------------------------------------------------------
(* StoreLock::acquire.                                                     *)

Start(p) ==
  /\ pc[p] = "new"
  /\ Serial => \A q \in Procs : pc[q] \notin Acquiring
  /\ Goto(p, "create")
  /\ UNCHANGED <<owner, written, existing>>

\* open(create_new), with the one error that goes on and the others that do not.
Create(p) ==
  /\ pc[p] = "create"
  /\ \/ /\ owner # Nobody
        /\ Goto(p, "look")
        /\ UNCHANGED <<owner, written>>
     \/ /\ owner = Nobody /\ p \notin Writers
        /\ Goto(p, "refused")
        /\ UNCHANGED <<owner, written>>
     \/ /\ owner = Nobody /\ p \in Writers
        /\ owner' = p
        /\ written' = FALSE
        /\ Goto(p, "write")
  /\ UNCHANGED existing

\* write_all into the file that was created, which may no longer have the name.
Write(p) ==
  /\ pc[p] = "write"
  /\ written' = IF owner = p THEN TRUE ELSE written
  /\ Goto(p, "readback")
  /\ UNCHANGED <<owner, existing>>

\* write_all failed: whatever has the name is removed.
WriteFails(p) ==
  /\ pc[p] = "write"
  /\ owner' = Nobody
  /\ written' = FALSE
  /\ Goto(p, "refused")
  /\ UNCHANGED existing

\* The bytes at the path are ours, or the loop starts again.
ReadBack(p) ==
  /\ pc[p] = "readback"
  /\ Goto(p, IF Raw = p THEN "held" ELSE "create")
  /\ UNCHANGED <<owner, written, existing>>

\* Mutant of Look: an empty file is looked at again.
LookRetrying(p) ==
  /\ pc[p] = "look"
  /\ existing' = [existing EXCEPT ![p] = Raw]
  /\ Goto(p, IF Raw = Nobody THEN "create" ELSE "judge")
  /\ UNCHANGED <<owner, written>>

\* read_raw of the file that was in the way.
Look(p) ==
  /\ pc[p] = "look"
  /\ existing' = [existing EXCEPT ![p] = Raw]
  /\ Goto(p, IF Raw = Nobody THEN "refused" ELSE "judge")
  /\ UNCHANGED <<owner, written>>

\* The holder is alive and named in the refusal, or it is gone.
Judge(p) ==
  /\ pc[p] = "judge"
  /\ Goto(p, IF IsAlive(p, existing[p]) THEN "refused" ELSE "check")
  /\ UNCHANGED <<owner, written, existing>>

\* remove_if_unchanged, the read.
Check(p) ==
  /\ pc[p] = "check"
  /\ Goto(p, IF Raw = existing[p] THEN "remove" ELSE "create")
  /\ UNCHANGED <<owner, written, existing>>

\* remove_file, whose error is ignored.
RemoveFile(p) ==
  IF p \in Writers
    THEN owner' = Nobody /\ written' = FALSE
    ELSE UNCHANGED <<owner, written>>

\* remove_if_unchanged, the removal.
Remove(p) ==
  /\ pc[p] = "remove"
  /\ RemoveFile(p)
  /\ Goto(p, "create")
  /\ UNCHANGED existing

-----------------------------------------------------------------------------
(* Drop, and a process that is killed.                                     *)

Release(p) ==
  /\ pc[p] = "held"
  /\ Goto(p, "dropcheck")
  /\ UNCHANGED <<owner, written, existing>>

DropCheck(p) ==
  /\ pc[p] = "dropcheck"
  /\ Goto(p, IF Raw = p THEN "dropremove" ELSE "done")
  /\ UNCHANGED <<owner, written, existing>>

DropRemove(p) ==
  /\ pc[p] = "dropremove"
  /\ RemoveFile(p)
  /\ Goto(p, "done")
  /\ UNCHANGED existing

Crash(p) ==
  /\ p \in Crashing
  /\ pc[p] \in Running
  /\ Goto(p, "dead")
  /\ UNCHANGED <<owner, written, existing>>

-----------------------------------------------------------------------------
Init ==
  /\ pc = [p \in Procs |-> "new"]
  /\ owner = Nobody
  /\ written = FALSE
  /\ existing = [p \in Procs |-> Nobody]

\* The steps a running process takes without waiting for anybody.
Step(p) ==
  \/ Create(p) \/ Write(p) \/ WriteFails(p) \/ ReadBack(p)
  \/ Look(p) \/ Judge(p) \/ Check(p) \/ Remove(p)
  \/ DropCheck(p) \/ DropRemove(p)

Next == \E p \in Procs : Start(p) \/ Step(p) \/ Release(p) \/ Crash(p)

Spec == Init /\ [][Next]_vars

\* A process that runs goes on running. When it is started, stopped or killed is
\* nobody's promise.
FairSpec == Spec /\ \A p \in Procs : WF_vars(Step(p))

-----------------------------------------------------------------------------
(* Properties.                                                             *)

\* The type of the state.
TypeOK ==
  /\ pc \in [Procs -> Running \cup {"new", "refused", "done", "dead"}]
  /\ owner \in Procs \cup {Nobody}
  /\ written \in BOOLEAN
  /\ existing \in [Procs -> Procs \cup {Nobody}]
  /\ owner = Nobody => ~written

\* "One writer at a time, per store": no two processes have the store.
MutualExclusion == \A p, q \in Procs : pc[p] = "held" /\ pc[q] = "held" => p = q

\* A process that has the store keeps its lock file until it removes it itself:
\* no takeover, no Drop and no failed write of another process deletes it.
HolderKept ==
  [][\A p \in Procs : pc[p] = "held" => owner' = p /\ written']_vars

\* StoreLock::acquire returns: it takes the lock, or says that it could not. A
\* process that may not remove a dead lock is left out: it goes round for ever.
AcquireReturns ==
  \A p \in Writers : pc[p] \in Acquiring ~> pc[p] \notin Acquiring

-----------------------------------------------------------------------------
(* Where the lock excludes: every process sees every other, and either none *)
(* is ever killed or they are started one after the other.                  *)
Orderly ==
  /\ \A p, q \in Procs : <<p, q>> \in Sees
  /\ Serial \/ Crashing = {}

\* The file belongs to whoever is between creating and removing it, and a
\* removal is only decided about the file of a process that is gone.
LockInv ==
  /\ \A p \in Procs : pc[p] \in Holding \cup {"readback"} => owner = p /\ written
  /\ \A p \in Procs : pc[p] = "write" => owner = p
  /\ \A p \in Procs : pc[p] \in {"check", "remove"} =>
       existing[p] \in Procs /\ pc[existing[p]] \notin Running \cup {"new"}
  /\ \A p \in Procs : pc[p] = "judge" =>
       existing[p] \in Procs /\ pc[existing[p]] # "new"
  /\ \A p \in Procs : pc[p] = "remove" => owner = existing[p]
  /\ owner # Nobody => pc[owner] # "new" /\ owner \in Writers
  /\ Crashing = {} /\ owner # Nobody => pc[owner] \in Holding \cup {"write", "readback"}
  /\ Serial => \A p, q \in Procs : pc[p] \in Acquiring /\ pc[q] \in Acquiring => p = q

=============================================================================
