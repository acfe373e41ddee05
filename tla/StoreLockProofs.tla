--------------------------- MODULE StoreLockProofs ---------------------------
(***************************************************************************)
(* Mutual exclusion of the store lock, for any number of processes, where  *)
(* Orderly holds.                                                          *)
(***************************************************************************)
EXTENDS StoreLock, TLAPS

\* Before any process is started there is no lock file.
LEMMA InitLock == Init => TypeOK /\ LockInv
BY ProcAssumption DEF Init, TypeOK, LockInv, Acquiring, Holding, Running

\* Types do not depend on how the processes are started or killed.
LEMMA NextTyped == TypeOK /\ [Next]_vars => TypeOK'
<1>. SUFFICES ASSUME TypeOK, [Next]_vars PROVE TypeOK'
  OBVIOUS
<1>. USE ProcAssumption DEF TypeOK, Running, Acquiring, Holding, Goto
<1>1. ASSUME NEW p \in Procs, Start(p) \/ Release(p) \/ Crash(p) PROVE TypeOK'
  BY <1>1 DEF Start, Release, Crash
<1>2. ASSUME NEW p \in Procs, Create(p) \/ Write(p) \/ WriteFails(p) PROVE TypeOK'
  BY <1>2 DEF Create, Write, WriteFails
<1>3. ASSUME NEW p \in Procs, ReadBack(p) \/ Judge(p) \/ Check(p) \/ DropCheck(p)
      PROVE  TypeOK'
  BY <1>3 DEF ReadBack, Judge, Check, DropCheck
<1>4. ASSUME NEW p \in Procs, Look(p) PROVE TypeOK'
  BY <1>4 DEF Look, Raw
<1>5. ASSUME NEW p \in Procs, Remove(p) \/ DropRemove(p) PROVE TypeOK'
  BY <1>5 DEF Remove, DropRemove, RemoveFile
<1>6. CASE UNCHANGED vars
  BY <1>6 DEF vars
<1>. QED BY <1>1, <1>2, <1>3, <1>4, <1>5, <1>6 DEF Next, Step

\* One step of process p keeps the invariant.
LEMMA ProcKeeps ==
  ASSUME Orderly, TypeOK, LockInv, NEW p \in Procs,
         Start(p) \/ Step(p) \/ Release(p) \/ Crash(p)
  PROVE  LockInv'
<1>. USE ProcAssumption
     DEF Orderly, TypeOK, LockInv, Running, Acquiring, Holding, Goto
<1>1. CASE Start(p)
  BY <1>1 DEF Start
<1>2. CASE Create(p)
  BY <1>2 DEF Create
<1>3. CASE Write(p)
  BY <1>3 DEF Write
<1>4. CASE WriteFails(p)
  BY <1>4 DEF WriteFails
<1>5. CASE ReadBack(p)
  BY <1>5 DEF ReadBack, Raw
<1>6. CASE Look(p)
  BY <1>6 DEF Look, Raw
<1>7. CASE Judge(p)
  BY <1>7 DEF Judge, IsAlive
<1>8. CASE Check(p)
  BY <1>8 DEF Check, Raw
<1>9. CASE Remove(p)
  BY <1>9 DEF Remove, RemoveFile
<1>10. CASE Release(p)
  BY <1>10 DEF Release
<1>11. CASE DropCheck(p)
  BY <1>11 DEF DropCheck, Raw
<1>12. CASE DropRemove(p)
  BY <1>12 DEF DropRemove, RemoveFile
<1>13. CASE Crash(p)
  BY <1>13 DEF Crash
<1>. QED BY <1>1, <1>2, <1>3, <1>4, <1>5, <1>6, <1>7, <1>8, <1>9, <1>10, <1>11,
            <1>12, <1>13 DEF Step

\* Every step keeps the invariant.
LEMMA NextKeeps ==
  ASSUME Orderly
  PROVE  TypeOK /\ LockInv /\ [Next]_vars => LockInv'
<1>. SUFFICES ASSUME TypeOK, LockInv, [Next]_vars PROVE LockInv'
  OBVIOUS
<1>1. CASE Next
  BY <1>1, ProcKeeps DEF Next
<1>2. CASE UNCHANGED vars
  BY <1>2 DEF vars, LockInv
<1>. QED BY <1>1, <1>2

\* Every state of the lock is typed, and a file that is not there has no
\* identity, whatever is killed and whoever sees whom.
THEOREM LockTyped == Spec => []TypeOK
<1>1. Init => TypeOK
  BY InitLock
<1>. QED BY <1>1, NextTyped, PTL DEF Spec

\* The inductive invariant holds where the start-up is orderly.
THEOREM LockInvariant ==
  ASSUME Orderly
  PROVE  Spec => [](TypeOK /\ LockInv)
<1>. QED BY InitLock, NextTyped, NextKeeps, PTL DEF Spec

\* One writer at a time, for any number of processes: they all see each other,
\* and no process is killed or no two acquire the lock at once.
THEOREM LockExcludes ==
  ASSUME Orderly
  PROVE  Spec => []MutualExclusion
<1>1. TypeOK /\ LockInv => MutualExclusion
  BY DEF LockInv, MutualExclusion, Holding
<1>. QED BY <1>1, LockInvariant, PTL

\* Under the same conditions nobody deletes the lock file of a process that has
\* the store.
THEOREM HolderKeepsItsFile ==
  ASSUME Orderly
  PROVE  Spec => HolderKept
<1>1. TypeOK /\ LockInv /\ LockInv' /\ [Next]_vars
        => [\A p \in Procs : pc[p] = "held" => owner' = p /\ written']_vars
  <2>. SUFFICES ASSUME TypeOK, LockInv, LockInv', Next, NEW p \in Procs, pc[p] = "held"
                PROVE  owner' = p /\ written'
    OBVIOUS
  <2>. USE DEF TypeOK, LockInv, Holding, Running, Acquiring, Goto
  <2>1. CASE pc'[p] \in Holding
    BY <2>1
  <2>2. CASE pc'[p] \notin Holding
    <3>1. PICK q \in Procs : Start(q) \/ Step(q) \/ Release(q) \/ Crash(q)
      BY DEF Next
    <3>2. pc' = [pc EXCEPT ![q] = pc'[q]]
      BY <3>1 DEF Start, Step, Release, Crash, Create, Write, WriteFails, ReadBack,
                  Look, Judge, Check, Remove, DropCheck, DropRemove
    <3>3. q = p
      BY <2>2, <3>2
    <3>4. Crash(p)
      BY <2>2, <3>1, <3>3 DEF Start, Step, Release, Create, Write, WriteFails,
                  ReadBack, Look, Judge, Check, Remove, DropCheck, DropRemove
    <3>. QED BY <3>4 DEF Crash
  <2>. QED BY <2>1, <2>2
<1>. QED BY <1>1, LockInvariant, PTL DEF Spec, HolderKept

=============================================================================
