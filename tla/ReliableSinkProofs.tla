-------------------------- MODULE ReliableSinkProofs --------------------------
(***************************************************************************)
(* What TLAPS shows of AuditSink in the deployment ReliableStore describes: *)
(* the files are copies of audit_log, and the sink implements AuditTrail.  *)
(***************************************************************************)
EXTENDS AuditSinkProofs

\* audit_log is a run of itself.
LEMMA StoreIsARun == TypeOK /\ StoreRows => RunOfStore(Sqlite)
<1>. SUFFICES ASSUME TypeOK, StoreRows PROVE RunOfStore(Sqlite)
  OBVIOUS
<1>1. log[Sqlite] \in Seq(Line)
  BY DeviceAssumption DEF TypeOK
<1>. QED BY <1>1 DEF StoreRows, StoreRow, RunOfStore

\* A copy that is left alone stays a run of audit_log while audit_log grows.
LEMMA RunKept ==
  ASSUME TypeOK, NEW d \in Devices, RunOfStore(d), log'[d] = log[d],
         Len(log[Sqlite]) <= Len(log'[Sqlite]), Len(log'[Sqlite]) \in Nat,
         \A i \in 1..Len(log[Sqlite]) : log'[Sqlite][i] = log[Sqlite][i]
  PROVE  RunOfStore(d)'
<1>1. log[Sqlite] \in Seq(Line) /\ log[d] \in Seq(Line)
  BY DeviceAssumption DEF TypeOK
<1>2. ASSUME NEW i \in 1..Len(log[d])
      PROVE  /\ log[d][i].seq \in 1..Len(log'[Sqlite])
             /\ log[d][i] = log'[Sqlite][log[d][i].seq]
  BY <1>1 DEF RunOfStore
<1>. QED BY <1>1, <1>2 DEF RunOfStore

\* A copy that ends at row k - 1 and gets row k is a run that ends at row k.
LEMMA RunExtended ==
  ASSUME TypeOK, NEW d \in Devices, RunOfStore(d), NEW k \in 1..Len(log[Sqlite]),
         log'[Sqlite] = log[Sqlite], log[Sqlite][k].seq = k,
         log[d] # <<>> => LastLine(log[d]).seq = k - 1,
         log'[d] = Append(log[d], log[Sqlite][k])
  PROVE  RunOfStore(d)' /\ LastLine(log'[d]).seq = k
<1>. DEFINE t == log[d]
            r == log[Sqlite][k]
<1>1. log[Sqlite] \in Seq(Line) /\ t \in Seq(Line) /\ r \in Line
  BY DeviceAssumption DEF TypeOK
<1>2. /\ Len(log'[d]) = Len(t) + 1
      /\ \A i \in 1..Len(t) : log'[d][i] = t[i]
      /\ log'[d][Len(t) + 1] = r
  BY <1>1
<1>3. \A i \in 1..Len(log'[d]) : /\ log'[d][i].seq \in 1..Len(log[Sqlite])
                                 /\ log'[d][i] = log[Sqlite][log'[d][i].seq]
  BY <1>1, <1>2 DEF RunOfStore
<1>4. ASSUME NEW i \in 1..Len(log'[d]) - 1
      PROVE  log'[d][i + 1].seq = log'[d][i].seq + 1
  <2>1. CASE i = Len(t)
    <3>1. t # <<>> /\ t[Len(t)].seq = k - 1
      BY <1>1, <1>2, <2>1 DEF LastLine
    <3>. QED BY <1>1, <1>2, <2>1, <3>1
  <2>2. CASE i # Len(t)
    <3>1. i \in 1..Len(t) - 1 /\ i + 1 \in 1..Len(t) /\ i \in 1..Len(t)
      BY <1>1, <1>2, <2>2
    <3>. QED BY <1>2, <3>1 DEF RunOfStore
  <2>. QED BY <2>1, <2>2
<1>. QED BY <1>2, <1>3, <1>4 DEF RunOfStore, LastLine

\* The last line of a copy is a record.
LEMMA CopyEndsInRecord ==
  ASSUME TypeOK, StoreRows, NEW d \in Devices, RunOfStore(d)
  PROVE  log[d] # <<>> => LastLine(log[d]).kind = "record"
<1>1. log[d] \in Seq(Line)
  BY DEF TypeOK
<1>. QED BY <1>1 DEF RunOfStore, StoreRows, StoreRow, LastLine

-----------------------------------------------------------------------------
(* Steps.                                                                  *)

\* While the sink is up the store's device is a slot that is written to.
LEMMA StoreIsWritten ==
  ASSUME StoreInv, CopyInv, phase # "down"
  PROVE  /\ Sqlite \in opened \ quarantined
         /\ Holds(Sqlite) => /\ Len(log[Sqlite]) = chain.next
                             /\ log[Sqlite][chain.next] = rec
         /\ ~Holds(Sqlite) => Len(log[Sqlite]) = chain.next - 1
         /\ chain.next \in Nat /\ chain.next # 0
BY DEF StoreInv, FlightInv, CopyInv, StoreInStep, TypeOK

\* Empty copies are runs of an empty audit_log.
LEMMA InitCopy == Init => CopyInv
BY DeviceAssumption
   DEF Init, CopyInv, RunOfStore, InStep, AcceptedInStore

\* A copy that ends elsewhere than audit_log is quarantined at start-up.
LEMMA StartCopy ==
  ASSUME StoreInv, CopyInv, NEW S, S \subseteq Devices, Sqlite \in S,
         NEW to \in {"surface", "cli"}, Start(S, to), StoreInv'
  PROVE  CopyInv'
<1>1. /\ log' = log /\ accepted' = accepted /\ opened' = S
      /\ rec' = rec /\ rec.kind # "record" /\ failed' = {}
      /\ chain' = ResumedChain
      /\ quarantined' = {d \in S : Disagrees(d, ResumedChain.next - 1)}
      /\ stale' = [d \in Devices |-> FALSE]
  BY DEF Start, NewSink, durable, flight, StoreInv, FlightInv, NoLine
<1>2. \A d \in Devices : RunOfStore(d)'
  BY <1>1 DEF CopyInv, RunOfStore
<1>3. ASSUME NEW d \in S, d \notin quarantined' PROVE InStep(d)'
  <2>1. log[d] # <<>> => LastLine(log[d]).kind = "record"
    BY CopyEndsInRecord DEF StoreInv, CopyInv
  <2>2. log[d] # <<>> => LastLine(log[d]).seq = ResumedChain.next - 1
    BY <1>1, <1>3, <2>1 DEF Disagrees
  <2>. QED BY <1>1, <2>2 DEF InStep, Holds
<1>4. Sqlite \notin quarantined'
  <2>1. log[Sqlite] \in Seq(Line)
    BY DeviceAssumption DEF StoreInv, TypeOK
  <2>2. log[Sqlite] # <<>> => LastLine(log[Sqlite]).seq \in Nat
    <3>1. NoLine \in Line
      BY DEF NoLine, Line, Kinds
    <3>2. log[Sqlite] # <<>> => LastLine(log[Sqlite]) \in Line
      BY <2>1, <3>1, LineOps
    <3>. QED BY <3>2 DEF Line
  <2>3. ~Disagrees(Sqlite, ResumedChain.next - 1)
    BY <2>2 DEF Disagrees, ResumedChain
  <2>. QED BY <1>1, <2>3
<1>5. AcceptedInStore'
  BY <1>1 DEF CopyInv, AcceptedInStore
<1>. QED BY <1>1, <1>2, <1>3, <1>4, <1>5 DEF CopyInv

\* A record that is only encoded is on no device.
LEMMA EncodeCopy ==
  ASSUME StoreInv, CopyInv, Encode
  PROVE  CopyInv'
<1>1. /\ log' = log /\ accepted' = accepted /\ opened' = opened /\ stale' = stale
      /\ chain' = chain /\ quarantined' = quarantined /\ failed' = {}
      /\ left' = opened \ quarantined /\ rec.kind # "record"
  BY DEF Encode, durable, memory, NoLine
<1>2. \A d \in Devices : RunOfStore(d)'
  BY <1>1 DEF CopyInv, RunOfStore
<1>3. \A d \in opened' \ quarantined' : InStep(d)'
  BY <1>1 DEF CopyInv, InStep, Holds
<1>. QED BY <1>1, <1>2, <1>3 DEF CopyInv, AcceptedInStore

\* The INSERT: every other copy stays a run of the longer audit_log.
LEMMA WriteStoreCopy ==
  ASSUME StoreInv, CopyInv, Write(Sqlite), StoreInv'
  PROVE  CopyInv'
<1>1. /\ opened' = opened /\ quarantined' = quarantined /\ stale' = stale
      /\ chain' = chain /\ rec' = rec /\ failed' = failed
      /\ left' = left \ {Sqlite} /\ accepted' = accepted
      /\ rec.kind = "record" /\ Sqlite \in left /\ phase' = phase
      /\ phase # "down"
  BY DEF Write, memory, history, Current, StoreInv, FlightInv, NoLine
<1>2. /\ log[Sqlite] \in Seq(Line) /\ rec \in Line /\ log \in [Devices -> Seq(Line)]
      /\ Sqlite \in Devices
  BY DeviceAssumption DEF StoreInv, TypeOK
<1>3. log' = [log EXCEPT ![Sqlite] = Append(log[Sqlite], rec)]
  BY <1>2, AppendedIsAppend, CopyEndsInRecord DEF Write, StoreInv, CopyInv
<1>4. /\ Len(log'[Sqlite]) = Len(log[Sqlite]) + 1
      /\ \A i \in 1..Len(log[Sqlite]) : log'[Sqlite][i] = log[Sqlite][i]
  BY <1>2, <1>3
<1>5. ASSUME NEW d \in Devices PROVE RunOfStore(d)'
  <2>1. CASE d = Sqlite
    <3>1. TypeOK' /\ StoreRows'
      BY DEF StoreInv
    <3>2. RunOfStore(Sqlite)'
      BY <3>1, StoreIsARun, PTL
    <3>. QED BY <2>1, <3>2
  <2>2. CASE d # Sqlite
    <3>1. log'[d] = log[d] /\ TypeOK /\ RunOfStore(d)
      BY <1>2, <1>3, <2>2 DEF StoreInv, CopyInv
    <3>. QED BY <1>2, <1>4, <3>1, RunKept
  <2>. QED BY <2>1, <2>2
<1>6. ASSUME NEW d \in opened \ quarantined PROVE InStep(d)'
  <2>1. CASE d = Sqlite
    <3>1. Holds(Sqlite)'
      BY <1>1 DEF Holds, StoreInv, FlightInv
    <3>2. Len(log'[Sqlite]) = chain.next /\ log'[Sqlite][chain.next] = rec
      BY <1>1, <3>1 DEF StoreInv, StoreInStep, CopyInv
    <3>3. rec.seq = chain.next
      BY <1>1 DEF StoreInv, FlightInv, Record
    <3>. QED BY <1>1, <2>1, <3>1, <3>2, <3>3 DEF InStep, LastLine
  <2>2. CASE d # Sqlite
    <3>1. log'[d] = log[d] /\ (Holds(d)' <=> Holds(d)) /\ InStep(d)
      BY <1>1, <1>2, <1>3, <2>2 DEF Holds, CopyInv
    <3>. QED BY <1>1, <3>1 DEF InStep
  <2>. QED BY <2>1, <2>2
<1>7. AcceptedInStore'
  BY <1>1, <1>2, <1>4 DEF CopyInv, AcceptedInStore
<1>. QED BY <1>1, <1>5, <1>6, <1>7 DEF CopyInv

\* A file is offered only what audit_log already has.
LEMMA WriteFileCopy ==
  ASSUME ReliableStore, StoreInv, CopyInv, NEW d \in Files, Write(d)
  PROVE  CopyInv'
<1>1. /\ opened' = opened /\ quarantined' = quarantined /\ stale' = stale
      /\ chain' = chain /\ rec' = rec /\ failed' = failed
      /\ left' = left \ {d} /\ accepted' = accepted
      /\ rec.kind = "record" /\ d \in left /\ \A e \in left : d <= e
      /\ phase # "down"
  BY DEF Write, memory, history, Current, StoreInv, FlightInv, NoLine
<1>2. /\ d \in Devices /\ d # Sqlite /\ Sqlite \in Devices
      /\ log[d] \in Seq(Line) /\ rec \in Line /\ log \in [Devices -> Seq(Line)]
      /\ d \in Nat /\ Sqlite \in Nat /\ log[Sqlite] \in Seq(Line)
  BY DeviceAssumption DEF StoreInv, TypeOK, Files
<1>3. Sqlite \notin left
  BY <1>1, <1>2 DEF ReliableStore
<1>4. Holds(Sqlite)
  BY <1>1, <1>3 DEF Holds, CopyInv
<1>5. /\ Len(log[Sqlite]) = chain.next /\ log[Sqlite][chain.next] = rec
      /\ chain.next \in 1..Len(log[Sqlite]) /\ rec.seq = chain.next
  BY <1>1, <1>2, <1>4, StoreIsWritten DEF StoreInv, FlightInv, Record
<1>6. log' = [log EXCEPT ![d] = Append(log[d], rec)]
  BY <1>2, AppendedIsAppend, CopyEndsInRecord DEF Write, StoreInv, CopyInv
<1>7. /\ log'[Sqlite] = log[Sqlite] /\ log'[d] = Append(log[d], rec)
      /\ \A e \in Devices \ {d} : log'[e] = log[e]
  BY <1>2, <1>6
<1>8. log[d] # <<>> => LastLine(log[d]).seq = chain.next - 1
  BY <1>1 DEF StoreInv, FlightInv, CopyInv, InStep, Holds
<1>9. RunOfStore(d)' /\ LastLine(log'[d]).seq = chain.next
  BY <1>2, <1>5, <1>7, <1>8, RunExtended DEF StoreInv, CopyInv
<1>10. ASSUME NEW e \in Devices, e # d PROVE RunOfStore(e)'
  <2>1. log'[e] = log[e] /\ log'[Sqlite] = log[Sqlite]  BY <1>7, <1>10
  <2>2. RunOfStore(e) /\ Len(log[Sqlite]) \in Nat  BY <1>2, <1>10 DEF CopyInv
  <2>. QED BY <1>10, <2>1, <2>2, RunKept DEF StoreInv
<1>11. Holds(d)'
  BY <1>1 DEF Holds, StoreInv, FlightInv
<1>12. ASSUME NEW e \in opened \ quarantined, e # d PROVE InStep(e)'
  <2>1. log'[e] = log[e] /\ (Holds(e)' <=> Holds(e)) /\ InStep(e)
    BY <1>1, <1>7, <1>12 DEF Holds, CopyInv, StoreInv, TypeOK
  <2>. QED BY <1>1, <2>1 DEF InStep
<1>13. InStep(d)'
  BY <1>1, <1>9, <1>11 DEF InStep
<1>14. AcceptedInStore'
  BY <1>1, <1>7 DEF CopyInv, AcceptedInStore
<1>. QED BY <1>1, <1>9, <1>10, <1>12, <1>13, <1>14 DEF CopyInv

\* The store's device takes every record that is offered to it: its numbers end
\* one below the chain's, so the primary key is free.
LEMMA OnlyFilesRefuse ==
  ASSUME ReliableStore, StoreInv, CopyInv, NEW d \in Devices, Refuse(d)
  PROVE  d \in Files
<1>. SUFFICES ASSUME d = Sqlite PROVE FALSE
  BY DEF Files
<1>1. /\ ~Insertable(Sqlite) /\ rec.kind = "record" /\ Sqlite \in left
      /\ phase # "down"
  BY DEF Refuse, ReliableStore, Current, StoreInv, FlightInv, NoLine
<1>2. Len(log[Sqlite]) = chain.next - 1 /\ chain.next \in Nat /\ chain.next # 0
  BY <1>1, StoreIsWritten DEF Holds
<1>3. rec.seq = chain.next
  BY <1>1 DEF StoreInv, FlightInv, Record
<1>. QED BY <1>1, <1>2, <1>3 DEF Insertable, StoreInv, StoreRows, StoreRow

\* A rotation, a write and a refusal each leave runs of audit_log.
LEMMA DeviceStepCopy ==
  ASSUME ReliableStore, StoreInv, CopyInv, NEW d \in Devices, DeviceStep(d), StoreInv'
  PROVE  CopyInv'
<1>. /\ log \in [Devices -> Seq(Line)] /\ Sqlite \in Devices
     /\ stale \in [Devices -> BOOLEAN]
  BY DeviceAssumption DEF StoreInv, TypeOK
<1>1. CASE Rotate(d)
  <2>1. /\ opened' = opened /\ quarantined' = quarantined
        /\ chain' = chain /\ rec' = rec /\ failed' = failed
        /\ left' = left /\ accepted' = accepted /\ d # Sqlite
        /\ log' = [log EXCEPT ![d] = <<>>]
        /\ stale' = [stale EXCEPT ![d] = FALSE]
    BY <1>1, DeviceAssumption DEF Rotate, flight, history
  <2>2. ASSUME NEW e \in Devices PROVE RunOfStore(e)'
    <3>1. log'[Sqlite] = log[Sqlite] /\ (e # d => log'[e] = log[e])
          /\ (e = d => log'[e] = <<>>)
      BY <2>1
    <3>. QED BY <3>1 DEF CopyInv, RunOfStore
  <2>3. ASSUME NEW e \in opened \ quarantined PROVE InStep(e)'
    <3>1. /\ e \in Devices /\ (e # d => log'[e] = log[e]) /\ (e = d => log'[e] = <<>>)
          /\ InStep(e) /\ (Holds(e)' <=> Holds(e))
      BY <2>1 DEF StoreInv, TypeOK, CopyInv, Holds
    <3>. QED BY <2>1, <3>1 DEF InStep
  <2>4. AcceptedInStore' /\ \A e \in Devices : ~stale'[e]
    BY <2>1 DEF CopyInv, AcceptedInStore
  <2>. QED BY <2>1, <2>2, <2>3, <2>4 DEF CopyInv
<1>2. CASE Write(d) /\ d = Sqlite
  BY <1>2, WriteStoreCopy
<1>3. CASE Write(d) /\ d # Sqlite
  BY <1>3, WriteFileCopy DEF Files
<1>4. CASE Refuse(d)
  <2>1. d # Sqlite
    BY <1>4, OnlyFilesRefuse DEF Files
  <2>2. ~stale[d]
    BY DEF CopyInv
  <2>3. log' = log
    BY <1>4, <2>2 DEF Refuse, Truncations
  <2>4. /\ opened' = opened /\ quarantined' = quarantined
        /\ chain' = chain /\ rec' = rec /\ failed' = failed \cup {d}
        /\ left' = left \ {d} /\ accepted' = accepted /\ d \in left
        /\ (stale' = stale \/ stale' = [stale EXCEPT ![d] = FALSE])
    BY <1>4 DEF Refuse, history, Current
  <2>5. \A e : Holds(e)' <=> Holds(e)
    BY <2>4 DEF Holds
  <2>6. \A e \in Devices : ~stale'[e]
    <3>1. CASE stale' = stale
      BY <3>1 DEF CopyInv
    <3>2. CASE stale' = [stale EXCEPT ![d] = FALSE]
      BY <3>2 DEF CopyInv
    <3>. QED BY <2>4, <3>1, <3>2
  <2>7. \A e \in Devices : RunOfStore(e)'
    BY <2>3 DEF CopyInv, RunOfStore
  <2>8. \A e \in opened' \ quarantined' : InStep(e)'
    BY <2>3, <2>4, <2>5 DEF CopyInv, InStep
  <2>. QED BY <2>1, <2>3, <2>4, <2>6, <2>7, <2>8 DEF CopyInv, AcceptedInStore
<1>5. CASE RefuseTorn(d)
  BY <1>5 DEF RefuseTorn, ReliableStore
<1>. QED BY <1>1, <1>2, <1>3, <1>4, <1>5 DEF DeviceStep

\* Fail-closed has nothing to do here: the store's device never refuses.
LEMMA SomebodyStored ==
  ASSUME StoreInv, CopyInv
  PROVE  ~NobodyStored
BY DEF NobodyStored, Offered, StoreInv, FlightInv, CopyInv, NoLine

\* What is committed is in audit_log, and slots that missed it are quarantined.
LEMMA CommitCopy ==
  ASSUME StoreInv, CopyInv, RecordCommits
  PROVE  CopyInv' /\ \E i \in 1..Len(log[Sqlite]) : log[Sqlite][i] = rec
<1>1. /\ log' = log /\ opened' = opened /\ quarantined' = quarantined \cup failed
      /\ stale' = stale /\ failed' = {} /\ rec'.kind # "record"
      /\ chain' = [next |-> chain.next + 1, prev |-> rec.hash]
      /\ accepted' = accepted \cup {rec} /\ left = {} /\ rec.kind = "record"
      /\ phase # "down"
  BY DEF RecordCommits, Offered, durable, NoLine, StoreInv, FlightInv
<1>2. chain'.next = chain.next + 1 /\ Holds(Sqlite)
  BY <1>1 DEF Holds, CopyInv
<1>3. /\ Len(log[Sqlite]) = chain.next /\ log[Sqlite][chain.next] = rec
      /\ chain.next \in Nat /\ chain.next \in 1..Len(log[Sqlite])
  BY <1>1, <1>2, StoreIsWritten
<1>4. \A d \in Devices : RunOfStore(d)'
  BY <1>1 DEF CopyInv, RunOfStore
<1>5. ASSUME NEW d \in opened' \ quarantined' PROVE InStep(d)'
  <2>1. d \in opened \ quarantined /\ Holds(d) /\ ~Holds(d)' /\ InStep(d)
    BY <1>1 DEF Holds, CopyInv
  <2>. QED BY <1>1, <1>2, <1>3, <2>1 DEF InStep
<1>6. AcceptedInStore'
  BY <1>1, <1>3 DEF CopyInv, AcceptedInStore
<1>. QED BY <1>1, <1>3, <1>4, <1>5, <1>6 DEF CopyInv

\* A crash between two slots leaves the later copies one record behind.
LEMMA EnvironmentCopy ==
  ASSUME ReliableStore, StoreInv, CopyInv,
         Crash \/ (\E d \in Devices : CrashMidLine(d) \/ ArchiveFile(d))
  PROVE  CopyInv'
<1>. log \in [Devices -> Seq(Line)] /\ Sqlite \in Devices
  BY DeviceAssumption DEF StoreInv, TypeOK
<1>1. CASE Crash
  BY <1>1 DEF Crash, Exit, durable, history, CopyInv, RunOfStore, AcceptedInStore
<1>2. ASSUME NEW d \in Devices, CrashMidLine(d) PROVE FALSE
  BY <1>2 DEF CrashMidLine, ReliableStore
<1>3. ASSUME NEW d \in Devices, ArchiveFile(d) PROVE CopyInv'
  <2>1. /\ opened' = opened /\ quarantined' = quarantined /\ stale' = stale
        /\ failed' = failed /\ accepted' = accepted /\ d # Sqlite
        /\ log' = [log EXCEPT ![d] = <<>>] /\ opened = {}
    BY <1>3 DEF ArchiveFile, memory, flight, history, Files, StoreInv, FlightInv
  <2>2. ASSUME NEW e \in Devices PROVE RunOfStore(e)'
    <3>1. log'[Sqlite] = log[Sqlite] /\ (e # d => log'[e] = log[e])
          /\ (e = d => log'[e] = <<>>)
      BY <2>1
    <3>. QED BY <3>1 DEF CopyInv, RunOfStore
  <2>. QED BY <2>1, <2>2 DEF CopyInv, AcceptedInStore
<1>. QED BY <1>1, <1>2, <1>3

\* Every step keeps the invariant of the copies.
LEMMA NextCopy ==
  ASSUME ReliableStore, StoreInv, CopyInv, [Next]_vars, StoreInv'
  PROVE  CopyInv'
<1>1. CASE StartServer
  BY <1>1, StartCopy, DeviceAssumption DEF StartServer
<1>2. CASE StartCli
  <2>1. PICK S \in CliDevices : Start(S, "cli")
    BY <1>2 DEF StartCli
  <2>. QED BY <2>1, StartCopy, DeviceAssumption
<1>3. CASE UNCHANGED vars
  BY <1>3 DEF vars, CopyInv, RunOfStore, InStep, Holds, AcceptedInStore
<1>. QED BY <1>1, <1>2, <1>3, EncodeCopy, DeviceStepCopy, SomebodyStored,
            CommitCopy, EnvironmentCopy DEF Next, RecordFails, GiveUp

-----------------------------------------------------------------------------
(* Theorems.                                                               *)

\* The inductive invariant: every copy is a run of audit_log, and a slot that is
\* written to ends where the chain in memory does.
THEOREM CopyInvariant ==
  ASSUME ReliableStore
  PROVE  Spec => [](StoreInv /\ CopyInv)
<1>1. Init => CopyInv
  BY InitCopy
<1>2. StoreInv /\ StoreInv' /\ CopyInv /\ [Next]_vars => CopyInv'
  BY NextCopy
<1>. QED BY <1>1, <1>2, StoreInvariant, PTL DEF Spec

\* Two copies that are runs of one audit_log hold one history.
LEMMA CopiesAgree ==
  StoreInv /\ CopyInv => CopiesVerify /\ SameHistory /\ AcceptedInStore
<1>. SUFFICES ASSUME StoreInv, CopyInv
              PROVE  CopiesVerify /\ SameHistory /\ AcceptedInStore
  OBVIOUS
<1>1. log \in [Devices -> Seq(Line)] /\ Sqlite \in Devices /\ StoreRows
      /\ \A d \in Devices : RunOfStore(d)
  BY DeviceAssumption DEF StoreInv, TypeOK, CopyInv
<1>2. ASSUME NEW d \in Devices PROVE Verifies(log[d])
  <2>1. ASSUME NEW i \in 1..Len(log[d])
        PROVE  /\ log[d][i].seq \in 1..Len(log[Sqlite])
               /\ log[d][i] = log[Sqlite][log[d][i].seq]
               /\ log[d][i].kind = "record"
    BY <1>1 DEF RunOfStore, StoreRows, StoreRow
  <2>2. ASSUME NEW i \in 1..Len(log[d]) - 1
        PROVE  Follows(log[d][i], log[d][i + 1])
    <3>1. i \in 1..Len(log[d]) /\ i + 1 \in 1..Len(log[d])
      BY <1>1
    <3>2. log[d][i + 1].seq = log[d][i].seq + 1
      BY <1>1 DEF RunOfStore
    <3>. DEFINE k == log[d][i].seq
    <3>3. /\ k \in 1..Len(log[Sqlite]) /\ k + 1 \in 1..Len(log[Sqlite])
          /\ log[d][i] = log[Sqlite][k] /\ log[d][i + 1] = log[Sqlite][k + 1]
      BY <2>1, <3>1, <3>2
    <3>4. StoreRow(k + 1) /\ k + 1 # 1 /\ (k + 1) - 1 = k
      BY <1>1, <3>3 DEF StoreRows
    <3>5. log[d][i + 1].prev = log[d][i].hash
      BY <3>3, <3>4 DEF StoreRow
    <3>. QED BY <2>1, <3>1, <3>2, <3>5 DEF Follows
  <2>. QED BY <2>1, <2>2 DEF Verifies
<1>3. SameHistory
  BY <1>1 DEF SameHistory, RunOfStore
<1>. QED BY <1>2, <1>3 DEF CopyInv, CopiesVerify

\* With the store's device first and reliable, and no half lines, every file
\* verifies from whatever record it starts at, quarantined or not.
THEOREM FilesVerify ==
  ASSUME ReliableStore
  PROVE  Spec => []CopiesVerify
BY CopyInvariant, CopiesAgree, PTL

\* In that deployment no two devices ever hold different records under one
\* sequence number, whichever files refuse and wherever the process dies.
THEOREM OneHistory ==
  ASSUME ReliableStore
  PROVE  Spec => []SameHistory
BY CopyInvariant, CopiesAgree, PTL

\* In that deployment a record that AuditSink::record reported as stored is in
\* audit_log for ever after.
THEOREM StoredMeansInStore ==
  ASSUME ReliableStore
  PROVE  Spec => []AcceptedInStore
BY CopyInvariant, CopiesAgree, PTL

\* A step that is not the INSERT leaves audit_log alone, and one that is not a
\* commit leaves the answers alone.
LEMMA TrailLeftAlone ==
  ASSUME StoreInv, CopyInv, [Next]_vars,
         ~Write(Sqlite), ~RecordCommits
  PROVE  log'[Sqlite] = log[Sqlite] /\ accepted' = accepted
<1>. /\ log \in [Devices -> Seq(Line)] /\ Sqlite \in Devices
     /\ Sqlite \notin Rotating /\ ~stale[Sqlite]
  BY DeviceAssumption DEF StoreInv, TypeOK, CopyInv
<1>1. CASE StartServer \/ StartCli
  BY <1>1 DEF StartServer, StartCli, Start, durable
<1>2. CASE Encode \/ RecordFails \/ GiveUp \/ Crash
  BY <1>2 DEF Encode, RecordFails, GiveUp, Crash, durable, history
<1>3. ASSUME NEW d \in Devices, DeviceStep(d)
      PROVE  log'[Sqlite] = log[Sqlite] /\ accepted' = accepted
  <2>1. CASE d = Sqlite
    BY <1>3, <2>1 DEF DeviceStep, Rotate, Refuse, RefuseTorn, Truncations, Files,
                      history
  <2>2. CASE d # Sqlite
    BY <1>3, <2>2 DEF DeviceStep, Rotate, Write, Refuse, RefuseTorn, history
  <2>. QED BY <2>1, <2>2
<1>4. ASSUME NEW d \in Devices, CrashMidLine(d) \/ ArchiveFile(d)
      PROVE  log'[Sqlite] = log[Sqlite] /\ accepted' = accepted
  BY <1>4 DEF CrashMidLine, ArchiveFile, Files, history
<1>5. CASE UNCHANGED vars
  BY <1>5 DEF vars
<1>. QED BY <1>1, <1>2, <1>3, <1>4, <1>5 DEF Next

\* The INSERT extends the abstract trail.
LEMMA WriteExtends ==
  ASSUME StoreInv, CopyInv, Write(Sqlite)
  PROVE  Trail!Extend
<1>1. /\ rec.kind = "record" /\ Sqlite \in left /\ accepted' = accepted
      /\ phase # "down" /\ rec = Record(chain.next, chain.prev, encoded)
  BY DEF Write, history, Current, StoreInv, FlightInv, NoLine
<1>2. /\ log[Sqlite] \in Seq(Line) /\ rec \in Line /\ log \in [Devices -> Seq(Line)]
      /\ Sqlite \in Devices
  BY DeviceAssumption DEF StoreInv, TypeOK
<1>3. log'[Sqlite] = Append(log[Sqlite], rec)
  BY <1>2, AppendedIsAppend, CopyEndsInRecord DEF Write, StoreInv, CopyInv
<1>4. ~Holds(Sqlite) /\ Sqlite \notin quarantined
  BY <1>1 DEF Holds, CopyInv
<1>5. /\ Len(log[Sqlite]) = chain.next - 1 /\ chain.next \in Nat /\ chain.next # 0
      /\ chain.prev = IF chain.next = 1 THEN Genesis
                                        ELSE log[Sqlite][chain.next - 1].hash
      /\ \A i \in 1..Len(log[Sqlite]) : log[Sqlite][i].hash # rec.hash
  BY <1>1, <1>4 DEF StoreInv, StoreInStep, TypeOK
<1>6. chain.next = Len(log[Sqlite]) + 1 /\ chain.prev = Trail!HeadHash
  BY <1>2, <1>5 DEF Trail!HeadHash, Genesis
<1>7. encoded \in 1..MaxEncoded /\ rec.hash = encoded
  BY <1>1, BoundAssumption DEF StoreInv, FlightInv, TypeOK, Record
<1>8. rec = Trail!TrailRecord(Len(log[Sqlite]) + 1, Trail!HeadHash, encoded)
  BY <1>1, <1>6 DEF Record, Trail!TrailRecord
<1>. QED BY <1>1, <1>3, <1>5, <1>7, <1>8 DEF Trail!Extend

\* In that deployment the sink implements AuditTrail: audit_log only grows, by
\* records that follow the one before, and only records that are in it are
\* answered for, across refusals of the files, crashes and restarts.
THEOREM SinkImplementsTrail ==
  ASSUME ReliableStore
  PROVE  Spec => ImplementsTrail
<1>1. Init => Trail!TrailInit
  BY DeviceAssumption DEF Init, Trail!TrailInit
<1>2. StoreInv /\ CopyInv /\ [Next]_vars
        => [Trail!TrailNext]_<<log[Sqlite], accepted>>
  <2>. SUFFICES ASSUME StoreInv, CopyInv, [Next]_vars
                PROVE  [Trail!TrailNext]_<<log[Sqlite], accepted>>
    OBVIOUS
  <2>1. CASE Write(Sqlite)
    BY <2>1, WriteExtends DEF Trail!TrailNext
  <2>2. CASE RecordCommits
    <3>1. PICK i \in 1..Len(log[Sqlite]) : log[Sqlite][i] = rec
      BY <2>2, CommitCopy
    <3>2. accepted' = accepted \cup {rec} /\ log' = log
      BY <2>2 DEF RecordCommits, durable
    <3>. QED BY <3>1, <3>2 DEF Trail!TrailNext, Trail!Acknowledge
  <2>3. CASE ~Write(Sqlite) /\ ~RecordCommits
    BY <2>3, TrailLeftAlone
  <2>. QED BY <2>1, <2>2, <2>3
<1>. QED BY <1>1, <1>2, CopyInvariant, PTL
     DEF Spec, ImplementsTrail, Trail!TrailSpec

=============================================================================
