--------------------------- MODULE AuditSinkProofs ---------------------------
(***************************************************************************)
(* What TLAPS shows of AuditSink for every set of devices, every pattern   *)
(* of failures and every bound.                                            *)
(***************************************************************************)
EXTENDS AuditSink, TLAPS

-----------------------------------------------------------------------------
(* What can be put at the end of a device.                                 *)

\* Appending a record, a splice or a fragment to lines gives lines.
LEMMA LineOps ==
  ASSUME NEW s \in Seq(Line), NEW r \in Line
  PROVE  /\ Appended(s, r) \in Seq(Line)
         /\ Torn(s) \in Seq(Line)
         /\ s # <<>> => LastLine(s) \in Line
         /\ s # <<>> => Front(s) \in Seq(Line)
         /\ s # <<>> => Append(Front(s), Fragment) \in Seq(Line)
<1>1. Fragment \in Line /\ Spliced \in Line
  BY DEF Fragment, Spliced, Line, Kinds
<1>2. s # <<>> => Len(s) \in 1..Len(s)
  OBVIOUS
<1>3. s # <<>> => LastLine(s) \in Line
  BY <1>2 DEF LastLine
<1>4. s # <<>> => Front(s) \in Seq(Line)
  BY <1>2 DEF Front
<1>5. Appended(s, r) \in Seq(Line)
  BY <1>1, <1>2 DEF Appended
<1>6. Torn(s) \in Seq(Line)
  BY <1>1 DEF Torn
<1>. QED BY <1>1, <1>3, <1>4, <1>5, <1>6

\* A device that ends in a record gets the record as one more line.
LEMMA AppendedIsAppend ==
  ASSUME NEW s \in Seq(Line), NEW r \in Line,
         s # <<>> => LastLine(s).kind = "record"
  PROVE  /\ Appended(s, r) = Append(s, r)
         /\ Len(Appended(s, r)) = Len(s) + 1
         /\ \A i \in 1..Len(s) : Appended(s, r)[i] = s[i]
         /\ Appended(s, r)[Len(s) + 1] = r
<1>1. Appended(s, r) = Append(s, r)
  BY DEF Appended
<1>. QED BY <1>1

-----------------------------------------------------------------------------
(* Types.                                                                  *)

\* A sink that was never opened is typed and has nothing in flight.
LEMMA InitTyped == Init => TypeOK /\ FlightInv
BY DeviceAssumption, BoundAssumption
   DEF Init, TypeOK, FlightInv, Line, Kinds, NoLine, Genesis

\* The chain that is resumed has a number of 1 or more and a hash.
LEMMA ResumedChainTyped ==
  TypeOK => ResumedChain \in [next : Nat, prev : Nat]
<1>. SUFFICES ASSUME TypeOK PROVE ResumedChain \in [next : Nat, prev : Nat]
  OBVIOUS
<1>1. log[Sqlite] \in Seq(Line)
  BY DeviceAssumption DEF TypeOK
<1>2. NoLine \in Line
  BY DEF NoLine, Line, Kinds
<1>3. log[Sqlite] # <<>> => LastLine(log[Sqlite]) \in Line
  BY <1>1, <1>2, LineOps
<1>. QED BY <1>3 DEF ResumedChain, Line, Genesis

\* Opening the sink, by the server or by a command.
LEMMA StartTyped ==
  ASSUME TypeOK, FlightInv, NEW S, S \subseteq Devices, Sqlite \in S,
         NEW to \in {"surface", "cli"}, Start(S, to)
  PROVE  TypeOK' /\ FlightInv'
<1>1. rec = NoLine /\ left = {} /\ failed = {}
  BY DEF FlightInv, Start, NoLine
<1>2. chain' \in [next : Nat, prev : Nat]
  BY ResumedChainTyped DEF Start, NewSink
<1>3. TypeOK'
  BY <1>1, <1>2 DEF TypeOK, Start, NewSink, durable, flight
<1>4. FlightInv'
  BY <1>1, DeviceAssumption DEF FlightInv, Start, NewSink, durable, flight, NoLine
<1>. QED BY <1>3, <1>4

\* Encoding offers the record to the slots that are not quarantined.
LEMMA EncodeTyped == TypeOK /\ FlightInv /\ Encode => TypeOK' /\ FlightInv'
<1>. SUFFICES ASSUME TypeOK, FlightInv, Encode PROVE TypeOK' /\ FlightInv'
  OBVIOUS
<1>1. rec' = [kind |-> "record", seq |-> chain.next, prev |-> chain.prev,
              hash |-> encoded + 1]
  BY DEF Encode, Record
<1>2. rec' \in Line
  BY <1>1 DEF TypeOK, Line, Kinds
<1>3. TypeOK'
  BY <1>2 DEF TypeOK, Encode, durable, memory
<1>4. rec'.kind = "record"
  BY <1>1
<1>5. FlightInv'
  BY <1>4, BoundAssumption DEF TypeOK, FlightInv, Encode, memory, durable
<1>. QED BY <1>3, <1>5

\* A slot that was asked is left alone for the rest of the record.
LEMMA DeviceStepTyped ==
  ASSUME TypeOK, FlightInv, NEW d \in Devices, DeviceStep(d)
  PROVE  TypeOK' /\ FlightInv'
<1>. USE DEF TypeOK
<1>1. rec \in Line /\ log[d] \in Seq(Line) /\ d \in opened \ quarantined /\ d \in left
  BY DEF DeviceStep, Rotate, Write, Refuse, RefuseTorn, Current, FlightInv
<1>2. /\ Appended(log[d], rec) \in Seq(Line)
      /\ Torn(log[d]) \in Seq(Line)
      /\ log[d] # <<>> => LastLine(log[d]) \in Line
      /\ log[d] # <<>> => Front(log[d]) \in Seq(Line)
      /\ log[d] # <<>> => Append(Front(log[d]), Fragment) \in Seq(Line)
  BY <1>1, LineOps
<1>3. CASE Rotate(d)
  <2>1. {log[d][i] : i \in 1..Len(log[d])} \subseteq Line
    BY <1>1
  <2>2. TypeOK'
    BY <1>2, <1>3, <2>1 DEF Rotate, flight, history
  <2>3. FlightInv'
    BY <1>3, DeviceAssumption DEF Rotate, flight, history, FlightInv
  <2>. QED BY <2>2, <2>3
<1>4. CASE Write(d)
  <2>1. TypeOK'
    BY <1>2, <1>4 DEF Write, memory, history
  <2>2. FlightInv'
    BY <1>4 DEF Write, memory, history, FlightInv, Current
  <2>. QED BY <2>1, <2>2
<1>5. CASE Refuse(d)
  <2>1. Truncations(d) \subseteq Seq(Line)
    BY <1>1, <1>2 DEF Truncations
  <2>2. TypeOK'
    BY <1>1, <1>5, <2>1 DEF Refuse, history
  <2>3. FlightInv'
    BY <1>1, <1>5 DEF Refuse, history, FlightInv, Current
  <2>. QED BY <2>2, <2>3
<1>6. CASE RefuseTorn(d)
  <2>1. TypeOK'
    BY <1>1, <1>2, <1>6 DEF RefuseTorn, history
  <2>2. FlightInv'
    BY <1>1, <1>6, DeviceAssumption DEF RefuseTorn, history, FlightInv, Current, Files
  <2>. QED BY <2>1, <2>2
<1>. QED BY <1>3, <1>4, <1>5, <1>6 DEF DeviceStep

\* A process that is gone leaves nothing in flight.
LEMMA ExitTyped ==
  FlightInv /\ encoded' = encoded /\ Exit =>
          /\ phase' = "down" /\ opened' = {} /\ quarantined' = {} /\ owed' = {}
          /\ unexplained' = {}
          /\ chain' \in [next : Nat, prev : Nat]
          /\ stale' \in [Devices -> BOOLEAN]
          /\ rec' \in Line /\ left' = {} /\ failed' = {}
          /\ FlightInv'
BY DeviceAssumption DEF Exit, Genesis, NoLine, Line, Kinds, FlightInv

\* The end of a record: refused by all, given up, or committed.
LEMMA RecordTyped ==
  ASSUME TypeOK, FlightInv, RecordFails \/ GiveUp \/ RecordCommits
  PROVE  TypeOK' /\ FlightInv'
<1>. USE DEF TypeOK
<1>1. /\ rec \in Line /\ rec.kind = "record" /\ rec.hash \in Nat /\ phase # "down"
      /\ NoLine \in Line
  BY DEF RecordFails, GiveUp, RecordCommits, NobodyStored, Offered, FlightInv, NoLine,
         Line, Kinds
<1>2. CASE RecordFails \/ RecordCommits
  <2>1. quarantined' \subseteq opened
    BY <1>2 DEF RecordFails, RecordCommits
  <2>2. phase' \in {"surface", "gaps", "serving", "cli"} /\ owed' \subseteq Devices
    BY <1>1, <1>2, <2>1 DEF RecordFails, RecordCommits, Explained, Proceed
  <2>3. unexplained' \subseteq Devices
    BY <1>2 DEF RecordFails, RecordCommits, Explained
  <2>4. TypeOK'
    <3>1. CASE RecordFails
      BY <3>1, <1>1, <2>2, <2>3 DEF RecordFails, durable, history
    <3>2. CASE RecordCommits
      BY <3>2, <1>1, <2>1, <2>2, <2>3 DEF RecordCommits, durable
    <3>. QED BY <1>2, <3>1, <3>2
  <2>5. FlightInv'
    BY <1>1, <1>2, <2>2 DEF RecordFails, RecordCommits, FlightInv, NobodyStored, Offered,
                            NoLine, history
  <2>. QED BY <2>4, <2>5
<1>3. CASE GiveUp
  BY <1>3, ExitTyped DEF GiveUp, durable, history
<1>. QED BY <1>2, <1>3

\* A crash, a half line and an archived file.
LEMMA EnvironmentTyped ==
  ASSUME TypeOK, FlightInv,
         Crash \/ (\E d \in Devices : CrashMidLine(d) \/ ArchiveFile(d))
  PROVE  TypeOK' /\ FlightInv'
<1>. USE DEF TypeOK
<1>1. CASE Crash
  BY <1>1, ExitTyped DEF Crash, durable, history
<1>2. ASSUME NEW d \in Devices, CrashMidLine(d) PROVE TypeOK' /\ FlightInv'
  <2>1. Torn(log[d]) \in Seq(Line)
    BY LineOps
  <2>. QED BY <1>2, <2>1, ExitTyped DEF CrashMidLine, history
<1>3. ASSUME NEW d \in Devices, ArchiveFile(d) PROVE TypeOK' /\ FlightInv'
  <2>1. {log[d][i] : i \in 1..Len(log[d])} \subseteq Line
    OBVIOUS
  <2>2. NoLine \in Line
    BY DEF NoLine, Line, Kinds
  <2>3. TypeOK'
    BY <1>3, <2>1, <2>2 DEF ArchiveFile, memory, flight, history
  <2>4. FlightInv'
    BY <1>3 DEF ArchiveFile, memory, flight, history, FlightInv
  <2>. QED BY <2>3, <2>4
<1>. QED BY <1>1, <1>2, <1>3

\* A step keeps the types and the bookkeeping of the record in flight.
LEMMA NextTyped == TypeOK /\ FlightInv /\ [Next]_vars => TypeOK' /\ FlightInv'
<1>. SUFFICES ASSUME TypeOK, FlightInv, [Next]_vars PROVE TypeOK' /\ FlightInv'
  OBVIOUS
<1>1. CASE StartServer
  BY <1>1, StartTyped, DeviceAssumption DEF StartServer
<1>2. CASE StartCli
  <2>1. PICK S \in CliDevices : Start(S, "cli")
    BY <1>2 DEF StartCli
  <2>. QED BY <2>1, StartTyped, DeviceAssumption
<1>3. CASE UNCHANGED vars
  BY <1>3 DEF vars, TypeOK, FlightInv
<1>. QED BY <1>1, <1>2, <1>3, EncodeTyped, DeviceStepTyped, RecordTyped,
            EnvironmentTyped DEF Next

\* Every state of every behaviour of the sink is typed: the sink never offers a
\* record to a slot it did not open or has quarantined, and nothing is in flight
\* in a process that is down.
THEOREM SinkTyped == Spec => []TypeOK
<1>1. Spec => [](TypeOK /\ FlightInv)
  BY InitTyped, NextTyped, PTL DEF Spec
<1>. QED BY <1>1, PTL

-----------------------------------------------------------------------------
(* The store's device: whatever fails, audit_log is one chain, and a slot   *)
(* is left to write to.                                                     *)

StoreParts == StoreRows /\ StoreInStep /\ LastDeviceStanding

\* An empty audit_log is a trail from GENESIS.
LEMMA InitStore == Init => StoreParts
BY DeviceAssumption
   DEF Init, StoreParts, StoreRows, StoreInStep, LastDeviceStanding

\* A step that leaves audit_log and the sink's bookkeeping alone.
LEMMA StoreUntouched ==
  ASSUME StoreParts, FlightInv, TypeOK,
         UNCHANGED <<phase, chain, opened, quarantined, rec, encoded>>,
         log'[Sqlite] = log[Sqlite],
         Sqlite \in left' <=> Sqlite \in left,
         Sqlite \in failed' <=> Sqlite \in failed
  PROVE  StoreParts'
BY DEF StoreParts, StoreRows, StoreRow, StoreInStep, LastDeviceStanding, Holds

\* A restart resumes the chain where audit_log ends.
LEMMA StartStore ==
  ASSUME StoreParts, FlightInv, TypeOK, NEW S, S \subseteq Devices, Sqlite \in S,
         NEW to \in {"surface", "cli"}, Start(S, to)
  PROVE  StoreParts'
<1>1. rec = NoLine /\ rec' = NoLine /\ rec'.kind # "record"
  BY DEF FlightInv, Start, flight, NoLine
<1>2. log[Sqlite] \in Seq(Line) /\ log' = log /\ encoded' = encoded
  BY DeviceAssumption DEF TypeOK, Start, durable
<1>3. /\ chain'.next = Len(log[Sqlite]) + 1
      /\ chain'.prev = IF Len(log[Sqlite]) = 0 THEN Genesis
                       ELSE log[Sqlite][Len(log[Sqlite])].hash
  BY <1>2 DEF Start, NewSink, ResumedChain, LastLine, StoreParts, StoreRows, StoreRow
<1>4. Sqlite \notin quarantined'
  BY <1>2, <1>3 DEF Start, NewSink, Disagrees, LastLine, StoreParts, StoreRows,
                    StoreRow
<1>5. Sqlite \in opened' \ quarantined'
  BY <1>4 DEF Start, NewSink
<1>6. StoreRows'
  BY <1>2 DEF StoreParts, StoreRows, StoreRow
<1>7. StoreInStep'
  BY <1>1, <1>2, <1>3 DEF StoreInStep, Holds
<1>. QED BY <1>5, <1>6, <1>7 DEF StoreParts, LastDeviceStanding

\* The record in flight has the number and the prev_hash that fit audit_log.
LEMMA EncodeStore ==
  ASSUME StoreParts, FlightInv, TypeOK, Encode
  PROVE  StoreParts'
<1>1. /\ log' = log /\ chain' = chain /\ phase' = phase /\ opened' = opened
      /\ quarantined' = quarantined /\ encoded' = encoded + 1
  BY DEF Encode, durable, memory
<1>2. encoded \in Nat /\ log[Sqlite] \in Seq(Line)
  BY DeviceAssumption DEF TypeOK
<1>3. StoreRows'
  BY <1>1, <1>2 DEF StoreParts, StoreRows, StoreRow
<1>4. ~Holds(Sqlite)
  BY DEF Encode, Holds, NoLine
<1>5. Sqlite \in opened \ quarantined => Sqlite \in left'
  BY DEF Encode
<1>6. phase # "down" => Sqlite \in opened
  BY DEF FlightInv
<1>7. rec'.hash = encoded + 1
  BY DEF Encode, Record
<1>8. \A i \in 1..Len(log[Sqlite]) : log[Sqlite][i].hash # rec'.hash
  BY <1>2, <1>7 DEF StoreParts, StoreRows, StoreRow
<1>9. StoreInStep'
  BY <1>1, <1>4, <1>5, <1>6, <1>8 DEF StoreParts, StoreInStep, Holds
<1>. QED BY <1>1, <1>3, <1>9 DEF StoreParts, LastDeviceStanding

\* The INSERT: the only step that changes audit_log.
LEMMA WriteStore ==
  ASSUME StoreParts, FlightInv, TypeOK, Write(Sqlite)
  PROVE  StoreParts'
<1>. DEFINE t == log[Sqlite]
<1>1. t \in Seq(Line) /\ rec \in Line /\ chain.next \in Nat /\ encoded \in Nat
  BY DeviceAssumption DEF TypeOK
<1>2. /\ rec.kind = "record" /\ Sqlite \in left
      /\ rec = Record(chain.next, chain.prev, encoded)
      /\ Sqlite \in opened \ quarantined /\ Sqlite \notin failed
      /\ phase # "down"
  BY DEF Write, Current, FlightInv, NoLine
<1>3. /\ rec.seq = chain.next /\ rec.prev = chain.prev /\ rec.hash = encoded
  BY <1>2 DEF Record
<1>4. ~Holds(Sqlite)
  BY <1>2 DEF Holds
<1>5. /\ Len(t) = chain.next - 1 /\ chain.next # 0
      /\ chain.prev = IF chain.next = 1 THEN Genesis ELSE t[chain.next - 1].hash
      /\ \A i \in 1..Len(t) : t[i].hash # rec.hash
  BY <1>2, <1>4 DEF StoreParts, StoreInStep
<1>6. t # <<>> => LastLine(t).kind = "record"
  BY <1>1 DEF StoreParts, StoreRows, StoreRow, LastLine
<1>7. log'[Sqlite] = Appended(t, rec)
  BY DeviceAssumption DEF Write, TypeOK
<1>8. /\ Len(log'[Sqlite]) = chain.next
      /\ \A i \in 1..Len(t) : log'[Sqlite][i] = t[i]
      /\ log'[Sqlite][chain.next] = rec
  BY <1>1, <1>5, <1>6, <1>7, AppendedIsAppend
<1>9. /\ phase' = phase /\ chain' = chain /\ quarantined' = quarantined
      /\ opened' = opened /\ rec' = rec /\ encoded' = encoded
      /\ failed' = failed /\ left' = left \ {Sqlite}
  BY DEF Write, memory, history
<1>10. Holds(Sqlite)'
  BY <1>2, <1>9 DEF Holds
<1>11. encoded # 0
  BY <1>2 DEF FlightInv
<1>12. ASSUME NEW i \in 1..Len(log'[Sqlite]) PROVE StoreRow(i)'
  <2>1. CASE i = chain.next
    <3>1. log'[Sqlite][i] = rec
      BY <1>8, <2>1
    <3>2. i # 1 => log'[Sqlite][i - 1] = t[i - 1]
      BY <1>1, <1>5, <1>8, <2>1
    <3>. QED BY <1>1, <1>2, <1>3, <1>5, <1>9, <1>11, <2>1, <3>1, <3>2 DEF StoreRow
  <2>2. CASE i # chain.next
    <3>1. i \in 1..Len(t) /\ StoreRow(i)
      BY <1>1, <1>5, <1>8, <2>2 DEF StoreParts, StoreRows
    <3>2. log'[Sqlite][i] = t[i] /\ (i # 1 => log'[Sqlite][i - 1] = t[i - 1])
      BY <1>1, <1>8, <3>1
    <3>. QED BY <1>9, <3>1, <3>2 DEF StoreRow
  <2>. QED BY <2>1, <2>2
<1>13. StoreInStep'
  <2>1. chain.next # 1 => log'[Sqlite][chain.next - 1] = t[chain.next - 1]
    BY <1>1, <1>5, <1>8
  <2>. QED BY <1>5, <1>8, <1>9, <1>10, <2>1 DEF StoreInStep
<1>. QED BY <1>9, <1>12, <1>13 DEF StoreParts, StoreRows, LastDeviceStanding

\* What a device does to the record in flight.
LEMMA DeviceStepStore ==
  ASSUME StoreParts, FlightInv, TypeOK, NEW d \in Devices, DeviceStep(d)
  PROVE  StoreParts'
<1>1. CASE Write(d) /\ d = Sqlite
  BY <1>1, WriteStore
<1>2. CASE Refuse(d) /\ d = Sqlite
  <2>1. log[d] \in Seq(Line) /\ ~stale[d]
    BY <1>2 DEF TypeOK, FlightInv
  <2>2. log' = log
    BY <1>2, <2>1 DEF Refuse, Truncations, TypeOK
  <2>3. /\ phase' = phase /\ chain' = chain /\ opened' = opened
        /\ quarantined' = quarantined /\ rec' = rec /\ encoded' = encoded
        /\ left' = left \ {d} /\ failed' = failed \cup {d} /\ d \in left
    BY <1>2 DEF Refuse, history, Current
  <2>4. ~Holds(Sqlite) /\ ~Holds(Sqlite)'
    BY <1>2, <2>3 DEF Holds
  <2>. QED BY <2>2, <2>3, <2>4
       DEF StoreParts, StoreRows, StoreRow, StoreInStep, LastDeviceStanding
<1>3. CASE d # Sqlite
  <2>1. /\ UNCHANGED <<phase, chain, opened, quarantined, rec, encoded>>
        /\ Sqlite \in left' <=> Sqlite \in left
        /\ Sqlite \in failed' <=> Sqlite \in failed
    BY <1>3 DEF DeviceStep, Rotate, Write, Refuse, RefuseTorn, flight, history, memory
  <2>2. log'[Sqlite] = log[Sqlite]
    BY <1>3, DeviceAssumption
       DEF DeviceStep, Rotate, Write, Refuse, RefuseTorn, TypeOK
  <2>. QED BY <2>1, <2>2, StoreUntouched
<1>4. CASE d = Sqlite /\ (Rotate(d) \/ RefuseTorn(d))
  BY <1>4, DeviceAssumption DEF Rotate, RefuseTorn, Files
<1>. QED BY <1>1, <1>2, <1>3, <1>4 DEF DeviceStep

\* audit_log outlives the process.
LEMMA ExitStore ==
  ASSUME StoreParts, log'[Sqlite] = log[Sqlite], encoded' = encoded, phase' = "down"
  PROVE  StoreParts'
BY DEF StoreParts, StoreRows, StoreRow, StoreInStep, LastDeviceStanding

\* Commit advances the chain exactly when the row is there; a failure does not.
LEMMA RecordStore ==
  ASSUME StoreParts, FlightInv, TypeOK, RecordFails \/ GiveUp \/ RecordCommits
  PROVE  StoreParts'
<1>. phase # "down"
  BY DEF RecordFails, GiveUp, RecordCommits, NobodyStored, Offered, FlightInv, NoLine
<1>1. CASE RecordFails
  <2>1. /\ UNCHANGED <<chain, opened, quarantined, log, encoded>>
        /\ rec' = NoLine /\ rec'.kind # "record"
    BY <1>1 DEF RecordFails, durable, memory, history, NoLine
  <2>2. left = {} /\ failed = opened \ quarantined /\ Sqlite \in opened
    BY <1>1 DEF RecordFails, NobodyStored, Offered, FlightInv
  <2>3. Sqlite \notin quarantined => ~Holds(Sqlite)
    BY <2>2 DEF Holds
  <2>. QED BY <2>1, <2>3
       DEF StoreParts, StoreRows, StoreRow, StoreInStep, LastDeviceStanding, Holds
<1>2. CASE GiveUp
  BY <1>2, ExitStore DEF GiveUp, Exit, durable, history
<1>3. CASE RecordCommits
  <2>1. /\ log' = log /\ encoded' = encoded /\ opened' = opened
        /\ rec' = NoLine /\ rec'.kind # "record"
        /\ chain' = [next |-> chain.next + 1, prev |-> rec.hash]
        /\ quarantined' = quarantined \cup failed
    BY <1>3 DEF RecordCommits, durable, NoLine
  <2>2. rec.kind = "record" /\ left = {} /\ phase # "down" /\ chain.next \in Nat
    BY <1>3 DEF RecordCommits, Offered, TypeOK
  <2>3. StoreRows'
    BY <2>1 DEF StoreParts, StoreRows, StoreRow
  <2>4. StoreInStep'
    <3>. SUFFICES ASSUME Sqlite \notin quarantined' PROVE StoreInStep'
      BY DEF StoreInStep
    <3>1. Holds(Sqlite) /\ Sqlite \notin quarantined
      BY <2>1, <2>2 DEF Holds
    <3>2. /\ Len(log[Sqlite]) = chain.next /\ log[Sqlite][chain.next] = rec
          /\ chain.next # 0
      BY <2>2, <3>1 DEF StoreParts, StoreInStep
    <3>4. chain'.next = chain.next + 1 /\ chain'.prev = rec.hash
      BY <2>1
    <3>5. ~Holds(Sqlite)'
      BY <2>1 DEF Holds
    <3>. QED BY <2>1, <2>2, <3>2, <3>4, <3>5 DEF StoreInStep
  <2>5. LastDeviceStanding'
    BY <1>3, <2>1, <2>2 DEF RecordCommits, FlightInv, LastDeviceStanding
  <2>. QED BY <2>3, <2>4, <2>5 DEF StoreParts
<1>. QED BY <1>1, <1>2, <1>3

\* Crashes and archived files do not touch audit_log.
LEMMA EnvironmentStore ==
  ASSUME StoreParts, FlightInv, TypeOK,
         Crash \/ (\E d \in Devices : CrashMidLine(d) \/ ArchiveFile(d))
  PROVE  StoreParts'
<1>1. CASE Crash
  BY <1>1, ExitStore DEF Crash, Exit, durable, history
<1>2. ASSUME NEW d \in Devices, CrashMidLine(d) PROVE StoreParts'
  BY <1>2, ExitStore, DeviceAssumption DEF CrashMidLine, Exit, history, Files, TypeOK
<1>3. ASSUME NEW d \in Devices, ArchiveFile(d) PROVE StoreParts'
  BY <1>3, StoreUntouched, DeviceAssumption
     DEF ArchiveFile, Files, memory, flight, history, TypeOK
<1>. QED BY <1>1, <1>2, <1>3

\* Every step keeps the invariant of the store's device.
LEMMA NextStore ==
  StoreParts /\ FlightInv /\ TypeOK /\ [Next]_vars => StoreParts'
<1>. SUFFICES ASSUME StoreParts, FlightInv, TypeOK, [Next]_vars PROVE StoreParts'
  OBVIOUS
<1>1. CASE StartServer
  BY <1>1, StartStore, DeviceAssumption DEF StartServer
<1>2. CASE StartCli
  <2>1. PICK S \in CliDevices : Start(S, "cli")
    BY <1>2 DEF StartCli
  <2>. QED BY <2>1, StartStore, DeviceAssumption
<1>3. CASE UNCHANGED vars
  BY <1>3, StoreUntouched DEF vars
<1>. QED BY <1>1, <1>2, <1>3, EncodeStore, DeviceStepStore, RecordStore,
            EnvironmentStore DEF Next

\* The inductive invariant: the chain in memory is where audit_log ends, for as
\* long as the store's device is written to.
THEOREM StoreInvariant == Spec => []StoreInv
<1>1. Init => TypeOK /\ FlightInv /\ StoreParts
  BY InitTyped, InitStore
<1>2. TypeOK /\ FlightInv /\ StoreParts /\ [Next]_vars
        => (TypeOK /\ FlightInv /\ StoreParts)'
  BY NextTyped, NextStore
<1>3. TypeOK /\ FlightInv /\ StoreParts => StoreInv
  BY DEF StoreParts, StoreInv
<1>. QED BY <1>1, <1>2, <1>3, PTL DEF Spec

\* Rows numbered from 1, each naming the one before, verify from GENESIS.
LEMMA StoreInvVerifies == StoreInv => StoreTrailVerifies
<1>. SUFFICES ASSUME StoreInv PROVE StoreTrailVerifies
  OBVIOUS
<1>1. log[Sqlite] \in Seq(Line) /\ StoreRows
  BY DeviceAssumption DEF StoreInv, TypeOK
<1>2. \A i \in 1..Len(log[Sqlite]) - 1 : Follows(log[Sqlite][i], log[Sqlite][i + 1])
  <2>. TAKE i \in 1..Len(log[Sqlite]) - 1
  <2>1. i \in 1..Len(log[Sqlite]) /\ i + 1 \in 1..Len(log[Sqlite])
    BY <1>1
  <2>2. StoreRow(i) /\ StoreRow(i + 1) /\ i + 1 # 1 /\ (i + 1) - 1 = i
    BY <1>1, <2>1 DEF StoreRows
  <2>. QED BY <2>2 DEF StoreRow, Follows
<1>3. Verifies(log[Sqlite])
  BY <1>1, <1>2 DEF Verifies, StoreRows, StoreRow
<1>4. log[Sqlite] # <<>> => StoreRow(1)
  BY <1>1 DEF StoreRows
<1>. QED BY <1>3, <1>4 DEF StoreTrailVerifies, StoreRow

\* The rows of audit_log verify from GENESIS in every deployment: refusals on
\* any device, torn files, crashes between two devices, restarts and CLI sessions
\* never leave a gap, a repeated number or a broken link in the store's copy.
THEOREM StoreAlwaysVerifies == Spec => []StoreTrailVerifies
BY StoreInvariant, StoreInvVerifies, PTL

\* Quarantine never walks a running sink down to no devices, in any deployment.
THEOREM NeverWithoutDevice == Spec => []LastDeviceStanding
<1>1. StoreInv => LastDeviceStanding
  BY DEF StoreInv
<1>. QED BY <1>1, StoreInvariant, PTL

-----------------------------------------------------------------------------
(* What was reported as stored stays readable.                              *)

\* A line that moves to the archive, or that the file keeps, can still be read.
LEMMA KeptStays ==
  ASSUME archive \subseteq archive',
         \A d \in Devices : \A i \in 1..Len(log[d]) :
           log[d][i] \in archive' \/ \E j \in 1..Len(log'[d]) : log'[d][j] = log[d][i],
         NEW r, Kept(r)
  PROVE  Kept(r)'
BY DEF Kept

\* Steps that touch no device.
LEMMA KeptUntouched ==
  ASSUME KeptInv, UNCHANGED <<log, archive, accepted>>,
         \A d \in Devices : ~stale'[d],
         \A d \in opened' \ quarantined' : Holds(d)' => Kept(rec')
  PROVE  KeptInv'
BY DEF KeptInv, Kept, AcceptedIsKept

\* What a device does to the record in flight: a file that is not torn keeps its
\* lines when it refuses, and a rotation moves them all.
LEMMA DeviceStepKept ==
  ASSUME ~TornWrites, TypeOK, FlightInv, KeptInv, NEW d \in Devices, DeviceStep(d)
  PROVE  KeptInv'
<1>1. /\ log \in [Devices -> Seq(Line)] /\ stale \in [Devices -> BOOLEAN] /\ rec \in Line
      /\ rec.kind = "record" /\ d \in left /\ accepted' = accepted /\ rec' = rec
      /\ opened' = opened /\ quarantined' = quarantined
  BY DEF TypeOK, DeviceStep, Rotate, Write, Refuse, RefuseTorn, Current, flight, history, memory
<1>2. \A e \in Devices : ~stale[e]
  BY DEF KeptInv
<1>3. \A i \in 1..Len(log[d]) : log[d][i].kind = "record"
  BY DEF KeptInv
<1>4. CASE Rotate(d)
  <2>1. /\ archive' = archive \cup {log[d][i] : i \in 1..Len(log[d])}
        /\ log' = [log EXCEPT ![d] = <<>>] /\ stale' = [stale EXCEPT ![d] = FALSE]
        /\ left' = left /\ failed' = failed
    BY <1>4 DEF Rotate, flight
  <2>2. \A r : Kept(r) => Kept(r)'
    <3>1. \A e \in Devices : \A i \in 1..Len(log[e]) :
            log[e][i] \in archive' \/ \E j \in 1..Len(log'[e]) : log'[e][j] = log[e][i]
      BY <1>1, <2>1
    <3>. QED BY <2>1, <3>1, KeptStays
  <2>3. \A e \in Devices : ~stale'[e] /\ \A i \in 1..Len(log'[e]) : log'[e][i].kind = "record"
    BY <1>1, <1>2, <2>1 DEF KeptInv
  <2>4. \A e : Holds(e)' <=> Holds(e)
    BY <1>1, <2>1 DEF Holds
  <2>. QED BY <1>1, <2>2, <2>3, <2>4 DEF KeptInv, AcceptedIsKept
<1>5. CASE Write(d)
  <2>1. /\ log' = [log EXCEPT ![d] = Appended(log[d], rec)] /\ archive' = archive
        /\ stale' = stale
    BY <1>5 DEF Write, memory
  <2>2. log[d] # <<>> => LastLine(log[d]).kind = "record"
    BY <1>1, <1>3 DEF LastLine
  <2>3. /\ Len(log'[d]) = Len(log[d]) + 1 /\ log'[d][Len(log[d]) + 1] = rec
        /\ \A i \in 1..Len(log[d]) : log'[d][i] = log[d][i]
    BY <1>1, <2>1, <2>2, AppendedIsAppend
  <2>4. Len(log[d]) \in Nat /\ \A e \in Devices \ {d} : log'[e] = log[e]
    BY <1>1, <2>1
  <2>5. \A r : Kept(r) => Kept(r)'
    <3>1. \A e \in Devices : \A i \in 1..Len(log[e]) :
            \E j \in 1..Len(log'[e]) : log'[e][j] = log[e][i]
      BY <2>3, <2>4
    <3>. QED BY <2>1, <3>1, KeptStays
  <2>6. Kept(rec)'
    BY <1>1, <2>3, <2>4 DEF Kept
  <2>7. \A e \in Devices : \A i \in 1..Len(log'[e]) : log'[e][i].kind = "record"
    <3>. SUFFICES ASSUME NEW e \in Devices, NEW i \in 1..Len(log'[e])
                  PROVE  log'[e][i].kind = "record"
      OBVIOUS
    <3>1. CASE e # d
      BY <2>4, <3>1 DEF KeptInv
    <3>2. CASE e = d /\ i # Len(log[d]) + 1
      BY <1>3, <2>3, <2>4, <3>2
    <3>. QED BY <1>1, <2>3, <3>1, <3>2
  <2>. QED BY <1>1, <1>2, <2>1, <2>5, <2>6, <2>7 DEF KeptInv, AcceptedIsKept
<1>6. CASE Refuse(d)
  <2>1. log' = log /\ archive' = archive
    BY <1>1, <1>2, <1>6 DEF Refuse, Truncations
  <2>2. \A e \in Devices : ~stale'[e]
    BY <1>1, <1>2, <1>6 DEF Refuse
  <2>3. \A e : Holds(e)' => Holds(e)
    BY <1>1, <1>6 DEF Refuse, Holds
  <2>. QED BY <1>1, <2>1, <2>2, <2>3 DEF KeptInv, AcceptedIsKept, Kept
<1>7. ~RefuseTorn(d)
  BY DEF RefuseTorn
<1>. QED BY <1>4, <1>5, <1>6, <1>7 DEF DeviceStep

\* The end of a record: it is reported as stored when a slot that was asked did
\* not refuse, and that slot has it.
LEMMA RecordKept ==
  ASSUME TypeOK, FlightInv, KeptInv, RecordFails \/ GiveUp \/ RecordCommits
  PROVE  KeptInv'
<1>1. rec'.kind # "record" /\ log' = log /\ archive' = archive
  BY DEF RecordFails, GiveUp, RecordCommits, Exit, durable, NoLine
<1>2. \A d : ~Holds(d)'
  BY <1>1 DEF Holds
<1>3. \A d \in Devices : ~stale'[d]
  BY DEF RecordFails, GiveUp, RecordCommits, Exit, KeptInv
<1>4. CASE RecordFails \/ GiveUp
  <2>1. accepted' = accepted
    BY <1>4 DEF RecordFails, GiveUp, history
  <2>. QED BY <1>1, <1>2, <1>3, <2>1, KeptUntouched
<1>5. CASE RecordCommits
  <2>1. /\ accepted' = accepted \cup {rec} /\ rec.kind = "record" /\ left = {}
        /\ failed # opened \ quarantined
    BY <1>5 DEF RecordCommits, Offered
  <2>2. PICK d \in opened \ quarantined : d \notin failed
    BY <2>1 DEF FlightInv
  <2>3. Kept(rec)
    BY <2>1, <2>2 DEF Holds, KeptInv
  <2>4. \A r : Kept(r) => Kept(r)'
    BY <1>1 DEF Kept
  <2>. QED BY <1>1, <1>2, <1>3, <2>1, <2>3, <2>4 DEF KeptInv, AcceptedIsKept
<1>. QED BY <1>4, <1>5

\* Starting and stopping a process, and archiving a file.
LEMMA EnvironmentKept ==
  ASSUME ~TornWrites, TypeOK, FlightInv, KeptInv, NEW d \in Devices,
         Encode \/ StartServer \/ StartCli \/ Crash \/ CrashMidLine(d) \/ ArchiveFile(d)
  PROVE  KeptInv'
<1>1. CASE Encode
  <2>1. \A e \in opened' \ quarantined' : ~Holds(e)'
    BY <1>1 DEF Encode, memory, Holds
  <2>. QED BY <1>1, <2>1, KeptUntouched DEF Encode, memory, durable, KeptInv
<1>2. CASE StartServer \/ StartCli
  <2>1. PICK S, to : Start(S, to)
    BY <1>2 DEF StartServer, StartCli
  <2>2. rec' = NoLine /\ \A e \in Devices : ~stale'[e]
    BY <2>1 DEF Start, NewSink, flight, FlightInv
  <2>3. \A e : ~Holds(e)'
    BY <2>2 DEF Holds, NoLine
  <2>. QED BY <2>1, <2>2, <2>3, KeptUntouched DEF Start, durable
<1>3. CASE Crash
  <2>1. rec' = NoLine /\ \A e \in Devices : ~stale'[e]
    BY <1>3 DEF Crash, Exit
  <2>2. \A e : ~Holds(e)'
    BY <2>1 DEF Holds, NoLine
  <2>. QED BY <1>3, <2>1, <2>2, KeptUntouched DEF Crash, durable, history
<1>4. CASE ArchiveFile(d)
  <2>1. /\ archive' = archive \cup {log[d][i] : i \in 1..Len(log[d])}
        /\ log' = [log EXCEPT ![d] = <<>>]
        /\ UNCHANGED <<stale, rec, left, failed, opened, quarantined, accepted>>
    BY <1>4 DEF ArchiveFile, memory, flight, history
  <2>2. log \in [Devices -> Seq(Line)]
    BY DEF TypeOK
  <2>3. \A r : Kept(r) => Kept(r)'
    <3>1. \A e \in Devices : \A i \in 1..Len(log[e]) :
            log[e][i] \in archive' \/ \E j \in 1..Len(log'[e]) : log'[e][j] = log[e][i]
      BY <2>1, <2>2
    <3>. QED BY <2>1, <3>1, KeptStays
  <2>4. \A e \in Devices : ~stale'[e] /\ \A i \in 1..Len(log'[e]) : log'[e][i].kind = "record"
    BY <2>1, <2>2 DEF KeptInv
  <2>5. \A e : Holds(e)' <=> Holds(e)
    BY <2>1 DEF Holds
  <2>. QED BY <2>1, <2>3, <2>4, <2>5 DEF KeptInv, AcceptedIsKept
<1>5. ~CrashMidLine(d)
  BY DEF CrashMidLine
<1>. QED BY <1>1, <1>2, <1>3, <1>4, <1>5

\* Where no half line is left in a file, every record that AuditSink::record
\* reported as stored can be read for ever after, on a device or in an archive,
\* whichever devices refuse, the store's included, and wherever the process dies.
THEOREM StoredStaysReadable ==
  ASSUME ~TornWrites
  PROVE  Spec => []AcceptedIsKept
<1>1. Init => KeptInv
  BY DEF Init, KeptInv, AcceptedIsKept
<1>2. TypeOK /\ FlightInv /\ KeptInv /\ [Next]_vars => KeptInv'
  <2>. SUFFICES ASSUME TypeOK, FlightInv, KeptInv, [Next]_vars PROVE KeptInv'
    OBVIOUS
  <2>1. CASE UNCHANGED vars
    BY <2>1 DEF vars, KeptInv, Kept, AcceptedIsKept, Holds
  <2>2. Sqlite \in Devices
    BY DeviceAssumption
  <2>. QED BY <2>1, <2>2, DeviceStepKept, RecordKept, EnvironmentKept DEF Next
<1>3. Spec => [](TypeOK /\ FlightInv)
  BY InitTyped, NextTyped, PTL DEF Spec
<1>4. KeptInv => AcceptedIsKept
  BY DEF KeptInv
<1>. QED BY <1>1, <1>2, <1>3, <1>4, PTL DEF Spec

=============================================================================
