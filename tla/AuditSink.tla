------------------------------ MODULE AuditSink ------------------------------
(***************************************************************************)
(* The audit sink of ciphr: one hash chain held in memory, written to      *)
(* every configured device in slot order, and resumed from the store's own *)
(* device after a restart (crates/ciphr-audit, and the start-up half of    *)
(* crates/ciphr-server and crates/ciphr-cli that builds the sink).         *)
(*                                                                         *)
(* One process has the store at a time (module StoreLock), and one thread  *)
(* of it has the sink's mutex, so one record is in flight at a time. What  *)
(* interleaves with it is failure: a device refuses, a rotation empties a  *)
(* file, the process dies between two devices or in the middle of a line,  *)
(* an operator archives a file while the service is stopped.               *)
(*                                                                         *)
(* SHA-256 is taken to be collision free: the hash of a record is a number *)
(* no other record has, and GENESIS is 0.                                  *)
(***************************************************************************)
EXTENDS Integers, Sequences

CONSTANTS
  Devices,     \* the configured devices; slot order is the order of the numbers
  Sqlite,      \* the device inside the store, which the chain is resumed from
  Failing,     \* the devices that may refuse a write
  Rotating,    \* the file devices opened with a rotation size
  TornWrites,  \* whether a file can be left with half a line
  CliDevices,  \* the sets of devices a CLI session opens
  MaxEncoded,  \* bound: records encoded in a behaviour
  MaxStarts    \* bound: processes started in a behaviour

ASSUME DeviceAssumption ==
  /\ Devices \subseteq Nat
  /\ Sqlite \in Devices
  /\ Failing \subseteq Devices
  /\ Rotating \subseteq Devices \ {Sqlite}
  /\ TornWrites \in BOOLEAN
  /\ \A S \in CliDevices : S \subseteq Devices /\ Sqlite \in S

ASSUME BoundAssumption == MaxEncoded \in Nat /\ MaxStarts \in Nat

VARIABLES
  log,         \* per device: the lines of the live file, or the rows of audit_log
  prior,       \* per device: the last line of the segment rotated away before it
  archive,     \* lines moved out of a live file, by rotation or by an operator
  phase,       \* what the process that has the sink is doing
  chain,       \* Chain { next_seq, prev_hash }
  opened,      \* the slots of the sink
  quarantined, \* the slots that are no longer written to
  owed,        \* quarantined slots the start-up still owes an entry for
  unexplained, \* slots that refused a start-up entry and are not explained yet
  stale,       \* per device: FileDevice.written is not the length of the file
  rec,         \* the record in flight
  left,        \* the slots it has not been offered to yet
  failed,      \* the slots that refused it
  accepted,    \* records AuditSink::record returned Ok for
  encoded,     \* records encoded so far; the hash of the next one is one more
  starts       \* processes started so far

durable == <<log, prior, archive>>
memory  == <<phase, chain, opened, quarantined, owed, unexplained, stale>>
flight  == <<rec, left, failed>>
history == <<accepted, encoded, starts>>
vars    == <<log, prior, archive, phase, chain, opened, quarantined, owed,
             unexplained, stale, rec, left, failed, accepted, encoded, starts>>

Files == Devices \ {Sqlite}

-----------------------------------------------------------------------------
(* Records, lines and what a reader can do with them.                      *)

Genesis == 0

Kinds == {"none", "record", "fragment", "spliced"}

Line == [kind : Kinds, seq : Nat, prev : Nat, hash : Nat]

Record(s, p, h) == [kind |-> "record", seq |-> s, prev |-> p, hash |-> h]

NoLine   == [kind |-> "none",     seq |-> 0, prev |-> 0, hash |-> 0]
Fragment == [kind |-> "fragment", seq |-> 0, prev |-> 0, hash |-> 0]
Spliced  == [kind |-> "spliced",  seq |-> 0, prev |-> 0, hash |-> 0]

LastLine(s) == s[Len(s)]

Front(s) == SubSeq(s, 1, Len(s) - 1)

\* What verify checks between two neighbours: the sequence number and prev_hash.
Follows(a, b) ==
  /\ a.kind = "record" /\ b.kind = "record"
  /\ b.seq = a.seq + 1
  /\ b.prev = a.hash

\* A run of lines that verifies from whatever record it starts at.
Verifies(s) ==
  /\ \A i \in 1..Len(s) : s[i].kind = "record"
  /\ \A i \in 1..Len(s) - 1 : Follows(s[i], s[i + 1])

\* A line put at the end of a file. One that ends in a fragment has no newline
\* there, so the record is concatenated to the fragment.
Appended(s, r) ==
  IF s # <<>> /\ LastLine(s).kind = "fragment"
    THEN [s EXCEPT ![Len(s)] = Spliced]
    ELSE Append(s, r)

\* Half a line put at the end of a file. Two fragments in a row are one line.
Torn(s) ==
  IF s # <<>> /\ LastLine(s).kind = "fragment" THEN s ELSE Append(s, Fragment)

-----------------------------------------------------------------------------
(* Starting: SqliteStore::audit_chain, the devices, AuditSink::new.        *)

\* Mutant of ResumedChain: a restart begins a new chain.
ResumedChainAnew == [next |-> 1, prev |-> Genesis]

\* chain_to_continue on a store that was never cut.
ResumedChain ==
  IF log[Sqlite] = <<>>
    THEN [next |-> 1, prev |-> Genesis]
    ELSE [next |-> LastLine(log[Sqlite]).seq + 1,
          prev |-> LastLine(log[Sqlite]).hash]

\* Mutant of Disagrees: a quarantine is held in memory only.
DisagreesNever(d, head) == FALSE

\* head_seq answered Ok(Some(seq)) with another number than the chain head. An
\* empty device (Ok(None)) and a last line that is no record (Err) are let in.
Disagrees(d, head) ==
  /\ log[d] # <<>>
  /\ LastLine(log[d]).kind = "record"
  /\ LastLine(log[d]).seq # head

\* AuditSink::new over the devices in S.
NewSink(S) ==
  /\ chain' = ResumedChain
  /\ opened' = S
  /\ quarantined' = {d \in S : Disagrees(d, ResumedChain.next - 1)}
  /\ stale' = [d \in Devices |-> FALSE]

Start(S, to) ==
  /\ phase = "down"
  /\ starts < MaxStarts
  /\ starts' = starts + 1
  /\ NewSink(S)
  /\ phase' = to
  /\ UNCHANGED <<durable, flight, owed, unexplained, accepted, encoded>>

\* Server::prepare. The entry naming the active surface comes first.
StartServer == Start(Devices, "surface")

\* Session::with_audit, for a command that records what it does.
StartCli == \E S \in CliDevices : Start(S, "cli")

-----------------------------------------------------------------------------
(* AuditSink::record, one step per device.                                 *)

\* Chain::encode, which does not advance the chain.
Encode ==
  /\ phase # "down"
  /\ rec = NoLine
  /\ encoded < MaxEncoded
  /\ encoded' = encoded + 1
  /\ rec' = Record(chain.next, chain.prev, encoded + 1)
  /\ left' = opened \ quarantined
  /\ failed' = {}
  /\ UNCHANGED <<durable, memory, accepted, starts>>

\* The slot the loop over the slots is at.
Current(d) ==
  /\ rec.kind = "record"
  /\ d \in left
  /\ \A e \in left : d <= e

\* audit_log.seq is the primary key, so a second row with the number is refused.
Insertable(d) ==
  d = Sqlite => \A i \in 1..Len(log[d]) : log[d][i].seq # rec.seq

\* FileDevice::rotate, before the record that would overflow the file. The guard
\* is written > 0: at least one line that the device knows of. When the new file
\* cannot be opened the device refuses this record, too. The CLI never rotates.
Rotate(d) ==
  /\ Current(d)
  /\ d \in Rotating /\ phase # "cli"
  /\ log[d] # <<>>
  /\ ~(stale[d] /\ Len(log[d]) = 1)
  /\ prior' = [prior EXCEPT ![d] = LastLine(log[d])]
  /\ archive' = archive \cup {log[d][i] : i \in 1..Len(log[d])}
  /\ log' = [log EXCEPT ![d] = <<>>]
  /\ stale' = [stale EXCEPT ![d] = FALSE]
  /\ UNCHANGED <<phase, chain, opened, quarantined, owed, unexplained, flight, history>>

\* AuditDevice::write returned Ok.
Write(d) ==
  /\ Current(d)
  /\ Insertable(d)
  /\ log' = [log EXCEPT ![d] = Appended(log[d], rec)]
  /\ left' = left \ {d}
  /\ UNCHANGED <<prior, archive, memory, rec, failed, history>>

\* What set_len(written) makes of a file. A length that is out of date cuts
\* off the uncounted bytes, or as many bytes of the last line.
Truncations(d) ==
  IF stale[d] /\ log[d] # <<>>
    THEN {Front(log[d]), Append(Front(log[d]), Fragment)}
    ELSE {log[d]}

\* AuditDevice::write returned Err and left nothing of the record behind: the
\* row was not inserted, the file could not be rotated, or it was truncated to
\* where it ended before.
Refuse(d) ==
  /\ Current(d)
  /\ d \in Failing \/ ~Insertable(d)
  /\ \/ UNCHANGED <<log, stale>>
     \/ /\ \E s \in Truncations(d) : log' = [log EXCEPT ![d] = s]
        /\ stale' = [stale EXCEPT ![d] = FALSE]
  /\ left' = left \ {d}
  /\ failed' = failed \cup {d}
  /\ UNCHANGED <<prior, archive, phase, chain, opened, quarantined, owed,
                 unexplained, rec, history>>

\* FileDevice::write failed and so did the truncation: half of the line, or a
\* whole line that was not synced, stays in the file.
RefuseTorn(d) ==
  /\ Current(d)
  /\ TornWrites /\ d \in Failing \cap Files
  /\ \E s \in {Torn(log[d]), Appended(log[d], rec)} :
       log' = [log EXCEPT ![d] = s]
  /\ stale' = [stale EXCEPT ![d] = TRUE]
  /\ left' = left \ {d}
  /\ failed' = failed \cup {d}
  /\ UNCHANGED <<prior, archive, phase, chain, opened, quarantined, owed,
                 unexplained, rec, history>>

\* Every slot was offered the record.
Offered == rec.kind = "record" /\ left = {}

\* The sink's memory goes with its process.
Exit ==
  /\ phase' = "down"
  /\ chain' = [next |-> 1, prev |-> Genesis]
  /\ opened' = {}
  /\ quarantined' = {}
  /\ owed' = {}
  /\ unexplained' = {}
  /\ stale' = [d \in Devices |-> FALSE]
  /\ rec' = NoLine
  /\ left' = {}
  /\ failed' = {}

\* What start-up does once an entry of its own is behind it: after the surface
\* entry one entry for each slot that is quarantined by then, then the listener.
Proceed ==
  \/ /\ phase = "surface"
     /\ owed' = quarantined'
     /\ phase' = IF quarantined' = {} THEN "serving" ELSE "gaps"
  \/ /\ phase = "gaps"
     /\ \E d \in owed : owed' = owed \ {d}
     /\ phase' = IF owed' = {} THEN "serving" ELSE "gaps"
  \/ /\ phase \in {"serving", "cli"}
     /\ UNCHANGED <<phase, owed>>

\* AppState::explain_the_gap during start-up: one more entry for each slot that
\* refused, stored or not, and none for the slots that refuse that one. While the
\* service runs these entries are records like any other.
Explained ==
  \E d \in unexplained :
    /\ unexplained' = unexplained \ {d}
    /\ IF unexplained' = {} THEN Proceed ELSE UNCHANGED <<phase, owed>>

\* Every slot that was asked refused, or none was asked.
NobodyStored == Offered /\ failed = opened \ quarantined

\* Mutant of RecordFails: the sequence number of a lost record is used up.
RecordFailsAdvancing ==
  /\ NobodyStored
  /\ phase = "serving"
  /\ chain' = [next |-> chain.next + 1, prev |-> rec.hash]
  /\ rec' = NoLine
  /\ failed' = {}
  /\ UNCHANGED <<left, phase, opened, quarantined, owed, unexplained, stale,
                 durable, history>>

\* Mutant of RecordFails: a device is quarantined for refusing, committed or not.
RecordFailsQuarantining ==
  /\ NobodyStored
  /\ phase = "serving"
  /\ quarantined' = quarantined \cup failed
  /\ rec' = NoLine
  /\ failed' = {}
  /\ UNCHANGED <<left, phase, chain, opened, owed, unexplained, stale, durable,
                 history>>

\* AllDevicesFailed: the chain does not advance. A serving process answers 503 and
\* goes on, and so does a start-up whose explanation was not stored.
RecordFails ==
  /\ NobodyStored
  /\ rec' = NoLine
  /\ failed' = {}
  /\ UNCHANGED <<left, chain, opened, quarantined, stale, durable, history>>
  /\ \/ phase = "serving" /\ UNCHANGED <<phase, owed, unexplained>>
     \/ Explained

\* AllDevicesFailed for an entry that start-up or a CLI command insists on.
GiveUp ==
  /\ NobodyStored
  /\ phase # "serving" /\ unexplained = {}
  /\ Exit
  /\ UNCHANGED <<durable, history>>

\* Mutant of RecordCommits: committed without asking whether a device took it.
RecordCommitsAnyway ==
  /\ Offered
  /\ chain' = [next |-> chain.next + 1, prev |-> rec.hash]
  /\ quarantined' = quarantined \cup failed
  /\ accepted' = accepted \cup {rec}
  /\ Proceed
  /\ rec' = NoLine
  /\ failed' = {}
  /\ UNCHANGED <<durable, opened, unexplained, stale, left, encoded, starts>>

\* Chain::commit, then the quarantine of every slot that refused.
RecordCommits ==
  /\ Offered
  /\ failed # opened \ quarantined
  /\ chain' = [next |-> chain.next + 1, prev |-> rec.hash]
  /\ quarantined' = quarantined \cup failed
  /\ accepted' = accepted \cup {rec}
  /\ \/ Explained
     \/ /\ unexplained = {} /\ failed # {} /\ phase \in {"surface", "gaps"}
        /\ unexplained' = failed
        /\ UNCHANGED <<phase, owed>>
     \/ /\ unexplained = {} /\ (failed = {} \/ phase \in {"serving", "cli"})
        /\ Proceed
        /\ UNCHANGED unexplained
  /\ rec' = NoLine
  /\ failed' = {}
  /\ UNCHANGED <<durable, opened, stale, left, encoded, starts>>

-----------------------------------------------------------------------------
(* The environment.                                                        *)

\* The process stops, at any point between two steps.
Crash ==
  /\ phase # "down"
  /\ Exit
  /\ UNCHANGED <<durable, history>>

\* The machine stops while a file is being appended to.
CrashMidLine(d) ==
  /\ Current(d)
  /\ TornWrites /\ d \in Files
  /\ log' = [log EXCEPT ![d] = Torn(log[d])]
  /\ Exit
  /\ UNCHANGED <<prior, archive, history>>

\* The documented way back from a quarantine: with the service stopped, the file
\* is moved aside and kept.
ArchiveFile(d) ==
  /\ phase = "down"
  /\ d \in Files
  /\ log[d] # <<>>
  /\ archive' = archive \cup {log[d][i] : i \in 1..Len(log[d])}
  /\ log' = [log EXCEPT ![d] = <<>>]
  /\ prior' = [prior EXCEPT ![d] = NoLine]
  /\ UNCHANGED <<memory, flight, history>>

-----------------------------------------------------------------------------
Init ==
  /\ log = [d \in Devices |-> <<>>]
  /\ prior = [d \in Devices |-> NoLine]
  /\ archive = {}
  /\ phase = "down"
  /\ chain = [next |-> 1, prev |-> Genesis]
  /\ opened = {}
  /\ quarantined = {}
  /\ owed = {}
  /\ unexplained = {}
  /\ stale = [d \in Devices |-> FALSE]
  /\ rec = NoLine
  /\ left = {}
  /\ failed = {}
  /\ accepted = {}
  /\ encoded = 0
  /\ starts = 0

DeviceStep(d) ==
  Rotate(d) \/ Write(d) \/ Refuse(d) \/ RefuseTorn(d)

Next ==
  \/ StartServer
  \/ StartCli
  \/ Encode
  \/ \E d \in Devices : DeviceStep(d)
  \/ RecordFails
  \/ GiveUp
  \/ RecordCommits
  \/ Crash
  \/ \E d \in Devices : CrashMidLine(d)
  \/ \E d \in Devices : ArchiveFile(d)

Spec == Init /\ [][Next]_vars

-----------------------------------------------------------------------------
(* Properties.                                                             *)

\* The type of the state.
TypeOK ==
  /\ log \in [Devices -> Seq(Line)]
  /\ prior \in [Devices -> Line]
  /\ archive \subseteq Line
  /\ phase \in {"down", "surface", "gaps", "serving", "cli"}
  /\ chain \in [next : Nat, prev : Nat]
  /\ opened \subseteq Devices
  /\ quarantined \subseteq opened
  /\ owed \subseteq Devices
  /\ unexplained \subseteq Devices
  /\ stale \in [Devices -> BOOLEAN]
  /\ rec \in Line
  /\ left \subseteq opened
  /\ failed \subseteq opened
  /\ accepted \subseteq Line
  /\ encoded \in Nat
  /\ starts \in Nat

\* The rows of audit_log are one chain from GENESIS with no number missing or
\* used twice, whatever fails and wherever the process dies (Chain::resume and
\* Chain::commit against the rows that were really inserted).
StoreTrailVerifies ==
  /\ Verifies(log[Sqlite])
  /\ log[Sqlite] # <<>> => log[Sqlite][1].seq = 1 /\ log[Sqlite][1].prev = Genesis

\* "The last device standing is never quarantined": while a process has the
\* sink, a slot is left that the next record will be offered to.
LastDeviceStanding == phase # "down" => opened \ quarantined # {}

\* A record that can still be read: on a device, or in a file that was rotated
\* or archived.
Kept(r) ==
  \/ r \in archive
  \/ \E d \in Devices : \E i \in 1..Len(log[d]) : log[d][i] = r

\* Every record reported as stored can still be read somewhere. This is what
\* fail-closed is for.
AcceptedIsKept == \A r \in accepted : Kept(r)

\* "Everything in it verifies, end to end": each live copy of the trail is a
\* run of the chain, quarantined or not, across restarts.
CopiesVerify == \A d \in Devices : Verifies(log[d])

\* "All devices record the same history": two copies never hold different
\* records under one sequence number.
SameHistory ==
  \A d, e \in Devices :
    \A i \in 1..Len(log[d]) : \A j \in 1..Len(log[e]) :
      /\ log[d][i].kind = "record" /\ log[e][j].kind = "record"
      /\ log[d][i].seq = log[e][j].seq
      => log[d][i] = log[e][j]

\* Every record reported as stored is in audit_log, the copy that verify reads
\* and that the next process resumes from.
AcceptedInStore ==
  \A r \in accepted : \E i \in 1..Len(log[Sqlite]) : log[Sqlite][i] = r

\* A file that was rotated goes on in the next segment where it stopped in the
\* last one ("it begins a new segment whose first record names a prev_hash the
\* archive explains").
SegmentsBridge ==
  \A d \in Files :
    prior[d].kind = "record" /\ log[d] # <<>> => Follows(prior[d], log[d][1])

-----------------------------------------------------------------------------
(* The deployment in which a file can be relied on: the store's device is   *)
(* the first slot, it never refuses a record, and no half line is left in a *)
(* file. A store that refuses breaks SameHistory, half a line CopiesVerify. *)
ReliableStore ==
  /\ \A d \in Devices : Sqlite <= d
  /\ Sqlite \notin Failing
  /\ ~TornWrites

Trail == INSTANCE AuditTrail
           WITH trail <- log[Sqlite], acked <- accepted, Hashes <- 1..MaxEncoded

\* In that deployment the sink is an audit trail: audit_log only grows, every
\* record in it follows the one before, and AuditSink::record returns Ok only
\* for records that are in it, across crashes and restarts.
ImplementsTrail == Trail!TrailSpec

-----------------------------------------------------------------------------
(* The inductive invariants behind the theorems of AuditSinkProofs.         *)

\* Nothing is in flight in a process that is down or between two records, and a
\* slot that is still to be asked, or has refused, is one the sink writes to.
FlightInv ==
  /\ phase = "down" => rec = NoLine /\ opened = {}
  /\ phase # "down" => Sqlite \in opened
  /\ rec.kind # "record" => rec = NoLine /\ left = {} /\ failed = {}
  /\ rec.kind = "record" =>
       rec = Record(chain.next, chain.prev, encoded) /\ encoded # 0
  /\ left \subseteq opened \ quarantined
  /\ failed \subseteq opened \ quarantined
  /\ left \cap failed = {}
  /\ ~stale[Sqlite]
  /\ encoded <= MaxEncoded

\* The record in flight is on device d.
Holds(d) == rec.kind = "record" /\ d \notin left /\ d \notin failed

\* Row i of audit_log has number i and names row i - 1, and its hash is older
\* than the one of a record that is not on the device.
StoreRow(i) ==
  /\ log[Sqlite][i].kind = "record"
  /\ log[Sqlite][i].seq = i
  /\ log[Sqlite][i].prev = IF i = 1 THEN Genesis ELSE log[Sqlite][i - 1].hash
  /\ log[Sqlite][i].hash \in 1..encoded

StoreRows == \A i \in 1..Len(log[Sqlite]) : StoreRow(i)

\* While the store's device is written to, the chain in memory is at its head.
StoreInStep ==
  phase # "down" /\ Sqlite \notin quarantined =>
    /\ chain.next # 0
    /\ chain.prev = IF chain.next = 1 THEN Genesis
                                      ELSE log[Sqlite][chain.next - 1].hash
    /\ Holds(Sqlite) => /\ Len(log[Sqlite]) = chain.next
                        /\ log[Sqlite][chain.next] = rec
    /\ ~Holds(Sqlite) => /\ Len(log[Sqlite]) = chain.next - 1
                         /\ rec.kind = "record" =>
                              \A i \in 1..Len(log[Sqlite]) :
                                log[Sqlite][i].hash # rec.hash

StoreInv == TypeOK /\ FlightInv /\ StoreRows /\ StoreInStep /\ LastDeviceStanding

\* A copy is a run of rows of audit_log.
RunOfStore(d) ==
  /\ \A i \in 1..Len(log[d]) :
       /\ log[d][i].seq \in 1..Len(log[Sqlite])
       /\ log[d][i] = log[Sqlite][log[d][i].seq]
  /\ \A i \in 1..Len(log[d]) - 1 : log[d][i + 1].seq = log[d][i].seq + 1

\* A device that is written to ends where the chain in memory does.
InStep(d) ==
  log[d] # <<>> =>
    LastLine(log[d]).seq = IF Holds(d) THEN chain.next ELSE chain.next - 1

CopyInv ==
  /\ \A d \in Devices : RunOfStore(d)
  /\ \A d \in opened \ quarantined : InStep(d)
  /\ \A d \in Devices : ~stale[d]
  /\ Sqlite \notin quarantined
  /\ Sqlite \notin failed
  /\ AcceptedInStore

\* Where no half line is left in a file, a device holds nothing but records, and
\* the record in flight can be read once any slot has taken it.
KeptInv ==
  /\ \A d \in Devices : ~stale[d] /\ \A i \in 1..Len(log[d]) : log[d][i].kind = "record"
  /\ \A d \in opened \ quarantined : Holds(d) => Kept(rec)
  /\ AcceptedIsKept

=============================================================================
