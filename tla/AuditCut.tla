------------------------------- MODULE AuditCut -------------------------------
(***************************************************************************)
(* Bounding and checking the queryable trail: `ciphr audit cut`, `anchor`  *)
(* and `verify` beside a running server (crates/ciphr-cli/src/main.rs,     *)
(* crates/ciphr-store/src/audit.rs, crates/ciphr-audit/src/anchor.rs,      *)
(* verify.rs and archive.rs).                                              *)
(*                                                                         *)
(* None of the three commands takes the store lock, and each reads the     *)
(* rows, the recorded cut and the anchor file one after the other, so every *)
(* read and every write is a step of its own. The anchor file and the      *)
(* archive are outside the store.                                          *)
(*                                                                         *)
(* audit_log is the chain that AuditSink keeps: one record per number, and *)
(* nobody edits it. A record, its hash and an anchor over it are therefore *)
(* its sequence number, GENESIS is 0, and a cut that was never made is 0.  *)
(***************************************************************************)
EXTENDS Integers, Sequences, FiniteSets

CONSTANTS
  Jobs,     \* the commands that are ever run
  Kinds,    \* which of "verify", "anchor" and "cut" they may be
  Keeps,    \* the values of --keep
  MaxSeq    \* bound: records appended in a behaviour

ASSUME JobAssumption ==
  /\ Kinds \subseteq {"verify", "anchor", "cut"}
  /\ Keeps \subseteq Nat \ {0}
  /\ MaxSeq \in Nat

VARIABLES
  rows,      \* audit_log: the numbers of its rows
  cut,       \* audit_cut: the newest row's seq
  anchors,   \* the lines of the anchor file
  archived,  \* the records in the file device's file and its rotated siblings
  removed,   \* the records cuts have deleted
  next,      \* the running server's Chain.next_seq, or 0 when it is down
  issued,    \* the highest number ever inserted
  overlapped,\* history: a command was begun while another was running
  at,        \* per command: the step it is at
  kind,      \* per command: which command it is
  keep,      \* per command: --keep
  snap,      \* per command: the rows it read
  claim,     \* per command: the cut it read (audit_cut_latest)
  begin,     \* per command: the cut it verifies from (audit_start)
  newest,    \* per command: the last anchor in the file, or 0
  through    \* per command: the last record the cut is to remove

store   == <<rows, cut, removed>>
others  == <<next, issued, archived, overlapped>>
command == <<kind, keep, snap, claim, begin, newest, through>>
vars    == <<rows, cut, anchors, archived, removed, next, issued, overlapped, at, kind,
             keep, snap, claim, begin, newest, through>>

Last(s) == IF s = <<>> THEN 0 ELSE s[Len(s)]

IsHead(m, S) == m \in S /\ \A s \in S : s <= m

-----------------------------------------------------------------------------
(* Verification of what a command read.                                    *)

\* verify_from: the first record follows the start, each record the one before.
VerifyFrom(start, S) ==
  \A s \in S : s > start /\ (s = start + 1 \/ s - 1 \in S)

\* verify_with_anchor: the chain, then an anchor at the cut or inside the run.
VerifyWithAnchor(anchor, start, S) ==
  /\ S # {}
  /\ VerifyFrom(start, S)
  /\ anchor = start \/ anchor \in S

\* With the newest anchor of the file, if it has one.
Verified(anchor, start, S) ==
  IF anchor = 0 THEN VerifyFrom(start, S) ELSE VerifyWithAnchor(anchor, start, S)

-----------------------------------------------------------------------------
(* The server.                                                             *)

\* The record is inserted, and is in the archive too unless the file device is
\* quarantined.
AppendRecord ==
  /\ next # 0
  /\ next <= MaxSeq
  /\ rows' = rows \cup {next}
  /\ \/ archived' = archived \cup {next}
     \/ UNCHANGED archived
  /\ issued' = next
  /\ next' = next + 1
  /\ UNCHANGED <<cut, removed, anchors, overlapped, at, command>>

\* Mutant of StartServer: the head's own number is used again.
StartServerAtHead ==
  /\ next = 0
  /\ \/ rows = {} /\ cut = 0 /\ next' = 1
     \/ \E m \in rows : IsHead(m, rows) /\ cut < m /\ next' = m
  /\ UNCHANGED <<store, anchors, archived, issued, overlapped, at, command>>

\* chain_to_continue, which refuses a table that contradicts the recorded cut.
StartServer ==
  /\ next = 0
  /\ \/ rows = {} /\ cut = 0 /\ next' = 1
     \/ \E m \in rows : IsHead(m, rows) /\ cut < m /\ next' = m + 1
  /\ UNCHANGED <<store, anchors, archived, issued, overlapped, at, command>>

StopServer ==
  /\ next # 0
  /\ next' = 0
  /\ UNCHANGED <<store, anchors, archived, issued, overlapped, at, command>>

-----------------------------------------------------------------------------
(* The commands. The first steps are the same for all three.               *)

Finished == {"new", "done", "broken", "unreachable", "dead"}

Steps ==
  Finished \cup {"rows", "claim", "start", "anchors", "verify", "anchor", "cut",
                 "archive", "pin", "txn", "head"}

Goto(j, to) == at' = [at EXCEPT ![j] = to]

Begin(j) ==
  /\ at[j] = "new"
  /\ overlapped' = (overlapped \/ \E i \in Jobs : at[i] \notin Finished)
  /\ \E k \in Kinds :
       /\ kind' = [kind EXCEPT ![j] = k]
       /\ \/ k = "cut" /\ \E n \in Keeps : keep' = [keep EXCEPT ![j] = n]
          \/ k # "cut" /\ UNCHANGED keep
  /\ Goto(j, "rows")
  /\ UNCHANGED <<store, next, issued, archived, anchors, snap, claim, begin, newest,
                 through>>

\* audit_all.
ReadRows(j) ==
  /\ at[j] = "rows"
  /\ snap' = [snap EXCEPT ![j] = rows]
  /\ Goto(j, IF kind[j] = "verify" THEN "claim" ELSE "start")
  /\ UNCHANGED <<store, others, anchors, kind, keep, claim, begin, newest, through>>

\* audit_cut_latest, which only verify asks for.
ReadClaim(j) ==
  /\ at[j] = "claim"
  /\ claim' = [claim EXCEPT ![j] = cut]
  /\ Goto(j, "start")
  /\ UNCHANGED <<store, others, anchors, kind, keep, snap, begin, newest, through>>

\* audit_start.
ReadStart(j) ==
  /\ at[j] = "start"
  /\ begin' = [begin EXCEPT ![j] = cut]
  /\ Goto(j, "anchors")
  /\ UNCHANGED <<store, others, anchors, kind, keep, snap, claim, newest, through>>

\* Anchor::latest over the anchor file.
ReadAnchors(j) ==
  /\ at[j] = "anchors"
  /\ newest' = [newest EXCEPT ![j] = Last(anchors)]
  /\ Goto(j, kind[j])
  /\ UNCHANGED <<store, others, anchors, kind, keep, snap, claim, begin, through>>

Sound(j) == Verified(newest[j], begin[j], snap[j])

\* A break in the chain is a verdict; an anchor that cannot be attached to the
\* records in hand is a refusal to give one.
Verdict(j) == IF VerifyFrom(begin[j], snap[j]) THEN "unreachable" ELSE "broken"

\* The rest of verify_chain: anchor_at, and the two checks.
Verify(j) ==
  /\ at[j] = "verify"
  /\ LET pinned == \E i \in 1..Len(anchors) : anchors[i] = claim[j]
     IN  Goto(j, IF /\ Sound(j)
                    /\ claim[j] # 0 /\ pinned =>
                         VerifyWithAnchor(claim[j], begin[j], snap[j])
                 THEN "done" ELSE Verdict(j))
  /\ UNCHANGED <<store, others, anchors, command>>

\* The rest of take_anchor: the chain is checked, then its head is appended.
TakeAnchor(j) ==
  /\ at[j] = "anchor"
  /\ \/ ~Sound(j) /\ Goto(j, Verdict(j)) /\ UNCHANGED anchors
     \/ Sound(j) /\ snap[j] = {} /\ Goto(j, "done") /\ UNCHANGED anchors
     \/ /\ Sound(j)
        /\ \E m \in snap[j] : IsHead(m, snap[j]) /\ anchors' = Append(anchors, m)
        /\ Goto(j, "done")
  /\ UNCHANGED <<store, others, command>>

-----------------------------------------------------------------------------
(* cut_trail.                                                              *)

\* The chain is checked, and the record the cut ends at is found.
PlanCut(j) ==
  /\ at[j] = "cut"
  /\ \/ ~Sound(j) /\ Goto(j, Verdict(j)) /\ UNCHANGED through
     \/ /\ Sound(j) /\ Cardinality(snap[j]) <= keep[j]
        /\ Goto(j, "done")
        /\ UNCHANGED through
     \/ /\ Sound(j)
        /\ \E t \in snap[j] :
             /\ Cardinality({s \in snap[j] : s > t}) = keep[j]
             /\ through' = [through EXCEPT ![j] = t]
        /\ Goto(j, "archive")
  /\ UNCHANGED <<store, others, anchors, kind, keep, snap, claim, begin, newest>>

Removing(j) == {s \in snap[j] : s <= through[j]}

\* Mutant of RequireArchived: nothing is looked up.
RequireNothing(j) ==
  /\ at[j] = "archive"
  /\ Goto(j, "pin")
  /\ UNCHANGED <<store, others, anchors, command>>

\* Coverage::is_complete, of coverage_of over the rotation set.
Covered(S) == S \subseteq archived

\* require_archived: coverage_of the records to be removed.
RequireArchived(j) ==
  /\ at[j] = "archive"
  /\ Goto(j, IF Covered(Removing(j)) THEN "pin" ELSE "done")
  /\ UNCHANGED <<store, others, anchors, command>>

\* Mutant of PinCut: the records go first, the anchor second.
PinCutLater(j) ==
  /\ at[j] = "pin"
  /\ Goto(j, "txn")
  /\ UNCHANGED <<store, others, anchors, command>>

\* append_anchor for the record the cut ends at, synced before anything goes.
PinCut(j) ==
  /\ at[j] = "pin"
  /\ anchors' = Append(anchors, through[j])
  /\ Goto(j, "txn")
  /\ UNCHANGED <<store, others, command>>

\* What SqliteAuditDevice::cut asks inside its transaction.
Cuttable(t) ==
  /\ t \in rows
  /\ \E s \in rows : s > t
  /\ cut < t

\* SqliteAuditDevice::cut: the delete and the record of it.
CutRows(j) ==
  /\ at[j] = "txn"
  /\ \/ /\ ~Cuttable(through[j])
        /\ Goto(j, "done")
        /\ UNCHANGED store
     \/ /\ Cuttable(through[j])
        /\ rows' = {s \in rows : s > through[j]}
        /\ removed' = removed \cup {s \in rows : s <= through[j]}
        /\ cut' = through[j]
        /\ Goto(j, "head")
  /\ UNCHANGED <<others, anchors, command>>

\* Mutant of PinHead: the second line is the anchor at the start of the cut.
PinHeadBehind(j) ==
  /\ at[j] = "head"
  /\ anchors' = Append(anchors, begin[j] + 1)
  /\ Goto(j, "done")
  /\ UNCHANGED <<store, others, command>>

\* The anchor over what survived, as it was read before the cut.
PinHead(j) ==
  /\ at[j] = "head"
  /\ \E m \in snap[j] : IsHead(m, snap[j]) /\ anchors' = Append(anchors, m)
  /\ Goto(j, "done")
  /\ UNCHANGED <<store, others, command>>

\* A command is killed between two steps.
Kill(j) ==
  /\ at[j] \notin Finished
  /\ Goto(j, "dead")
  /\ UNCHANGED <<store, others, anchors, command>>

-----------------------------------------------------------------------------
Init ==
  /\ rows = {} /\ cut = 0 /\ anchors = <<>> /\ archived = {} /\ removed = {}
  /\ next = 0 /\ issued = 0 /\ overlapped = FALSE
  /\ at = [j \in Jobs |-> "new"]
  /\ kind = [j \in Jobs |-> "verify"]
  /\ keep = [j \in Jobs |-> 1]
  /\ snap = [j \in Jobs |-> {}]
  /\ claim = [j \in Jobs |-> 0]
  /\ begin = [j \in Jobs |-> 0]
  /\ newest = [j \in Jobs |-> 0]
  /\ through = [j \in Jobs |-> 0]

Run(j) ==
  \/ Begin(j) \/ ReadRows(j) \/ ReadClaim(j) \/ ReadStart(j) \/ ReadAnchors(j)
  \/ Verify(j) \/ TakeAnchor(j)
  \/ PlanCut(j) \/ RequireArchived(j) \/ PinCut(j) \/ CutRows(j) \/ PinHead(j)
  \/ Kill(j)

Next == AppendRecord \/ StartServer \/ StopServer \/ \E j \in Jobs : Run(j)

Spec == Init /\ [][Next]_vars

-----------------------------------------------------------------------------
(* Properties.                                                             *)

StoreTyped ==
  /\ rows \subseteq Nat /\ archived \subseteq Nat /\ removed \subseteq Nat
  /\ cut \in Nat /\ next \in Nat /\ issued \in Nat
  /\ anchors \in Seq(Nat)

JobsTyped ==
  /\ at \in [Jobs -> Steps]
  /\ kind \in [Jobs -> {"verify", "anchor", "cut"}]
  /\ keep \in [Jobs -> Nat \ {0}]
  /\ snap \in [Jobs -> SUBSET Nat]
  /\ claim \in [Jobs -> Nat] /\ begin \in [Jobs -> Nat]
  /\ newest \in [Jobs -> Nat] /\ through \in [Jobs -> Nat]

\* The type of the state.
TypeOK == StoreTyped /\ JobsTyped /\ overlapped \in BOOLEAN

\* The cut that is recorded is attested outside the store: its anchor is in the
\* file before a row is gone, whichever commands race and wherever they die.
CutIsAttested == cut # 0 => \E i \in 1..Len(anchors) : anchors[i] = cut

\* "The evidence may not be thrown away": a record that a cut deleted is in the
\* archive, however long ago the command looked.
NothingDestroyed == removed \subseteq archived

\* The table and the recorded cut never contradict each other, so a restart is
\* not refused by chain_to_continue and goes on with the next number: no number
\* is used twice and none is skipped, however the trail is cut meanwhile.
RestartContinues ==
  /\ rows = {} => cut = 0 /\ issued = 0
  /\ rows # {} => cut < issued /\ IsHead(issued, rows)
  /\ next # 0 => next = issued + 1

\* What is left of the trail verifies from the recorded cut, at any moment.
RemainderVerifies == VerifyFrom(cut, rows)

AnchorReaches == anchors # <<>> => VerifyWithAnchor(Last(anchors), cut, rows)

\* "A crash after this and before the delete leaves an anchor over a record
\* still in the table, which verifies": the newest anchor of the file can be
\* checked against the trail at any moment, as long as the commands are run one
\* after the other, wherever each of them dies.
NewestAnchorReaches == ~overlapped => AnchorReaches

\* "Appending it here keeps the newest line in the file the one that covers
\* most": when every command has run to its end, the newest line is one that the
\* next command can check.
AnchorFileUsable ==
  (\A j \in Jobs : at[j] \in Finished \ {"dead"}) => AnchorReaches

\* "The routine verification of a legitimately cut store" does not cry wolf: no
\* command ends by calling the trail broken or by not reaching the newest
\* anchor, after any sequence of commands that died half way and did not overlap.
NoFalseAlarm == ~overlapped => \A j \in Jobs : at[j] \notin {"broken", "unreachable"}

-----------------------------------------------------------------------------
(* The inductive invariants behind the theorems of AuditCutProofs.          *)

\* A row that a command did not read is newer than all it read, so what it has
\* looked up in the archive is all that its cut can delete.
JobInv(j) ==
  /\ \A s \in snap[j] : s <= issued
  /\ \A s \in rows : s \in snap[j] \/ \A t \in snap[j] : t < s
  /\ at[j] \in {"archive", "pin", "txn", "head"} => through[j] \in snap[j]
  /\ at[j] \in {"pin", "txn"} => Removing(j) \subseteq archived
  /\ at[j] = "txn" => \E i \in 1..Len(anchors) : anchors[i] = through[j]

CutInv ==
  /\ RestartContinues
  /\ RemainderVerifies
  /\ CutIsAttested
  /\ NothingDestroyed
  /\ \A j \in Jobs : JobInv(j)

\* One command at a time: what the running command has read still describes the
\* store and the anchor file, but for rows that were appended since.
AloneInv(j) ==
  /\ at[j] \notin Finished \cup {"rows", "head"} =>
       /\ snap[j] \subseteq rows
       /\ VerifyFrom(cut, snap[j])
       /\ anchors # <<>> =>
            snap[j] # {} /\ (Last(anchors) = cut \/ Last(anchors) \in snap[j])
  /\ at[j] \in {"anchors", "verify", "anchor", "cut"} => begin[j] = cut
  /\ at[j] \in {"verify", "anchor", "cut"} => newest[j] = Last(anchors)
  /\ kind[j] = "verify" /\ at[j] \in {"start", "anchors"} => claim[j] = cut
  /\ at[j] = "verify" => claim[j] = cut
  /\ at[j] \in {"archive", "pin", "txn"} => \E s \in snap[j] : s > through[j]
  /\ at[j] = "txn" => anchors # <<>> /\ Last(anchors) = through[j]
  /\ at[j] = "head" =>
       /\ cut = through[j]
       /\ \E s \in snap[j] : s > through[j]
       /\ \A s \in snap[j] : s > through[j] => s \in rows

SerialInv ==
  /\ \A i, j \in Jobs : at[i] \notin Finished /\ at[j] \notin Finished => i = j
  /\ \A j \in Jobs : AloneInv(j) /\ at[j] \notin {"broken", "unreachable"}
  /\ AnchorReaches

=============================================================================
