--------------------------- MODULE AuditCutProofs ---------------------------
(***************************************************************************)
(* What TLAPS shows of AuditCut: what a cut may never do however many      *)
(* commands race, and what one command at a time adds to that.             *)
(***************************************************************************)
EXTENDS AuditCut, FiniteSetTheorems, TLAPS

\* The empty store and the commands that have not begun are typed.
LEMMA InitTyped == Init => TypeOK
<1>1. Init => StoreTyped /\ JobsTyped
  BY JobAssumption DEF Init, StoreTyped, JobsTyped, Steps, Finished
<1>2. Init => overlapped \in BOOLEAN
  BY DEF Init
<1>. QED BY <1>1, <1>2 DEF TypeOK

\* A step keeps the types of the rows, the cut, the anchors and the server.
LEMMA StoreStaysTyped == TypeOK /\ [Next]_vars => StoreTyped'
<1>. SUFFICES ASSUME StoreTyped, JobsTyped, [Next]_vars PROVE StoreTyped'
  BY DEF TypeOK
<1>1. CASE AppendRecord \/ StartServer \/ StopServer
  <2>1. CASE AppendRecord
    <3>1. rows' \subseteq Nat /\ archived' \subseteq Nat
      BY <2>1 DEF StoreTyped, AppendRecord
    <3>2. next' \in Nat /\ issued' \in Nat
      BY <2>1 DEF StoreTyped, AppendRecord
    <3>. QED BY <2>1, <3>1, <3>2 DEF StoreTyped, AppendRecord
  <2>2. CASE StartServer
    BY <2>2 DEF StoreTyped, StartServer, store
  <2>3. CASE StopServer
    BY <2>3 DEF StoreTyped, StopServer, store
  <2>. QED BY <1>1, <2>1, <2>2, <2>3
<1>2. ASSUME NEW j \in Jobs, Run(j), UNCHANGED <<store, next, issued, archived, anchors>>
      PROVE  StoreTyped'
  BY <1>2 DEF StoreTyped, store, others
<1>3. ASSUME NEW j \in Jobs, TakeAnchor(j) \/ PinCut(j) \/ PinHead(j) PROVE StoreTyped'
  <2>1. /\ UNCHANGED <<store, others>>
        /\ anchors' = anchors \/ \E m \in Nat : anchors' = Append(anchors, m)
    <3>. snap[j] \subseteq Nat /\ through[j] \in Nat
      BY DEF JobsTyped
    <3>1. CASE TakeAnchor(j)
      BY <3>1 DEF TakeAnchor
    <3>2. CASE PinCut(j)
      BY <3>2 DEF PinCut
    <3>3. CASE PinHead(j)
      BY <3>3 DEF PinHead
    <3>. QED BY <1>3, <3>1, <3>2, <3>3
  <2>2. anchors' \in Seq(Nat)
    BY <2>1 DEF StoreTyped
  <2>. QED BY <2>1, <2>2 DEF StoreTyped, store, others
<1>4. ASSUME NEW j \in Jobs, CutRows(j) PROVE StoreTyped'
  BY <1>4 DEF StoreTyped, JobsTyped, CutRows, store, others
<1>5. ASSUME NEW j \in Jobs, Run(j)
      PROVE  \/ UNCHANGED <<store, next, issued, archived, anchors>>
             \/ TakeAnchor(j) \/ PinCut(j) \/ PinHead(j) \/ CutRows(j)
  BY <1>5 DEF Run, Begin, ReadRows, ReadClaim, ReadStart, ReadAnchors, Verify, PlanCut,
              RequireArchived, Kill, others
<1>6. CASE UNCHANGED vars
  BY <1>6 DEF StoreTyped, vars
<1>. QED BY <1>1, <1>2, <1>3, <1>4, <1>5, <1>6 DEF Next

\* A step keeps the types of what a command has read and decided.
LEMMA JobsStayTyped == TypeOK /\ [Next]_vars => JobsTyped'
<1>. SUFFICES ASSUME StoreTyped, JobsTyped, [Next]_vars PROVE JobsTyped'
  BY DEF TypeOK
<1>. USE JobAssumption DEF Goto, command, JobsTyped
<1>. /\ {"done", "broken", "unreachable", "dead", "rows", "claim", "start"} \subseteq Steps
     /\ {"anchors", "archive", "pin", "txn", "head"} \subseteq Steps
     /\ \A j \in Jobs : kind[j] \in Steps
     /\ \A j \in Jobs : Verdict(j) \in Steps
  BY DEF Steps, Finished, Verdict
<1>1. CASE AppendRecord \/ StartServer \/ StopServer
  BY <1>1 DEF AppendRecord, StartServer, StopServer
<1>2. ASSUME NEW j \in Jobs, Begin(j) PROVE JobsTyped'
  BY <1>2 DEF Begin
<1>3. ASSUME NEW j \in Jobs, ReadRows(j) \/ ReadClaim(j) \/ ReadStart(j)
      PROVE  JobsTyped'
  <2>. rows \in SUBSET Nat /\ cut \in Nat
    BY DEF StoreTyped
  <2>1. CASE ReadRows(j)
    BY <2>1 DEF ReadRows
  <2>2. CASE ReadClaim(j)
    BY <2>2 DEF ReadClaim
  <2>3. CASE ReadStart(j)
    BY <2>3 DEF ReadStart
  <2>. QED BY <1>3, <2>1, <2>2, <2>3
<1>4. ASSUME NEW j \in Jobs, ReadAnchors(j) PROVE JobsTyped'
  <2>1. Last(anchors) \in Nat
    BY DEF Last, StoreTyped
  <2>. QED BY <1>4, <2>1 DEF ReadAnchors
<1>5. ASSUME NEW j \in Jobs, PlanCut(j) PROVE JobsTyped'
  <2>1. through' \in [Jobs -> Nat]
    <3>1. through' = through \/ \E t \in Nat : through' = [through EXCEPT ![j] = t]
      BY <1>5 DEF PlanCut
    <3>. QED BY <3>1
  <2>2. at' \in [Jobs -> Steps]
    BY <1>5 DEF PlanCut
  <2>. QED BY <1>5, <2>1, <2>2 DEF PlanCut
<1>6. ASSUME NEW j \in Jobs, Verify(j) \/ TakeAnchor(j) \/ RequireArchived(j) PROVE JobsTyped'
  BY <1>6 DEF Verify, TakeAnchor, RequireArchived
<1>7. ASSUME NEW j \in Jobs, PinCut(j) \/ CutRows(j) \/ PinHead(j) \/ Kill(j) PROVE JobsTyped'
  BY <1>7 DEF PinCut, CutRows, PinHead, Kill
<1>8. CASE UNCHANGED vars
  BY <1>8 DEF vars
<1>. QED BY <1>1, <1>2, <1>3, <1>4, <1>5, <1>6, <1>7, <1>8 DEF Next, Run

\* A step keeps the types.
LEMMA NextTyped == TypeOK /\ [Next]_vars => TypeOK'
<1>1. [Next]_vars /\ overlapped \in BOOLEAN => overlapped' \in BOOLEAN
  BY Zenon DEF Next, AppendRecord, StartServer, StopServer, Run, Begin, ReadRows, ReadClaim,
               ReadStart, ReadAnchors, Verify, TakeAnchor, PlanCut, RequireArchived, PinCut,
               CutRows, PinHead, Kill, others, vars
<1>. QED BY <1>1, StoreStaysTyped, JobsStayTyped DEF TypeOK

\* Every state of the trail and of the commands is typed.
THEOREM CutTyped == Spec => []TypeOK
BY InitTyped, NextTyped, PTL DEF Spec

-----------------------------------------------------------------------------
(* Whatever races.                                                         *)

\* What is true of a line of the anchor file stays true of a longer file.
LEMMA AnchorsKept ==
  ASSUME TypeOK, NEW a \in Nat, NEW m \in Nat,
         \E i \in 1..Len(anchors) : anchors[i] = a,
         anchors' = anchors \/ anchors' = Append(anchors, m)
  PROVE  \E i \in 1..Len(anchors') : anchors'[i] = a
BY DEF TypeOK, StoreTyped

\* An empty trail that was never cut satisfies the invariant.
LEMMA InitCut == Init => CutInv
BY DEF Init, CutInv, RestartContinues, RemainderVerifies, VerifyFrom, CutIsAttested,
       NothingDestroyed, JobInv, Removing

\* A command that only reads: the trail is left alone.
LEMMA TrailLeftAlone ==
  ASSUME TypeOK, CutInv, UNCHANGED <<rows, cut, removed, archived, next, issued, anchors>>
  PROVE  (RestartContinues /\ RemainderVerifies /\ CutIsAttested /\ NothingDestroyed)'
BY DEF CutInv, RestartContinues, IsHead, RemainderVerifies, VerifyFrom, CutIsAttested,
       NothingDestroyed

\* What a command knows survives appends, cuts and other commands' anchors.
LEMMA JobKept ==
  ASSUME TypeOK, NEW i \in Jobs, JobInv(i),
         snap'[i] = snap[i], through'[i] = through[i],
         at'[i] = at[i] \/ at'[i] \notin {"archive", "pin", "txn", "head"},
         issued' \in Nat, issued <= issued', archived \subseteq archived',
         \A s \in rows' : s \in Nat /\ (s \in rows \/ s > issued),
         anchors' = anchors \/ \E m \in Nat : anchors' = Append(anchors, m)
  PROVE  JobInv(i)'
<1>1. snap[i] \subseteq Nat /\ through[i] \in Nat /\ issued \in Nat
  BY DEF TypeOK, JobsTyped, StoreTyped
<1>2. \A s \in snap'[i] : s <= issued'
  BY <1>1 DEF JobInv
<1>3. \A s \in rows' : s \in snap'[i] \/ \A t \in snap'[i] : t < s
  BY <1>1 DEF JobInv
<1>4. at'[i] \in {"archive", "pin", "txn", "head"} => through'[i] \in snap'[i]
  BY DEF JobInv
<1>5. at'[i] \in {"pin", "txn"} => Removing(i)' \subseteq archived'
  BY DEF JobInv, Removing
<1>6. at'[i] = "txn" => \E k \in 1..Len(anchors') : anchors'[k] = through'[i]
  <2>1. at'[i] = "txn" => \E k \in 1..Len(anchors) : anchors[k] = through[i]
    BY DEF JobInv
  <2>. QED BY <1>1, <2>1, AnchorsKept
<1>. QED BY <1>2, <1>3, <1>4, <1>5, <1>6 DEF JobInv

\* The next record: newer than anything a command has read.
LEMMA AppendCut ==
  ASSUME TypeOK, CutInv, AppendRecord
  PROVE  CutInv'
<1>. /\ rows \subseteq Nat /\ cut \in Nat /\ next \in Nat /\ issued \in Nat
  BY DEF TypeOK, StoreTyped
<1>1. /\ next = issued + 1 /\ rows' = rows \cup {next} /\ issued' = next
      /\ next' = next + 1 /\ cut' = cut /\ removed' = removed /\ anchors' = anchors
      /\ archived \subseteq archived' /\ at' = at /\ snap' = snap /\ through' = through
  BY DEF AppendRecord, CutInv, RestartContinues, command
<1>2. RestartContinues'
  BY <1>1 DEF CutInv, RestartContinues, IsHead
<1>3. RemainderVerifies'
  <2>. SUFFICES ASSUME NEW s \in rows'
                PROVE  s > cut /\ (s = cut + 1 \/ s - 1 \in rows')
    BY <1>1 DEF RemainderVerifies, VerifyFrom
  <2>1. CASE s \in rows
    BY <1>1, <2>1 DEF CutInv, RemainderVerifies, VerifyFrom
  <2>2. CASE s = next
    BY <1>1, <2>2 DEF CutInv, RestartContinues, IsHead
  <2>. QED BY <1>1, <2>1, <2>2
<1>4. CutIsAttested' /\ NothingDestroyed'
  BY <1>1 DEF CutInv, CutIsAttested, NothingDestroyed
<1>5. ASSUME NEW i \in Jobs PROVE JobInv(i)'
  BY <1>1, JobKept DEF CutInv
<1>. QED BY <1>2, <1>3, <1>4, <1>5 DEF CutInv

\* A restart that is let in goes on behind the head; a stop changes no row.
LEMMA ServerCut ==
  ASSUME TypeOK, CutInv, StartServer \/ StopServer
  PROVE  CutInv'
<1>. /\ rows \subseteq Nat /\ cut \in Nat /\ next \in Nat /\ issued \in Nat
  BY DEF TypeOK, StoreTyped
<1>1. UNCHANGED <<rows, cut, removed, archived, issued, anchors, at, snap, through>>
  BY DEF StartServer, StopServer, store, command
<1>2. next' # 0 => next' = issued + 1
  BY DEF StartServer, StopServer, CutInv, RestartContinues, IsHead
<1>3. RestartContinues'
  BY <1>1, <1>2 DEF CutInv, RestartContinues, IsHead
<1>4. RemainderVerifies' /\ CutIsAttested' /\ NothingDestroyed'
  BY <1>1 DEF CutInv, RemainderVerifies, VerifyFrom, CutIsAttested, NothingDestroyed
<1>5. ASSUME NEW i \in Jobs PROVE JobInv(i)'
  <2>1. JobInv(i)
    BY DEF CutInv
  <2>2. /\ (snap')[i] = snap[i] /\ (through')[i] = through[i] /\ at'[i] = at[i]
        /\ rows' = rows /\ archived' = archived /\ issued' = issued /\ anchors' = anchors
    BY <1>1
  <2>. QED BY <2>1, <2>2, JobKept
<1>. QED BY <1>3, <1>4, <1>5 DEF CutInv

\* The steps that only read, decide or append an anchor.
LEMMA ReadingCut ==
  ASSUME TypeOK, CutInv, NEW j \in Jobs, Run(j), ~CutRows(j)
  PROVE  CutInv'
<1>. /\ rows \subseteq Nat /\ issued \in Nat /\ snap \in [Jobs -> SUBSET Nat]
     /\ at \in [Jobs -> Steps] /\ through \in [Jobs -> Nat] /\ anchors \in Seq(Nat)
     /\ cut \in Nat /\ kind \in [Jobs -> {"verify", "anchor", "cut"}]
  BY DEF TypeOK, StoreTyped, JobsTyped
<1>. USE DEF Goto, store, others, command
<1>1. /\ UNCHANGED <<rows, cut, removed, archived, next, issued>>
      /\ anchors' = anchors \/ \E m \in Nat : anchors' = Append(anchors, m)
  <2>1. CASE TakeAnchor(j)
    BY <2>1 DEF TakeAnchor
  <2>2. CASE PinCut(j) \/ PinHead(j)
    BY <2>2 DEF PinCut, PinHead
  <2>. QED BY <2>1, <2>2 DEF Run, Begin, ReadRows, ReadClaim, ReadStart, ReadAnchors,
           Verify, PlanCut, RequireArchived, Kill
<1>2. RestartContinues' /\ RemainderVerifies' /\ NothingDestroyed'
  BY <1>1 DEF CutInv, RestartContinues, IsHead, RemainderVerifies, VerifyFrom,
              NothingDestroyed
<1>3. CutIsAttested'
  BY <1>1, AnchorsKept DEF CutInv, CutIsAttested
<1>4. \A i \in Jobs \ {j} : at'[i] = at[i] /\ snap'[i] = snap[i] /\ through'[i] = through[i]
  <2>1. \A i \in Jobs \ {j} : at'[i] = at[i]
    <3>1. \E to : at' = [at EXCEPT ![j] = to]
      BY Zenon DEF Run, Begin, ReadRows, ReadClaim, ReadStart, ReadAnchors, Verify,
                   TakeAnchor, PlanCut, RequireArchived, PinCut, CutRows, PinHead, Kill
    <3>. QED BY <3>1
  <2>2. snap' = snap \/ ReadRows(j)
    BY DEF Run, Begin, ReadClaim, ReadStart, ReadAnchors, Verify, TakeAnchor,
           PlanCut, RequireArchived, PinCut, PinHead, Kill
  <2>3. through' = through \/ PlanCut(j)
    BY DEF Run, Begin, ReadRows, ReadClaim, ReadStart, ReadAnchors, Verify, TakeAnchor,
           RequireArchived, PinCut, PinHead, Kill
  <2>4. ReadRows(j) => snap' = [snap EXCEPT ![j] = rows]
    BY DEF ReadRows
  <2>5. PlanCut(j) => through' = through \/ \E u : through' = [through EXCEPT ![j] = u]
    BY DEF PlanCut
  <2>. QED BY <2>1, <2>2, <2>3, <2>4, <2>5
<1>5. ASSUME NEW i \in Jobs, i # j PROVE JobInv(i)'
  <2>1. JobInv(i) /\ at'[i] = at[i] /\ snap'[i] = snap[i] /\ through'[i] = through[i]
    BY <1>4, <1>5 DEF CutInv
  <2>2. \A s \in rows' : s \in Nat /\ (s \in rows \/ s > issued)
    BY <1>1
  <2>3. issued' \in Nat /\ issued <= issued' /\ archived \subseteq archived'
    BY <1>1
  <2>. QED BY <1>1, <2>1, <2>2, <2>3, JobKept
<1>6. JobInv(j)'
  <2>. JobInv(j)
    BY DEF CutInv
  <2>1. CASE ReadRows(j)
    <3>1. /\ snap'[j] = rows /\ at'[j] \in {"claim", "start"} /\ rows' = rows
          /\ issued' = issued
      BY <2>1 DEF ReadRows
    <3>2. \A s \in rows : s <= issued
      BY DEF CutInv, RestartContinues, IsHead
    <3>. QED BY <3>1, <3>2 DEF JobInv
  <2>2. CASE PlanCut(j)
    <3>1. CASE at'[j] = "archive"
      <4>1. /\ through'[j] \in snap[j] /\ snap' = snap
        BY <2>2, <3>1 DEF PlanCut, Verdict
      <4>. QED BY <1>1, <3>1, <4>1 DEF JobInv
    <3>2. CASE at'[j] # "archive"
      <4>1. at'[j] \in {"done", "broken", "unreachable"} /\ snap' = snap /\ through' = through
        BY <2>2, <3>2 DEF PlanCut, Verdict
      <4>. QED BY <1>1, <4>1, JobKept
    <3>. QED BY <3>1, <3>2
  <2>3. CASE RequireArchived(j)
    <3>1. /\ at[j] = "archive" /\ snap' = snap /\ through' = through /\ anchors' = anchors
          /\ at'[j] = "done" \/ (at'[j] = "pin" /\ Removing(j) \subseteq archived)
      BY <2>3 DEF RequireArchived, Covered
    <3>. QED BY <1>1, <3>1 DEF JobInv, Removing
  <2>4. CASE PinCut(j)
    <3>1. /\ at[j] = "pin" /\ at'[j] = "txn" /\ snap' = snap /\ through' = through
          /\ anchors' = Append(anchors, through[j])
      BY <2>4 DEF PinCut
    <3>2. anchors'[Len(anchors) + 1] = through[j] /\ Len(anchors') = Len(anchors) + 1
      BY <3>1
    <3>3. \E k \in 1..Len(anchors') : anchors'[k] = through'[j]
      BY <3>1, <3>2
    <3>. QED BY <1>1, <3>1, <3>3 DEF JobInv, Removing
  <2>5. CASE \/ Begin(j) \/ ReadClaim(j) \/ ReadStart(j) \/ ReadAnchors(j)
             \/ Verify(j) \/ TakeAnchor(j) \/ PinHead(j) \/ Kill(j)
    <3>1. /\ snap' = snap /\ through' = through
          /\ at'[j] \notin {"archive", "pin", "txn", "head"}
      BY <2>5 DEF Begin, ReadClaim, ReadStart, ReadAnchors, Verify, TakeAnchor,
                  PinHead, Kill, Verdict
    <3>. QED BY <1>1, <3>1, JobKept
  <2>. QED BY <2>1, <2>2, <2>3, <2>4, <2>5 DEF Run
<1>. QED BY <1>2, <1>3, <1>5, <1>6 DEF CutInv

\* The transaction.
LEMMA CutRowsCut ==
  ASSUME TypeOK, CutInv, NEW j \in Jobs, CutRows(j)
  PROVE  CutInv'
<1>. /\ rows \subseteq Nat /\ issued \in Nat /\ snap \in [Jobs -> SUBSET Nat]
     /\ at \in [Jobs -> Steps] /\ through \in [Jobs -> Nat] /\ anchors \in Seq(Nat)
     /\ cut \in Nat
  BY DEF TypeOK, StoreTyped, JobsTyped
<1>. DEFINE t == through[j]
<1>1. /\ UNCHANGED <<archived, next, issued, anchors, snap, through>>
      /\ at[j] = "txn" /\ at'[j] \in {"done", "head"}
      /\ \A i \in Jobs \ {j} : at'[i] = at[i]
  BY DEF CutRows, Goto, others, command
<1>2. \A s \in rows' : s \in rows
  BY DEF CutRows, store
<1>3. ASSUME NEW i \in Jobs, i # j PROVE JobInv(i)'
  <2>1. JobInv(i) /\ at'[i] = at[i] /\ snap'[i] = snap[i] /\ through'[i] = through[i]
    BY <1>1, <1>3 DEF CutInv
  <2>2. \A s \in rows' : s \in Nat /\ (s \in rows \/ s > issued)
    BY <1>2
  <2>3. issued' \in Nat /\ issued <= issued' /\ archived \subseteq archived'
    BY <1>1
  <2>. QED BY <1>1, <2>1, <2>2, <2>3, JobKept
<1>k. JobInv(j)
  BY DEF CutInv
<1>4. JobInv(j)'
  <2>1. snap'[j] = snap[j] /\ through'[j] = through[j] /\ issued' = issued
    BY <1>1
  <2>2. (\A s \in snap'[j] : s <= issued') /\ through'[j] \in snap'[j]
    BY <1>1, <1>k, <2>1 DEF JobInv
  <2>3. \A s \in rows' : s \in snap'[j] \/ \A u \in snap'[j] : u < s
    BY <1>2, <1>k, <2>1 DEF JobInv
  <2>4. at'[j] \notin {"pin", "txn"}
    BY <1>1
  <2>. QED BY <2>2, <2>3, <2>4 DEF JobInv
<1>5. CASE ~Cuttable(t)
  <2>1. UNCHANGED <<rows, cut, removed, archived, next, issued, anchors>>
    BY <1>1, <1>5 DEF CutRows, store
  <2>. QED BY <1>3, <1>4, <2>1, TrailLeftAlone DEF CutInv
<1>6. CASE Cuttable(t)
  <2>1. /\ rows' = {s \in rows : s > t} /\ cut' = t
        /\ removed' = removed \cup {s \in rows : s <= t}
    BY <1>6 DEF CutRows
  <2>2. t \in rows /\ cut < t /\ \E s \in rows : s > t
    BY <1>6 DEF Cuttable
  <2>3. RestartContinues'
    BY <1>1, <2>1, <2>2 DEF CutInv, RestartContinues, IsHead
  <2>4. RemainderVerifies'
    <3>. SUFFICES ASSUME NEW s \in rows, s > t
                  PROVE  s = t + 1 \/ (s - 1 \in rows /\ s - 1 > t)
      BY <2>1 DEF RemainderVerifies, VerifyFrom
    <3>. s \in Nat /\ t \in Nat
      OBVIOUS
    <3>1. s = cut + 1 \/ s - 1 \in rows
      BY DEF CutInv, RemainderVerifies, VerifyFrom
    <3>. HIDE DEF t
    <3>2. s # cut + 1
      BY <2>2
    <3>. QED BY <3>1, <3>2
  <2>5. CutIsAttested'
    BY <1>1, <2>1 DEF CutInv, JobInv, CutIsAttested
  <2>6. {s \in rows : s <= t} \subseteq archived
    <3>. SUFFICES ASSUME NEW s \in rows, s <= t PROVE s \in archived
      OBVIOUS
    <3>. s \in Nat /\ t \in Nat /\ snap[j] \subseteq Nat
      OBVIOUS
    <3>1. t \in snap[j] /\ (s \in snap[j] \/ \A u \in snap[j] : u < s)
      BY <1>1, <1>k DEF JobInv
    <3>2. s \in snap[j]
      BY <3>1
    <3>. QED BY <1>1, <1>k, <3>2 DEF JobInv, Removing
  <2>7. NothingDestroyed'
    BY <1>1, <2>1, <2>6 DEF CutInv, NothingDestroyed
  <2>. QED BY <1>3, <1>4, <2>3, <2>4, <2>5, <2>7 DEF CutInv
<1>. QED BY <1>5, <1>6

\* Every step keeps the invariant, with any number of commands running.
LEMMA NextCut == TypeOK /\ CutInv /\ [Next]_vars => CutInv'
<1>. SUFFICES ASSUME TypeOK, CutInv, [Next]_vars PROVE CutInv'
  OBVIOUS
<1>1. CASE UNCHANGED vars
  <2>1. ASSUME NEW i \in Jobs PROVE JobInv(i)'
    BY <1>1 DEF vars, CutInv, JobInv, Removing
  <2>2. UNCHANGED <<rows, cut, removed, archived, next, issued, anchors>>
    BY <1>1 DEF vars
  <2>. QED BY <2>1, <2>2, TrailLeftAlone DEF CutInv
<1>. QED BY <1>1, AppendCut, ServerCut, ReadingCut, CutRowsCut DEF Next

\* The inductive invariant, for any number of racing commands.
THEOREM CutInvariant == Spec => [](TypeOK /\ CutInv)
BY InitTyped, InitCut, NextTyped, NextCut, PTL DEF Spec

\* However many cuts, anchors and checks race with a server that is restarted
\* between them: the recorded cut is attested outside the store.
THEOREM CutAlwaysAttested == Spec => []CutIsAttested
<1>1. CutInv => CutIsAttested
  BY DEF CutInv
<1>. QED BY <1>1, CutInvariant, PTL

\* No record is deleted that is not in the archive.
THEOREM EvidenceKept == Spec => []NothingDestroyed
<1>1. CutInv => NothingDestroyed
  BY DEF CutInv
<1>. QED BY <1>1, CutInvariant, PTL

\* A restart is never refused because of a cut and never reuses a number, and
\* what is left of the trail verifies from the recorded cut.
THEOREM CutTrailContinues == Spec => [](RestartContinues /\ RemainderVerifies)
<1>1. CutInv => RestartContinues /\ RemainderVerifies
  BY DEF CutInv
<1>. QED BY <1>1, CutInvariant, PTL

-----------------------------------------------------------------------------
(* One command at a time.                                                  *)

\* A command that is not running knows nothing that has to be true.
LEMMA FinishedAlone ==
  ASSUME NEW i \in Jobs, at'[i] \in Finished \cup {"rows"}
  PROVE  AloneInv(i)'
BY DEF AloneInv, Finished

\* What is read by a command that runs alone verifies, with the newest anchor.
LEMMA SoundAlone ==
  ASSUME TypeOK, NEW j \in Jobs, AloneInv(j), at[j] \in {"verify", "anchor", "cut"}
  PROVE  Sound(j)
<1>1. /\ VerifyFrom(cut, snap[j]) /\ begin[j] = cut /\ newest[j] = Last(anchors)
      /\ anchors # <<>> =>
           snap[j] # {} /\ (Last(anchors) = cut \/ Last(anchors) \in snap[j])
  BY DEF AloneInv, Finished
<1>2. Last(anchors) # 0 => anchors # <<>>
  BY DEF Last
<1>. QED BY <1>1, <1>2 DEF Sound, Verified, VerifyWithAnchor

\* An anchor over a record in the table can be reached from the recorded cut.
LEMMA AppendedReaches ==
  ASSUME TypeOK, CutInv', NEW m \in Nat, anchors' = Append(anchors, m),
         m \in rows' \/ (m = cut' /\ rows' # {})
  PROVE  AnchorReaches'
<1>1. anchors' # <<>> /\ Last(anchors)' = m
  BY DEF TypeOK, StoreTyped, Last
<1>2. VerifyFrom(cut, rows)'
  BY DEF CutInv, RemainderVerifies
<1>. QED BY <1>1, <1>2 DEF AnchorReaches, VerifyWithAnchor

\* The steps of a command: it alone is running, and every other has finished.
LEMMA OthersFinished ==
  ASSUME TypeOK, ~overlapped', SerialInv, NEW j \in Jobs, Run(j)
  PROVE  \A i \in Jobs \ {j} : at[i] \in Finished /\ at'[i] = at[i]
<1>. at \in [Jobs -> Steps]
  BY DEF TypeOK, JobsTyped
<1>1. \A i \in Jobs \ {j} : at[i] \in Finished
  <2>1. CASE Begin(j)
    BY <2>1 DEF Begin
  <2>2. CASE ~Begin(j)
    <3>1. at[j] \notin Finished
      BY <2>2 DEF Run, ReadRows, ReadClaim, ReadStart, ReadAnchors, Verify, TakeAnchor,
                  PlanCut, RequireArchived, PinCut, CutRows, PinHead, Kill, Finished
    <3>. QED BY <3>1 DEF SerialInv
  <2>. QED BY <2>1, <2>2
<1>2. \E to : at' = [at EXCEPT ![j] = to]
  BY Zenon DEF Goto, Run, Begin, ReadRows, ReadClaim, ReadStart, ReadAnchors, Verify,
               TakeAnchor, PlanCut, RequireArchived, PinCut, CutRows, PinHead, Kill
<1>. QED BY <1>1, <1>2

\* The steps that read.
LEMMA ReadAlone ==
  ASSUME TypeOK, CutInv, SerialInv, NEW j \in Jobs,
         \/ Begin(j) \/ ReadRows(j) \/ ReadClaim(j) \/ ReadStart(j) \/ ReadAnchors(j)
  PROVE  /\ AloneInv(j)' /\ at'[j] \notin {"broken", "unreachable"}
         /\ UNCHANGED <<rows, cut, anchors>>
<1>. /\ at \in [Jobs -> Steps] /\ kind \in [Jobs -> {"verify", "anchor", "cut"}]
     /\ DOMAIN snap = Jobs /\ DOMAIN claim = Jobs /\ DOMAIN begin = Jobs
     /\ DOMAIN newest = Jobs
  BY DEF TypeOK, JobsTyped
<1>. UNCHANGED <<rows, cut, anchors>>
  BY DEF Begin, ReadRows, ReadClaim, ReadStart, ReadAnchors, store
<1>a. AloneInv(j)
  BY DEF SerialInv
<1>. USE DEF Goto
<1>1. CASE Begin(j)
  <2>1. at'[j] = "rows"
    BY <1>1 DEF Begin
  <2>. QED BY <2>1, FinishedAlone
<1>2. CASE ReadRows(j)
  <2>1. /\ snap'[j] = rows /\ kind' = kind
        /\ at'[j] = IF kind[j] = "verify" THEN "claim" ELSE "start"
    BY <1>2 DEF ReadRows
  <2>2. /\ VerifyFrom(cut, rows)
        /\ anchors # <<>> =>
             rows # {} /\ (Last(anchors) = cut \/ Last(anchors) \in rows)
    BY DEF CutInv, RemainderVerifies, SerialInv, AnchorReaches, VerifyWithAnchor
  <2>3. VerifyFrom(cut, snap[j])' /\ Last(anchors)' = Last(anchors)
    BY <2>1, <2>2 DEF VerifyFrom, Last
  <2>. QED BY <2>1, <2>2, <2>3 DEF AloneInv, Finished
<1>3. ASSUME at[j] \notin Finished \cup {"rows", "head"}, snap' = snap
      PROVE  /\ snap'[j] \subseteq rows'
             /\ VerifyFrom(cut, snap[j])'
             /\ anchors' # <<>> =>
                  snap'[j] # {} /\ (Last(anchors)' = cut' \/ Last(anchors)' \in snap'[j])
             /\ Last(anchors)' = Last(anchors)
  BY <1>a, <1>3 DEF AloneInv, VerifyFrom, Last
<1>4. CASE ReadClaim(j)
  <2>1. at[j] = "claim" /\ at'[j] = "start" /\ claim'[j] = cut /\ snap' = snap
    BY <1>4 DEF ReadClaim
  <2>. QED BY <1>3, <2>1 DEF AloneInv, Finished
<1>5. CASE ReadStart(j)
  <2>1. /\ at[j] = "start" /\ at'[j] = "anchors" /\ begin'[j] = cut /\ snap' = snap
        /\ claim' = claim /\ kind' = kind
    BY <1>5 DEF ReadStart
  <2>2. kind[j] = "verify" => claim[j] = cut
    BY <1>a, <2>1 DEF AloneInv
  <2>. QED BY <1>3, <2>1, <2>2 DEF AloneInv, Finished
<1>6. CASE ReadAnchors(j)
  <2>1. /\ at[j] = "anchors" /\ at'[j] = kind[j] /\ begin' = begin /\ snap' = snap
        /\ claim' = claim /\ kind' = kind /\ newest'[j] = Last(anchors)
    BY <1>6 DEF ReadAnchors
  <2>2. begin[j] = cut /\ (kind[j] = "verify" => claim[j] = cut)
    BY <1>a, <2>1 DEF AloneInv
  <2>. QED BY <1>3, <2>1, <2>2 DEF AloneInv, Finished
<1>. QED BY <1>1, <1>2, <1>4, <1>5, <1>6

\* The steps that end a command, or that add an anchor and end it.
LEMMA EndAlone ==
  ASSUME TypeOK, CutInv', CutInv, SerialInv, NEW j \in Jobs,
         Verify(j) \/ TakeAnchor(j) \/ PinHead(j) \/ Kill(j)
  PROVE  at'[j] \in {"done", "dead"} /\ AnchorReaches'
<1>. /\ at \in [Jobs -> Steps] /\ rows \subseteq Nat /\ snap[j] \subseteq Nat
     /\ through[j] \in Nat
  BY DEF TypeOK, JobsTyped, StoreTyped
<1>a. AloneInv(j) /\ AnchorReaches
  BY DEF SerialInv
<1>r. rows' = rows /\ cut' = cut
  BY DEF Verify, TakeAnchor, PinHead, Kill, store
<1>u. ASSUME anchors' = anchors PROVE AnchorReaches'
  BY <1>a, <1>r, <1>u DEF AnchorReaches, VerifyWithAnchor, VerifyFrom, Last
<1>. USE DEF Goto
<1>1. CASE Verify(j)
  <2>1. Sound(j) /\ claim[j] = cut /\ begin[j] = cut /\ VerifyFrom(cut, snap[j])
    BY <1>1, <1>a, SoundAlone DEF Verify, AloneInv, Finished
  <2>2. anchors # <<>> => VerifyWithAnchor(claim[j], begin[j], snap[j])
    BY <1>1, <1>a, <2>1 DEF Verify, AloneInv, Finished, VerifyWithAnchor
  <2>3. (\E i \in 1..Len(anchors) : anchors[i] = claim[j]) => anchors # <<>>
    BY DEF TypeOK, StoreTyped
  <2>4. at'[j] = "done" /\ anchors' = anchors
    BY <1>1, <2>1, <2>2, <2>3 DEF Verify
  <2>. QED BY <2>4, <1>u
<1>2. CASE TakeAnchor(j)
  <2>1. Sound(j) /\ snap[j] \subseteq rows
    BY <1>2, <1>a, SoundAlone DEF TakeAnchor, AloneInv, Finished
  <2>2. /\ at'[j] = "done"
        /\ anchors' = anchors \/ \E m \in snap[j] : anchors' = Append(anchors, m)
    BY <1>2, <2>1 DEF TakeAnchor
  <2>. QED BY <1>r, <1>u, <2>1, <2>2, AppendedReaches
<1>3. CASE PinHead(j)
  <2>1. PICK m \in snap[j] : IsHead(m, snap[j]) /\ anchors' = Append(anchors, m)
    BY <1>3 DEF PinHead
  <2>2. /\ \E s \in snap[j] : s > through[j]
        /\ \A s \in snap[j] : s > through[j] => s \in rows
    BY <1>3, <1>a DEF PinHead, AloneInv
  <2>3. m \in rows
    BY <2>1, <2>2 DEF IsHead
  <2>4. at'[j] = "done"
    BY <1>3 DEF PinHead
  <2>. QED BY <1>r, <2>1, <2>3, <2>4, AppendedReaches
<1>4. CASE Kill(j)
  BY <1>4, <1>u DEF Kill
<1>. QED BY <1>1, <1>2, <1>3, <1>4

\* The steps of a cut.
LEMMA CutAlone ==
  ASSUME TypeOK, CutInv, CutInv', SerialInv, NEW j \in Jobs,
         PlanCut(j) \/ RequireArchived(j) \/ PinCut(j) \/ CutRows(j)
  PROVE  /\ AloneInv(j)' /\ at'[j] \notin {"broken", "unreachable"}
         /\ AnchorReaches'
<1>. /\ at \in [Jobs -> Steps] /\ rows \subseteq Nat /\ snap[j] \subseteq Nat
     /\ through \in [Jobs -> Nat] /\ keep[j] \in Nat \ {0} /\ anchors \in Seq(Nat)
  BY DEF TypeOK, JobsTyped, StoreTyped
<1>a. /\ AloneInv(j) /\ AnchorReaches
      /\ snap[j] \subseteq rows
      /\ VerifyFrom(cut, snap[j])
      /\ anchors # <<>> =>
            snap[j] # {} /\ (Last(anchors) = cut \/ Last(anchors) \in snap[j])
  BY DEF SerialInv, AloneInv, Finished, PlanCut, RequireArchived, PinCut, CutRows
<1>u. ASSUME UNCHANGED <<rows, cut, anchors>> PROVE AnchorReaches'
  BY <1>a, <1>u DEF AnchorReaches, VerifyWithAnchor, VerifyFrom, Last
<1>k. ASSUME UNCHANGED <<rows, cut, anchors, snap>>,
             at'[j] \in {"archive", "pin"}, \E s \in snap'[j] : s > through'[j]
      PROVE  AloneInv(j)'
  <2>1. VerifyFrom(cut, snap[j])' /\ Last(anchors)' = Last(anchors)
    BY <1>a, <1>k DEF VerifyFrom, Last
  <2>. QED BY <1>a, <1>k, <2>1 DEF AloneInv, Finished
<1>. USE DEF Goto
<1>1. CASE PlanCut(j)
  <2>1. Sound(j)
    BY <1>1, <1>a, SoundAlone DEF PlanCut
  <2>2. UNCHANGED <<rows, cut, anchors, snap>>
    BY <1>1 DEF PlanCut, store
  <2>3. CASE at'[j] = "done"
    BY <2>2, <2>3, <1>u, FinishedAlone DEF Finished
  <2>4. CASE at'[j] # "done"
    <3>1. PICK t \in snap[j] : /\ Cardinality({s \in snap[j] : s > t}) = keep[j]
                               /\ through' = [through EXCEPT ![j] = t]
                               /\ at'[j] = "archive"
      BY <1>1, <2>1, <2>4 DEF PlanCut
    <3>2. {s \in snap[j] : s > t} # {}
      BY <3>1, FS_EmptySet
    <3>. QED BY <2>2, <3>1, <3>2, <1>u, <1>k
  <2>. QED BY <2>3, <2>4
<1>2. CASE RequireArchived(j)
  <2>1. UNCHANGED <<rows, cut, anchors, snap, through>> /\ at'[j] \in {"pin", "done"}
    BY <1>2 DEF RequireArchived, store, command
  <2>2. \E s \in snap[j] : s > through[j]
    BY <1>2, <1>a DEF RequireArchived, AloneInv
  <2>3. CASE at'[j] = "done"
    BY <2>1, <2>3, <1>u, FinishedAlone DEF Finished
  <2>. QED BY <2>1, <2>2, <2>3, <1>u, <1>k
<1>3. CASE PinCut(j)
  <2>1. /\ UNCHANGED <<rows, cut, snap, through>> /\ at[j] = "pin" /\ at'[j] = "txn"
        /\ anchors' = Append(anchors, through[j])
    BY <1>3 DEF PinCut, store, command
  <2>2. through[j] \in snap[j] /\ \E s \in snap[j] : s > through[j]
    BY <2>1, <1>a DEF CutInv, JobInv, AloneInv
  <2>3. AnchorReaches'
    BY <1>a, <2>1, <2>2, AppendedReaches
  <2>4. VerifyFrom(cut, snap[j])' /\ Last(anchors)' = through[j] /\ anchors' # <<>>
    BY <1>a, <2>1 DEF VerifyFrom, Last
  <2>. QED BY <1>a, <2>1, <2>2, <2>3, <2>4 DEF AloneInv, Finished
<1>4. CASE CutRows(j)
  <2>1. UNCHANGED <<anchors, snap, through>> /\ at[j] = "txn"
    BY <1>4 DEF CutRows, command
  <2>2. CASE ~Cuttable(through[j])
    <3>1. UNCHANGED <<rows, cut>> /\ at'[j] = "done"
      BY <1>4, <2>2 DEF CutRows, store
    <3>. QED BY <2>1, <3>1, <1>u, FinishedAlone DEF Finished
  <2>3. CASE Cuttable(through[j])
    <3>1. rows' = {s \in rows : s > through[j]} /\ cut' = through[j] /\ at'[j] = "head"
      BY <1>4, <2>3 DEF CutRows
    <3>2. /\ \E s \in snap[j] : s > through[j]
          /\ Last(anchors) = through[j]
      BY <2>1, <1>a DEF AloneInv
    <3>3. rows' # {} /\ \A s \in snap[j] : s > through[j] => s \in rows'
      BY <3>1, <3>2, <1>a
    <3>4. VerifyFrom(cut, rows)' /\ Last(anchors)' = cut'
      BY <2>1, <3>1, <3>2 DEF CutInv, RemainderVerifies, Last
    <3>5. AnchorReaches'
      BY <3>3, <3>4 DEF AnchorReaches, VerifyWithAnchor
    <3>6. AloneInv(j)'
      BY <2>1, <3>1, <3>2, <3>3 DEF AloneInv, Finished
    <3>. QED BY <3>1, <3>5, <3>6
  <2>. QED BY <2>2, <2>3
<1>. QED BY <1>1, <1>2, <1>3, <1>4

\* A step of the server, with or without a command running.
LEMMA ServerSerial ==
  ASSUME TypeOK, CutInv', SerialInv, UNCHANGED <<cut, anchors, at, command>>,
         rows \subseteq rows'
  PROVE  SerialInv'
<1>1. AnchorReaches'
  BY DEF SerialInv, AnchorReaches, VerifyWithAnchor, Last, CutInv, RemainderVerifies
<1>2. ASSUME NEW i \in Jobs PROVE AloneInv(i)'
  <2>1. AloneInv(i) /\ UNCHANGED <<kind, keep, snap, claim, begin, newest, through>>
    BY DEF SerialInv, command
  <2>2. Last(anchors)' = Last(anchors) /\ VerifyFrom(cut, snap[i])' = VerifyFrom(cut, snap[i])
    BY <2>1 DEF Last, VerifyFrom
  <2>. QED BY <2>1, <2>2 DEF AloneInv
<1>. QED BY <1>1, <1>2 DEF SerialInv

\* Every step keeps the invariant of commands that run one at a time.
LEMMA NextSerial ==
  ASSUME ~overlapped'
  PROVE  TypeOK /\ CutInv /\ CutInv' /\ SerialInv /\ [Next]_vars => SerialInv'
<1>. SUFFICES ASSUME TypeOK, CutInv, CutInv', SerialInv, [Next]_vars PROVE SerialInv'
  OBVIOUS
<1>1. CASE AppendRecord \/ StartServer \/ StopServer \/ UNCHANGED vars
  <2>1. UNCHANGED <<cut, anchors, at, command>> /\ rows \subseteq rows'
    BY <1>1 DEF AppendRecord, StartServer, StopServer, store, command, vars
  <2>. QED BY <2>1, ServerSerial
<1>2. ASSUME NEW j \in Jobs, Run(j) PROVE SerialInv'
  <2>1. \A i \in Jobs \ {j} : at'[i] \in Finished /\ at'[i] = at[i]
    BY <1>2, OthersFinished
  <2>2. \A i \in Jobs \ {j} : AloneInv(i)' /\ at'[i] \notin {"broken", "unreachable"}
    BY <2>1, FinishedAlone DEF SerialInv
  <2>3. AloneInv(j)' /\ at'[j] \notin {"broken", "unreachable"} /\ AnchorReaches'
    <3>1. CASE \/ Begin(j) \/ ReadRows(j) \/ ReadClaim(j) \/ ReadStart(j) \/ ReadAnchors(j)
      <4>1. /\ AloneInv(j)' /\ at'[j] \notin {"broken", "unreachable"}
            /\ UNCHANGED <<rows, cut, anchors>>
        BY <3>1, ReadAlone
      <4>2. AnchorReaches'
        BY <4>1 DEF SerialInv, AnchorReaches, VerifyWithAnchor, VerifyFrom, Last
      <4>. QED BY <4>1, <4>2
    <3>2. CASE Verify(j) \/ TakeAnchor(j) \/ PinHead(j) \/ Kill(j)
      BY <3>2, EndAlone, FinishedAlone DEF Finished
    <3>3. CASE PlanCut(j) \/ RequireArchived(j) \/ PinCut(j) \/ CutRows(j)
      BY <3>3, CutAlone
    <3>. QED BY <1>2, <3>1, <3>2, <3>3 DEF Run
  <2>4. \A i \in Jobs : AloneInv(i)' /\ at'[i] \notin {"broken", "unreachable"}
    BY <2>2, <2>3
  <2>5. \A h, i \in Jobs : at'[h] \notin Finished /\ at'[i] \notin Finished => h = i
    BY <2>1
  <2>. QED BY <2>3, <2>4, <2>5 DEF SerialInv
<1>. QED BY <1>1, <1>2 DEF Next

\* Before any command has begun there is nothing to keep.
LEMMA InitSerial == Init => SerialInv
BY DEF Init, SerialInv, AloneInv, Finished, AnchorReaches

\* No step undoes an overlap.
LEMMA OverlapStays == TypeOK /\ [Next]_vars /\ overlapped => overlapped'
<1>. SUFFICES ASSUME TypeOK, [Next]_vars, overlapped PROVE overlapped'
  OBVIOUS
<1>1. CASE AppendRecord \/ StartServer \/ StopServer \/ UNCHANGED vars
  BY <1>1 DEF AppendRecord, StartServer, StopServer, vars
<1>2. ASSUME NEW j \in Jobs, Run(j) PROVE overlapped'
  BY <1>2 DEF Run, Begin, ReadRows, ReadClaim, ReadStart, ReadAnchors, Verify, TakeAnchor,
              PlanCut, RequireArchived, PinCut, CutRows, PinHead, Kill, others
<1>. QED BY <1>1, <1>2 DEF Next

\* The inductive invariant of commands that are run one after the other.
THEOREM SerialInvariant == Spec => [](overlapped \/ SerialInv)
<1>1. /\ TypeOK /\ CutInv /\ (TypeOK /\ CutInv)' /\ (overlapped \/ SerialInv)
      /\ [Next]_vars
      => (overlapped \/ SerialInv)'
  BY NextSerial, OverlapStays
<1>. QED BY <1>1, InitSerial, CutInvariant, PTL DEF Spec

\* When the commands are run one after the other, wherever each of them dies, the
\* newest line of the anchor file is one that the trail can be checked against.
THEOREM NewestAnchorAlwaysReaches == Spec => []NewestAnchorReaches
<1>1. overlapped \/ SerialInv => NewestAnchorReaches
  BY DEF SerialInv, NewestAnchorReaches
<1>. QED BY <1>1, SerialInvariant, PTL

\* And no command calls the trail broken or its anchor out of reach.
THEOREM NeverCriesWolf == Spec => []NoFalseAlarm
<1>1. overlapped \/ SerialInv => NoFalseAlarm
  BY DEF SerialInv, NoFalseAlarm
<1>. QED BY <1>1, SerialInvariant, PTL

=============================================================================
