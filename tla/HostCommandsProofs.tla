------------------------ MODULE HostCommandsProofs ------------------------
(***************************************************************************)
(* Proofs about HostCommands, for any number of processes, paths and       *)
(* commands, any limit of versions and any master keys.                    *)
(***************************************************************************)
EXTENDS HostCommands, SequenceTheorems, TLAPS

\* What a command line is made of.
LEMMA JobFacts ==
  ASSUME NEW j \in CommandLines \cup {Nothing}
  PROVE  /\ j.command \in AllCommands \cup {"none"} /\ j.paths \in SUBSET Paths
         /\ j.number \in Nat /\ j.class \in Classes \cup {None}
         /\ j.command = "rotation" => j.class \in Classes
         /\ j.command = "revoke" => j.number \in Idents
<1>1. Idents \subseteq Nat /\ 0..MaxVersion \subseteq Nat
  BY DEF Idents
<1>2. Masters \subseteq Nat /\ Commands \subseteq AllCommands
  BY HostAssumption
<1>3. CASE j = Nothing
  BY <1>3 DEF Nothing
<1>4. CASE j \in CommandLines
  <2>1. /\ j.command \in Commands /\ j.paths \in SUBSET Paths /\ j.class \in Classes \cup {None}
        /\ j.number \in {0, 1} \cup 0..MaxVersion \cup Idents \cup Masters
    BY <1>4 DEF CommandLines
  <2>2. /\ j.command = "rotation" => j.class # None
        /\ NumberFits(j.command, j.number)
    BY <1>4 DEF CommandLines
  <2>3. j.number \in Nat
    <3>1. {0, 1} \subseteq Nat
      OBVIOUS
    <3>. QED BY Zenon, <1>1, <1>2, <2>1, <3>1
  <2>4. ASSUME j.command = "revoke" PROVE j.number \in Idents
    BY <2>2, <2>4 DEF NumberFits, Numbered
  <2>. QED BY <1>2, <2>1, <2>2, <2>3, <2>4
<1>. QED BY <1>3, <1>4

\* The empty store and the idle processes are typed.
LEMMA InitTyped == Init => TypeOK
<1>. SUFFICES ASSUME Init PROVE TypeOK
  OBVIOUS
<1>1. seal \in [id : Nat, key : Nat, master : Nat] /\ secrets \in [Paths -> Seq(Versions)]
  BY DEF Init, NoSeal
<1>2. class \in [Paths -> Classes] /\ bait \in [Paths -> BOOLEAN]
      /\ tokens \in [Idents -> {"none", "valid", "revoked"}]
  BY HostAssumption DEF Init
<1>3. lock \in Processes \cup {None, "dead"} /\ drawn \in Nat /\ started \in 0..MaxCommands
  BY HostAssumption DEF Init
<1>4. raced \in BOOLEAN
  BY DEF Init
<1>5. SessionsTyped
  BY DEF Init, SessionsTyped, Steps
<1>6. \A q \in Paths : Len(secrets[q]) <= MaxVersion
  BY HostAssumption DEF Init
<1>. QED BY <1>1, <1>2, <1>3, <1>4, <1>5, <1>6 DEF TypeOK, TablesTyped

\* A step that leaves the tables alone.
LEMMA SessionStep ==
  ASSUME TypeOK, UNCHANGED <<seal, secrets, class, bait, tokens>>,
         lock' \in Processes \cup {None, "dead"}, drawn' \in Nat, raced' \in BOOLEAN,
         started' \in 0..MaxCommands, SessionsTyped'
  PROVE  TypeOK'
BY DEF TypeOK, TablesTyped

\* What a command has looked up is typed.
LEMMA PlanTyped ==
  ASSUME TypeOK, NEW p \in Processes, NEW q \in Paths \cup {None}, NEW n \in Nat,
         NEW E \in SUBSET Entries, Plan(p, q, n, E), drawn' \in Nat
  PROVE  TypeOK'
<1>1. SessionsTyped'
  BY DEF TypeOK, SessionsTyped, Plan, Goto, Steps
<1>2. UNCHANGED <<seal, secrets, class, bait, tokens, lock, raced, started>>
  BY DEF Plan, tables
<1>. QED BY <1>1, <1>2, SessionStep DEF TypeOK, TablesTyped

\* A command that ends leaves nothing behind but its lock file.
LEMMA EndTyped ==
  ASSUME TypeOK, NEW p \in Processes, NEW left \in {None, "dead"}, End(p, left)
  PROVE  TypeOK'
<1>1. SessionsTyped'
  BY DEF TypeOK, SessionsTyped, End, Forget, Goto, Steps
<1>2. /\ UNCHANGED <<seal, secrets, class, bait, tokens, drawn, raced, started>>
      /\ lock' \in Processes \cup {None, "dead"}
  BY DEF End, tables, TypeOK, TablesTyped
<1>. QED BY <1>1, <1>2, SessionStep DEF TypeOK, TablesTyped

\* A command that has acted leaves what it did.
LEMMA ActedTyped ==
  ASSUME TypeOK, NEW p \in Processes, Acted(p),
         seal' \in [id : Nat, key : Nat, master : Nat],
         secrets' \in [Paths -> Seq(Versions)], class' \in [Paths -> Classes],
         bait' \in [Paths -> BOOLEAN], tokens' \in [Idents -> {"none", "valid", "revoked"}],
         \A q \in Paths : Len(secrets'[q]) <= MaxVersion
  PROVE  TypeOK'
<1>1. SessionsTyped'
  BY DEF TypeOK, SessionsTyped, Acted, session, Goto, Steps
<1>2. UNCHANGED <<lock, drawn, raced, started>>
  BY DEF Acted
<1>. QED BY <1>1, <1>2 DEF TypeOK, TablesTyped

\* A command that is begun.
LEMMA BeginTyped ==
  ASSUME TypeOK, NEW p \in Processes, Begin(p)
  PROVE  TypeOK'
<1>1. PICK j \in CommandLines, m \in Masters :
        /\ job' = [job EXCEPT ![p] = j]
        /\ todo' = [todo EXCEPT ![p] = j.paths]
        /\ Goto(p, IF j.command = "init" THEN "check" ELSE "lock")
        /\ master' = [master EXCEPT ![p] = m]
  BY DEF Begin
<1>2. j.paths \in SUBSET Paths /\ m \in Nat
  BY JobFacts, HostAssumption
<1>3. UNCHANGED <<root, item, noted, planned, recorded, gathered, shown>>
  BY DEF Begin
<1>4. SessionsTyped'
  BY <1>1, <1>2, <1>3 DEF TypeOK, SessionsTyped, Goto, Steps
<1>5. /\ UNCHANGED <<seal, secrets, class, bait, tokens, lock, drawn, raced>>
      /\ started' \in 0..MaxCommands
  BY HostAssumption DEF Begin, tables, TypeOK, TablesTyped
<1>. QED BY <1>4, <1>5, SessionStep DEF TypeOK, TablesTyped

\* The steps of an init.
LEMMA InitStepsTyped ==
  ASSUME TypeOK, NEW p \in Processes, InitCheck(p) \/ InitRecheck(p) \/ InitWrite(p)
  PROVE  TypeOK'
<1>1. SessionsTyped'
  BY DEF TypeOK, SessionsTyped, InitCheck, InitRecheck, InitWrite, session, Goto, Steps
<1>2. CASE InitCheck(p) \/ InitRecheck(p)
  <2>1. UNCHANGED <<seal, secrets, class, bait, tokens, lock, drawn, started>>
    BY <1>2 DEF InitCheck, InitRecheck, tables
  <2>2. raced' \in BOOLEAN
    BY <1>2 DEF InitCheck, InitRecheck, TypeOK, TablesTyped
  <2>. QED BY <1>1, <2>1, <2>2, SessionStep DEF TypeOK, TablesTyped
<1>3. CASE InitWrite(p)
  <2>1. UNCHANGED <<secrets, class, bait, tokens, lock, raced, started>>
    BY <1>3 DEF InitWrite, tables
  <2>2. seal' \in [id : Nat, key : Nat, master : Nat] /\ drawn' \in Nat
    BY <1>3 DEF InitWrite, TypeOK, TablesTyped, SessionsTyped
  <2>. QED BY <1>1, <2>1, <2>2 DEF TypeOK, TablesTyped
<1>. QED BY <1>2, <1>3

\* The steps of a session that change no table.
LEMMA SessionStepsTyped ==
  ASSUME TypeOK, NEW p \in Processes,
         Lock(p) \/ Open(p) \/ List(p) \/ Record(p) \/ RefuseRead(p) \/ Gather(p) \/ Show(p)
  PROVE  TypeOK'
<1>1. /\ UNCHANGED <<seal, secrets, class, bait, tokens, drawn, raced, started>>
      /\ lock' \in Processes \cup {None, "dead"}
  BY DEF Lock, Open, List, Record, RefuseRead, Gather, Show, tables, TypeOK, TablesTyped
<1>2. SessionsTyped'
  <2>. SessionsTyped /\ seal.key \in Nat
    BY DEF TypeOK, TablesTyped
  <2>1. CASE Lock(p)
    BY <2>1 DEF SessionsTyped, Lock, session, Goto, Steps
  <2>2. CASE Open(p)
    BY <2>2 DEF SessionsTyped, Open, Goto, Steps
  <2>3. CASE List(p)
    BY <2>3 DEF SessionsTyped, List, Existing, Goto, Steps
  <2>4. CASE Record(p)
    BY <2>4 DEF SessionsTyped, Record, Goto, Steps
  <2>5. CASE RefuseRead(p)
    <3>1. PICK q \in todo[p] :
            recorded' = [recorded EXCEPT ![p] = @ \cup {Entry("not-found", q, 0)}]
      BY <2>5 DEF RefuseRead
    <3>2. Entry("not-found", q, 0) \in Entries
      BY <3>1 DEF SessionsTyped, Entry, Entries, Actions
    <3>. QED BY <2>5, <3>1, <3>2 DEF SessionsTyped, RefuseRead, Goto, Steps
  <2>6. CASE Gather(p)
    BY <2>6 DEF SessionsTyped, Gather, NextItem, Goto, Steps
  <2>7. CASE Show(p)
    BY <2>7 DEF SessionsTyped, Show, Goto, Steps
  <2>. QED BY <2>1, <2>2, <2>3, <2>4, <2>5, <2>6, <2>7
<1>. QED BY <1>1, <1>2, SessionStep DEF TypeOK, TablesTyped

\* The entries a command plans, and what it looked up for them.
LEMMA PlanningTyped ==
  ASSUME TypeOK, NEW p \in Processes, Planning(p)
  PROVE  TypeOK'
<1>. /\ SessionsTyped /\ drawn \in Nat /\ seal.id \in Nat
     /\ secrets \in [Paths -> Seq(Versions)] /\ todo[p] \subseteq Paths
  BY DEF TypeOK, TablesTyped, SessionsTyped
<1>j. /\ job[p].number \in Nat /\ job[p].command \in AllCommands \cup {"none"}
      /\ job[p].command = "revoke" => job[p].number \in Idents
  BY JobFacts DEF SessionsTyped
<1>e. \A a \in Actions, q \in Paths \cup {None}, n \in Nat : Entry(a, q, n) \in Entries
  BY DEF Entry, Entries
<1>w. \A q \in Paths : Wanted(p, q) \in Nat
  BY <1>j DEF Wanted
<1>i. Idents \subseteq Nat
  BY DEF Idents
<1>1. CASE PlanWrite(p)
  <2>1. PICK q \in todo[p] :
          Plan(p, q, 0, {Entry("write", q, 0)} \cup
                        IF job[p].class = None THEN {} ELSE {Entry("classify", q, 0)})
    BY <1>1 DEF PlanWrite
  <2>2. drawn' = drawn
    BY <1>1 DEF PlanWrite
  <2>3. Entry("write", q, 0) \in Entries /\ Entry("classify", q, 0) \in Entries
    BY <1>e DEF Actions
  <2>. QED BY <2>1, <2>2, <2>3, PlanTyped
<1>2. CASE PlanRead(p)
  <2>1. PICK q \in todo[p] : Plan(p, q, Wanted(p, q), {Entry("read", q, Wanted(p, q))})
    BY <1>2 DEF PlanRead
  <2>2. drawn' = drawn
    BY <1>2 DEF PlanRead
  <2>3. Entry("read", q, Wanted(p, q)) \in Entries
    BY <1>e, <1>w DEF Actions
  <2>. QED BY <1>w, <2>1, <2>2, <2>3, PlanTyped
<1>3. CASE PlanChange(p)
  <2>1. PICK q \in todo[p] :
          Plan(p, q, Wanted(p, q), {Entry(job[p].command, q, Wanted(p, q))})
    BY <1>3 DEF PlanChange
  <2>2. drawn' = drawn /\ job[p].command \in {"delete", "undelete", "destroy"}
    BY <1>3 DEF PlanChange, Is
  <2>3. Entry(job[p].command, q, Wanted(p, q)) \in Entries
    BY <1>e, <1>w, <2>2 DEF Actions
  <2>. QED BY <1>w, <2>1, <2>2, <2>3, PlanTyped
<1>4. CASE PlanClassify(p) \/ PlanBait(p)
  <2>1. PICK q \in todo[p], a \in {"classify", "marked"} : Plan(p, q, 0, {Entry(a, q, 0)})
    BY <1>4 DEF PlanClassify, PlanBait
  <2>2. drawn' = drawn
    BY <1>4 DEF PlanClassify, PlanBait
  <2>3. Entry(a, q, 0) \in Entries
    BY <1>e DEF Actions
  <2>. QED BY <2>1, <2>2, <2>3, PlanTyped
<1>5. CASE PlanIssue(p)
  <2>1. drawn' = drawn + 1 /\ Plan(p, None, drawn + 1, {Entry("issue", None, drawn + 1)})
    BY <1>5 DEF PlanIssue
  <2>. DEFINE n == drawn + 1
  <2>2. n \in Nat
    OBVIOUS
  <2>. HIDE DEF n
  <2>3. Entry("issue", None, n) \in Entries
    BY <1>e, <2>2 DEF Actions
  <2>4. Plan(p, None, n, {Entry("issue", None, n)}) /\ drawn' = n
    BY <2>1 DEF n
  <2>. QED BY <2>2, <2>3, <2>4, PlanTyped
<1>6. CASE PlanRevoke(p)
  <2>1. /\ Plan(p, None, job[p].number, {Entry("revoke", None, job[p].number)})
        /\ drawn' = drawn
    BY <1>6 DEF PlanRevoke
  <2>2. Entry("revoke", None, job[p].number) \in Entries
    BY <1>e, <1>j DEF Actions
  <2>. QED BY <1>j, <2>1, <2>2, PlanTyped
<1>7. CASE PlanRevokeAll(p)
  <2>1. Plan(p, None, 0, {Entry("revoke", None, t) : t \in Valid}) /\ drawn' = drawn
    BY <1>7 DEF PlanRevokeAll
  <2>2. \A t \in Valid : Entry("revoke", None, t) \in Entries
    BY <1>e, <1>i DEF Actions, Valid
  <2>. DEFINE E == {Entry("revoke", None, t) : t \in Valid}
  <2>3. E \in SUBSET Entries
    BY <2>2
  <2>4. Plan(p, None, 0, E)
    BY <2>1
  <2>. HIDE DEF E
  <2>. QED BY <2>1, <2>3, <2>4, PlanTyped
<1>8. CASE PlanRotate(p)
  <2>1. Plan(p, None, seal.id, {Entry("rotate", None, 0)}) /\ drawn' = drawn
    BY <1>8 DEF PlanRotate
  <2>2. Entry("rotate", None, 0) \in Entries
    BY <1>e DEF Actions
  <2>. QED BY <2>1, <2>2, PlanTyped
<1>9. CASE PlanInit(p)
  <2>1. Plan(p, None, 0, {Entry("init", None, 0)}) /\ drawn' = drawn
    BY <1>9 DEF PlanInit
  <2>2. Entry("init", None, 0) \in Entries
    BY <1>e DEF Actions
  <2>. QED BY <2>1, <2>2, PlanTyped
<1>10. CASE RefuseRead(p)
  BY <1>10, SessionStepsTyped
<1>. QED BY <1>1, <1>2, <1>3, <1>4, <1>5, <1>6, <1>7, <1>8, <1>9, <1>10 DEF Planning

\* A change of one row keeps the table typed, and as long as it was.
LEMMA ChangeFacts ==
  ASSUME TypeOK, NEW p \in Processes, Has(item[p], noted[p]), item[p] \in Paths,
         NEW v \in Versions, Change(p, v)
  PROVE  /\ secrets' \in [Paths -> Seq(Versions)]
         /\ \A q \in Paths : Len(secrets'[q]) = Len(secrets[q])
         /\ \A q \in Paths : \A n \in 1..Len(secrets[q]) :
              secrets'[q][n] = IF q = item[p] /\ n = noted[p] THEN v ELSE secrets[q][n]
<1>. DEFINE q == item[p]
            n == noted[p]
            new == [secrets[q] EXCEPT ![n] = v]
<1>1. secrets \in [Paths -> Seq(Versions)] /\ q \in Paths /\ n \in 1..Len(secrets[q])
  BY DEF TypeOK, TablesTyped, Has
<1>2. /\ new \in Seq(Versions) /\ Len(new) = Len(secrets[q])
      /\ \A i \in 1..Len(secrets[q]) : new[i] = IF i = n THEN v ELSE secrets[q][i]
  BY <1>1, ExceptSeq
<1>3. secrets' = [secrets EXCEPT ![q] = new]
  BY DEF Change
<1>. HIDE DEF q, n, new
<1>. QED BY <1>1, <1>2, <1>3 DEF q, n

\* The commands that change a row of a secret that exists.
LEMMA RowTyped ==
  ASSUME TypeOK, NEW p \in Processes, Delete(p) \/ Undelete(p) \/ Destroy(p),
         item[p] \in Paths
  PROVE  /\ Has(item[p], noted[p]) /\ Row(p) \in Versions
         /\ \E v \in Versions :
              /\ Change(p, v)
              /\ \/ Delete(p) /\ v = [Row(p) EXCEPT !.deleted = TRUE]
                 \/ /\ Undelete(p) /\ ~Row(p).destroyed
                    /\ v = [Row(p) EXCEPT !.deleted = FALSE]
                 \/ Destroy(p) /\ v = [Row(p) EXCEPT !.wrapped = 0, !.destroyed = TRUE]
<1>1. Has(item[p], noted[p])
  BY DEF Delete, Undelete, Destroy
<1>2. Row(p) \in Versions
  BY <1>1 DEF TypeOK, TablesTyped, Has, Row
<1>3. /\ [Row(p) EXCEPT !.deleted = TRUE] \in Versions
      /\ [Row(p) EXCEPT !.deleted = FALSE] \in Versions
      /\ [Row(p) EXCEPT !.wrapped = 0, !.destroyed = TRUE] \in Versions
  BY <1>2 DEF Versions
<1>4. CASE Delete(p)
  BY Zenon, <1>1, <1>2, <1>3, <1>4 DEF Delete
<1>5. CASE Undelete(p)
  BY Zenon, <1>1, <1>2, <1>3, <1>5 DEF Undelete
<1>6. CASE Destroy(p)
  BY Zenon, <1>1, <1>2, <1>3, <1>6 DEF Destroy
<1>. QED BY <1>4, <1>5, <1>6

\* A new version of a secret.
LEMMA PutFacts ==
  ASSUME TypeOK, NEW p \in Processes, Put(p), item[p] \in Paths
  PROVE  /\ secrets' \in [Paths -> Seq(Versions)]
         /\ \A q \in Paths : Len(secrets[q]) <= Len(secrets'[q]) /\ Len(secrets'[q]) <= MaxVersion
         /\ \A q \in Paths : \A n \in 1..Len(secrets[q]) : secrets'[q][n] = secrets[q][n]
         /\ \A q \in Paths \ {item[p]} : secrets'[q] = secrets[q]
         /\ Len(secrets'[item[p]]) = Len(secrets[item[p]]) + 1
         /\ secrets'[item[p]][Len(secrets[item[p]]) + 1] =
              Encrypted(root[p], item[p], Len(secrets[item[p]]) + 1)
<1>. DEFINE q == item[p]
            v == Encrypted(root[p], q, Len(secrets[q]) + 1)
            new == Append(secrets[q], v)
<1>1. /\ secrets \in [Paths -> Seq(Versions)] /\ q \in Paths /\ root[p] \in Nat
      /\ \A x \in Paths : Len(secrets[x]) <= MaxVersion
  BY DEF TypeOK, TablesTyped, SessionsTyped
<1>2. Len(secrets[q]) \in Nat /\ Len(secrets[q]) < MaxVersion /\ MaxVersion \in Nat
  BY <1>1, HostAssumption DEF Put, HasNext
<1>3. v \in Versions
  BY <1>1, <1>2 DEF Versions, Encrypted
<1>4. /\ new \in Seq(Versions) /\ Len(new) = Len(secrets[q]) + 1
      /\ \A i \in 1..Len(secrets[q]) : new[i] = secrets[q][i]
      /\ new[Len(secrets[q]) + 1] = v
  BY <1>1, <1>3, AppendProperties
<1>5. secrets' = [secrets EXCEPT ![q] = new]
  BY DEF Put
<1>6. v = Encrypted(root[p], item[p], Len(secrets[item[p]]) + 1)
  OBVIOUS
<1>7. \A x \in Paths : Len(secrets[x]) \in Nat
  BY <1>1
<1>. HIDE DEF v, new
<1>. QED BY <1>1, <1>2, <1>4, <1>5, <1>6, <1>7

\* What a command does keeps the tables typed.
LEMMA ActingTyped ==
  ASSUME TypeOK, ItemInv, NEW p \in Processes, Acting(p)
  PROVE  TypeOK'
<1>. /\ TablesTyped /\ SessionsTyped
  BY DEF TypeOK
<1>l. \A q \in Paths : Len(secrets[q]) <= MaxVersion
  BY DEF TypeOK
<1>t. /\ seal \in [id : Nat, key : Nat, master : Nat] /\ secrets \in [Paths -> Seq(Versions)]
      /\ class \in [Paths -> Classes] /\ bait \in [Paths -> BOOLEAN]
      /\ tokens \in [Idents -> {"none", "valid", "revoked"}]
  BY DEF TablesTyped
<1>j. /\ job[p].number \in Nat /\ job[p].class \in Classes \cup {None}
      /\ job[p].command = "rotation" => job[p].class \in Classes
  BY JobFacts DEF SessionsTyped
<1>1. CASE Put(p)
  <2>1. item[p] \in Paths
    BY <1>1 DEF Put, Acts, Is, ItemInv, OnePath, SomePath
  <2>2. SessionsTyped'
    BY <1>1 DEF SessionsTyped, Put, NextItem, Goto, Steps
  <2>3. class' \in [Paths -> Classes]
    BY <1>1, <1>t, <1>j DEF Put
  <2>4. UNCHANGED <<seal, bait, tokens, lock, drawn, raced, started>>
    BY <1>1 DEF Put
  <2>5. /\ secrets' \in [Paths -> Seq(Versions)]
        /\ \A q \in Paths : Len(secrets'[q]) <= MaxVersion
    BY <1>1, <2>1, PutFacts
  <2>. QED BY <2>2, <2>3, <2>4, <2>5 DEF TypeOK, TablesTyped
<1>2. CASE Gather(p) \/ Show(p)
  BY <1>2, SessionStepsTyped
<1>3. CASE Delete(p) \/ Undelete(p) \/ Destroy(p)
  <2>1. item[p] \in Paths
    BY <1>3 DEF Delete, Undelete, Destroy, Acts, Is, ItemInv, OnePath
  <2>2. PICK v \in Versions : Change(p, v)
    BY <1>3, <2>1, RowTyped
  <2>3. Has(item[p], noted[p])
    BY <1>3 DEF Delete, Undelete, Destroy
  <2>4. /\ secrets' \in [Paths -> Seq(Versions)]
        /\ \A q \in Paths : Len(secrets'[q]) = Len(secrets[q])
    BY <2>1, <2>2, <2>3, ChangeFacts
  <2>5. Acted(p) /\ UNCHANGED <<seal, class, bait, tokens>>
    BY <2>2 DEF Change
  <2>. QED BY <1>l, <1>t, <2>4, <2>5, ActedTyped
<1>4. CASE SetRotation(p)
  <2>1. job[p].class \in Classes
    BY <1>4, <1>j DEF SetRotation, Acts, Is
  <2>2. class' \in [Paths -> Classes] /\ Acted(p) /\ UNCHANGED <<seal, secrets, bait, tokens>>
    BY <1>4, <1>t, <2>1 DEF SetRotation
  <2>. QED BY <1>l, <1>t, <2>2, ActedTyped
<1>5. CASE SetHoneypot(p)
  <2>1. bait' \in [Paths -> BOOLEAN]
    BY <1>5, <1>t DEF SetHoneypot
  <2>2. Acted(p) /\ UNCHANGED <<seal, secrets, class, tokens>>
    BY <1>5 DEF SetHoneypot
  <2>. QED BY <1>l, <1>t, <2>1, <2>2, ActedTyped
<1>6. CASE IssueToken(p) \/ RevokeToken(p) \/ RevokeAll(p)
  <2>1. tokens' \in [Idents -> {"none", "valid", "revoked"}]
    BY <1>6, <1>t DEF IssueToken, RevokeToken, RevokeAll
  <2>2. Acted(p) /\ UNCHANGED <<seal, secrets, class, bait>>
    BY <1>6 DEF IssueToken, RevokeToken, RevokeAll
  <2>. QED BY <1>l, <1>t, <2>1, <2>2, ActedTyped
<1>7. CASE ReplaceSeal(p)
  <2>1. seal' \in [id : Nat, key : Nat, master : Nat]
    BY <1>7, <1>j DEF ReplaceSeal, SessionsTyped
  <2>2. Acted(p) /\ UNCHANGED <<secrets, class, bait, tokens>>
    BY <1>7 DEF ReplaceSeal, tables
  <2>. QED BY <1>l, <1>t, <2>1, <2>2, ActedTyped
<1>8. CASE InitDone(p)
  <2>1. Acted(p) /\ UNCHANGED <<seal, secrets, class, bait, tokens>>
    BY <1>8 DEF InitDone, tables
  <2>. QED BY <1>l, <1>t, <2>1, ActedTyped
<1>. QED BY <1>1, <1>2, <1>3, <1>4, <1>5, <1>6, <1>7, <1>8 DEF Acting

Step(p) == Opening(p) \/ Planning(p) \/ Acting(p)

\* A step of one process leaves the others where they are.
LEMMA Frame ==
  ASSUME TypeOK, NEW p \in Processes, NEW o \in Processes \ {p}, Step(p)
  PROVE  /\ at'[o] = at[o] /\ job'[o] = job[o] /\ root'[o] = root[o]
         /\ item'[o] = item[o] /\ noted'[o] = noted[o]
         /\ planned'[o] = planned[o] /\ recorded'[o] = recorded[o]
         /\ todo'[o] = todo[o] /\ gathered'[o] = gathered[o] /\ shown'[o] = shown[o]
<1>. SessionsTyped
  BY DEF TypeOK
<1>1. ASSUME NEW q, NEW n, NEW E, Plan(p, q, n, E)
      PROVE  /\ at'[o] = at[o] /\ job'[o] = job[o] /\ root'[o] = root[o]
             /\ item'[o] = item[o] /\ noted'[o] = noted[o]
             /\ planned'[o] = planned[o] /\ recorded'[o] = recorded[o]
             /\ todo'[o] = todo[o] /\ gathered'[o] = gathered[o] /\ shown'[o] = shown[o]
  BY <1>1 DEF Plan, Goto, SessionsTyped
<1>2. ASSUME NEW left, End(p, left)
      PROVE  /\ at'[o] = at[o] /\ job'[o] = job[o] /\ root'[o] = root[o]
             /\ item'[o] = item[o] /\ noted'[o] = noted[o]
             /\ planned'[o] = planned[o] /\ recorded'[o] = recorded[o]
             /\ todo'[o] = todo[o] /\ gathered'[o] = gathered[o] /\ shown'[o] = shown[o]
  BY <1>2 DEF End, Forget, Goto, SessionsTyped
<1>3. ASSUME Acted(p)
      PROVE  /\ at'[o] = at[o] /\ job'[o] = job[o] /\ root'[o] = root[o]
             /\ item'[o] = item[o] /\ noted'[o] = noted[o]
             /\ planned'[o] = planned[o] /\ recorded'[o] = recorded[o]
             /\ todo'[o] = todo[o] /\ gathered'[o] = gathered[o] /\ shown'[o] = shown[o]
  BY <1>3 DEF Acted, session, Goto, SessionsTyped
<1>4. CASE Opening(p)
  <2>1. CASE Exit(p) \/ Fail(p) \/ Kill(p)
    BY <1>2, <2>1 DEF Exit, Fail, Kill
  <2>2. CASE Begin(p) \/ Open(p) \/ List(p) \/ Record(p)
    BY <2>2 DEF Begin, Open, List, Record, Goto, SessionsTyped
  <2>3. CASE InitCheck(p) \/ InitRecheck(p) \/ InitWrite(p) \/ Lock(p)
    BY <2>3 DEF InitCheck, InitRecheck, InitWrite, Lock, session, Goto, SessionsTyped
  <2>. QED BY <1>4, <2>1, <2>2, <2>3 DEF Opening
<1>5. CASE Planning(p)
  <2>1. CASE RefuseRead(p)
    BY <2>1 DEF RefuseRead, Goto, SessionsTyped
  <2>2. CASE ~RefuseRead(p)
    BY <1>1, <1>5, <2>2 DEF Planning, PlanWrite, PlanRead, PlanChange, PlanClassify,
                            PlanBait, PlanIssue, PlanRevoke, PlanRevokeAll, PlanRotate,
                            PlanInit
  <2>. QED BY <2>1, <2>2
<1>6. CASE Acting(p)
  <2>1. CASE Put(p) \/ Gather(p) \/ Show(p)
    BY <2>1 DEF Put, Gather, Show, NextItem, Goto, SessionsTyped
  <2>2. CASE ~(Put(p) \/ Gather(p) \/ Show(p))
    BY <1>3, <1>6, <2>2 DEF Acting, Delete, Undelete, Destroy, Change, SetRotation,
                            SetHoneypot, IssueToken, RevokeToken, RevokeAll, ReplaceSeal,
                            InitDone
  <2>. QED BY <2>1, <2>2
<1>. QED BY <1>4, <1>5, <1>6 DEF Step

\* The way of a process through its steps, and the shared state it touches.
LEMMA Moves ==
  ASSUME TypeOK, NEW p \in Processes, Step(p)
  PROVE  /\ at'[p] \in Holding => Lock(p) \/ at[p] \in Holding
         /\ at'[p] \in Unsealed => Open(p) \/ at[p] \in Unsealed
         /\ at'[p] = "write" => InitRecheck(p)
         /\ lock' = lock \/ Lock(p) \/ (lock = p /\ at'[p] = "idle")
         /\ root'[p] = root[p] \/ Open(p) \/ at'[p] = "idle"
         /\ seal' = seal \/ InitWrite(p) \/ ReplaceSeal(p)
         /\ secrets' = secrets \/ Put(p) \/ Delete(p) \/ Undelete(p) \/ Destroy(p)
<1>. /\ at \in [Processes -> Steps] /\ root \in [Processes -> Nat]
  BY DEF TypeOK, SessionsTyped
<1>. USE DEF Holding, Unsealed, Goto
<1>1. ASSUME NEW q, NEW n, NEW E, at[p] = "look", Plan(p, q, n, E)
      PROVE  /\ at'[p] \in {"record", "act"}
             /\ UNCHANGED <<seal, secrets, lock>> /\ root' = root
  BY <1>1 DEF Plan, tables
<1>2. ASSUME NEW left, End(p, left)
      PROVE  /\ at'[p] = "idle" /\ UNCHANGED <<seal, secrets>>
             /\ lock' = lock \/ lock = p
  BY <1>2 DEF End, tables
<1>3. ASSUME at[p] = "act", Acted(p)
      PROVE  at'[p] = "done" /\ UNCHANGED lock /\ root' = root
  BY <1>3 DEF Acted, session
<1>4. CASE Opening(p)
  <2>1. CASE Exit(p) \/ Fail(p) \/ Kill(p)
    BY <1>2, <2>1 DEF Exit, Fail, Kill
  <2>2. CASE Begin(p) \/ Open(p) \/ List(p) \/ Record(p)
    BY <2>2 DEF Begin, Open, List, Record, tables
  <2>3. CASE InitCheck(p) \/ InitRecheck(p) \/ InitWrite(p) \/ Lock(p)
    BY <2>3 DEF InitCheck, InitRecheck, InitWrite, Lock, session, tables
  <2>. QED BY <1>4, <2>1, <2>2, <2>3 DEF Opening
<1>5. CASE Planning(p)
  <2>1. CASE RefuseRead(p)
    BY <2>1 DEF RefuseRead, tables
  <2>2. CASE ~RefuseRead(p)
    <3>1. at[p] = "look" /\ \E q, n, E : Plan(p, q, n, E)
      BY <1>5, <2>2 DEF Planning, PlanWrite, PlanRead, PlanChange, PlanClassify, PlanBait,
                        PlanIssue, PlanRevoke, PlanRevokeAll, PlanRotate, PlanInit
    <3>. QED BY <1>1, <3>1
  <2>. QED BY <2>1, <2>2
<1>6. CASE Acting(p)
  <2>1. CASE Put(p) \/ Gather(p) \/ Show(p)
    BY <2>1 DEF Put, Gather, Show, NextItem, Acts, tables
  <2>2. CASE Delete(p) \/ Undelete(p) \/ Destroy(p)
    BY <1>3, <2>2 DEF Delete, Undelete, Destroy, Change, Acts
  <2>3. CASE SetRotation(p) \/ SetHoneypot(p) \/ IssueToken(p) \/ RevokeToken(p)
             \/ RevokeAll(p) \/ ReplaceSeal(p) \/ InitDone(p)
    BY <1>3, <2>3 DEF SetRotation, SetHoneypot, IssueToken, RevokeToken, RevokeAll,
                      ReplaceSeal, InitDone, Acts, tables
  <2>. QED BY <1>6, <2>1, <2>2, <2>3 DEF Acting
<1>. QED BY <1>4, <1>5, <1>6 DEF Step

\* A command that is about a path finds it before it records.
LEMMA ItemStep ==
  ASSUME TypeOK, ItemInv, NEW p \in Processes, Step(p)
  PROVE  ItemInv'
<1>. /\ at \in [Processes -> Steps] /\ item \in [Processes -> Paths \cup {None}]
     /\ todo[p] \subseteq Paths
     /\ job \in [Processes -> CommandLines \cup {Nothing}]
  BY DEF TypeOK, SessionsTyped
<1>1. \A o \in Processes \ {p} : at'[o] = at[o] /\ job'[o] = job[o] /\ item'[o] = item[o]
  BY Frame
<1>2. at'[p] \in {"record", "act"} /\ job'[p].command \in OnePath \cup SomePath \cup {"dump"}
        => item'[p] \in Paths
  <2>1. CASE Record(p)
    BY <2>1 DEF Record, ItemInv, Is
  <2>2. CASE Opening(p) /\ ~Record(p)
    <3>1. at'[p] \notin {"record", "act"}
      BY <2>2 DEF Opening, Begin, InitCheck, InitRecheck, InitWrite, Lock, Open, List, Fail,
                  Exit, Kill, End, Goto
    <3>. QED BY <3>1
  <2>3. CASE RefuseRead(p) \/ Acting(p)
    <3>1. at'[p] \notin {"record", "act"}
      BY <2>3 DEF RefuseRead, Acting, Put, Gather, Show, NextItem, Delete, Undelete, Destroy,
                  Change, SetRotation, SetHoneypot, IssueToken, RevokeToken, RevokeAll,
                  ReplaceSeal, InitDone, Acted, Goto
    <3>. QED BY <3>1
  <2>4. CASE PlanWrite(p) \/ PlanRead(p) \/ PlanChange(p) \/ PlanClassify(p) \/ PlanBait(p)
    <3>1. PICK q \in todo[p] : \E n, E : Plan(p, q, n, E)
      BY <2>4 DEF PlanWrite, PlanRead, PlanChange, PlanClassify, PlanBait
    <3>. QED BY <3>1 DEF Plan
  <2>5. CASE PlanIssue(p) \/ PlanRevoke(p) \/ PlanRevokeAll(p) \/ PlanRotate(p) \/ PlanInit(p)
    <3>1. job[p].command \in {"issue", "revoke", "revoke-all", "rotate-master-key", "init"}
      BY <2>5 DEF PlanIssue, PlanRevoke, PlanRevokeAll, PlanRotate, PlanInit, Is
    <3>2. job' = job
      BY <2>5 DEF PlanIssue, PlanRevoke, PlanRevokeAll, PlanRotate, PlanInit, Plan
    <3>. QED BY <3>1, <3>2 DEF OnePath, SomePath
  <2>. QED BY <2>1, <2>2, <2>3, <2>4, <2>5 DEF Step, Planning
<1>. QED BY <1>1, <1>2 DEF ItemInv, Is

\* Every step keeps the types.
LEMMA NextTyped == TypeOK /\ ItemInv /\ [Next]_vars => TypeOK' /\ ItemInv'
<1>. SUFFICES ASSUME TypeOK, ItemInv, [Next]_vars PROVE TypeOK' /\ ItemInv'
  OBVIOUS
<1>1. ASSUME NEW p \in Processes, Step(p) PROVE TypeOK'
  <2>1. CASE Opening(p)
    BY <2>1, BeginTyped, InitStepsTyped, SessionStepsTyped, EndTyped
       DEF Opening, Exit, Fail, Kill
  <2>. QED BY <1>1, <2>1, PlanningTyped, ActingTyped DEF Step
<1>2. CASE UNCHANGED vars
  BY <1>2 DEF TypeOK, TablesTyped, SessionsTyped, ItemInv, Is, vars
<1>. QED BY <1>1, <1>2, ItemStep DEF Next, Step

\* Every state of the store and of the commands is typed, and no path ever has
\* more versions than there are numbers.
THEOREM HostTyped == Spec => [](TypeOK /\ ItemInv)
<1>1. Init => ItemInv
  BY DEF Init, ItemInv
<1>. QED BY <1>1, InitTyped, NextTyped, PTL DEF Spec

\* A process acts with the lock, on a store that is sealed.
LEMMA ActsLocked ==
  ASSUME LockInv, NEW p \in Processes, at[p] \in Unsealed
  PROVE  lock = p /\ seal # NoSeal /\ \A o \in Processes \ {p} : at[o] \notin Holding
BY DEF LockInv, Holding

\* The seal, once there, stays.
LEMMA SealStays ==
  ASSUME TypeOK, LockInv, NEW p \in Processes, Step(p)
  PROVE  /\ seal'.id = 0 => seal' = NoSeal
         /\ seal' = NoSeal => seal = NoSeal
<1>1. CASE InitWrite(p)
  BY <1>1 DEF InitWrite, NoSeal, TypeOK, TablesTyped
<1>2. CASE ReplaceSeal(p)
  BY <1>2 DEF ReplaceSeal, NoSeal, LockInv
<1>. QED BY <1>1, <1>2, Moves DEF LockInv

\* Whoever is past the lock has it, and works on a store that is sealed.
LEMMA LockStep ==
  ASSUME TypeOK, LockInv, NEW p \in Processes, Step(p)
  PROVE  LockInv'
<1>1. ASSUME NEW o \in Processes, at'[o] \in Holding PROVE lock' = o
  <2>1. CASE o # p
    <3>1. lock = o
      BY <1>1, <2>1, Frame DEF LockInv
    <3>2. ~Lock(p)
      BY <3>1, HostAssumption DEF Lock
    <3>. QED BY <2>1, <3>1, <3>2, Moves
  <2>2. CASE o = p
    <3>1. CASE Lock(p)
      BY <2>2, <3>1 DEF Lock
    <3>2. CASE ~Lock(p)
      <4>1. at[p] \in Holding /\ at'[p] # "idle"
        BY <1>1, <2>2, <3>2, Moves DEF Holding, Unsealed
      <4>. QED BY <2>2, <3>2, <4>1, Moves DEF LockInv
    <3>. QED BY <3>1, <3>2
  <2>. QED BY <2>1, <2>2
<1>2. ASSUME NEW o \in Processes, at'[o] \in Unsealed PROVE seal' # NoSeal
  <2>1. seal # NoSeal
    <3>1. CASE Open(p)
      BY <3>1 DEF Open
    <3>2. CASE ~Open(p)
      BY <1>2, <3>2, Frame, Moves DEF LockInv
    <3>. QED BY <3>1, <3>2
  <2>. QED BY <2>1, SealStays
<1>3. ASSUME seal' = NoSeal PROVE secrets' = secrets /\ seal = NoSeal
  <2>1. seal = NoSeal
    BY <1>3, SealStays
  <2>2. at[p] \notin Unsealed
    BY <2>1 DEF LockInv
  <2>3. ~(Put(p) \/ Delete(p) \/ Undelete(p) \/ Destroy(p))
    BY <2>2 DEF Put, Delete, Undelete, Destroy, Acts, Unsealed
  <2>. QED BY <2>1, <2>3, Moves
<1>. QED BY <1>1, <1>2, <1>3, SealStays DEF LockInv

\* What a step of p does to one row: its data key is kept or shredded, and only
\* the command that says so deletes, undeletes or destroys it.
RowAfter(p, q, n) ==
  LET old == secrets[q][n]
      new == secrets'[q][n]
      named == q = item[p] /\ n = noted[p]
  IN  /\ new.path = old.path /\ new.number = old.number
      /\ \/ new.wrapped = old.wrapped /\ new.destroyed = old.destroyed
         \/ Destroy(p) /\ new.wrapped = 0 /\ new.destroyed
      /\ new.destroyed # old.destroyed => Destroy(p) /\ named
      /\ ~old.deleted /\ new.deleted => Delete(p) /\ named
      /\ old.deleted /\ ~new.deleted => Undelete(p) /\ named

\* And to a path: it has one version more after a put, and never one less.
PathAfter(p, q) ==
  LET last == Len(secrets[q]) IN
  /\ Len(secrets'[q]) \in Nat /\ last <= Len(secrets'[q])
  /\ Len(secrets'[q]) # last =>
       /\ Put(p) /\ q = item[p] /\ Len(secrets'[q]) = last + 1
       /\ secrets'[q][last + 1] = Encrypted(root[p], q, last + 1)
  /\ \A n \in 1..last : RowAfter(p, q, n)

\* What a step does to the secrets.
LEMMA RowStep ==
  ASSUME TypeOK, ItemInv, NEW p \in Processes, NEW q \in Paths, Step(p)
  PROVE  PathAfter(p, q)
<1>1. secrets \in [Paths -> Seq(Versions)] /\ Len(secrets[q]) \in Nat
  BY DEF TypeOK, TablesTyped
<1>2. CASE secrets' = secrets
  BY <1>1, <1>2 DEF PathAfter, RowAfter
<1>3. CASE Put(p)
  <2>1. item[p] \in Paths
    BY <1>3 DEF Put, Acts, Is, ItemInv, OnePath, SomePath
  <2>. QED BY <1>1, <1>3, <2>1, PutFacts DEF PathAfter, RowAfter
<1>4. CASE Delete(p) \/ Undelete(p) \/ Destroy(p)
  <2>1. item[p] \in Paths
    BY <1>4 DEF Delete, Undelete, Destroy, Acts, Is, ItemInv, OnePath
  <2>2. Row(p) \in Versions /\ Has(item[p], noted[p])
    BY <1>4, <2>1, RowTyped
  <2>3. PICK v \in Versions :
              /\ Change(p, v)
              /\ \/ Delete(p) /\ v = [Row(p) EXCEPT !.deleted = TRUE]
                 \/ /\ Undelete(p) /\ ~Row(p).destroyed
                    /\ v = [Row(p) EXCEPT !.deleted = FALSE]
                 \/ Destroy(p) /\ v = [Row(p) EXCEPT !.wrapped = 0, !.destroyed = TRUE]
    BY <1>4, <2>1, RowTyped
  <2>4. /\ Len(secrets'[q]) = Len(secrets[q])
        /\ \A n \in 1..Len(secrets[q]) :
              secrets'[q][n] = IF q = item[p] /\ n = noted[p] THEN v ELSE secrets[q][n]
    BY <2>1, <2>2, <2>3, ChangeFacts
  <2>5. /\ v.path = Row(p).path /\ v.number = Row(p).number
        /\ \/ v.wrapped = Row(p).wrapped /\ v.destroyed = Row(p).destroyed
           \/ Destroy(p) /\ v.wrapped = 0 /\ v.destroyed
        /\ v.destroyed # Row(p).destroyed => Destroy(p)
        /\ ~Row(p).deleted /\ v.deleted => Delete(p)
        /\ Row(p).deleted /\ ~v.deleted => Undelete(p)
    BY <2>2, <2>3 DEF Versions
  <2>6. ASSUME NEW n \in 1..Len(secrets[q]) PROVE RowAfter(p, q, n)
    <3>1. CASE q = item[p] /\ n = noted[p]
      <4>1. secrets'[q][n] = v /\ secrets[q][n] = Row(p)
        BY <2>4, <3>1 DEF Row
      <4>. QED BY Zenon, <2>5, <3>1, <4>1 DEF RowAfter
    <3>2. CASE ~(q = item[p] /\ n = noted[p])
      <4>1. secrets'[q][n] = secrets[q][n]
        BY <2>4, <3>2
      <4>. QED BY Zenon, <4>1 DEF RowAfter
    <3>. QED BY <3>1, <3>2
  <2>. QED BY <1>1, <2>4, <2>6 DEF PathAfter
<1>. QED BY <1>2, <1>3, <1>4, Moves

\* A version is destroyed with its key, and no step brings the key back.
LEMMA ShredStep ==
  ASSUME TypeOK, ItemInv, ShredInv, NEW p \in Processes, Step(p)
  PROVE  /\ ShredInv'
         /\ \A q \in Paths : \A n \in 1..Len(secrets[q]) :
              secrets[q][n].destroyed =>
                secrets'[q][n].destroyed /\ secrets'[q][n].wrapped = 0
<1>1. ASSUME NEW q \in Paths, NEW n \in 1..Len(secrets[q])
      PROVE  /\ secrets'[q][n].destroyed => secrets'[q][n].wrapped = 0
             /\ secrets[q][n].destroyed =>
                  secrets'[q][n].destroyed /\ secrets'[q][n].wrapped = 0
  <2>1. RowAfter(p, q, n)
    BY <1>1, RowStep DEF PathAfter
  <2>2. secrets[q][n].destroyed => secrets[q][n].wrapped = 0
    BY DEF ShredInv
  <2>. QED BY Zenon, <2>1, <2>2 DEF RowAfter
<1>2. ASSUME NEW q \in Paths, NEW n \in 1..Len(secrets'[q]), n \notin 1..Len(secrets[q])
      PROVE  ~secrets'[q][n].destroyed
  <2>1. PathAfter(p, q)
    BY RowStep
  <2>2. Len(secrets[q]) \in Nat
    BY DEF TypeOK, TablesTyped
  <2>3. n = Len(secrets[q]) + 1 /\ Len(secrets'[q]) # Len(secrets[q])
    BY <1>2, <2>1, <2>2 DEF PathAfter
  <2>4. secrets'[q][n] = Encrypted(root[p], q, n)
    BY Zenon, <2>1, <2>3 DEF PathAfter
  <2>. QED BY <2>4 DEF Encrypted
<1>. QED BY Zenon, <1>1, <1>2 DEF ShredInv

\* The lock, the seal and the keys of destroyed versions, over a behaviour.
HostInv == TypeOK /\ ItemInv /\ LockInv /\ ShredInv

\* They hold of the empty store, and every step keeps them.
LEMMA HostInvStep ==
  /\ Init => HostInv
  /\ HostInv /\ [Next]_vars => HostInv'
<1>1. ASSUME Init PROVE HostInv
  <2>1. ItemInv /\ LockInv /\ ShredInv
    BY <1>1 DEF Init, ItemInv, LockInv, ShredInv, Holding, Unsealed, NoSeal
  <2>. QED BY <1>1, <2>1, InitTyped DEF HostInv
<1>2. ASSUME HostInv, [Next]_vars PROVE HostInv'
  <2>1. TypeOK' /\ ItemInv'
    BY <1>2, NextTyped DEF HostInv
  <2>2. CASE UNCHANGED vars
    BY <1>2, <2>1, <2>2 DEF HostInv, LockInv, ShredInv, vars
  <2>3. ASSUME NEW p \in Processes, Step(p) PROVE HostInv'
    BY <1>2, <2>1, <2>3, LockStep, ShredStep DEF HostInv
  <2>. QED BY <1>2, <2>2, <2>3 DEF Next, Step
<1>. QED BY <1>1, <1>2

\* The lock, the seal and the shredded keys are right in every state.
THEOREM HostInvariant == Spec => []HostInv
BY HostInvStep, PTL DEF Spec

\* "Destruction is not reversible": no sequence of commands of any number of
\* processes, killed wherever they are, restores a destroyed version or its key.
THEOREM DestructionIsFinal == Spec => ShredIsFinal
<1>1. HostInv /\ [Next]_vars =>
        [\A q \in Paths : \A n \in 1..Len(secrets[q]) :
           secrets[q][n].destroyed =>
             secrets'[q][n].destroyed /\ secrets'[q][n].wrapped = 0]_vars
  <2>. SUFFICES ASSUME HostInv, Next
                PROVE  \A q \in Paths : \A n \in 1..Len(secrets[q]) :
                         secrets[q][n].destroyed =>
                           secrets'[q][n].destroyed /\ secrets'[q][n].wrapped = 0
    OBVIOUS
  <2>1. PICK p \in Processes : Step(p)
    BY DEF Next, Step
  <2>. QED BY <2>1, ShredStep DEF HostInv
<1>. QED BY <1>1, HostInvariant, PTL DEF Spec, ShredIsFinal

\* Unless inits race, the sealed key is never replaced by another.
LEMMA KeyStays ==
  ASSUME TypeOK, LockInv, KeyInv, NEW p \in Processes, Step(p)
  PROVE  /\ seal # NoSeal => seal'.key = seal.key /\ ~InitWrite(p)
         /\ seal' # NoSeal => seal'.key # 0
<1>1. CASE InitWrite(p)
  <2>1. seal = NoSeal
    BY <1>1 DEF InitWrite, KeyInv
  <2>2. seal'.key = drawn + 1 /\ drawn \in Nat
    BY <1>1 DEF InitWrite, TypeOK, TablesTyped
  <2>. QED BY <2>1, <2>2
<1>2. CASE ReplaceSeal(p)
  <2>1. at[p] \in Unsealed
    BY <1>2 DEF ReplaceSeal, Acts, Unsealed
  <2>2. root[p] = seal.key /\ seal # NoSeal
    BY <2>1 DEF KeyInv, LockInv
  <2>3. seal'.key = root[p] /\ ~InitWrite(p)
    BY <1>2 DEF ReplaceSeal, Acts, InitWrite
  <2>. QED BY <2>2, <2>3 DEF KeyInv
<1>3. CASE seal' = seal /\ ~InitWrite(p)
  BY <1>3 DEF KeyInv
<1>. QED BY <1>1, <1>2, <1>3, Moves

\* A step keeps every version decryptable.
LEMMA OrphanStep ==
  ASSUME TypeOK, ItemInv, LockInv, KeyInv, NEW p \in Processes, Step(p)
  PROVE  NothingOrphaned'
<1>. SUFFICES ASSUME NEW q \in Paths, NEW n \in 1..Len(secrets'[q]), ~secrets'[q][n].destroyed
              PROVE  /\ secrets'[q][n].wrapped # 0 /\ secrets'[q][n].wrapped = seal'.key
                     /\ secrets'[q][n].path = q /\ secrets'[q][n].number = n
  BY DEF NothingOrphaned, Decrypts
<1>1. PathAfter(p, q)
  BY RowStep
<1>2. Len(secrets[q]) \in Nat
  BY DEF TypeOK, TablesTyped
<1>3. CASE n \in 1..Len(secrets[q])
  <2>1. RowAfter(p, q, n)
    BY <1>1, <1>3 DEF PathAfter
  <2>2. ~secrets[q][n].destroyed /\ secrets'[q][n].wrapped = secrets[q][n].wrapped
        /\ secrets'[q][n].path = secrets[q][n].path
        /\ secrets'[q][n].number = secrets[q][n].number
    BY Zenon, <2>1 DEF RowAfter
  <2>3. Decrypts(seal.key, q, n)
    BY <1>3, <2>2 DEF KeyInv, NothingOrphaned
  <2>4. seal # NoSeal
    BY <1>3 DEF LockInv
  <2>. QED BY <2>2, <2>3, <2>4, KeyStays DEF Decrypts
<1>4. CASE n \notin 1..Len(secrets[q])
  <2>1. n = Len(secrets[q]) + 1 /\ Len(secrets'[q]) # Len(secrets[q])
    BY <1>1, <1>2, <1>4 DEF PathAfter
  <2>2. secrets'[q][n] = Encrypted(root[p], q, n) /\ Put(p)
    BY Zenon, <1>1, <2>1 DEF PathAfter
  <2>3. at[p] \in Unsealed
    BY <2>2 DEF Put, Acts, Unsealed
  <2>4. root[p] = seal.key /\ seal # NoSeal
    BY <2>3 DEF KeyInv, LockInv
  <2>5. seal'.key = root[p] /\ root[p] # 0
    BY <2>4, KeyStays DEF KeyInv
  <2>. QED BY <2>2, <2>5 DEF Encrypted
<1>. QED BY <1>3, <1>4

\* Unless inits race, a step keeps the keys of the store and of the sessions.
LEMMA KeyStep ==
  ASSUME TypeOK, ItemInv, LockInv, ~raced => KeyInv, NEW p \in Processes, Step(p), ~raced'
  PROVE  KeyInv'
<1>1. ~raced /\ (InitRecheck(p) => \A o \in Processes \ {p} : at[o] # "write")
  <2>1. CASE InitRecheck(p)
    BY Zenon, <2>1 DEF InitRecheck
  <2>2. CASE ~InitRecheck(p)
    <3>1. raced' = raced
      BY <2>2 DEF Step, Opening, Planning, Acting, Begin, InitCheck, InitWrite, Lock, Open,
           List, Record, Fail, Exit, Kill, End, PlanWrite, PlanRead, RefuseRead, PlanChange,
           PlanClassify, PlanBait, PlanIssue, PlanRevoke, PlanRevokeAll, PlanRotate, PlanInit,
           Plan, Put, Gather, Show, Delete, Undelete, Destroy, Change, SetRotation,
           SetHoneypot, IssueToken, RevokeToken, RevokeAll, ReplaceSeal, InitDone, Acted
    <3>. QED BY <2>2, <3>1
  <2>. QED BY <2>1, <2>2
<1>. KeyInv
  BY <1>1
<1>2. ASSUME NEW o \in Processes, at'[o] = "write" PROVE seal' = NoSeal
  <2>1. CASE InitRecheck(p)
    BY <2>1 DEF InitRecheck
  <2>2. CASE ~InitRecheck(p)
    <3>1. o # p /\ at[o] = "write" /\ seal = NoSeal
      BY <1>2, <2>2, Frame, Moves DEF KeyInv
    <3>2. ~InitWrite(p)
      BY <3>1 DEF InitWrite, KeyInv
    <3>3. ~ReplaceSeal(p)
      BY <3>1 DEF ReplaceSeal
    <3>. QED BY <3>1, <3>2, <3>3, Moves
  <2>. QED BY <2>1, <2>2
<1>3. ASSUME NEW x \in Processes, NEW o \in Processes, at'[x] = "write", at'[o] = "write"
      PROVE  x = o
  <2>1. CASE InitRecheck(p)
    BY <1>1, <1>3, <2>1, Frame
  <2>2. CASE ~InitRecheck(p)
    BY <1>3, <2>2, Frame, Moves DEF KeyInv
  <2>. QED BY <2>1, <2>2
<1>4. ASSUME NEW o \in Processes, at'[o] \in Unsealed PROVE root'[o] = seal'.key
  <2>1. CASE Open(p) /\ o = p
    <3>1. seal' = seal /\ root'[p] = seal.key
      BY <2>1 DEF Open, TypeOK, SessionsTyped
    <3>. QED BY <2>1, <3>1
  <2>2. CASE ~(Open(p) /\ o = p)
    <3>1. at[o] \in Unsealed
      BY <1>4, <2>2, Frame, Moves
    <3>2. root[o] = seal.key /\ seal # NoSeal
      BY <3>1 DEF KeyInv, LockInv
    <3>3. root'[o] = root[o]
      BY <1>4, <2>2, Frame, Moves DEF Unsealed
    <3>. QED BY <3>2, <3>3, KeyStays
  <2>. QED BY <2>1, <2>2
<1>. QED BY <1>2, <1>3, <1>4, KeyStays, OrphanStep DEF KeyInv

\* Every session has the sealed key, unless inits raced.
THEOREM KeyInvariant == Spec => [](HostInv /\ (~raced => KeyInv))
<1>1. Init => KeyInv
  BY DEF Init, KeyInv, NothingOrphaned, Unsealed, NoSeal
<1>2. ASSUME HostInv, ~raced => KeyInv, [Next]_vars PROVE ~raced' => KeyInv'
  <2>1. CASE UNCHANGED vars
    BY <1>2, <2>1 DEF KeyInv, NothingOrphaned, Decrypts, vars
  <2>2. ASSUME NEW p \in Processes, Step(p) PROVE ~raced' => KeyInv'
    BY <1>2, <2>2, KeyStep DEF HostInv
  <2>. QED BY <1>2, <2>1, <2>2 DEF Next, Step
<1>. QED BY <1>1, <1>2, HostInvStep, PTL DEF Spec

\* "Overwriting it would orphan every secret": unless two inits were past their
\* last check at once, whatever is stored and not destroyed can be decrypted.
THEOREM SecretsStayReadable == Spec => []SecretsReadable
<1>1. (~raced => KeyInv) => SecretsReadable
  BY DEF KeyInv, SecretsReadable
<1>. QED BY <1>1, KeyInvariant, PTL

\* Which step changes which table.
LEMMA TableStep ==
  ASSUME NEW p \in Processes, Step(p)
  PROVE  /\ tokens' = tokens \/ IssueToken(p) \/ RevokeToken(p) \/ RevokeAll(p)
         /\ class' = class \/ Put(p) \/ SetRotation(p)
         /\ bait' = bait \/ SetHoneypot(p)
<1>1. CASE Opening(p)
  BY <1>1 DEF Opening, Begin, InitCheck, InitRecheck, InitWrite, Lock, Open, List, Record,
              Fail, Exit, Kill, End, tables
<1>2. CASE Planning(p)
  BY <1>2 DEF Planning, PlanWrite, PlanRead, RefuseRead, PlanChange, PlanClassify, PlanBait,
              PlanIssue, PlanRevoke, PlanRevokeAll, PlanRotate, PlanInit, Plan, tables
<1>3. CASE Acting(p)
  BY <1>3 DEF Acting, Put, Gather, Show, Delete, Undelete, Destroy, Change, SetRotation,
              SetHoneypot, IssueToken, RevokeToken, RevokeAll, ReplaceSeal, InitDone, tables
<1>. QED BY <1>1, <1>2, <1>3 DEF Step

\* What RecordInv says of one process.
RecordedAt(p) ==
  /\ at[p] \in {"record", "act"} => Backed(p)
  /\ at[p] = "act" => planned[p] = {}
  /\ at[p] \in {"idle", "check", "recheck", "write", "lock", "open"} => recorded[p] = {}
  /\ Is(p, {"revoke-all"}) /\ at[p] \in {"list", "look"} => recorded[p] = {}

\* A step takes nothing away from what the others have planned and recorded:
\* whoever has planned something has the lock, so that no token changes.
LEMMA RecordOthers ==
  ASSUME TypeOK, LockInv, NEW p \in Processes, NEW o \in Processes \ {p}, Step(p),
         RecordedAt(o)
  PROVE  RecordedAt(o)'
<1>1. /\ at'[o] = at[o] /\ job'[o] = job[o] /\ item'[o] = item[o] /\ noted'[o] = noted[o]
      /\ planned'[o] = planned[o] /\ recorded'[o] = recorded[o]
  BY Frame
<1>2. at[o] \in {"record", "act"} => tokens' = tokens
  <2>. SUFFICES ASSUME at[o] \in Unsealed PROVE tokens' = tokens
    BY DEF Unsealed
  <2>1. at[p] # "act"
    BY ActsLocked DEF Holding, Unsealed
  <2>. QED BY <2>1, TableStep DEF IssueToken, RevokeToken, RevokeAll, Acts
<1>3. at[o] \in {"record", "act"} => Valid' = Valid
  BY <1>2 DEF Valid
<1>4. at[o] \in {"record", "act"} => Backed(o)'
  <2>. SUFFICES ASSUME at[o] \in {"record", "act"} PROVE Backed(o)'
    OBVIOUS
  <2>1. Backed(o) /\ tokens' = tokens /\ Valid' = Valid
    BY <1>2, <1>3 DEF RecordedAt
  <2>2. Entered(o)' = Entered(o)
    BY <1>1 DEF Entered
  <2>. QED BY Zenon, <1>1, <2>1, <2>2 DEF Backed, Is
<1>. QED BY <1>1, <1>4 DEF RecordedAt, Is

\* What a command looked up, it has planned to record.
LEMMA PlanBacks ==
  ASSUME TypeOK, NEW p \in Processes, RecordedAt(p), NEW q, NEW n, NEW E, at[p] = "look",
         Plan(p, q, n, E),
         Is(p, {"put", "import"}) =>
           /\ Entry("write", q, 0) \in E
           /\ job[p].class # None => Entry("classify", q, 0) \in E,
         Is(p, {"delete", "undelete", "destroy"}) => Entry(job[p].command, q, n) \in E,
         Is(p, {"rotation"}) => Entry("classify", q, 0) \in E,
         Is(p, {"bait"}) => Entry("marked", q, 0) \in E,
         Is(p, {"issue"}) => Entry("issue", None, n) \in E,
         Is(p, {"revoke"}) => Entry("revoke", None, n) \in E /\ tokens[n] # "none",
         Is(p, {"revoke-all"}) => E = {Entry("revoke", None, t) : t \in Valid},
         Is(p, {"rotate-master-key"}) => Entry("rotate", None, 0) \in E
  PROVE  RecordedAt(p)'
<1>1. /\ item'[p] = q /\ noted'[p] = n /\ planned'[p] = E /\ recorded' = recorded
      /\ job' = job /\ tokens' = tokens
      /\ at'[p] = IF E = {} THEN "act" ELSE "record"
  BY DEF Plan, Goto, tables, TypeOK, SessionsTyped
<1>2. Valid' = Valid
  BY <1>1 DEF Valid
<1>3. Is(p, {"revoke-all"}) => recorded[p] = {}
  BY DEF RecordedAt
<1>4. E \subseteq Entered(p)' /\ (Is(p, {"revoke-all"}) => Entered(p)' = E)
  BY <1>1, <1>3 DEF Entered
<1>5. Backed(p)'
  BY Zenon, <1>1, <1>2, <1>4 DEF Backed, Is
<1>. QED BY <1>1, <1>5 DEF RecordedAt

\* Every command plans to record what it is about to do.
LEMMA PlanningBacks ==
  ASSUME TypeOK, NEW p \in Processes, RecordedAt(p), Planning(p), ~RefuseRead(p)
  PROVE  RecordedAt(p)'
<1>1. CASE PlanWrite(p)
  <2>1. PICK q \in todo[p] :
          Plan(p, q, 0, {Entry("write", q, 0)} \cup
                        IF job[p].class = None THEN {} ELSE {Entry("classify", q, 0)})
    BY <1>1 DEF PlanWrite
  <2>. DEFINE E == {Entry("write", q, 0)} \cup
                   IF job[p].class = None THEN {} ELSE {Entry("classify", q, 0)}
  <2>2. /\ Plan(p, q, 0, E) /\ Entry("write", q, 0) \in E
        /\ job[p].class # None => Entry("classify", q, 0) \in E
    BY <2>1
  <2>3. at[p] = "look" /\ job[p].command \in {"put", "import"}
    BY <1>1 DEF PlanWrite, Is
  <2>. HIDE DEF E
  <2>. QED BY <2>2, <2>3, PlanBacks DEF Is
<1>2. CASE PlanRead(p)
  <2>1. PICK q \in todo[p] : Plan(p, q, Wanted(p, q), {Entry("read", q, Wanted(p, q))})
    BY <1>2 DEF PlanRead
  <2>2. at[p] = "look" /\ job[p].command \in {"get", "export", "dump"}
    BY <1>2 DEF PlanRead, Is
  <2>. QED BY <2>1, <2>2, PlanBacks DEF Is
<1>3. CASE PlanChange(p)
  <2>1. PICK q \in todo[p] :
          Plan(p, q, Wanted(p, q), {Entry(job[p].command, q, Wanted(p, q))})
    BY <1>3 DEF PlanChange
  <2>2. at[p] = "look" /\ job[p].command \in {"delete", "undelete", "destroy"}
    BY <1>3 DEF PlanChange, Is
  <2>. QED BY <2>1, <2>2, PlanBacks DEF Is
<1>4. CASE PlanClassify(p)
  <2>1. PICK q \in todo[p] : Plan(p, q, 0, {Entry("classify", q, 0)})
    BY <1>4 DEF PlanClassify
  <2>2. at[p] = "look" /\ job[p].command = "rotation"
    BY <1>4 DEF PlanClassify, Is
  <2>. QED BY <2>1, <2>2, PlanBacks DEF Is
<1>5. CASE PlanBait(p)
  <2>1. PICK q \in todo[p] : Plan(p, q, 0, {Entry("marked", q, 0)})
    BY <1>5 DEF PlanBait
  <2>2. at[p] = "look" /\ job[p].command = "bait"
    BY <1>5 DEF PlanBait, Is
  <2>. QED BY <2>1, <2>2, PlanBacks DEF Is
<1>6. CASE PlanIssue(p)
  <2>1. Plan(p, None, drawn + 1, {Entry("issue", None, drawn + 1)})
    BY <1>6 DEF PlanIssue
  <2>2. at[p] = "look" /\ job[p].command = "issue"
    BY <1>6 DEF PlanIssue, Is
  <2>. QED BY <2>1, <2>2, PlanBacks DEF Is
<1>7. CASE PlanRevoke(p)
  <2>1. /\ Plan(p, None, job[p].number, {Entry("revoke", None, job[p].number)})
        /\ tokens[job[p].number] # "none"
    BY <1>7 DEF PlanRevoke
  <2>2. at[p] = "look" /\ job[p].command = "revoke"
    BY <1>7 DEF PlanRevoke, Is
  <2>. QED BY <2>1, <2>2, PlanBacks DEF Is
<1>8. CASE PlanRevokeAll(p)
  <2>. DEFINE E == {Entry("revoke", None, t) : t \in Valid}
  <2>1. Plan(p, None, 0, E) /\ E = {Entry("revoke", None, t) : t \in Valid}
    BY <1>8 DEF PlanRevokeAll
  <2>2. at[p] = "look" /\ job[p].command = "revoke-all"
    BY <1>8 DEF PlanRevokeAll, Is
  <2>. HIDE DEF E
  <2>. QED BY <2>1, <2>2, PlanBacks DEF Is
<1>9. CASE PlanRotate(p)
  <2>1. Plan(p, None, seal.id, {Entry("rotate", None, 0)})
    BY <1>9 DEF PlanRotate
  <2>2. at[p] = "look" /\ job[p].command = "rotate-master-key"
    BY <1>9 DEF PlanRotate, Is
  <2>. QED BY <2>1, <2>2, PlanBacks DEF Is
<1>10. CASE PlanInit(p)
  <2>1. Plan(p, None, 0, {Entry("init", None, 0)})
    BY <1>10 DEF PlanInit
  <2>2. at[p] = "look" /\ job[p].command = "init"
    BY <1>10 DEF PlanInit, Is
  <2>. QED BY <2>1, <2>2, PlanBacks DEF Is
<1>. QED BY <1>1, <1>2, <1>3, <1>4, <1>5, <1>6, <1>7, <1>8, <1>9, <1>10 DEF Planning

\* A process keeps to its own record.
LEMMA RecordOwn ==
  ASSUME TypeOK, NEW p \in Processes, RecordedAt(p), Step(p)
  PROVE  RecordedAt(p)'
<1>. /\ at \in [Processes -> Steps] /\ job \in [Processes -> CommandLines \cup {Nothing}]
     /\ planned \in [Processes -> SUBSET Entries] /\ recorded \in [Processes -> SUBSET Entries]
  BY DEF TypeOK, SessionsTyped
<1>1. CASE Begin(p) \/ InitCheck(p) \/ InitRecheck(p) \/ InitWrite(p) \/ Lock(p) \/ Open(p)
  <2>1. recorded' = recorded /\ at[p] \in {"idle", "check", "recheck", "write", "lock", "open"}
    BY <1>1 DEF Begin, InitCheck, InitRecheck, InitWrite, Lock, Open, session
  <2>2. at'[p] \in {"check", "recheck", "write", "lock", "open", "list", "look"}
    BY <1>1 DEF Begin, InitCheck, InitRecheck, InitWrite, Lock, Open, Goto
  <2>. QED BY <2>1, <2>2 DEF RecordedAt
<1>2. CASE List(p)
  <2>1. recorded' = recorded /\ job' = job /\ at[p] = "list" /\ at'[p] \in {"print", "look"}
    BY <1>2 DEF List, Goto
  <2>. QED BY <2>1 DEF RecordedAt, Is
<1>3. CASE Record(p)
  <2>1. PICK e \in planned[p] :
          /\ recorded' = [recorded EXCEPT ![p] = @ \cup {e}]
          /\ planned' = [planned EXCEPT ![p] = @ \ {e}]
          /\ at' = [at EXCEPT ![p] = IF planned[p] = {e} THEN "act" ELSE "record"]
    BY <1>3 DEF Record, Goto
  <2>2. Entered(p)' = Entered(p)
    BY <2>1 DEF Entered
  <2>3. job' = job /\ item' = item /\ noted' = noted /\ tokens' = tokens /\ at[p] = "record"
    BY <1>3 DEF Record, tables
  <2>4. Valid' = Valid
    BY <2>3 DEF Valid
  <2>5. Backed(p)
    BY <2>3 DEF RecordedAt
  <2>6. Backed(p)'
    BY Zenon, <2>2, <2>3, <2>4, <2>5 DEF Backed, Is
  <2>7. at'[p] \in {"record", "act"} /\ (at'[p] = "act" => planned'[p] = {})
    BY <2>1
  <2>. QED BY <2>6, <2>7 DEF RecordedAt
<1>4. CASE Exit(p) \/ Fail(p) \/ Kill(p)
  <2>1. at'[p] = "idle" /\ recorded'[p] = {}
    BY <1>4 DEF Exit, Fail, Kill, End, Forget, Goto
  <2>. QED BY <2>1 DEF RecordedAt
<1>5. CASE Put(p) \/ Gather(p)
  <2>1. /\ job' = job /\ job[p].command \in {"put", "import", "get", "export", "dump"}
        /\ at'[p] \in {"look", "print", "done"}
    BY <1>5 DEF Put, Gather, NextItem, Goto, Acts, Is
  <2>. QED BY <2>1 DEF RecordedAt, Is
<1>6. CASE RefuseRead(p) \/ (Acting(p) /\ ~(Put(p) \/ Gather(p)))
  <2>1. at'[p] = "done"
    BY <1>6 DEF RefuseRead, Acting, Show, Delete, Undelete, Destroy, Change, SetRotation,
                SetHoneypot, IssueToken, RevokeToken, RevokeAll, ReplaceSeal, InitDone, Acted,
                Goto
  <2>. QED BY <2>1 DEF RecordedAt
<1>. QED BY <1>1, <1>2, <1>3, <1>4, <1>5, <1>6, PlanningBacks DEF Step, Opening, Planning

\* A command that acts has the lock, and its entries are on the trail.
LEMMA ActsRecorded ==
  ASSUME LockInv, RecordInv, NEW p \in Processes, at[p] = "act"
  PROVE  lock = p /\ Backed(p) /\ Entered(p) = recorded[p]
<1>1. lock = p
  BY DEF LockInv, Holding, Unsealed
<1>2. Backed(p) /\ planned[p] = {}
  BY DEF RecordInv
<1>. QED BY <1>1, <1>2 DEF Entered

\* A step changes a token, its own or every valid one, with the entry stored.
LEMMA TokensBacked ==
  ASSUME TypeOK, LockInv, RecordInv, NEW p \in Processes, NEW t \in Idents, Step(p)
  PROVE  /\ tokens[t] = "none" /\ tokens'[t] # "none" => Stored("issue", None, t)
         /\ tokens[t] = "valid" /\ tokens'[t] # "valid" => Stored("revoke", None, t)
<1>. tokens \in [Idents -> {"none", "valid", "revoked"}]
  BY DEF TypeOK, TablesTyped
<1>1. CASE IssueToken(p)
  <2>1. at[p] = "act" /\ job[p].command = "issue"
    BY <1>1 DEF IssueToken, Acts, Is
  <2>2. lock = p /\ Entry("issue", None, noted[p]) \in recorded[p]
    BY <2>1, ActsRecorded DEF Backed, Is
  <2>3. tokens'[t] = IF t = noted[p] THEN "valid" ELSE tokens[t]
    BY <1>1 DEF IssueToken
  <2>. QED BY <2>2, <2>3 DEF Stored
<1>2. CASE RevokeToken(p)
  <2>1. at[p] = "act" /\ job[p].command = "revoke"
    BY <1>2 DEF RevokeToken, Acts, Is
  <2>2. lock = p /\ Entry("revoke", None, noted[p]) \in recorded[p] /\ tokens[noted[p]] # "none"
    BY <2>1, ActsRecorded DEF Backed, Is
  <2>3. tokens'[t] = IF t = noted[p] THEN "revoked" ELSE tokens[t]
    BY <1>2 DEF RevokeToken
  <2>. QED BY <2>2, <2>3 DEF Stored
<1>3. CASE RevokeAll(p)
  <2>1. at[p] = "act" /\ job[p].command = "revoke-all"
    BY <1>3 DEF RevokeAll, Acts, Is
  <2>2. lock = p /\ recorded[p] = {Entry("revoke", None, x) : x \in Valid}
    BY <2>1, ActsRecorded DEF Backed, Is
  <2>3. tokens'[t] = IF tokens[t] = "valid" THEN "revoked" ELSE tokens[t]
    BY <1>3 DEF RevokeAll
  <2>4. tokens[t] = "valid" => Entry("revoke", None, t) \in recorded[p]
    BY <2>2 DEF Valid
  <2>. QED BY <2>2, <2>3, <2>4 DEF Stored
<1>. QED BY <1>1, <1>2, <1>3, TableStep

\* A step changes a secret, its class or its bait with the entry stored.
LEMMA SecretsBacked ==
  ASSUME TypeOK, ItemInv, LockInv, RecordInv, NEW p \in Processes, NEW q \in Paths, Step(p)
  PROVE  /\ Len(secrets'[q]) > Len(secrets[q]) => Stored("write", q, 0)
         /\ \A n \in 1..Len(secrets[q]) : RowBacked(q, n, secrets[q][n], secrets'[q][n])
         /\ class'[q] # class[q] => Stored("classify", q, 0)
         /\ bait'[q] # bait[q] => Stored("marked", q, 0)
<1>1. PathAfter(p, q) /\ Len(secrets[q]) \in Nat
  BY RowStep DEF TypeOK, TablesTyped
<1>2. ASSUME Put(p)
      PROVE  /\ Stored("write", item[p], 0)
             /\ job[p].class # None => Stored("classify", item[p], 0)
  <2>1. at[p] = "act" /\ job[p].command \in {"put", "import"}
    BY <1>2 DEF Put, Acts, Is
  <2>. QED BY <2>1, ActsRecorded DEF Backed, Is, Stored
<1>3. ASSUME Len(secrets'[q]) > Len(secrets[q]) PROVE Stored("write", q, 0)
  <2>1. Len(secrets'[q]) # Len(secrets[q])
    BY <1>1, <1>3
  <2>. QED BY <1>1, <1>2, <2>1 DEF PathAfter
<1>4. ASSUME NEW n \in 1..Len(secrets[q])
      PROVE  RowBacked(q, n, secrets[q][n], secrets'[q][n])
  <2>1. RowAfter(p, q, n)
    BY <1>1 DEF PathAfter
  <2>2. ASSUME Delete(p) \/ Undelete(p) \/ Destroy(p)
        PROVE  Stored(job[p].command, item[p], noted[p])
    <3>1. at[p] = "act" /\ job[p].command \in {"delete", "undelete", "destroy"}
      BY <2>2 DEF Delete, Undelete, Destroy, Acts, Is
    <3>. QED BY <3>1, ActsRecorded DEF Backed, Is, Stored
  <2>3. /\ Delete(p) => job[p].command = "delete"
        /\ Undelete(p) => job[p].command = "undelete"
        /\ Destroy(p) => job[p].command = "destroy"
    BY DEF Delete, Undelete, Destroy, Acts, Is
  <2>. QED BY Zenon, <2>1, <2>2, <2>3 DEF RowAfter, RowBacked
<1>5. ASSUME class'[q] # class[q] PROVE Stored("classify", q, 0)
  <2>1. CASE Put(p)
    <3>1. q = item[p] /\ job[p].class # None
      BY <1>5, <2>1 DEF Put, TypeOK, TablesTyped
    <3>. QED BY <1>2, <2>1, <3>1
  <2>2. CASE SetRotation(p)
    <3>1. q = item[p]
      BY <1>5, <2>2 DEF SetRotation, TypeOK, TablesTyped
    <3>2. at[p] = "act" /\ job[p].command = "rotation"
      BY <2>2 DEF SetRotation, Acts, Is
    <3>. QED BY <3>1, <3>2, ActsRecorded DEF Backed, Is, Stored
  <2>. QED BY <1>5, <2>1, <2>2, TableStep
<1>6. ASSUME bait'[q] # bait[q] PROVE Stored("marked", q, 0)
  <2>1. SetHoneypot(p)
    BY <1>6, TableStep
  <2>2. q = item[p]
    BY <1>6, <2>1 DEF SetHoneypot, TypeOK, TablesTyped
  <2>3. at[p] = "act" /\ job[p].command = "bait"
    BY <2>1 DEF SetHoneypot, Acts, Is
  <2>. QED BY <2>2, <2>3, ActsRecorded DEF Backed, Is, Stored
<1>. QED BY <1>3, <1>4, <1>5, <1>6

\* A seal that is there is only ever replaced with the entry stored.
LEMMA SealBacked ==
  ASSUME TypeOK, LockInv, RecordInv, ~raced => KeyInv, NEW p \in Processes, Step(p)
  PROVE  seal # NoSeal /\ seal' # seal /\ ~raced => Stored("rotate", None, 0)
<1>. SUFFICES ASSUME seal # NoSeal, seal' # seal, ~raced PROVE Stored("rotate", None, 0)
  OBVIOUS
<1>1. ReplaceSeal(p)
  BY KeyStays, Moves
<1>2. at[p] = "act" /\ job[p].command = "rotate-master-key"
  BY <1>1 DEF ReplaceSeal, Acts, Is
<1>. QED BY <1>2, ActsRecorded DEF Backed, Is, Stored

\* What every command has recorded and is about to record.
THEOREM RecordInvariant == Spec => [](HostInv /\ (~raced => KeyInv) /\ RecordInv)
<1>1. ASSUME Init PROVE RecordInv
  BY <1>1 DEF Init, RecordInv, Is, Nothing
<1>2. ASSUME HostInv, RecordInv, [Next]_vars PROVE RecordInv'
  <2>1. CASE UNCHANGED vars
    <3>1. UNCHANGED <<at, job, item, noted, planned, recorded, tokens>>
      BY <2>1 DEF vars
    <3>2. Valid' = Valid
      BY <3>1 DEF Valid
    <3>. QED BY <1>2, <3>1, <3>2 DEF RecordInv, Backed, Entered, Is
  <2>2. ASSUME NEW p \in Processes, Step(p) PROVE RecordInv'
    <3>1. \A o \in Processes : RecordedAt(o)
      BY <1>2 DEF RecordInv, RecordedAt
    <3>2. \A o \in Processes : RecordedAt(o)'
      BY <1>2, <2>2, <3>1, RecordOwn, RecordOthers DEF HostInv
    <3>. QED BY <3>2 DEF RecordInv, RecordedAt
  <2>. QED BY <1>2, <2>1, <2>2 DEF Next, Step
<1>. QED BY <1>1, <1>2, KeyInvariant, PTL DEF Spec

\* "`get` and every mutation are audited", before and not after: no interleaving
\* of commands and no kill lets one change what it has not recorded.
THEOREM EveryChangeIsRecorded == Spec => NothingUnrecorded
<1>1. HostInv /\ (~raced => KeyInv) /\ RecordInv /\ [Next]_vars => [StepBacked]_vars
  <2>. SUFFICES ASSUME HostInv, ~raced => KeyInv, RecordInv, Next PROVE StepBacked
    OBVIOUS
  <2>1. PICK p \in Processes : Step(p)
    BY DEF Next, Step
  <2>. QED BY <2>1, SecretsBacked, TokensBacked, SealBacked DEF HostInv, StepBacked
<1>. QED BY <1>1, RecordInvariant, PTL DEF Spec, NothingUnrecorded

\* "The lock makes these agree": what revoke-all is about to revoke is what it
\* has recorded.
THEOREM RevokeAllAgrees == Spec => []RevokesWhatItRecorded
<1>1. LockInv /\ RecordInv => RevokesWhatItRecorded
  <2>. SUFFICES ASSUME LockInv, RecordInv, NEW p \in Processes, Acts(p, {"revoke-all"})
                PROVE  {e.number : e \in recorded[p]} = Valid
    BY DEF RevokesWhatItRecorded
  <2>1. recorded[p] = {Entry("revoke", None, t) : t \in Valid}
    BY ActsRecorded DEF Acts, Backed, Is
  <2>2. \A t : Entry("revoke", None, t).number = t
    BY DEF Entry
  <2>3. ASSUME NEW x \in {e.number : e \in recorded[p]} PROVE x \in Valid
    <3>1. PICK e \in recorded[p] : x = e.number
      BY <2>3
    <3>2. PICK t \in Valid : e = Entry("revoke", None, t)
      BY Zenon, <2>1, <3>1
    <3>. QED BY <2>2, <3>1, <3>2
  <2>4. ASSUME NEW t \in Valid PROVE t \in {e.number : e \in recorded[p]}
    <3>1. Entry("revoke", None, t) \in recorded[p]
      BY Zenon, <2>1
    <3>. QED BY Zenon, <2>2, <3>1
  <2>. QED BY <2>3, <2>4
<1>. QED BY <1>1, RecordInvariant, PTL DEF HostInv

\* What a dump asks for has no version number: it wants the newest.
LEMMA DumpWants ==
  ASSUME TypeOK, NEW p \in Processes, Is(p, {"dump"}), NEW q
  PROVE  Wanted(p, q) = Len(secrets[q])
<1>1. job[p] \in CommandLines
  BY DEF TypeOK, SessionsTyped, Is, Nothing
<1>2. NumberFits(job[p].command, job[p].number) /\ job[p].command = "dump"
  BY <1>1 DEF CommandLines, Is
<1>. QED BY <1>2 DEF NumberFits, Numbered, Wanted

\* What DumpInv says of one process.
DumpedAt(p) ==
  /\ at[p] \in {"idle", "check", "recheck", "write", "lock", "open", "list"} => gathered[p] = {}
  /\ Is(p, {"dump"}) => Dumping(p)

\* Nobody changes a secret under a dump: it has the lock.
LEMMA DumpOthers ==
  ASSUME TypeOK, LockInv, NEW p \in Processes, NEW o \in Processes \ {p}, Step(p),
         DumpedAt(o)
  PROVE  DumpedAt(o)'
<1>1. /\ at'[o] = at[o] /\ job'[o] = job[o] /\ item'[o] = item[o] /\ noted'[o] = noted[o]
      /\ planned'[o] = planned[o] /\ recorded'[o] = recorded[o]
      /\ todo'[o] = todo[o] /\ gathered'[o] = gathered[o] /\ shown'[o] = shown[o]
  BY Frame
<1>2. at[o] \in Holding => secrets' = secrets
  <2>. SUFFICES ASSUME at[o] \in Holding PROVE secrets' = secrets
    OBVIOUS
  <2>1. at[p] # "act"
    BY DEF LockInv, Holding, Unsealed
  <2>. QED BY <2>1, Moves DEF Put, Delete, Undelete, Destroy, Acts
<1>3. ASSUME at[o] \in Holding, Dumping(o) PROVE Dumping(o)'
  <2>1. Existing' = Existing /\ \A P : NewestOf(P)' = NewestOf(P)
    BY <1>2, <1>3 DEF Existing, NewestOf
  <2>2. Entered(o)' = Entered(o) /\ \A X : ReadsRecorded(o, X)' = ReadsRecorded(o, X)
    BY <1>1 DEF Entered, ReadsRecorded
  <2>3. secrets' = secrets
    BY <1>2, <1>3
  <2>. QED BY Zenon, <1>1, <1>3, <2>1, <2>2, <2>3 DEF Dumping
<1>4. at[o] \notin Holding => (Dumping(o)' <=> TRUE)
  BY <1>1 DEF Dumping, Holding, Unsealed
<1>. QED BY <1>1, <1>3, <1>4 DEF DumpedAt, Is

\* A dump reads its secrets one by one, each after its entry.
LEMMA DumpOwn ==
  ASSUME TypeOK, RecordInv, NEW p \in Processes, DumpedAt(p), Step(p)
  PROVE  DumpedAt(p)'
<1>. /\ at \in [Processes -> Steps] /\ job \in [Processes -> CommandLines \cup {Nothing}]
     /\ planned \in [Processes -> SUBSET Entries] /\ recorded \in [Processes -> SUBSET Entries]
     /\ todo \in [Processes -> SUBSET Paths] /\ item \in [Processes -> Paths \cup {None}]
     /\ noted \in [Processes -> Nat]
     /\ gathered \in [Processes -> SUBSET ((Paths \cup {None}) \X Nat)]
     /\ shown \in [Processes -> SUBSET ((Paths \cup {None}) \X Nat)]
  BY DEF TypeOK, SessionsTyped
<1>1. CASE Begin(p) \/ InitCheck(p) \/ InitRecheck(p) \/ InitWrite(p) \/ Lock(p) \/ Open(p)
  <2>1. /\ gathered' = gathered
        /\ at[p] \in {"idle", "check", "recheck", "write", "lock", "open"}
    BY <1>1 DEF Begin, InitCheck, InitRecheck, InitWrite, Lock, Open, session
  <2>2. at'[p] \in {"check", "recheck", "write", "lock", "open", "list"}
          \/ (at'[p] = "look" /\ ~Is(p, {"dump"})')
    BY <1>1 DEF Begin, InitCheck, InitRecheck, InitWrite, Lock, Open, Goto, Is
  <2>. QED BY <2>1, <2>2 DEF DumpedAt, Dumping
<1>2. CASE List(p)
  <2>1. /\ at[p] = "list" /\ todo'[p] = Existing /\ gathered' = gathered /\ secrets' = secrets
        /\ at'[p] = IF Existing = {} THEN "print" ELSE "look"
    BY <1>2 DEF List, Goto, tables
  <2>2. gathered[p] = {}
    BY <2>1 DEF DumpedAt
  <2>3. Existing' = Existing
    BY <2>1 DEF Existing
  <2>4. NewestOf(Existing \ todo[p])' = {}
    BY <2>1, <2>3 DEF NewestOf
  <2>. QED BY <2>1, <2>2, <2>3, <2>4 DEF DumpedAt, Dumping, ReadsRecorded
<1>3. CASE Record(p)
  <2>1. PICK e \in planned[p] :
          /\ recorded' = [recorded EXCEPT ![p] = @ \cup {e}]
          /\ planned' = [planned EXCEPT ![p] = @ \ {e}]
          /\ at' = [at EXCEPT ![p] = IF planned[p] = {e} THEN "act" ELSE "record"]
    BY <1>3 DEF Record, Goto
  <2>2. Entered(p)' = Entered(p) /\ recorded[p] \subseteq recorded'[p]
    BY <2>1 DEF Entered
  <2>3. /\ UNCHANGED <<job, item, noted, todo, gathered, secrets>> /\ at[p] = "record"
        /\ at'[p] \in {"record", "act"}
    BY <1>3, <2>1 DEF Record, tables
  <2>4. Existing' = Existing /\ NewestOf(Existing \ todo[p])' = NewestOf(Existing \ todo[p])
    BY <2>3 DEF Existing, NewestOf
  <2>5. ReadsRecorded(p, gathered[p]) => ReadsRecorded(p, gathered[p])'
    BY <2>2, <2>3 DEF ReadsRecorded
  <2>. QED BY <2>2, <2>3, <2>4, <2>5 DEF DumpedAt, Dumping, Is
<1>4. CASE Exit(p) \/ Fail(p) \/ Kill(p)
  <2>1. at'[p] = "idle" /\ gathered'[p] = {} /\ job'[p].command = "none"
    BY <1>4 DEF Exit, Fail, Kill, End, Forget, Goto, Nothing
  <2>. QED BY <2>1 DEF DumpedAt, Is
<1>5. CASE PlanRead(p)
  <2>1. PICK q \in todo[p] : Plan(p, q, Wanted(p, q), {Entry("read", q, Wanted(p, q))})
    BY <1>5 DEF PlanRead
  <2>2. /\ UNCHANGED <<job, todo, gathered, secrets, recorded>> /\ at[p] = "look"
        /\ at'[p] = "record" /\ item'[p] = q /\ noted'[p] = Wanted(p, q)
        /\ planned'[p] = {Entry("read", q, Wanted(p, q))}
    BY <1>5, <2>1 DEF PlanRead, Plan, Goto, tables
  <2>3. Existing' = Existing /\ NewestOf(Existing \ todo[p])' = NewestOf(Existing \ todo[p])
    BY <2>2 DEF Existing, NewestOf
  <2>4. ReadsRecorded(p, gathered[p])' = ReadsRecorded(p, gathered[p])
    BY <2>2 DEF ReadsRecorded
  <2>5. ASSUME Is(p, {"dump"}) PROVE Dumping(p)'
    <3>1. noted'[p] = Len(secrets'[q])
      BY <2>2, <2>5, DumpWants
    <3>2. Entry("read", item[p], noted[p])' \in Entered(p)'
      BY <2>2 DEF Entered, Entry
    <3>3. Dumping(p)
      BY <2>5 DEF DumpedAt
    <3>. QED BY <2>2, <2>3, <2>4, <3>1, <3>2, <3>3 DEF Dumping
  <2>. QED BY <2>2, <2>5 DEF DumpedAt, Is
<1>6. CASE Gather(p)
  <2>. DEFINE q == item[p]
              v == <<item[p], noted[p]>>
  <2>1. /\ UNCHANGED <<job, secrets, recorded, planned>> /\ at[p] = "act"
        /\ gathered'[p] = gathered[p] \cup {v}
        /\ todo'[p] = todo[p] \ {q}
        /\ at'[p] = IF todo[p] = {q} THEN "print" ELSE "look"
    BY <1>6 DEF Gather, Acts, NextItem, Goto, tables
  <2>2. ASSUME Is(p, {"dump"}) PROVE Dumping(p)'
    <3>1. Dumping(p) /\ planned[p] = {}
      BY <2>1, <2>2 DEF DumpedAt, RecordInv
    <3>2. /\ q \in todo[p] /\ noted[p] = Len(secrets[q]) /\ todo[p] \subseteq Existing
          /\ gathered[p] = NewestOf(Existing \ todo[p]) /\ ReadsRecorded(p, gathered[p])
      BY <2>1, <3>1 DEF Dumping
    <3>3. Entry("read", q, noted[p]) \in recorded[p]
      BY <2>1, <3>1 DEF Dumping, Entered
    <3>4. Existing' = Existing /\ \A P : NewestOf(P)' = NewestOf(P)
      BY <2>1 DEF Existing, NewestOf
    <3>5. NewestOf(Existing \ (todo[p] \ {q})) = NewestOf(Existing \ todo[p]) \cup {v}
      <4>1. Existing \ (todo[p] \ {q}) = (Existing \ todo[p]) \cup {q}
        BY <3>2
      <4>. QED BY <3>2, <4>1 DEF NewestOf
    <3>6. gathered'[p] = NewestOf(Existing \ todo[p])'
      BY <2>1, <3>2, <3>4, <3>5
    <3>7. ReadsRecorded(p, gathered[p])'
      <4>1. v[1] = q /\ v[2] = noted[p]
        OBVIOUS
      <4>2. \A x \in gathered[p] \cup {v} : Entry("read", x[1], x[2]) \in recorded[p]
        BY Zenon, <3>2, <3>3, <4>1 DEF ReadsRecorded
      <4>. QED BY <2>1, <4>2 DEF ReadsRecorded
    <3>8. todo'[p] \subseteq Existing' /\ (at'[p] = "print" => todo'[p] = {})
      BY <2>1, <3>2, <3>4
    <3>9. at'[p] \in {"look", "print"}
      BY <2>1
    <3>. QED BY <3>6, <3>7, <3>8, <3>9 DEF Dumping
  <2>. QED BY <2>1, <2>2 DEF DumpedAt, Is
<1>7. CASE Show(p)
  <2>1. /\ UNCHANGED <<job, secrets, recorded>> /\ at[p] = "print" /\ at'[p] = "done"
        /\ shown'[p] = gathered[p]
    BY <1>7 DEF Show, Goto, tables
  <2>2. ASSUME Is(p, {"dump"}) PROVE Dumping(p)'
    <3>1. /\ gathered[p] = NewestOf(Existing \ todo[p]) /\ todo[p] = {}
          /\ ReadsRecorded(p, gathered[p])
      BY <2>1, <2>2 DEF DumpedAt, Dumping
    <3>2. Existing \ todo[p] = Existing
      BY <3>1
    <3>3. Existing' = Existing /\ NewestOf(Existing)' = NewestOf(Existing)
      BY <2>1 DEF Existing, NewestOf
    <3>4. shown'[p] = NewestOf(Existing)' /\ ReadsRecorded(p, shown[p])'
      BY <2>1, <3>1, <3>2, <3>3 DEF ReadsRecorded
    <3>. QED BY <2>1, <3>4 DEF Dumping
  <2>. QED BY <2>1, <2>2 DEF DumpedAt, Is
<1>8. CASE RefuseRead(p) \/ (Acting(p) /\ ~Gather(p) /\ ~Show(p))
            \/ (Planning(p) /\ ~PlanRead(p))
  <2>1. /\ ~Is(p, {"dump"}) /\ job' = job
        /\ at'[p] \in {"look", "record", "act", "done"}
    <3>1. CASE RefuseRead(p)
      BY <3>1 DEF RefuseRead, Is, Goto
    <3>2. CASE Acting(p) /\ ~Gather(p) /\ ~Show(p)
      <4>1. job' = job /\ job[p].command # "dump"
        BY <3>2 DEF Acting, Put, Delete, Undelete, Destroy, Change, SetRotation, SetHoneypot,
                    IssueToken, RevokeToken, RevokeAll, ReplaceSeal, InitDone, Acted, Acts, Is
      <4>2. at'[p] \in {"look", "done"}
        BY <3>2 DEF Acting, Put, NextItem, Delete, Undelete, Destroy, Change, SetRotation,
                    SetHoneypot, IssueToken, RevokeToken, RevokeAll, ReplaceSeal, InitDone,
                    Acted, Goto
      <4>. QED BY <4>1, <4>2 DEF Is
    <3>3. CASE Planning(p) /\ ~PlanRead(p) /\ ~RefuseRead(p)
      <4>1. job[p].command # "dump"
        BY <3>3 DEF Planning, PlanWrite, PlanChange, PlanClassify, PlanBait, PlanIssue,
                    PlanRevoke, PlanRevokeAll, PlanRotate, PlanInit, Is
      <4>2. \E q, n, E : Plan(p, q, n, E)
        BY <3>3 DEF Planning, PlanWrite, PlanChange, PlanClassify, PlanBait, PlanIssue,
                    PlanRevoke, PlanRevokeAll, PlanRotate, PlanInit
      <4>. QED BY <4>1, <4>2 DEF Plan, Goto, Is
    <3>. QED BY <1>8, <3>1, <3>2, <3>3
  <2>. QED BY <2>1 DEF DumpedAt, Is
<1>. QED BY <1>1, <1>2, <1>3, <1>4, <1>5, <1>6, <1>7, <1>8 DEF Step, Opening

\* A dump that succeeds has printed the newest version of every secret there is,
\* each with its read on the trail, whatever other commands try meanwhile.
THEOREM DumpsAreWhole == Spec => []DumpIsWhole
<1>1. Init => DumpInv
  BY DEF Init, DumpInv, Is, Nothing
<1>2. ASSUME HostInv, RecordInv, DumpInv, [Next]_vars PROVE DumpInv'
  <2>1. CASE UNCHANGED vars
    <3>1. UNCHANGED <<at, job, item, noted, planned, recorded, todo, gathered, shown, secrets>>
      BY <2>1 DEF vars
    <3>2. Existing' = Existing /\ \A P : NewestOf(P)' = NewestOf(P)
      BY <3>1 DEF Existing, NewestOf
    <3>. QED BY <1>2, <3>1, <3>2 DEF DumpInv, Dumping, Entered, ReadsRecorded, Is
  <2>2. ASSUME NEW p \in Processes, Step(p) PROVE DumpInv'
    <3>1. \A o \in Processes : DumpedAt(o)
      BY <1>2 DEF DumpInv, DumpedAt
    <3>2. \A o \in Processes : DumpedAt(o)'
      BY <1>2, <2>2, <3>1, DumpOwn, DumpOthers DEF HostInv
    <3>. QED BY <3>2 DEF DumpInv, DumpedAt
  <2>. QED BY <1>2, <2>1, <2>2 DEF Next, Step
<1>3. DumpInv => DumpIsWhole
  BY DEF DumpInv, DumpIsWhole, Dumping
<1>. QED BY <1>1, <1>2, <1>3, RecordInvariant, PTL DEF Spec
=============================================================================
