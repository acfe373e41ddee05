----------------------------- MODULE HostCommands -----------------------------
(***************************************************************************)
(* The commands of `ciphr` that are run on the host, and what they do to   *)
(* the secrets, the tokens and the seal (crates/ciphr-cli/src/main.rs and  *)
(* session.rs, crates/ciphr-store/src/sqlite.rs, tokens.rs, honeypots.rs,  *)
(* crates/ciphr-crypto/src/seal.rs and envelope.rs).                       *)
(*                                                                         *)
(* Every command but `init` opens a session first: it takes the store lock,*)
(* reads the seal, unwraps the root key and opens the trail. It then looks *)
(* at the store, records what it is about to do, and does it. Those are    *)
(* steps of their own, and a command may be killed between any two.        *)
(*                                                                         *)
(* The lock is what StoreLock!MutualExclusion says it is, and a lock left  *)
(* by a dead process is taken over. The trail is AuditSink's; here a       *)
(* command only knows which of its own entries were stored. Keys and token *)
(* identifiers are random: each is the next number nobody has used.        *)
(***************************************************************************)
EXTENDS Integers, Sequences, FiniteSets

CONSTANTS
  Processes,    \* the processes a command can run in
  Paths,        \* the paths of secrets
  Classes,      \* the rotation classes, "unclassified" among them
  Masters,      \* the master keys the operator has
  Commands,     \* the commands that are run
  None,         \* no path, no class, no process
  MaxVersion,   \* the last version number
  MaxCommands   \* bound: commands started in a behaviour

AllCommands ==
  {"init", "put", "import", "get", "export", "dump", "delete", "undelete", "destroy",
   "rotation", "bait", "issue", "revoke", "revoke-all", "rotate-master-key"}

ASSUME HostAssumption ==
  /\ "unclassified" \in Classes /\ None \notin Classes
  /\ None \notin Paths /\ None \notin Processes /\ "dead" \notin Processes
  /\ Masters \subseteq Nat \ {0}
  /\ Commands \subseteq AllCommands
  /\ MaxVersion \in Nat /\ MaxCommands \in Nat

VARIABLES
  seal,      \* the seal record: its root key, the key's id, the wrapping master
  secrets,   \* per path: secret_versions, oldest first
  class,     \* per path: secrets.rotation
  bait,      \* per path: whether secrets.honeypot_tier is set
  tokens,    \* per token identifier: "none", "valid" or "revoked"
  lock,      \* the holder of the store lock, None, or "dead" for a stale file
  drawn,     \* how many keys and identifiers were ever generated
  raced,     \* history: two inits were past their last check at once
  started,   \* commands started so far
  at,        \* per process: the step it is at
  job,       \* per process: its command line
  master,    \* per process: the master key it was given
  root,      \* per process: Session.root
  todo,      \* per process: the paths it is not done with
  item,      \* per process: the one of them it is at
  noted,     \* per process: the version, token or key it looked up for the item
  planned,   \* per process: the entries to be stored before it acts
  recorded,  \* per process: its entries that were stored
  gathered,  \* per process: the values it has read and not printed
  shown      \* per process: the values it has printed

tables  == <<secrets, class, bait, tokens>>
session == <<master, root, todo, item, noted, planned, recorded, gathered, shown>>
vars    == <<seal, secrets, class, bait, tokens, lock, drawn, raced, started, at, job,
             master, root, todo, item, noted, planned, recorded, gathered, shown>>

Idents == 1..MaxCommands

\* A store that was never initialized has no seal record.
NoSeal == [id |-> 0, key |-> 0, master |-> 0]

-----------------------------------------------------------------------------
(* Encryption. A data key that is wrapped under no root key is a shredded  *)
(* one; path and number are the authenticated data.                        *)

\* encrypt, called by put_with_rotation with the number it has allocated.
Encrypted(key, q, n) ==
  [wrapped |-> key, path |-> q, number |-> n, deleted |-> FALSE, destroyed |-> FALSE]

\* decrypt: the data key unwraps, and the value authenticates where it is stored.
Decrypts(key, q, n) ==
  LET v == secrets[q][n] IN v.wrapped # 0 /\ v.wrapped = key /\ v.path = q /\ v.number = n

Has(q, n) == n \in 1..Len(secrets[q])

\* SqliteStore::get: the version is there, and neither deleted nor destroyed.
Readable(q, n) == Has(q, n) /\ ~secrets[q][n].deleted /\ ~secrets[q][n].destroyed

Existing == {q \in Paths : secrets[q] # <<>>}

-----------------------------------------------------------------------------
(* Command lines.                                                          *)

OnePath  == {"put", "get", "delete", "undelete", "destroy", "rotation", "bait"}
SomePath == {"import", "export"}
Numbered == {"get", "delete", "undelete", "destroy", "bait", "revoke", "rotate-master-key"}
Classing == {"put", "import", "rotation"}

\* The number is a version, a token, a master key or whether a secret becomes
\* bait; 0 is a version that was not given.
NumberFits(c, n) ==
  \/ c \in {"get", "delete"} /\ n \in 0..MaxVersion
  \/ c \in {"undelete", "destroy"} /\ n \in 1..MaxVersion
  \/ c = "bait" /\ n \in {0, 1}
  \/ c = "revoke" /\ n \in Idents
  \/ c = "rotate-master-key" /\ n \in Masters
  \/ c \notin Numbered /\ n = 0

\* What an operator can ask for.
CommandLines ==
  {j \in [command : Commands, paths : SUBSET Paths, class : Classes \cup {None},
          number : {0, 1} \cup 0..MaxVersion \cup Idents \cup Masters] :
     /\ j.command \in OnePath => \E q \in Paths : j.paths = {q}
     /\ j.command \in SomePath => j.paths # {}
     /\ j.command \notin OnePath \cup SomePath => j.paths = {}
     /\ j.command = "rotation" => j.class # None
     /\ j.command \notin Classing => j.class = None
     /\ NumberFits(j.command, j.number)}

Nothing == [command |-> "none", paths |-> {}, class |-> None, number |-> 0]

Entry(a, q, n) == [action |-> a, path |-> q, number |-> n]

Is(p, C) == job[p].command \in C

Goto(p, to) == at' = [at EXCEPT ![p] = to]

\* A command with the master key it was given for opening the store.
Begin(p) ==
  /\ at[p] = "idle"
  /\ started < MaxCommands
  /\ started' = started + 1
  /\ \E j \in CommandLines :
       /\ job' = [job EXCEPT ![p] = j]
       /\ todo' = [todo EXCEPT ![p] = j.paths]
       /\ Goto(p, IF j.command = "init" THEN "check" ELSE "lock")
  /\ \E m \in Masters : master' = [master EXCEPT ![p] = m]
  /\ UNCHANGED <<seal, tables, lock, drawn, raced, root, item, noted, planned, recorded,
                 gathered, shown>>

-----------------------------------------------------------------------------
(* init, which takes no lock until the seal is written.                    *)

\* The first question of init.
InitCheck(p) ==
  /\ at[p] = "check"
  /\ seal = NoSeal
  /\ Goto(p, "recheck")
  /\ UNCHANGED <<seal, tables, lock, drawn, raced, started, job, session>>

\* Mutant of InitRecheck: initialize relies on the check of its caller.
InitNoRecheck(p) ==
  /\ at[p] = "recheck"
  /\ Goto(p, "write")
  /\ UNCHANGED <<seal, tables, lock, drawn, raced, started, job, session>>

\* The second, in SqliteStore::initialize and outside its transaction.
InitRecheck(p) ==
  /\ at[p] = "recheck"
  /\ seal = NoSeal
  /\ Goto(p, "write")
  /\ raced' = (raced \/ \E o \in Processes \ {p} : at[o] = "write")
  /\ UNCHANGED <<seal, tables, lock, drawn, started, job, session>>

\* The transaction: write_seal inserts the record or overwrites the one there is.
InitWrite(p) ==
  /\ at[p] = "write"
  /\ seal' = [id |-> drawn + 1, key |-> drawn + 1, master |-> master[p]]
  /\ drawn' = drawn + 1
  /\ Goto(p, "lock")
  /\ UNCHANGED <<tables, lock, raced, started, job, session>>

-----------------------------------------------------------------------------
(* Session::open and Session::record.                                      *)

\* Mutant of Lock: the command goes on when the store is locked.
LockAnyway(p) ==
  /\ at[p] = "lock"
  /\ lock' = p
  /\ Goto(p, "open")
  /\ UNCHANGED <<seal, tables, drawn, raced, started, job, session>>

\* StoreLock::acquire; a command that finds it taken gives up (Fail).
Lock(p) ==
  /\ at[p] = "lock"
  /\ lock \in {None, "dead"}
  /\ lock' = p
  /\ Goto(p, "open")
  /\ UNCHANGED <<seal, tables, drawn, raced, started, job, session>>

\* Session::open and with_audit: the key it was given has to unwrap the root key.
Open(p) ==
  /\ at[p] = "open"
  /\ seal # NoSeal /\ seal.master = master[p]
  /\ root' = [root EXCEPT ![p] = seal.key]
  /\ Goto(p, IF Is(p, {"dump"}) THEN "list" ELSE "look")
  /\ UNCHANGED <<seal, tables, lock, drawn, raced, started, job, master, todo, item, noted,
                 planned, recorded, gathered, shown>>

\* Mutant of List: a dump passes over what it could not print.
ListReadable(p) ==
  /\ at[p] = "list"
  /\ LET P == {q \in Existing : Readable(q, Len(secrets[q]))} IN
       /\ todo' = [todo EXCEPT ![p] = P]
       /\ Goto(p, IF P = {} THEN "print" ELSE "look")
  /\ UNCHANGED <<seal, tables, lock, drawn, raced, started, job, master, root, item, noted,
                 planned, recorded, gathered, shown>>

\* The paths of a dump: all of them.
List(p) ==
  /\ at[p] = "list"
  /\ todo' = [todo EXCEPT ![p] = Existing]
  /\ Goto(p, IF Existing = {} THEN "print" ELSE "look")
  /\ UNCHANGED <<seal, tables, lock, drawn, raced, started, job, master, root, item, noted,
                 planned, recorded, gathered, shown>>

\* Session::record stores one entry; when none is left the command acts.
Record(p) ==
  /\ at[p] = "record"
  /\ \E e \in planned[p] :
       /\ recorded' = [recorded EXCEPT ![p] = @ \cup {e}]
       /\ planned' = [planned EXCEPT ![p] = @ \ {e}]
       /\ Goto(p, IF planned[p] = {e} THEN "act" ELSE "record")
  /\ UNCHANGED <<seal, tables, lock, drawn, raced, started, job, master, root, todo, item,
                 noted, gathered, shown>>

Forget(p) ==
  /\ job' = [job EXCEPT ![p] = Nothing]
  /\ master' = [master EXCEPT ![p] = 0]
  /\ root' = [root EXCEPT ![p] = 0]
  /\ todo' = [todo EXCEPT ![p] = {}]
  /\ item' = [item EXCEPT ![p] = None]
  /\ noted' = [noted EXCEPT ![p] = 0]
  /\ planned' = [planned EXCEPT ![p] = {}]
  /\ recorded' = [recorded EXCEPT ![p] = {}]
  /\ gathered' = [gathered EXCEPT ![p] = {}]
  /\ shown' = [shown EXCEPT ![p] = {}]

End(p, left) ==
  /\ lock' = (IF lock = p THEN left ELSE lock)
  /\ Goto(p, "idle")
  /\ Forget(p)
  /\ UNCHANGED <<seal, tables, drawn, raced, started>>

\* The command returns, and the session drops its lock.
Exit(p) == at[p] = "done" /\ End(p, None)

\* Any step may return an error instead: a check of the command or of the store
\* does not hold, the database fails, or no device takes the entry.
Fail(p) == at[p] \notin {"idle", "done"} /\ End(p, None)

\* The process is killed, and its lock file stays behind.
Kill(p) == at[p] \notin {"idle", "done"} /\ End(p, "dead")

-----------------------------------------------------------------------------
(* What a command looks up before it records, and what it then plans to    *)
(* record.                                                                 *)

Plan(p, q, n, E) ==
  /\ item' = [item EXCEPT ![p] = q]
  /\ noted' = [noted EXCEPT ![p] = n]
  /\ planned' = [planned EXCEPT ![p] = E]
  /\ Goto(p, IF E = {} THEN "act" ELSE "record")
  /\ UNCHANGED <<seal, tables, lock, raced, started, job, master, root, todo, recorded,
                 gathered, shown>>

\* Mutant of PlanWrite: a class rides along without an entry of its own.
PlanWriteSilently(p) ==
  /\ at[p] = "look" /\ Is(p, {"put", "import"})
  /\ \E q \in todo[p] : Plan(p, q, 0, {Entry("write", q, 0)})
  /\ UNCHANGED drawn

\* put and one item of import: the write, and the classification if there is one.
PlanWrite(p) ==
  /\ at[p] = "look" /\ Is(p, {"put", "import"})
  /\ \E q \in todo[p] :
       Plan(p, q, 0, {Entry("write", q, 0)} \cup
                     IF job[p].class = None THEN {} ELSE {Entry("classify", q, 0)})
  /\ UNCHANGED drawn

Wanted(p, q) == IF job[p].number = 0 THEN Len(secrets[q]) ELSE job[p].number

\* get, and one path of export or dump: the value is read and decrypted first.
PlanRead(p) ==
  /\ at[p] = "look" /\ Is(p, {"get", "export", "dump"})
  /\ \E q \in todo[p] : LET n == Wanted(p, q) IN
       /\ Readable(q, n) /\ Decrypts(root[p], q, n)
       /\ Plan(p, q, n, {Entry("read", q, n)})
  /\ UNCHANGED drawn

\* get of a version that is not there: the refusal is recorded, and reported.
RefuseRead(p) ==
  /\ at[p] = "look" /\ Is(p, {"get"})
  /\ \E q \in todo[p] :
       /\ ~Readable(q, Wanted(p, q))
       /\ recorded' = [recorded EXCEPT ![p] = @ \cup {Entry("not-found", q, 0)}]
  /\ Goto(p, "done")
  /\ UNCHANGED <<seal, tables, lock, drawn, raced, started, job, master, root, todo, item,
                 noted, planned, gathered, shown>>

\* delete, undelete and destroy. Only delete looks up a version it was not given.
PlanChange(p) ==
  /\ at[p] = "look" /\ Is(p, {"delete", "undelete", "destroy"})
  /\ \E q \in todo[p] : LET n == Wanted(p, q) IN
       n # 0 /\ Plan(p, q, n, {Entry(job[p].command, q, n)})
  /\ UNCHANGED drawn

\* rotation: classify records the change of a path that may not exist.
PlanClassify(p) ==
  /\ at[p] = "look" /\ Is(p, {"rotation"})
  /\ \E q \in todo[p] : Plan(p, q, 0, {Entry("classify", q, 0)})
  /\ UNCHANGED drawn

\* honeypot add and remove: bait has to be a secret that exists.
PlanBait(p) ==
  /\ at[p] = "look" /\ Is(p, {"bait"})
  /\ \E q \in todo[p] : q \in Existing /\ Plan(p, q, 0, {Entry("marked", q, 0)})
  /\ UNCHANGED drawn

\* token issue generates the token, so that its entry can name it.
PlanIssue(p) ==
  /\ at[p] = "look" /\ Is(p, {"issue"})
  /\ drawn' = drawn + 1
  /\ Plan(p, None, drawn + 1, {Entry("issue", None, drawn + 1)})

\* token revoke, of a token that exists.
PlanRevoke(p) ==
  /\ at[p] = "look" /\ Is(p, {"revoke"})
  /\ tokens[job[p].number] # "none"
  /\ Plan(p, None, job[p].number, {Entry("revoke", None, job[p].number)})
  /\ UNCHANGED drawn

Valid == {t \in Idents : tokens[t] = "valid"}

\* token revoke-all: an entry for each token that is still valid.
PlanRevokeAll(p) ==
  /\ at[p] = "look" /\ Is(p, {"revoke-all"})
  /\ Plan(p, None, 0, {Entry("revoke", None, t) : t \in Valid})
  /\ UNCHANGED drawn

\* rotate-master-key reads the seal record again for the key's identifier.
PlanRotate(p) ==
  /\ at[p] = "look" /\ Is(p, {"rotate-master-key"})
  /\ seal # NoSeal
  /\ Plan(p, None, seal.id, {Entry("rotate", None, 0)})
  /\ UNCHANGED drawn

\* init has nothing to do but to record itself.
PlanInit(p) ==
  /\ at[p] = "look" /\ Is(p, {"init"})
  /\ Plan(p, None, 0, {Entry("init", None, 0)})
  /\ UNCHANGED drawn

-----------------------------------------------------------------------------
(* What it then does, each in one transaction or one statement.            *)

Acts(p, C) == at[p] = "act" /\ Is(p, C)

Acted(p) ==
  /\ Goto(p, "done")
  /\ UNCHANGED <<lock, drawn, raced, started, job, session>>

\* The item is done with, and the next one is looked at.
NextItem(p, then) ==
  /\ todo' = [todo EXCEPT ![p] = @ \ {item[p]}]
  /\ Goto(p, IF todo[p] = {item[p]} THEN then ELSE "look")

\* SecretVersion::next, which ends at the last number.
HasNext(q) == Len(secrets[q]) < MaxVersion

\* put_with_rotation: the version and its class are one fact.
Put(p) ==
  /\ Acts(p, {"put", "import"})
  /\ LET q == item[p] IN
       /\ HasNext(q)
       /\ secrets' = [secrets EXCEPT ![q] = Append(@, Encrypted(root[p], q, Len(@) + 1))]
       /\ class' = IF job[p].class = None THEN class
                   ELSE [class EXCEPT ![q] = job[p].class]
  /\ NextItem(p, "done")
  /\ UNCHANGED <<seal, bait, tokens, lock, drawn, raced, started, job, master, root, item,
                 noted, planned, recorded, gathered, shown>>

\* The value of one path is kept until all of them have been read.
Gather(p) ==
  /\ Acts(p, {"get", "export", "dump"})
  /\ gathered' = [gathered EXCEPT ![p] = @ \cup {<<item[p], noted[p]>>}]
  /\ NextItem(p, "print")
  /\ UNCHANGED <<seal, tables, lock, drawn, raced, started, job, master, root, item, noted,
                 planned, recorded, shown>>

\* All of them are printed at once.
Show(p) ==
  /\ at[p] = "print"
  /\ shown' = [shown EXCEPT ![p] = gathered[p]]
  /\ Goto(p, "done")
  /\ UNCHANGED <<seal, tables, lock, drawn, raced, started, job, master, root, todo, item,
                 noted, planned, recorded, gathered>>

Row(p) == secrets[item[p]][noted[p]]

Change(p, v) ==
  /\ secrets' = [secrets EXCEPT ![item[p]][noted[p]] = v]
  /\ Acted(p)
  /\ UNCHANGED <<seal, class, bait, tokens>>

\* delete, also of a version that is deleted already.
Delete(p) ==
  /\ Acts(p, {"delete"}) /\ Has(item[p], noted[p])
  /\ Change(p, [Row(p) EXCEPT !.deleted = TRUE])

\* Mutant of Undelete: the row is cleared whatever became of its key.
UndeleteAny(p) ==
  /\ Acts(p, {"undelete"}) /\ Has(item[p], noted[p])
  /\ Change(p, [Row(p) EXCEPT !.deleted = FALSE, !.destroyed = FALSE])

\* undelete, of a version that was not destroyed.
Undelete(p) ==
  /\ Acts(p, {"undelete"}) /\ Has(item[p], noted[p])
  /\ ~Row(p).destroyed
  /\ Change(p, [Row(p) EXCEPT !.deleted = FALSE])

\* destroy empties wrapped_dek.
Destroy(p) ==
  /\ Acts(p, {"destroy"}) /\ Has(item[p], noted[p])
  /\ Change(p, [Row(p) EXCEPT !.wrapped = 0, !.destroyed = TRUE])

\* set_rotation, of a path that exists.
SetRotation(p) ==
  /\ Acts(p, {"rotation"})
  /\ item[p] \in Existing
  /\ class' = [class EXCEPT ![item[p]] = job[p].class]
  /\ Acted(p)
  /\ UNCHANGED <<seal, secrets, bait, tokens>>

\* set_honeypot.
SetHoneypot(p) ==
  /\ Acts(p, {"bait"})
  /\ item[p] \in Existing
  /\ bait' = [bait EXCEPT ![item[p]] = job[p].number = 1]
  /\ Acted(p)
  /\ UNCHANGED <<seal, secrets, class, tokens>>

\* issue_token inserts the row.
IssueToken(p) ==
  /\ Acts(p, {"issue"})
  /\ tokens' = [tokens EXCEPT ![noted[p]] = "valid"]
  /\ Acted(p)
  /\ UNCHANGED <<seal, secrets, class, bait>>

\* revoke_token; a token that is revoked already stays so.
RevokeToken(p) ==
  /\ Acts(p, {"revoke"})
  /\ tokens' = [tokens EXCEPT ![noted[p]] = "revoked"]
  /\ Acted(p)
  /\ UNCHANGED <<seal, secrets, class, bait>>

\* revoke_identity_tokens revokes what is valid by now.
RevokeAll(p) ==
  /\ Acts(p, {"revoke-all"})
  /\ tokens' = [t \in Idents |-> IF tokens[t] = "valid" THEN "revoked" ELSE tokens[t]]
  /\ Acted(p)
  /\ UNCHANGED <<seal, secrets, class, bait>>

\* replace_seal: the same root key, wrapped under the new master key.
ReplaceSeal(p) ==
  /\ Acts(p, {"rotate-master-key"})
  /\ seal # NoSeal /\ seal.id = noted[p]
  /\ seal' = [id |-> noted[p], key |-> root[p], master |-> job[p].number]
  /\ Acted(p)
  /\ UNCHANGED tables

\* The entry of init was its last step.
InitDone(p) ==
  /\ Acts(p, {"init"})
  /\ Acted(p)
  /\ UNCHANGED <<seal, tables>>

-----------------------------------------------------------------------------
Init ==
  /\ seal = NoSeal
  /\ secrets = [q \in Paths |-> <<>>]
  /\ class = [q \in Paths |-> "unclassified"]
  /\ bait = [q \in Paths |-> FALSE]
  /\ tokens = [t \in Idents |-> "none"]
  /\ lock = None /\ drawn = 0 /\ raced = FALSE /\ started = 0
  /\ at = [p \in Processes |-> "idle"]
  /\ job = [p \in Processes |-> Nothing]
  /\ master = [p \in Processes |-> 0]
  /\ root = [p \in Processes |-> 0]
  /\ todo = [p \in Processes |-> {}]
  /\ item = [p \in Processes |-> None]
  /\ noted = [p \in Processes |-> 0]
  /\ planned = [p \in Processes |-> {}]
  /\ recorded = [p \in Processes |-> {}]
  /\ gathered = [p \in Processes |-> {}]
  /\ shown = [p \in Processes |-> {}]

Opening(p) ==
  \/ Begin(p) \/ InitCheck(p) \/ InitRecheck(p) \/ InitWrite(p)
  \/ Lock(p) \/ Open(p) \/ List(p) \/ Record(p) \/ Fail(p) \/ Exit(p) \/ Kill(p)

Planning(p) ==
  \/ PlanWrite(p) \/ PlanRead(p) \/ RefuseRead(p) \/ PlanChange(p)
  \/ PlanClassify(p) \/ PlanBait(p) \/ PlanIssue(p) \/ PlanRevoke(p) \/ PlanRevokeAll(p)
  \/ PlanRotate(p) \/ PlanInit(p)

Acting(p) ==
  \/ Put(p) \/ Gather(p) \/ Show(p) \/ Delete(p) \/ Undelete(p) \/ Destroy(p)
  \/ SetRotation(p) \/ SetHoneypot(p) \/ IssueToken(p) \/ RevokeToken(p) \/ RevokeAll(p)
  \/ ReplaceSeal(p) \/ InitDone(p)

Next == \E p \in Processes : Opening(p) \/ Planning(p) \/ Acting(p)

Spec == Init /\ [][Next]_vars

-----------------------------------------------------------------------------
(* Properties.                                                             *)

Steps ==
  {"idle", "check", "recheck", "write", "lock", "open", "list", "look", "record", "act",
   "print", "done"}

Versions ==
  [wrapped : Nat, path : Paths, number : Nat, deleted : BOOLEAN, destroyed : BOOLEAN]

Actions ==
  {"init", "write", "classify", "read", "delete", "undelete", "destroy", "marked", "issue",
   "revoke", "rotate", "not-found"}

Entries == [action : Actions, path : Paths \cup {None}, number : Nat]

TablesTyped ==
  /\ seal \in [id : Nat, key : Nat, master : Nat]
  /\ secrets \in [Paths -> Seq(Versions)]
  /\ class \in [Paths -> Classes]
  /\ bait \in [Paths -> BOOLEAN]
  /\ tokens \in [Idents -> {"none", "valid", "revoked"}]
  /\ lock \in Processes \cup {None, "dead"}
  /\ drawn \in Nat /\ raced \in BOOLEAN /\ started \in 0..MaxCommands

SessionsTyped ==
  /\ at \in [Processes -> Steps]
  /\ job \in [Processes -> CommandLines \cup {Nothing}]
  /\ master \in [Processes -> Nat] /\ root \in [Processes -> Nat]
  /\ todo \in [Processes -> SUBSET Paths]
  /\ item \in [Processes -> Paths \cup {None}]
  /\ noted \in [Processes -> Nat]
  /\ planned \in [Processes -> SUBSET Entries]
  /\ recorded \in [Processes -> SUBSET Entries]
  /\ gathered \in [Processes -> SUBSET ((Paths \cup {None}) \X Nat)]
  /\ shown \in [Processes -> SUBSET ((Paths \cup {None}) \X Nat)]

\* The type of the state; no path has more versions than there are numbers.
TypeOK ==
  /\ TablesTyped
  /\ SessionsTyped
  /\ \A q \in Paths : Len(secrets[q]) <= MaxVersion

\* "Overwriting it would orphan every secret in the database": what is stored
\* and not destroyed can be decrypted with the root key that is sealed, at the
\* path and under the number it is stored under.
NothingOrphaned ==
  \A q \in Paths : \A n \in 1..Len(secrets[q]) :
    ~secrets[q][n].destroyed => Decrypts(seal.key, q, n)

\* The same, over any sequence of inits, writes, deletions, rotations of the
\* master key and killed commands in which no two inits overlap.
SecretsReadable == ~raced => NothingOrphaned

\* "Destruction is not reversible": a destroyed version stays destroyed and its
\* data key never comes back, whatever is undeleted, written or rotated.
ShredIsFinal ==
  [][\A q \in Paths : \A n \in 1..Len(secrets[q]) :
       secrets[q][n].destroyed =>
         secrets'[q][n].destroyed /\ secrets'[q][n].wrapped = 0]_vars

Stored(a, q, n) == lock \in Processes /\ Entry(a, q, n) \in recorded[lock]

RowBacked(q, n, old, new) ==
  /\ old.destroyed # new.destroyed => Stored("destroy", q, n)
  /\ ~old.deleted /\ new.deleted => Stored("delete", q, n)
  /\ old.deleted /\ ~new.deleted => Stored("undelete", q, n)

StepBacked ==
  /\ \A q \in Paths :
       /\ Len(secrets'[q]) > Len(secrets[q]) => Stored("write", q, 0)
       /\ \A n \in 1..Len(secrets[q]) : RowBacked(q, n, secrets[q][n], secrets'[q][n])
       /\ class'[q] # class[q] => Stored("classify", q, 0)
       /\ bait'[q] # bait[q] => Stored("marked", q, 0)
  /\ \A t \in Idents :
       /\ tokens[t] = "none" /\ tokens'[t] # "none" => Stored("issue", None, t)
       /\ tokens[t] = "valid" /\ tokens'[t] # "valid" => Stored("revoke", None, t)
  /\ seal # NoSeal /\ seal' # seal /\ ~raced => Stored("rotate", None, 0)

\* "`get` and every mutation are audited", before and not after: whatever a
\* command changes, it holds the lock and its entry for that very version, class,
\* token or key is on the trail already.
NothingUnrecorded == [][StepBacked]_vars

\* "The lock makes these agree": the tokens that revoke-all is about to revoke
\* are the tokens it has recorded as revoked.
RevokesWhatItRecorded ==
  \A p \in Processes :
    Acts(p, {"revoke-all"}) =>
      {e.number : e \in recorded[p]} = Valid

\* The newest version of each of some paths, and whether all of what was read is
\* on the trail.
NewestOf(P) == {<<q, Len(secrets[q])>> : q \in P}

ReadsRecorded(p, X) == \A x \in X : Entry("read", x[1], x[2]) \in recorded[p]

\* A dump that succeeds has printed the newest version of every secret that the
\* store holds, and the trail has a read of each.
DumpIsWhole ==
  \A p \in Processes :
    at[p] = "done" /\ Is(p, {"dump"}) =>
      shown[p] = NewestOf(Existing) /\ ReadsRecorded(p, shown[p])

-----------------------------------------------------------------------------
(* The inductive invariants behind the theorems of HostCommandsProofs.      *)

\* A command that is about a path has it before it acts.
ItemInv ==
  \A p \in Processes :
    at[p] \in {"record", "act"} /\ Is(p, OnePath \cup SomePath \cup {"dump"}) =>
      item[p] \in Paths

Unsealed == {"list", "look", "record", "act", "print"}
Holding  == Unsealed \cup {"open", "done"}

\* Whoever is past the lock has it; an open session means that there is a seal,
\* and a store without one is empty.
LockInv ==
  /\ \A p \in Processes : at[p] \in Holding => lock = p
  /\ \A p \in Processes : at[p] \in Unsealed => seal # NoSeal
  /\ seal = NoSeal => \A q \in Paths : secrets[q] = <<>>
  /\ seal.id = 0 => seal = NoSeal

\* A destroyed version has no data key.
ShredInv ==
  \A q \in Paths : \A n \in 1..Len(secrets[q]) :
    secrets[q][n].destroyed => secrets[q][n].wrapped = 0

\* Unless inits raced: one init at most is about to write, and only where there
\* is no seal; a session's root key is the sealed one, and every version is
\* encrypted with it where it is stored.
KeyInv ==
  /\ \A p \in Processes : at[p] = "write" => seal = NoSeal
  /\ \A p, o \in Processes : at[p] = "write" /\ at[o] = "write" => p = o
  /\ \A p \in Processes : at[p] \in Unsealed => root[p] = seal.key
  /\ seal # NoSeal => seal.key # 0
  /\ NothingOrphaned

Entered(p) == planned[p] \cup recorded[p]

\* What a command is about to do is planned or recorded; revoke-all has planned
\* or recorded the tokens that are valid, and nothing else.
Backed(p) ==
  /\ Is(p, {"put", "import"}) =>
       /\ Entry("write", item[p], 0) \in Entered(p)
       /\ job[p].class # None => Entry("classify", item[p], 0) \in Entered(p)
  /\ Is(p, {"delete", "undelete", "destroy"}) =>
       Entry(job[p].command, item[p], noted[p]) \in Entered(p)
  /\ Is(p, {"rotation"}) => Entry("classify", item[p], 0) \in Entered(p)
  /\ Is(p, {"bait"}) => Entry("marked", item[p], 0) \in Entered(p)
  /\ Is(p, {"issue"}) => Entry("issue", None, noted[p]) \in Entered(p)
  /\ Is(p, {"revoke"}) =>
       Entry("revoke", None, noted[p]) \in Entered(p) /\ tokens[noted[p]] # "none"
  /\ Is(p, {"revoke-all"}) => Entered(p) = {Entry("revoke", None, t) : t \in Valid}
  /\ Is(p, {"rotate-master-key"}) => Entry("rotate", None, 0) \in Entered(p)

\* Nothing is left of the plan when a command acts, and a command that has not
\* planned anything has recorded nothing, but for the one that goes from path to
\* path.
RecordInv ==
  \A p \in Processes :
    /\ at[p] \in {"record", "act"} => Backed(p)
    /\ at[p] = "act" => planned[p] = {}
    /\ at[p] \in {"idle", "check", "recheck", "write", "lock", "open"} => recorded[p] = {}
    /\ Is(p, {"revoke-all"}) /\ at[p] \in {"list", "look"} => recorded[p] = {}

\* A dump has gathered the newest version of each secret it is done with, and
\* has its read on the trail; the one it is at comes next.
Dumping(p) ==
  /\ at[p] \in {"look", "record", "act", "print"} =>
       /\ todo[p] \subseteq Existing
       /\ gathered[p] = NewestOf(Existing \ todo[p])
       /\ ReadsRecorded(p, gathered[p])
  /\ at[p] \in {"record", "act"} =>
       /\ item[p] \in todo[p] /\ noted[p] = Len(secrets[item[p]])
       /\ Entry("read", item[p], noted[p]) \in Entered(p)
  /\ at[p] = "print" => todo[p] = {}
  /\ at[p] = "done" => shown[p] = NewestOf(Existing) /\ ReadsRecorded(p, shown[p])

DumpInv ==
  \A p \in Processes :
    /\ at[p] \in {"idle", "check", "recheck", "write", "lock", "open", "list"} => gathered[p] = {}
    /\ Is(p, {"dump"}) => Dumping(p)
=============================================================================
