-------------------------- MODULE DeploymentProofs --------------------------
(***************************************************************************)
(* Proofs about Deployment, for any files, binaries, hosts, tokens and     *)
(* bounds: the verdicts of the loaders carried through the interleavings   *)
(* of a start, a check, logins and an operator; what a loaded policy       *)
(* decides against the documented order of its rules; and the types.       *)
(***************************************************************************)
EXTENDS Deployment, FiniteSetTheorems, WellFoundedInduction, TLAPS

ConfigFields == {"syntax", "audit", "surface", "oidc", "seal"}
HostFields   == {"exists", "schema", "seal", "master", "dir", "file", "tls", "hole"}
ProcFields   == {"at", "config", "file", "build", "why"}

\* The records have their fields.
ProcShape == DOMAIN proc = Procs /\ \A x \in Procs : DOMAIN proc[x] = ProcFields

HostShape == DOMAIN host = HostFields /\ host.schema \in Nat

DiskShape ==
  /\ DOMAIN disk = {"config", "policies"} /\ DOMAIN disk.config = ConfigFields
  /\ AreStanzas(disk.config.oidc)

ReportShape == DOMAIN report = {"exit", "current", "unreachable"} /\ edits \in Nat

TrailShape == \E S : trail \in Seq(S)

Shape ==
  ProcShape /\ HostShape /\ DiskShape /\ ReportShape /\ TrailShape /\ build \in Builds

\* A process that got past a loader holds what the loader accepted.
Loaded ==
  \A x \in Procs :
    /\ proc[x].at # "idle" =>
         /\ ConfigProblem(proc[x].config) = Fine /\ AreStanzas(proc[x].config.oidc)
         /\ proc[x].build \in Builds
    /\ proc[x].at \notin {"idle", "loaded"} =>
         FilesProblem(proc[x].build, proc[x].config, proc[x].file) = Fine

\* What a step may do to a process.
Ended(x)  == \E why : proc'[x] = Idle(why)
Read1(x)  == /\ proc[x].at = "idle" /\ ConfigProblem(disk.config) = Fine
             /\ proc'[x].at = "loaded" /\ proc'[x].config = disk.config /\ proc'[x].build = build
Read2(x)  == /\ proc[x].at = "loaded"
             /\ FilesProblem(proc[x].build, proc[x].config, disk.policies) = Fine
             /\ proc'[x].at = "files" /\ proc'[x].file = disk.policies
             /\ proc'[x].config = proc[x].config /\ proc'[x].build = proc[x].build
Further(x) == /\ proc[x].at \notin {"idle", "loaded"} /\ proc'[x].at \notin {"idle", "loaded"}
              /\ proc'[x].file = proc[x].file
              /\ proc'[x].config = proc[x].config /\ proc'[x].build = proc[x].build

Moves(x) == proc'[x] = proc[x] \/ Ended(x) \/ Read1(x) \/ Read2(x) \/ Further(x)

\* A set of numbers has a least one.
LEMMA LeastHas ==
  ASSUME NEW S \in SUBSET Nat, S # {}
  PROVE  \E i \in S : \A j \in S : i <= j
<1>1. PICK i \in S : \A j \in S : ~(<<j, i>> \in OpToRel(<, Nat))
  BY NatLessThanWellFounded, WFMin
<1>2. ASSUME NEW j \in S PROVE i <= j
  <2>1. <<j, i>> \in Nat \X Nat /\ ~(<<j, i>> \in OpToRel(<, Nat))
    BY <1>1
  <2>2. ~(<<j, i>>[1] < <<j, i>>[2])
    BY <2>1 DEF OpToRel
  <2>. QED BY <2>2
<1>. QED BY <1>2

LEMMA LeastOf ==
  ASSUME NEW S \in SUBSET Nat, S # {}
  PROVE  (CHOOSE i \in S : \A j \in S : i <= j) \in S
BY LeastHas

LEMMA IdleAt == \A why : Idle(why).at = "idle" /\ Idle(why).why = why
BY DEF Idle

\* A process that ends.
LEMMA ExitMoves ==
  ASSUME ProcShape, NEW x \in Procs, NEW why, Exit(x, why)
  PROVE  /\ ProcShape' /\ proc'[x] = Idle(why)
         /\ \A y \in Procs \ {x} : proc'[y] = proc[y]
         /\ \A y \in Procs : Moves(y)
<1>1. /\ DOMAIN proc' = Procs /\ proc'[x] = Idle(why)
      /\ \A y \in Procs \ {x} : proc'[y] = proc[y]
  BY DEF Exit, ProcShape
<1>2. DOMAIN Idle(why) = ProcFields
  BY DEF Idle, ProcFields
<1>3. ProcShape'
  BY <1>1, <1>2 DEF ProcShape
<1>4. \A y \in Procs : Moves(y)
  BY <1>1 DEF Moves, Ended
<1>. QED BY <1>1, <1>3, <1>4

\* A server that goes on.
LEMMA GoesMoves ==
  ASSUME ProcShape, NEW x \in Procs, NEW at, Goes(x, at),
         proc[x].at \notin {"idle", "loaded"}, at \notin {"idle", "loaded"}
  PROVE  /\ ProcShape' /\ proc'[x].at = at /\ proc'[x].why = proc[x].why
         /\ Further(x)
         /\ \A y \in Procs \ {x} : proc'[y] = proc[y]
         /\ \A y \in Procs : Moves(y)
<1>1. /\ DOMAIN proc' = Procs /\ proc'[x] = [proc[x] EXCEPT !.at = at]
      /\ \A y \in Procs \ {x} : proc'[y] = proc[y]
  BY DEF Goes, ProcShape
<1>2. /\ DOMAIN proc'[x] = ProcFields /\ proc'[x].at = at /\ proc'[x].why = proc[x].why
      /\ proc'[x].file = proc[x].file
      /\ proc'[x].config = proc[x].config /\ proc'[x].build = proc[x].build
  BY <1>1 DEF ProcShape, ProcFields
<1>3. ProcShape'
  BY <1>1, <1>2 DEF ProcShape
<1>4. Further(x)
  BY <1>2 DEF Further
<1>5. \A y \in Procs : Moves(y)
  BY <1>1, <1>4 DEF Moves
<1>. QED BY <1>1, <1>2, <1>3, <1>4, <1>5

\* The configuration is read.
LEMMA LoadMoves ==
  ASSUME Shape, NEW x \in Procs, Load(x)
  PROVE  /\ ProcShape' /\ \A y \in Procs : Moves(y)
         /\ \A y \in Procs \ {x} : proc'[y] = proc[y]
         /\ \/ ConfigProblem(disk.config) = Fine /\ proc'[x].why = "running" /\ UNCHANGED report
            \/ ConfigProblem(disk.config) # Fine /\ proc'[x].why = "config" /\ Reports(x, 1, TRUE)
<1>0. ProcShape
  BY DEF Shape
<1>1. CASE ConfigProblem(disk.config) = Fine
  <2>1. proc' = [proc EXCEPT ![x].at = "loaded", ![x].config = disk.config,
                             ![x].build = build, ![x].why = "running"] /\ UNCHANGED report
    BY <1>1 DEF Load
  <2>2. /\ DOMAIN proc' = Procs /\ DOMAIN proc'[x] = ProcFields
        /\ \A y \in Procs \ {x} : proc'[y] = proc[y]
        /\ proc'[x].at = "loaded" /\ proc'[x].config = disk.config /\ proc'[x].build = build
        /\ proc'[x].why = "running"
    BY <1>0, <2>1 DEF ProcShape, ProcFields
  <2>3. Read1(x)
    BY <1>1, <2>2 DEF Read1, Load
  <2>4. ProcShape'
    BY <1>0, <2>2 DEF ProcShape
  <2>5. \A y \in Procs : Moves(y)
    BY <2>2, <2>3 DEF Moves
  <2>. QED BY <1>1, <2>1, <2>2, <2>4, <2>5
<1>2. CASE ConfigProblem(disk.config) # Fine
  <2>1. Exit(x, "config") /\ Reports(x, 1, TRUE)
    BY <1>2 DEF Load
  <2>2. Idle("config").why = "config"
    BY DEF Idle
  <2>. QED BY <1>0, <1>2, <2>1, <2>2, ExitMoves
<1>. QED BY <1>1, <1>2

\* The policy file is read.
LEMMA FromFilesMoves ==
  ASSUME Shape, NEW x \in Procs, FromFiles(x)
  PROVE  /\ ProcShape' /\ \A y \in Procs : Moves(y)
         /\ \A y \in Procs \ {x} : proc'[y] = proc[y]
         /\ \/ /\ FilesProblem(proc[x].build, proc[x].config, disk.policies) = Fine
               /\ proc'[x].why = proc[x].why /\ UNCHANGED report
            \/ /\ FilesProblem(proc[x].build, proc[x].config, disk.policies) # Fine
               /\ proc'[x].why = "files" /\ Reports(x, 1, Fresh(x))
<1>0. ProcShape
  BY DEF Shape
<1>1. CASE FilesProblem(proc[x].build, proc[x].config, disk.policies) = Fine
  <2>1. proc' = [proc EXCEPT ![x].at = "files", ![x].file = disk.policies] /\ UNCHANGED report
    BY <1>1 DEF FromFiles
  <2>2. /\ DOMAIN proc' = Procs /\ DOMAIN proc'[x] = ProcFields
        /\ \A y \in Procs \ {x} : proc'[y] = proc[y]
        /\ proc'[x].at = "files" /\ proc'[x].file = disk.policies
        /\ proc'[x].config = proc[x].config /\ proc'[x].build = proc[x].build
        /\ proc'[x].why = proc[x].why
    BY <1>0, <2>1 DEF ProcShape, ProcFields
  <2>3. Read2(x)
    BY <1>1, <2>2 DEF Read2, FromFiles
  <2>4. ProcShape'
    BY <1>0, <2>2 DEF ProcShape
  <2>5. \A y \in Procs : Moves(y)
    BY <2>2, <2>3 DEF Moves
  <2>. QED BY <1>1, <2>1, <2>2, <2>4, <2>5
<1>2. CASE FilesProblem(proc[x].build, proc[x].config, disk.policies) # Fine
  <2>1. Exit(x, "files") /\ Reports(x, 1, Fresh(x))
    BY <1>2 DEF FromFiles
  <2>2. Idle("files").why = "files"
    BY DEF Idle
  <2>. QED BY <1>0, <1>2, <2>1, <2>2, ExitMoves
<1>. QED BY <1>1, <1>2

\* The rest of a start: every step ends the server or takes it further.
LEMMA StartMoves ==
  ASSUME ProcShape, Start
  PROVE  /\ ProcShape' /\ \A y \in Procs : Moves(y)
         /\ proc'["check"] = proc["check"]
<1>0. "server" \in Procs /\ "check" \in Procs \ {"server"}
  BY DEF Procs
<1>1. ASSUME \E why : Exit("server", why)
      PROVE  ProcShape' /\ (\A y \in Procs : Moves(y)) /\ proc'["check"] = proc["check"]
  BY <1>0, <1>1, ExitMoves
<1>2. ASSUME proc["server"].at \notin {"idle", "loaded"},
             \E at : Goes("server", at) /\ at \notin {"idle", "loaded"}
      PROVE  ProcShape' /\ (\A y \in Procs : Moves(y)) /\ proc'["check"] = proc["check"]
  BY <1>0, <1>2, GoesMoves
<1>3. CASE OpenStore
  BY <1>1, <1>2, <1>3 DEF OpenStore
<1>4. CASE Migrate
  BY <1>0, <1>4 DEF Migrate, ProcShape, Moves
<1>5. CASE MigrationFails \/ NotRecorded \/ Stop
  BY <1>1, <1>5 DEF MigrationFails, NotRecorded, Stop
<1>6. CASE Unseal
  BY <1>1, <1>2, <1>6 DEF Unseal
<1>7. CASE RecordSurface \/ RecordQuarantined \/ NothingQuarantined
  BY <1>2, <1>7 DEF RecordSurface, RecordQuarantined, NothingQuarantined
<1>8. CASE Serve
  BY <1>1, <1>2, <1>8 DEF Serve
<1>. QED BY <1>3, <1>4, <1>5, <1>6, <1>7, <1>8 DEF Start

\* Nobody else moves a process.
LEMMA OthersMove ==
  ASSUME ProcShape, UNCHANGED proc
  PROVE  ProcShape' /\ \A y \in Procs : Moves(y)
BY DEF ProcShape, Moves

\* The operator leaves the processes alone.
LEMMA OperatorStays == Operator => UNCHANGED <<proc, trail, tokens>>
BY DEF Operator, EditConfig, EditPolicies, AddRule, Install, Repair

\* A login leaves everything but the trail and the tokens alone.
LEMMA LoginStays ==
  ASSUME NEW token, NEW asked, NEW now, Login(token, asked, now) \/ MintFails(token, now)
  PROVE  UNCHANGED <<disk, build, host, proc, report, edits>>
BY DEF Login, MintFails

\* Every step moves each process in one of these ways.
LEMMA NextMoves ==
  ASSUME Shape, [Next]_vars
  PROVE  ProcShape' /\ \A y \in Procs : Moves(y)
<1>0. ProcShape
  BY DEF Shape
<1>1. CASE \E x \in Procs : Load(x) \/ FromFiles(x)
  BY <1>1, LoadMoves, FromFilesMoves
<1>2. CASE Start
  BY <1>0, <1>2, StartMoves
<1>3. CASE StoreState
  <2>1. "check" \in Procs /\ Exit("check", "done")
    BY <1>3 DEF StoreState, Procs
  <2>. QED BY <1>0, <2>1, ExitMoves
<1>4. CASE \E token \in IdTokens, asked \in Asked, now \in 0..MaxClock : Login(token, asked, now)
  BY <1>0, <1>4, LoginStays, OthersMove
<1>5. CASE \E token \in IdTokens, now \in 0..MaxClock : MintFails(token, now)
  BY <1>0, <1>5, LoginStays, OthersMove
<1>6. CASE Operator
  BY <1>0, <1>6, OperatorStays, OthersMove
<1>7. CASE UNCHANGED vars
  BY <1>0, <1>7, OthersMove DEF vars
<1>. QED BY <1>1, <1>2, <1>3, <1>4, <1>5, <1>6, <1>7 DEF Next

\* What changes the host.
LEMMA HostMoves ==
  ASSUME [Next]_vars
  PROVE  UNCHANGED host \/ OpenStore \/ Migrate \/ Unseal \/ StoreState \/ \E h \in Hosts : Repair(h)
<1>1. CASE \E x \in Procs : Load(x) \/ FromFiles(x)
  BY <1>1 DEF Load, FromFiles
<1>2. CASE Start
  BY <1>2 DEF Start, MigrationFails, RecordSurface, RecordQuarantined, NothingQuarantined,
              NotRecorded, Serve, Stop
<1>3. CASE Operator
  BY <1>3 DEF Operator, EditConfig, EditPolicies, AddRule, Install
<1>4. CASE UNCHANGED vars
  BY <1>4 DEF vars
<1>. QED BY <1>1, <1>2, <1>3, <1>4, LoginStays DEF Next

LEMMA HostStep ==
  ASSUME Shape, [Next]_vars
  PROVE  HostShape'
<1>0. HostShape
  BY DEF Shape
<1>1. CASE OpenStore \/ Migrate \/ Unseal \/ StoreState
  BY <1>0, <1>1 DEF HostShape, HostFields, OpenStore, Migrate, Unseal, StoreState
<1>2. CASE \E h \in Hosts : Repair(h)
  BY <1>2, FilesAssumption DEF HostShape, HostFields, Repair
<1>3. CASE UNCHANGED host
  BY <1>0, <1>3 DEF HostShape
<1>. QED BY <1>1, <1>2, <1>3, HostMoves

\* Only the operator edits the files.
LEMMA DiskMoves ==
  ASSUME [Next]_vars
  PROVE  UNCHANGED disk \/ EditConfig \/ EditPolicies \/ \E p \in 1..2, r \in RawRules : AddRule(p, r)
<1>1. CASE \E x \in Procs : Load(x) \/ FromFiles(x)
  BY <1>1 DEF Load, FromFiles
<1>2. CASE Start \/ StoreState
  BY <1>2 DEF Start, OpenStore, Migrate, Unseal, MigrationFails, RecordSurface,
              RecordQuarantined, NothingQuarantined, NotRecorded, Serve, Stop, StoreState
<1>3. CASE Operator
  BY <1>3 DEF Operator, Repair, Install
<1>4. CASE UNCHANGED vars
  BY <1>4 DEF vars
<1>. QED BY <1>1, <1>2, <1>3, <1>4, LoginStays DEF Next

LEMMA DiskStep ==
  ASSUME Shape, [Next]_vars
  PROVE  DiskShape'
<1>0. DiskShape
  BY DEF Shape
<1>1. CASE EditConfig
  <2>1. CASE \E o \in Oidcs : disk' = [disk EXCEPT !.config.oidc = o]
    <3>1. PICK o \in Oidcs : disk' = [disk EXCEPT !.config.oidc = o]
      BY <2>1
    <3>2. /\ DOMAIN disk' = {"config", "policies"} /\ DOMAIN disk'.config = ConfigFields
          /\ disk'.config.oidc = o
      BY <1>0, <3>1 DEF DiskShape, ConfigFields
    <3>. QED BY <3>2, FilesAssumption DEF DiskShape
  <2>2. CASE \/ \E a \in Audits : disk' = [disk EXCEPT !.config.audit = a]
             \/ \E t \in Surfaces : disk' = [disk EXCEPT !.config.surface = t]
             \/ \E k \in {"static_env", "static_file"} : disk' = [disk EXCEPT !.config.seal = k]
    <3>1. /\ DOMAIN disk' = {"config", "policies"} /\ DOMAIN disk'.config = ConfigFields
          /\ disk'.config.oidc = disk.config.oidc
      BY <1>0, <2>2 DEF DiskShape, ConfigFields
    <3>. QED BY <1>0, <3>1 DEF DiskShape
  <2>. QED BY <1>1, <2>1, <2>2 DEF EditConfig
<1>2. CASE EditPolicies \/ \E p \in 1..2, r \in RawRules : AddRule(p, r)
  <2>1. DOMAIN disk' = {"config", "policies"} /\ disk'.config = disk.config
    BY <1>0, <1>2 DEF DiskShape, EditPolicies, AddRule
  <2>. QED BY <1>0, <2>1 DEF DiskShape
<1>3. CASE UNCHANGED disk
  BY <1>0, <1>3 DEF DiskShape
<1>. QED BY <1>1, <1>2, <1>3, DiskMoves

LEMMA ReportStep ==
  ASSUME Shape, [Next]_vars
  PROVE  ReportShape'
<1>0. ReportShape
  BY DEF Shape
<1>1. CASE \E x \in Procs : Load(x) \/ FromFiles(x)
  BY <1>0, <1>1 DEF ReportShape, Load, FromFiles, Reports
<1>2. CASE Migrate
  BY <1>0, <1>2 DEF ReportShape, Migrate
<1>3. CASE StoreState
  BY <1>0, <1>3 DEF ReportShape, StoreState, Checked
<1>4. CASE Operator
  <2>1. Edit
    BY <1>4 DEF Operator, EditConfig, EditPolicies, AddRule, Install, Repair
  <2>. QED BY <1>0, <2>1 DEF ReportShape, Edit
<1>5. CASE UNCHANGED <<report, edits>>
  BY <1>0, <1>5 DEF ReportShape
<1>6. CASE Start /\ ~Migrate
  BY <1>5, <1>6 DEF Start, OpenStore, Unseal, MigrationFails, RecordSurface,
                RecordQuarantined, NothingQuarantined, NotRecorded, Serve, Stop
<1>7. CASE UNCHANGED vars
  BY <1>5, <1>7 DEF vars
<1>. QED BY <1>1, <1>2, <1>3, <1>4, <1>5, <1>6, <1>7, LoginStays DEF Next

\* What a step adds to the trail.
Adds == \/ UNCHANGED trail
        \/ \E e : trail' = Append(trail, e)
        \/ \E e, f : trail' = trail \o <<e, f>>

LEMMA NextAdds == [Next]_vars => Adds
<1>. SUFFICES ASSUME [Next]_vars PROVE Adds
  OBVIOUS
<1>1. CASE \E x \in Procs : Load(x) \/ FromFiles(x)
  BY <1>1 DEF Load, FromFiles, Adds
<1>2. CASE Start
  BY <1>2 DEF Start, OpenStore, Migrate, Unseal, MigrationFails, RecordSurface,
              RecordQuarantined, NothingQuarantined, NotRecorded, Serve, Stop, Adds
<1>3. CASE StoreState
  BY <1>3 DEF StoreState, Adds
<1>4. CASE \E token \in IdTokens, asked \in Asked, now \in 0..MaxClock : Login(token, asked, now)
  <2>1. PICK token \in IdTokens, asked \in Asked, now \in 0..MaxClock : Login(token, asked, now)
    BY <1>4
  <2>. QED BY <2>1 DEF Login, Adds
<1>5. CASE \E token \in IdTokens, now \in 0..MaxClock : MintFails(token, now)
  BY <1>5 DEF MintFails, Adds
<1>6. CASE Operator
  BY <1>6, OperatorStays DEF Adds
<1>7. CASE UNCHANGED vars
  BY <1>7 DEF vars, Adds
<1>. QED BY <1>1, <1>2, <1>3, <1>4, <1>5, <1>6, <1>7 DEF Next

LEMMA TrailStep ==
  ASSUME TrailShape, Adds
  PROVE  TrailShape'
<1>1. PICK S : trail \in Seq(S)
  BY DEF TrailShape
<1>2. CASE UNCHANGED trail
  BY <1>1, <1>2 DEF TrailShape
<1>3. CASE \E e : trail' = Append(trail, e)
  <2>1. PICK e : trail' = Append(trail, e)
    BY <1>3
  <2>2. trail \in Seq(S \cup {e})
    BY <1>1
  <2>3. trail' \in Seq(S \cup {e})
    BY <2>1, <2>2
  <2>. QED BY <2>3 DEF TrailShape
<1>4. CASE \E e, f : trail' = trail \o <<e, f>>
  <2>1. PICK e, f : trail' = trail \o <<e, f>>
    BY <1>4
  <2>2. trail \in Seq(S \cup {e, f}) /\ <<e, f>> \in Seq(S \cup {e, f})
    BY <1>1
  <2>3. trail' \in Seq(S \cup {e, f})
    BY <2>1, <2>2
  <2>. QED BY <2>3 DEF TrailShape
<1>. QED BY <1>2, <1>3, <1>4 DEF Adds

LEMMA BuildStep ==
  ASSUME Shape, [Next]_vars
  PROVE  build' \in Builds
<1>1. CASE \E x \in Procs : Load(x) \/ FromFiles(x)
  BY <1>1 DEF Load, FromFiles, Shape
<1>2. CASE Start \/ StoreState
  BY <1>2 DEF Start, OpenStore, Migrate, Unseal, MigrationFails, RecordSurface, Shape,
              RecordQuarantined, NothingQuarantined, NotRecorded, Serve, Stop, StoreState
<1>3. CASE Operator
  BY <1>3 DEF Operator, EditConfig, EditPolicies, AddRule, Repair, Install, Shape
<1>4. CASE UNCHANGED vars
  BY <1>4 DEF vars, Shape
<1>. QED BY <1>1, <1>2, <1>3, <1>4, LoginStays DEF Next, Shape

LEMMA InitShape == Init => Shape /\ Loaded
<1>. SUFFICES ASSUME Init PROVE Shape /\ Loaded
  OBVIOUS
<1>1. ProcShape /\ Loaded
  BY DEF Init, ProcShape, ProcFields, Idle, Loaded
<1>2. HostShape
  BY FilesAssumption DEF Init, HostShape, HostFields
<1>3. DiskShape
  BY FilesAssumption DEF Init, DiskShape, ConfigFields
<1>4. ReportShape
  BY DEF Init, ReportShape
<1>5. TrailShape
  <2>1. trail \in Seq({})
    BY DEF Init
  <2>. QED BY <2>1 DEF TrailShape
<1>. QED BY <1>1, <1>2, <1>3, <1>4, <1>5 DEF Shape, Init

LEMMA LoadedStep ==
  ASSUME Shape, Loaded, [Next]_vars
  PROVE  Loaded'
<1>. SUFFICES ASSUME NEW x \in Procs
              PROVE  /\ proc'[x].at # "idle" =>
                          /\ ConfigProblem(proc'[x].config) = Fine
                          /\ AreStanzas(proc'[x].config.oidc) /\ proc'[x].build \in Builds
                     /\ proc'[x].at \notin {"idle", "loaded"} =>
                          FilesProblem(proc'[x].build, proc'[x].config, proc'[x].file) = Fine
  BY DEF Loaded
<1>0. Moves(x)
  BY NextMoves
<1>1. CASE proc'[x] = proc[x]
  BY <1>1 DEF Loaded
<1>2. CASE Ended(x)
  BY <1>2 DEF Ended, Idle
<1>3. CASE Read1(x)
  BY <1>3 DEF Read1, Shape, DiskShape
<1>4. CASE Read2(x)
  BY <1>4 DEF Read2, Loaded
<1>5. CASE Further(x)
  BY <1>5 DEF Further, Loaded
<1>. QED BY <1>0, <1>1, <1>2, <1>3, <1>4, <1>5 DEF Moves

LEMMA ShapeStep ==
  ASSUME Shape, [Next]_vars
  PROVE  Shape'
<1>1. ProcShape'
  BY NextMoves
<1>2. TrailShape'
  BY NextAdds, TrailStep DEF Shape
<1>3. build' \in Builds
  BY BuildStep
<1>. QED BY <1>1, <1>2, <1>3, HostStep, DiskStep, ReportStep DEF Shape

\* The records keep their fields, and a process past a loader holds what it accepted.
LEMMA LoadedInvariant == Spec => [](Shape /\ Loaded)
<1>1. (Shape /\ Loaded) /\ [Next]_vars => (Shape /\ Loaded)'
  BY ShapeStep, LoadedStep
<1>. QED BY InitShape, <1>1, PTL DEF Spec

-----------------------------------------------------------------------------
(* What a server offers is what it recorded.                               *)

Newest(tr, S) ==
  \E i \in DOMAIN tr :
    /\ tr[i] = SurfaceEntry(S)
    /\ \A j \in i + 1..Len(tr) : tr[j].kind # "surface"

\* Other entries do not hide the newest one.
LEMMA NewestAppend ==
  ASSUME NEW T, NEW tr \in Seq(T), NEW S, Newest(tr, S), NEW e, e.kind # "surface"
  PROVE  Newest(Append(tr, e), S)
<1>1. PICK i \in DOMAIN tr :
        tr[i] = SurfaceEntry(S) /\ \A j \in i + 1..Len(tr) : tr[j].kind # "surface"
  BY DEF Newest
<1>2. /\ i \in DOMAIN Append(tr, e) /\ Append(tr, e)[i] = tr[i]
      /\ \A j \in i + 1..Len(Append(tr, e)) : Append(tr, e)[j].kind # "surface"
  BY <1>1
<1>. QED BY <1>1, <1>2 DEF Newest

LEMMA NewestTwo ==
  ASSUME NEW T, NEW tr \in Seq(T), NEW S, Newest(tr, S),
         NEW e, NEW f, e.kind # "surface", f.kind # "surface"
  PROVE  Newest(tr \o <<e, f>>, S)
<1>1. PICK i \in DOMAIN tr :
        tr[i] = SurfaceEntry(S) /\ \A j \in i + 1..Len(tr) : tr[j].kind # "surface"
  BY DEF Newest
<1>2. <<e, f>> \in Seq({e, f})
  OBVIOUS
<1>3. /\ Len(tr \o <<e, f>>) = Len(tr) + 2
      /\ \A j \in 1..Len(tr) : (tr \o <<e, f>>)[j] = tr[j]
      /\ (tr \o <<e, f>>)[Len(tr) + 1] = e /\ (tr \o <<e, f>>)[Len(tr) + 2] = f
  BY <1>2
<1>4. DOMAIN (tr \o <<e, f>>) = 1..Len(tr) + 2
  BY <1>2
<1>. QED BY <1>1, <1>3, <1>4 DEF Newest

Recorded == {"recorded", "prepared", "serving"}

LEMMA ServesStep ==
  ASSUME Shape, ServesWhatItRecorded, [Next]_vars
  PROVE  ServesWhatItRecorded'
<1>. SUFFICES ASSUME proc'["server"].at \in Recorded
              PROVE  Newest(trail', ActiveEntries(proc'["server"].config.surface))
  BY DEF ServesWhatItRecorded, Newest, Surface, Recorded
<1>0. PICK T : trail \in Seq(T)
  BY DEF Shape, TrailShape
<1>1. "server" \in Procs /\ "check" \in Procs /\ ProcShape
  BY DEF Procs, Shape
<1>2. ASSUME proc'["server"] = proc["server"]
      PROVE  Newest(trail, ActiveEntries(proc'["server"].config.surface))
  BY <1>2 DEF ServesWhatItRecorded, Newest, Surface, Recorded
<1>3. CASE \E x \in Procs : Load(x) \/ FromFiles(x)
  <2>1. PICK x \in Procs : Load(x) \/ FromFiles(x)
    BY <1>3
  <2>2. UNCHANGED trail /\ proc[x].at \in {"idle", "loaded"} /\ Moves(x)
    BY <2>1, NextMoves DEF Load, FromFiles
  <2>3. proc'[x] = proc[x] \/ proc'[x].at \notin Recorded
    BY <2>2, IdleAt DEF Moves, Ended, Read1, Read2, Further, Recorded
  <2>4. x = "server" \/ proc'["server"] = proc["server"]
    BY <1>1, <2>1, LoadMoves, FromFilesMoves
  <2>. QED BY <1>2, <2>2, <2>3, <2>4
<1>4. CASE RecordSurface
  <2>1. trail' = Append(trail, SurfaceEntry(ActiveEntries(proc["server"].config.surface)))
    BY <1>4 DEF RecordSurface, Surface
  <2>2. Further("server")
    BY <1>1, <1>4, GoesMoves DEF RecordSurface
  <2>3. Len(trail) + 1 \in DOMAIN trail' /\ Len(trail') = Len(trail) + 1
        /\ trail'[Len(trail) + 1] = SurfaceEntry(ActiveEntries(proc["server"].config.surface))
    BY <1>0, <2>1
  <2>. QED BY <1>0, <2>2, <2>3 DEF Newest, Further
<1>5. CASE RecordQuarantined \/ NothingQuarantined
  <2>1. Further("server") /\ proc["server"].at = "recorded"
    BY <1>1, <1>5, GoesMoves DEF RecordQuarantined, NothingQuarantined
  <2>2. Newest(trail, ActiveEntries(proc'["server"].config.surface))
    BY <2>1 DEF ServesWhatItRecorded, Newest, Surface, Further
  <2>3. UNCHANGED trail \/ trail' = Append(trail, [kind |-> "quarantined"])
    BY <1>5 DEF RecordQuarantined, NothingQuarantined
  <2>. QED BY <1>0, <2>2, <2>3, NewestAppend
<1>6. CASE Serve
  <2>1. UNCHANGED trail /\ proc["server"].at = "prepared"
    BY <1>6 DEF Serve
  <2>2. CASE Goes("server", "serving")
    <3>1. Further("server")
      BY <1>1, <2>1, <2>2, GoesMoves
    <3>. QED BY <2>1, <3>1 DEF ServesWhatItRecorded, Newest, Surface, Further
  <2>3. CASE Exit("server", "tls")
    BY <1>1, <2>3, ExitMoves, IdleAt DEF Recorded
  <2>. QED BY <1>6, <2>2, <2>3 DEF Serve
<1>7. CASE \/ OpenStore \/ Unseal \/ MigrationFails \/ NotRecorded \/ Stop
  <2>1. (\E why : Exit("server", why)) \/ \E at \in {"migrating", "open"} : Goes("server", at)
    BY <1>7 DEF OpenStore, Unseal, MigrationFails, NotRecorded, Stop
  <2>2. ASSUME NEW why, Exit("server", why) PROVE proc'["server"].at \notin Recorded
    BY <1>1, <2>2, ExitMoves, IdleAt DEF Recorded
  <2>3. ASSUME NEW at \in {"migrating", "open"}, Goes("server", at)
        PROVE  proc'["server"].at \notin Recorded
    BY <1>1, <2>3 DEF Goes, ProcShape, ProcFields, Recorded
  <2>. QED BY <2>1, <2>2, <2>3
<1>8. CASE StoreState
  <2>1. proc'["server"] = proc["server"] /\ UNCHANGED trail
    BY <1>1, <1>8, ExitMoves DEF StoreState
  <2>. QED BY <1>2, <2>1
<1>9. CASE \E token \in IdTokens, asked \in Asked, now \in 0..MaxClock : Login(token, asked, now)
  <2>1. PICK token \in IdTokens, asked \in Asked, now \in 0..MaxClock : Login(token, asked, now)
    BY <1>9
  <2>2. UNCHANGED proc
    BY <2>1, LoginStays
  <2>3. UNCHANGED trail \/ \E e : e.kind # "surface" /\ trail' = Append(trail, e)
    <3>1. ASSUME NEW k, NEW q PROVE LoginEntryOf(k, q).kind = k
      BY DEF LoginEntryOf
    <3>2. \/ UNCHANGED trail
          \/ \E k \in {"login-refused", "minted"} : \E q : trail' = Append(trail, LoginEntryOf(k, q))
      BY <2>1 DEF Login
    <3>. QED BY <3>1, <3>2
  <2>. QED BY <1>0, <1>2, <2>2, <2>3, NewestAppend
<1>10. CASE \E token \in IdTokens, now \in 0..MaxClock : MintFails(token, now)
  <2>1. PICK token \in IdTokens, now \in 0..MaxClock : MintFails(token, now)
    BY <1>10
  <2>2. UNCHANGED proc
    BY <2>1, LoginStays
  <2>3. ASSUME NEW k, NEW q PROVE LoginEntryOf(k, q).kind = k
    BY DEF LoginEntryOf
  <2>4. PICK q : trail' = trail \o <<LoginEntryOf("minted", q), LoginEntryOf("mint-failed", q)>>
    BY <2>1 DEF MintFails
  <2>. QED BY <1>0, <1>2, <2>2, <2>3, <2>4, NewestTwo
<1>11. CASE Operator \/ UNCHANGED vars \/ Migrate
  <2>1. UNCHANGED <<proc, trail>>
    BY <1>11, OperatorStays DEF vars, Migrate
  <2>. QED BY <1>2, <2>1
<1>. QED BY <1>3, <1>4, <1>5, <1>6, <1>7, <1>8, <1>9, <1>10, <1>11 DEF Next, Start

\* What a server offers is what its newest surface entry says, from before it
\* serves until it ends, however the files are edited meanwhile (Server::prepare).
THEOREM ServesWhatItRecordedHolds == Spec => []ServesWhatItRecorded
<1>1. Init => ServesWhatItRecorded
  BY DEF Init, ServesWhatItRecorded, Idle, Procs
<1>2. Shape /\ ServesWhatItRecorded /\ [Next]_vars => ServesWhatItRecorded'
  BY ServesStep
<1>. QED BY <1>1, <1>2, LoadedInvariant, PTL DEF Spec

-----------------------------------------------------------------------------
(* A server that started agrees with its binary and its policies.          *)

\* The verdicts of the two loaders.
LEMMA TomlVerdict ==
  ASSUME NEW f
  PROVE  FromToml(f).ok \/ (~FromToml(f).ok /\ FromToml(f).error # Fine)
<1>1. CASE FileProblem(f) # Fine
  BY <1>1 DEF FromToml, Err
<1>2. CASE FileProblem(f) = Fine
  BY <1>2 DEF FromToml, Ok
<1>. QED BY <1>1, <1>2

LEMMA FederationVerdict ==
  ASSUME NEW o
  PROVE  \/ ~ResolveFederation(o).ok /\ ResolveFederation(o).error # Fine
         \/ /\ ResolveFederation(o).ok
            /\ ResolveFederation(o).value = [i \in DOMAIN o |-> Provider(o[i])]
            /\ \A i \in 1..Len(o) : ProviderProblem(o, i) = Fine
<1>. DEFINE bad == {i \in 1..Len(o) : ProviderProblem(o, i) # Fine}
            first == IF bad = {} THEN Fine
                     ELSE ProviderProblem(o, CHOOSE i \in bad : \A j \in bad : i <= j)
<1>1. ResolveFederation(o) = IF first # Fine THEN Err(first)
                             ELSE Ok([i \in DOMAIN o |-> Provider(o[i])])
  BY DEF ResolveFederation, FirstProblem
<1>2. ASSUME bad # {} PROVE first # Fine
  <2>1. bad \subseteq Nat
    OBVIOUS
  <2>2. (CHOOSE i \in bad : \A j \in bad : i <= j) \in bad
    BY <1>2, <2>1, LeastOf
  <2>3. first = ProviderProblem(o, CHOOSE i \in bad : \A j \in bad : i <= j)
    BY <1>2
  <2>. HIDE DEF first
  <2>. QED BY <2>2, <2>3
<1>3. CASE bad = {}
  <2>1. first = Fine
    BY <1>3
  <2>2. \A i \in 1..Len(o) : ProviderProblem(o, i) = Fine
    BY <1>3
  <2>. HIDE DEF bad, first
  <2>. QED BY <1>1, <2>1, <2>2 DEF Ok
<1>4. CASE bad # {}
  <2>. HIDE DEF bad, first
  <2>. QED BY <1>1, <1>2, <1>4 DEF Err
<1>. QED BY <1>3, <1>4

\* What from_files has checked when it succeeds.
LEMMA FilesVerdict ==
  ASSUME NEW b, NEW c, NEW f, FilesProblem(b, c, f) = Fine
  PROVE  /\ FromToml(f).ok /\ SurfaceProblem(b, c.surface) = Fine
         /\ ResolveFederation(c.oidc).ok
         /\ BoundIdentities(ResolveFederation(c.oidc).value)
              \subseteq DOMAIN FromToml(f).value.identities
<1>. DEFINE toml == FromToml(f)
            surface == SurfaceProblem(b, c.surface)
            oidc == ResolveFederation(c.oidc)
            known == BoundIdentities(oidc.value) \subseteq DOMAIN toml.value.identities
<1>1. FilesProblem(b, c, f) =
        IF ~toml.ok THEN toml.error
        ELSE IF surface # Fine THEN surface
        ELSE IF ~oidc.ok THEN oidc.error
        ELSE IF ~known THEN "oidc-unknown-identity"
        ELSE Fine
  BY DEF FilesProblem
<1>2. /\ toml.ok \/ (~toml.ok /\ toml.error # Fine)
      /\ oidc.ok \/ (~oidc.ok /\ oidc.error # Fine)
      /\ "oidc-unknown-identity" # Fine
  BY TomlVerdict, FederationVerdict DEF Fine
<1>3. toml.ok /\ surface = Fine /\ oidc.ok /\ known
  <2>. HIDE DEF toml, surface, oidc, known
  <2>. QED BY <1>1, <1>2
<1>. QED BY <1>3

\* surface::resolve accepts what the binary has, no more and no less.
LEMMA SurfaceVerdict ==
  ASSUME NEW b, b.bait \in BOOLEAN, NEW stanzas, SurfaceProblem(b, stanzas) = Fine,
         NEW e \in DOMAIN Entries, Entries[e] = "build"
  PROVE  (e \in ActiveEntries(stanzas)) = b.bait
<1>. DEFINE bad == {i \in 1..Len(stanzas) : StanzaProblem(stanzas, i) # Fine}
            within == IF bad = {} THEN Fine
                      ELSE StanzaProblem(stanzas, CHOOSE i \in bad : \A j \in bad : i <= j)
            built == {d \in DOMAIN Entries : Entries[d] = "build"}
            lacks == \E d \in built : d \in ActiveEntries(stanzas) /\ ~CompiledIn(b, d)
            hides == \E d \in built : d \notin ActiveEntries(stanzas) /\ CompiledIn(b, d)
<1>1. SurfaceProblem(b, stanzas) =
        IF within # Fine THEN within
        ELSE IF lacks THEN "surface-not-built"
        ELSE IF hides THEN "surface-undeclared"
        ELSE Fine
  BY DEF SurfaceProblem, FirstProblem
<1>2. "surface-not-built" # Fine /\ "surface-undeclared" # Fine
  BY DEF Fine
<1>3. ~lacks /\ ~hides
  <2>. HIDE DEF within, lacks, hides
  <2>. QED BY <1>1, <1>2
<1>. QED BY <1>3 DEF CompiledIn

\* Config::validate ties the login entry to the providers.
LEMMA ConfigVerdict ==
  ASSUME NEW c, ConfigProblem(c) = Fine
  PROVE  (LoginEntry \in ActiveEntries(c.surface)) = (c.oidc # <<>>)
<1>. DEFINE named == \E i \in DOMAIN c.surface : c.surface[i].entry = LoginEntry
            size == \E i \in DOMAIN c.audit :
                      /\ c.audit[i].type = "file" /\ c.audit[i].size # None
                      /\ ParseSize(c.audit[i].size) = None
            bare == \A i \in DOMAIN c.audit : c.audit[i].type # "sqlite"
<1>1. ConfigProblem(c) =
        IF ~c.syntax THEN "syntax"
        ELSE IF c.audit = <<>> THEN "no-audit-device"
        ELSE IF bare THEN "no-store-audit-device"
        ELSE IF size THEN "size"
        ELSE IF named /\ c.oidc = <<>> THEN "oidc-entry-without-provider"
        ELSE IF ~named /\ c.oidc # <<>> THEN "oidc-provider-without-entry"
        ELSE Fine
  BY DEF ConfigProblem
<1>2. /\ "syntax" # Fine /\ "no-audit-device" # Fine /\ "no-store-audit-device" # Fine
      /\ "size" # Fine /\ "oidc-entry-without-provider" # Fine
      /\ "oidc-provider-without-entry" # Fine
  BY DEF Fine
<1>3. ~(named /\ c.oidc = <<>>) /\ ~(~named /\ c.oidc # <<>>)
  <2>. HIDE DEF named, size, bare
  <2>. QED BY <1>1, <1>2
<1>4. named <=> (LoginEntry \in ActiveEntries(c.surface))
  BY DEF ActiveEntries
<1>5. (LoginEntry \in ActiveEntries(c.surface)) <=> (c.oidc # <<>>)
  <2>. HIDE DEF named
  <2>. QED BY <1>3, <1>4
<1>. QED BY <1>5

LEMMA Agreement ==
  ASSUME Loaded
  PROVE  StartedInAgreement
<1>. SUFFICES ASSUME proc["server"].at \notin {"idle", "loaded"}
              PROVE  /\ \A e \in DOMAIN Entries :
                          Entries[e] = "build" => (e \in Surface("server")) = proc["server"].build.bait
                     /\ (LoginEntry \in Surface("server")) = (Providers("server") # <<>>)
                     /\ BoundIdentities(Providers("server")) \subseteq DOMAIN Policies("server").identities
  BY DEF StartedInAgreement
<1>. DEFINE c == proc["server"].config
            b == proc["server"].build
            f == proc["server"].file
<1>1. /\ ConfigProblem(c) = Fine /\ AreStanzas(c.oidc) /\ b \in Builds
      /\ FilesProblem(b, c, f) = Fine
  BY DEF Loaded, Procs
<1>2. b.bait \in BOOLEAN
  BY <1>1, DeploymentAssumption
<1>3. /\ SurfaceProblem(b, c.surface) = Fine /\ ResolveFederation(c.oidc).ok
      /\ BoundIdentities(ResolveFederation(c.oidc).value) \subseteq DOMAIN FromToml(f).value.identities
  BY <1>1, FilesVerdict
<1>4. ResolveFederation(c.oidc).value = [i \in DOMAIN c.oidc |-> Provider(c.oidc[i])]
  BY <1>3, FederationVerdict
<1>5. (c.oidc # <<>>) = (ResolveFederation(c.oidc).value # <<>>)
  <2>1. PICK S : c.oidc \in Seq(S)
    BY <1>1 DEF AreStanzas, IsList
  <2>. HIDE DEF c
  <2>2. DOMAIN ResolveFederation(c.oidc).value = 1..Len(c.oidc)
    BY <1>4, <2>1
  <2>3. CASE c.oidc = <<>>
    BY <1>4, <2>3
  <2>4. CASE c.oidc # <<>>
    <3>1. Len(c.oidc) \in Nat /\ Len(c.oidc) # 0
      BY <2>1, <2>4
    <3>2. DOMAIN <<>> = {}
      OBVIOUS
    <3>. QED BY <2>2, <2>4, <3>1, <3>2
  <2>. QED BY <2>3, <2>4
<1>6. (LoginEntry \in ActiveEntries(c.surface)) = (c.oidc # <<>>)
  BY <1>1, ConfigVerdict
<1>. QED BY <1>2, <1>3, <1>5, <1>6, SurfaceVerdict DEF Surface, Providers, Policies

\* A server past its files has what its binary has, federates exactly when the
\* login entry is on, and knows every identity a provider may resolve to, whichever
\* file was written between its two reads (from_files, Config::validate).
THEOREM StartedInAgreementHolds == Spec => []StartedInAgreement
BY LoadedInvariant, Agreement, PTL

-----------------------------------------------------------------------------
(* What a check says of a start.                                           *)

\* While nothing changed, a check that ended with 0 is right about files and store.
Predicted ==
  report.exit = 0 /\ report.current =>
    /\ ConfigProblem(disk.config) = Fine
    /\ FilesProblem(build, disk.config, disk.policies) = Fine
    /\ StoreReady(host, build, disk.config)

\* A store stays ready while its schema grows within the binary's.
LEMMA ReadyKept ==
  ASSUME NEW h, NEW k, NEW b, NEW c, StoreReady(h, b, c),
         k.exists = h.exists \/ k.exists = TRUE,
         k.seal = h.seal, k.master = h.master, k.dir = h.dir,
         h.schema \in Nat, k.schema \in Nat, k.schema >= h.schema, k.schema <= b.schema
  PROVE  StoreReady(k, b, c)
<1>1. k.exists
  BY DEF StoreReady
<1>2. Unsealed(k, c)
  BY DEF StoreReady, Unsealed
<1>3. DevicesOpen(k, c)
  BY DEF StoreReady, DevicesOpen, DeviceOpens, AuditTable
<1>. QED BY <1>1, <1>2, <1>3 DEF StoreReady

LEMMA PredictedStep ==
  ASSUME Shape, Loaded, Predicted, [Next]_vars
  PROVE  Predicted'
<1>. SUFFICES ASSUME report'.exit = 0, report'.current
              PROVE  /\ ConfigProblem(disk'.config) = Fine
                     /\ FilesProblem(build', disk'.config, disk'.policies) = Fine
                     /\ StoreReady(host', build', disk'.config)
  BY DEF Predicted
<1>0. /\ DOMAIN report = {"exit", "current", "unreachable"}
      /\ DOMAIN host = HostFields /\ host.schema \in Nat
      /\ build \in Builds /\ build.schema \in Nat
  BY DeploymentAssumption DEF Shape, ReportShape, HostShape
<1>1. CASE UNCHANGED <<disk, build, host, report>>
  BY <1>1 DEF Predicted
<1>2. CASE \E x \in Procs : Load(x) \/ FromFiles(x)
  <2>1. UNCHANGED <<disk, build, host>>
    BY <1>2 DEF Load, FromFiles
  <2>2. UNCHANGED report \/ report'.exit = 1
    BY <1>2 DEF Load, FromFiles, Reports
  <2>. QED BY <1>1, <2>1, <2>2
<1>3. CASE OpenStore \/ Unseal
  <2>1. UNCHANGED <<disk, build, report>>
    BY <1>3 DEF OpenStore, Unseal
  <2>2. /\ host'.exists = host.exists \/ host'.exists = TRUE
        /\ host'.seal = host.seal /\ host'.master = host.master /\ host'.dir = host.dir
        /\ host'.schema = host.schema
    BY <1>0, <1>3 DEF OpenStore, Unseal, HostFields
  <2>3. StoreReady(host, build, disk.config)
    BY <2>1 DEF Predicted
  <2>4. host'.schema \in Nat /\ host'.schema >= host.schema /\ host'.schema <= build.schema
    BY <1>0, <2>2, <2>3 DEF StoreReady
  <2>5. StoreReady(host', build, disk.config)
    BY <1>0, <2>2, <2>3, <2>4, ReadyKept
  <2>. QED BY <2>1, <2>5 DEF Predicted
<1>4. CASE Migrate
  <2>1. UNCHANGED <<disk, build>> /\ report' = [report EXCEPT !.current = @ /\ proc["server"].build = build]
    BY <1>4 DEF Migrate
  <2>2. report.exit = 0 /\ report.current /\ proc["server"].build = build
    BY <1>0, <2>1
  <2>3. /\ host'.exists = host.exists
        /\ host'.seal = host.seal /\ host'.master = host.master /\ host'.dir = host.dir
        /\ host'.schema = host.schema + 1 /\ host.schema < build.schema
    BY <1>0, <1>4, <2>2 DEF Migrate, HostFields
  <2>4. StoreReady(host, build, disk.config)
    BY <2>2 DEF Predicted
  <2>5. host'.schema \in Nat /\ host'.schema >= host.schema /\ host'.schema <= build.schema
    BY <1>0, <2>3
  <2>6. StoreReady(host', build, disk.config)
    BY <1>0, <2>3, <2>4, <2>5, ReadyKept
  <2>. QED BY <2>1, <2>2, <2>6 DEF Predicted
<1>5. CASE StoreState
  <2>1. UNCHANGED <<disk, build>> /\ proc["check"].at = "files" /\ "check" \in Procs
    BY <1>5 DEF StoreState, Procs
  <2>2. /\ StoreReady(host, proc["check"].build, proc["check"].config)
        /\ proc["check"].config = disk.config /\ proc["check"].build = build
        /\ proc["check"].file = disk.policies
    <3>. DEFINE ready == StoreReady(host, proc["check"].build, proc["check"].config)
                now == Fresh("check") /\ proc["check"].file = disk.policies
    <3>1. report' = [exit |-> IF ready THEN 0 ELSE 3, current |-> now,
                     unreachable |-> Unreachable(Policies("check"), Surface("check"))]
      BY <1>5 DEF StoreState, Checked
    <3>2. ready /\ now
      <4>. HIDE DEF ready, now
      <4>1. report'.exit = IF ready THEN 0 ELSE 3
        BY <3>1
      <4>2. report'.current = now
        BY <3>1
      <4>. QED BY <4>1, <4>2
    <3>. QED BY <3>2 DEF Fresh
  <2>3. /\ ConfigProblem(disk.config) = Fine
        /\ FilesProblem(build, disk.config, disk.policies) = Fine
    BY <2>1, <2>2 DEF Loaded
  <2>4. /\ host'.exists = host.exists
        /\ host'.seal = host.seal /\ host'.master = host.master /\ host'.dir = host.dir
        /\ host'.schema = host.schema
    BY <1>0, <1>5 DEF StoreState, HostFields
  <2>5. host'.schema \in Nat /\ host'.schema >= host.schema /\ host'.schema <= build.schema
    BY <1>0, <2>2, <2>4 DEF StoreReady
  <2>6. StoreReady(host', build, disk.config)
    BY <1>0, <2>2, <2>4, <2>5, ReadyKept
  <2>. QED BY <2>1, <2>3, <2>6
<1>6. CASE Operator
  <2>1. report' = [report EXCEPT !.current = FALSE]
    BY <1>6 DEF Operator, EditConfig, EditPolicies, AddRule, Install, Repair, Edit
  <2>. QED BY <1>0, <2>1
<1>7. CASE Start /\ ~OpenStore /\ ~Unseal /\ ~Migrate
  BY <1>1, <1>7 DEF Start, MigrationFails, RecordSurface, RecordQuarantined,
                    NothingQuarantined, NotRecorded, Serve, Stop
<1>8. CASE UNCHANGED vars
  BY <1>1, <1>8 DEF vars
<1>. QED BY <1>1, <1>2, <1>3, <1>4, <1>5, <1>6, <1>7, <1>8, LoginStays DEF Next

\* A start that a current check approved is not refused for what the check looks at.
LEMMA PredictedActs ==
  ASSUME Shape, Loaded, Predicted, [Next]_vars,
         report.exit = 0, report.current,
         proc["server"].at \in {"idle", "loaded", "files", "migrating"},
         proc["server"].at = "loaded" => Fresh("server"),
         proc["server"].at \in {"files", "migrating"} =>
           Fresh("server") /\ proc["server"].file = disk.policies
  PROVE  proc'["server"].why \notin {"config", "files", "store"} \ {proc["server"].why}
<1>0. "server" \in Procs /\ "check" \in Procs \ {"server"} /\ ProcShape
  BY DEF Procs, Shape
<1>1. /\ ConfigProblem(disk.config) = Fine
      /\ FilesProblem(build, disk.config, disk.policies) = Fine
      /\ StoreReady(host, build, disk.config)
  BY DEF Predicted
<1>2. ASSUME NEW why, why \notin {"config", "files", "store"}, Exit("server", why)
      PROVE  proc'["server"].why \notin {"config", "files", "store"}
  BY <1>0, <1>2, ExitMoves, IdleAt
<1>3. ASSUME NEW at, Goes("server", at) PROVE proc'["server"].why = proc["server"].why
  BY <1>0, <1>3 DEF Goes, ProcShape, ProcFields
<1>4. CASE Load("server") \/ FromFiles("server")
  <2>1. CASE Load("server")
    BY <1>0, <1>1, <2>1, LoadMoves
  <2>2. CASE FromFiles("server")
    <3>1. FilesProblem(proc["server"].build, proc["server"].config, disk.policies) = Fine
      BY <1>1, <2>2 DEF FromFiles, Fresh
    <3>. QED BY <1>0, <2>2, <3>1, FromFilesMoves
  <2>. QED BY <1>4, <2>1, <2>2
<1>5. CASE \E x \in Procs \ {"server"} : Load(x) \/ FromFiles(x)
  BY <1>0, <1>5, LoadMoves, FromFilesMoves
<1>6. CASE OpenStore
  <2>1. proc["server"].build = build
    BY <1>6 DEF OpenStore, Fresh
  <2>2. host.schema \in Nat /\ build.schema \in Nat /\ host.schema <= build.schema
    BY <1>1, DeploymentAssumption DEF StoreReady, Shape, HostShape
  <2>3. Goes("server", "migrating")
    BY <1>6, <2>1, <2>2 DEF OpenStore
  <2>. QED BY <1>3, <2>3
<1>7. CASE Unseal
  <2>1. Unsealed(host, proc["server"].config) /\ DevicesOpen(host, proc["server"].config)
    BY <1>1, <1>7 DEF Unseal, Fresh, StoreReady
  <2>2. Exit("server", "hole") \/ Goes("server", "open")
    BY <1>7, <2>1 DEF Unseal
  <2>. QED BY <1>2, <1>3, <2>2
<1>8. CASE MigrationFails \/ Stop
  BY <1>2, <1>8 DEF MigrationFails, Stop
<1>9. CASE RecordSurface \/ RecordQuarantined \/ NothingQuarantined \/ NotRecorded \/ Serve
  BY <1>9 DEF RecordSurface, RecordQuarantined, NothingQuarantined, NotRecorded, Serve
<1>10. CASE StoreState
  BY <1>0, <1>10, ExitMoves DEF StoreState
<1>11. CASE UNCHANGED proc
  BY <1>11
<1>12. CASE Operator \/ Migrate \/ UNCHANGED vars
  BY <1>11, <1>12, OperatorStays DEF Migrate, vars
<1>. QED BY <1>4, <1>5, <1>6, <1>7, <1>8, <1>9, <1>10, <1>11, <1>12, LoginStays DEF Next, Start

\* A check that ended with 0 predicts the start, as long as the files, the binary
\* and the host are the ones it saw: no refusal by a file, the store, the key or a
\* device, whatever runs beside it (Server::check, from_files, store_state).
THEOREM CheckPredictsStartHolds == Spec => CheckPredictsStart
<1>1. Init => Predicted
  BY DEF Init, Predicted
<1>2. (Shape /\ Loaded) /\ Predicted /\ [Next]_vars => Predicted'
  BY PredictedStep
<1>3. (Shape /\ Loaded) /\ Predicted /\ [Next]_vars =>
        [ report.exit = 0 /\ report.current
          /\ proc["server"].at \in {"idle", "loaded", "files", "migrating"}
          /\ (proc["server"].at = "loaded" => Fresh("server"))
          /\ (proc["server"].at \in {"files", "migrating"} =>
                Fresh("server") /\ proc["server"].file = disk.policies)
            => proc'["server"].why \notin {"config", "files", "store"} \ {proc["server"].why} ]_vars
  BY PredictedActs
<1>. QED BY <1>1, <1>2, <1>3, LoadedInvariant, PTL DEF Spec, CheckPredictsStart

\* Without a start under way only the operator changes the schema, and only logins
\* and starts write to the trail.
LEMMA SpendsNothing ==
  ASSUME Shape, [Next]_vars, proc["server"].at = "idle", edits' = edits
  PROVE  host'.schema = host.schema /\ trail' = trail
<1>0. DOMAIN host = HostFields /\ edits \in Nat
  BY DEF Shape, HostShape, ReportShape
<1>1. CASE \E x \in Procs : Load(x) \/ FromFiles(x)
  BY <1>1 DEF Load, FromFiles
<1>2. CASE Start
  BY <1>2 DEF Start, OpenStore, Migrate, MigrationFails, Unseal, RecordSurface,
              RecordQuarantined, NothingQuarantined, NotRecorded, Serve, Stop
<1>3. CASE StoreState
  BY <1>0, <1>3 DEF StoreState, HostFields
<1>4. CASE Operator
  <2>1. edits' = edits + 1
    BY <1>4 DEF Operator, EditConfig, EditPolicies, AddRule, Install, Repair, Edit
  <2>. QED BY <1>0, <2>1
<1>5. CASE UNCHANGED vars
  BY <1>5 DEF vars
<1>6. ASSUME NEW token, NEW asked, NEW now, Login(token, asked, now) \/ MintFails(token, now)
      PROVE  FALSE
  BY <1>6 DEF Login, MintFails
<1>. QED BY <1>1, <1>2, <1>3, <1>4, <1>5, <1>6 DEF Next

\* A check spends nothing: no migration and no entry in the trail (Server::check).
THEOREM CheckSpendsNothingHolds == Spec => CheckSpendsNothing
<1>1. (Shape /\ Loaded) /\ [Next]_vars =>
        [ proc["server"].at = "idle" /\ edits' = edits
            => host'.schema = host.schema /\ trail' = trail ]_vars
  BY SpendsNothing
<1>. QED BY <1>1, LoadedInvariant, PTL DEF Spec, CheckSpendsNothing

-----------------------------------------------------------------------------
(* Whom a login mints for.                                                 *)

\* A provider that was resolved has a positive lifetime.
LEMMA ProviderFacts ==
  ASSUME NEW o, AreStanzas(o), ResolveFederation(o).ok, NEW i \in DOMAIN o
  PROVE  LET p == ResolveFederation(o).value[i]
         IN  /\ i \in DOMAIN ResolveFederation(o).value
             /\ p.skew \in Nat /\ p.ttl \in Nat /\ p.ttl > 0 /\ IsList(p.bindings)
             /\ \A j \in DOMAIN p.bindings : \A c \in DOMAIN p.bindings[j].claims :
                  p.bindings[j].claims[c] # None
<1>1. PICK S : o \in Seq(S)
  BY DEF AreStanzas, IsList
<1>2. i \in 1..Len(o)
  BY <1>1
<1>3. ResolveFederation(o).value = [k \in DOMAIN o |-> Provider(o[k])]
      /\ ProviderProblem(o, i) = Fine
  BY <1>2, FederationVerdict
<1>4. ResolveFederation(o).value[i] = Provider(o[i]) /\ i \in DOMAIN ResolveFederation(o).value
  BY <1>3
<1>5. ParseDuration(o[i].ttl) # None
  <2>. DEFINE same == \E j \in DOMAIN o \ {i} : o[j].issuer = o[i].issuer /\ o[j].audience = o[i].audience
              ttl == ParseDuration(o[i].ttl)
              keys == KeysProblem(o[i].keys)
              rest == BindingsProblem(o[i].bindings)
  <2>1. ProviderProblem(o, i) =
          IF o[i].name = "" THEN "oidc-name"
          ELSE IF o[i].issuer = "" THEN "oidc-issuer"
          ELSE IF o[i].audience = "" THEN "oidc-audience"
          ELSE IF same THEN "oidc-duplicate-provider"
          ELSE IF ttl = None THEN "oidc-ttl"
          ELSE IF keys # Fine THEN keys
          ELSE rest
    BY DEF ProviderProblem
  <2>2. /\ "oidc-name" # Fine /\ "oidc-issuer" # Fine /\ "oidc-audience" # Fine
        /\ "oidc-duplicate-provider" # Fine /\ "oidc-ttl" # Fine
    BY DEF Fine
  <2>3. ttl # None
    <3>. HIDE DEF same, ttl, keys, rest
    <3>. QED BY <1>3, <2>1, <2>2
  <2>. QED BY <2>3
<1>6. ParseDuration(o[i].ttl) \in Nat /\ ParseDuration(o[i].ttl) > 0
  <2>1. /\ o[i].ttl.unit \in DOMAIN UnitSeconds /\ o[i].ttl.digits > 0
        /\ ParseDuration(o[i].ttl) = o[i].ttl.digits * UnitSeconds[o[i].ttl.unit]
    BY <1>5 DEF ParseDuration
  <2>2. o[i].ttl.digits \in Nat
    BY DEF AreStanzas
  <2>3. UnitSeconds[o[i].ttl.unit] \in {86400, 3600, 60, 1}
    BY <2>1 DEF UnitSeconds
  <2>. QED BY <2>1, <2>2, <2>3
<1>7. /\ Provider(o[i]).skew = o[i].skew /\ Provider(o[i]).bindings = o[i].bindings
      /\ Provider(o[i]).ttl = ParseDuration(o[i].ttl)
  BY DEF Provider
<1>. QED BY <1>4, <1>6, <1>7 DEF AreStanzas

\* A time claim that was read is a number of the token.
LEMMA SecondsFacts ==
  ASSUME NEW c \in Int \cup {None, NotWhole}, SecondsClaim(c) # None
  PROVE  c \in Int /\ SecondsClaim(c) = c
BY DEF SecondsClaim

\* What is right about a token that is not refused.
LEMMA RefusalVerdict ==
  ASSUME NEW p, NEW token \in IdTokens, NEW now \in Nat, Refusal(p, token, now) = Fine,
         p.skew \in Nat
  PROVE  LET matched == {j \in DOMAIN p.bindings : BindingMatches(p.bindings[j], token)}
         IN  /\ token.exp \in Int /\ now <= token.exp + p.skew
             /\ SecondsClaim(token.nbf) # None => now >= token.nbf - p.skew
             /\ p.audience \in token.aud
             /\ matched # {} /\ ~(Cardinality(matched) > 1)
<1>. DEFINE matched == {j \in DOMAIN p.bindings : BindingMatches(p.bindings[j], token)}
            expiry == SecondsClaim(token.exp)
            start == SecondsClaim(token.nbf)
            late == now > expiry + p.skew
            early == start # None /\ now < start - p.skew
            elsewhere == ~AudienceMatches(token, p.audience)
            nobody == StringClaim(token, "sub") = None
            none == matched = {}
            several == Cardinality(matched) > 1
<1>1. Refusal(p, token, now) =
        IF expiry = None THEN "missing-expiry"
        ELSE IF late THEN "expired"
        ELSE IF early THEN "not-yet-valid"
        ELSE IF elsewhere THEN "audience-mismatch"
        ELSE IF nobody THEN "missing-subject"
        ELSE IF none THEN "no-binding"
        ELSE IF several THEN "ambiguous-binding"
        ELSE Fine
  BY DEF Refusal
<1>2. /\ "missing-expiry" # Fine /\ "expired" # Fine /\ "not-yet-valid" # Fine
      /\ "audience-mismatch" # Fine /\ "missing-subject" # Fine /\ "no-binding" # Fine
      /\ "ambiguous-binding" # Fine
  BY DEF Fine
<1>3. expiry # None /\ ~late /\ ~early /\ ~elsewhere /\ ~none /\ ~several
  <2>. HIDE DEF expiry, late, early, elsewhere, nobody, none, several
  <2>. QED BY <1>1, <1>2
<1>4. token.exp \in Int \cup {None, NotWhole} /\ token.nbf \in Int \cup {None, NotWhole}
  BY TokenAssumption
<1>5. token.exp \in Int /\ now <= token.exp + p.skew
  <2>1. token.exp \in Int /\ expiry = token.exp
    BY <1>3, <1>4, SecondsFacts
  <2>. QED BY <1>3, <2>1
<1>6. ASSUME SecondsClaim(token.nbf) # None PROVE now >= token.nbf - p.skew
  <2>1. token.nbf \in Int /\ start = token.nbf
    BY <1>4, <1>6, SecondsFacts
  <2>2. ~(now < start - p.skew)
    BY <1>3, <1>6
  <2>. QED BY <2>1, <2>2
<1>7. p.audience \in token.aud
  BY <1>3 DEF AudienceMatches
<1>. QED BY <1>3, <1>5, <1>6, <1>7

\* An exchange that accepts names the provider that signed.
LEMMA ExchangeVerdict ==
  ASSUME NEW P, DOMAIN P \subseteq Nat, NEW token, NEW now,
         Exchange(P, token, now).outcome = "accepted"
  PROVE  \E i \in Vouching(P, token) :
           /\ Refusal(P[i], token, now) = Fine
           /\ Exchange(P, token, now).identity = Bound(P[i], token)
           /\ Exchange(P, token, now).ttl = P[i].ttl
<1>. DEFINE vouching == Vouching(P, token)
            least == CHOOSE i \in vouching : \A j \in vouching : i <= j
            refusal == Refusal(P[least], token, now)
            no1 == [outcome |-> "unverifiable", why |-> "malformed"]
            no2 == [outcome |-> "unverifiable", why |-> Unverifiable(P, token)]
            no3 == [outcome |-> "refused", why |-> refusal, provider |-> P[least].name]
            yes == [outcome |-> "accepted", provider |-> P[least].name,
                    identity |-> Bound(P[least], token), ttl |-> P[least].ttl]
<1>1. Exchange(P, token, now) =
        IF IsMalformed(token) THEN no1
        ELSE IF vouching = {} THEN no2
        ELSE IF refusal # Fine THEN no3
        ELSE yes
  BY DEF Exchange
<1>2. no1.outcome # "accepted" /\ no2.outcome # "accepted" /\ no3.outcome # "accepted"
  OBVIOUS
<1>3. vouching # {} /\ refusal = Fine /\ Exchange(P, token, now) = yes
  <2>. HIDE DEF vouching, least, refusal, no1, no2, no3, yes
  <2>. QED BY <1>1, <1>2
<1>4. least \in vouching
  <2>1. vouching \in SUBSET Nat
    BY DEF Vouching
  <2>. HIDE DEF vouching
  <2>. QED BY <1>3, <2>1, LeastOf
<1>5. /\ Exchange(P, token, now).identity = Bound(P[least], token)
      /\ Exchange(P, token, now).ttl = P[least].ttl
  BY <1>3
<1>. HIDE DEF vouching, least
<1>. QED BY <1>3, <1>4, <1>5 DEF vouching

\* A set of list positions that is not empty and has no two members has one.
LEMMA OneOf ==
  ASSUME NEW b, IsList(b), NEW M \in SUBSET DOMAIN b, M # {}, ~(Cardinality(M) > 1)
  PROVE  Cardinality(M) = 1 /\ \A x, y \in M : x = y
<1>1. PICK S : b \in Seq(S)
  BY DEF IsList
<1>2. DOMAIN b = 1..Len(b) /\ Len(b) \in Nat
  BY <1>1
<1>3. IsFiniteSet(M)
  <2>1. IsFiniteSet(1..Len(b))
    BY <1>2, FS_Interval
  <2>. QED BY <1>2, <2>1, FS_Subset
<1>4. Cardinality(M) \in Nat /\ Cardinality(M) # 0
  BY <1>3, FS_CardinalityType, FS_EmptySet
<1>5. Cardinality(M) = 1
  BY <1>4
<1>6. \E x : M = {x}
  BY <1>3, <1>5, FS_Singleton
<1>. QED BY <1>5, <1>6

\* The row that an accepted exchange leads to.
LEMMA MintVerdict ==
  ASSUME NEW o, AreStanzas(o), ResolveFederation(o).ok, NEW token \in IdTokens,
         NEW now \in Nat, NEW asked \in Asked, asked # 0,
         Exchange(ResolveFederation(o).value, token, now).outcome = "accepted",
         NEW t,
         t.source = token, t.minted = now,
         t.identity = Exchange(ResolveFederation(o).value, token, now).identity,
         t.expires = now + Lifetime(asked, Exchange(ResolveFederation(o).value, token, now).ttl)
  PROVE  /\ \E i \in DOMAIN ResolveFederation(o).value :
              Justifies(ResolveFederation(o).value[i], t)
         /\ t.identity \in BoundIdentities(ResolveFederation(o).value)
<1>. DEFINE P == ResolveFederation(o).value
<1>1. P = [k \in DOMAIN o |-> Provider(o[k])] /\ DOMAIN P = DOMAIN o
  BY FederationVerdict
<1>2. DOMAIN P \subseteq Nat
  <2>1. PICK S : o \in Seq(S)
    BY DEF AreStanzas, IsList
  <2>. QED BY <1>1, <2>1
<1>3. PICK i \in Vouching(P, token) :
        /\ Refusal(P[i], token, now) = Fine
        /\ t.identity = Bound(P[i], token)
        /\ t.expires = now + Lifetime(asked, P[i].ttl)
  BY <1>2, ExchangeVerdict
<1>4. /\ i \in DOMAIN P /\ P[i].issuer = token.iss
      /\ \E k \in DOMAIN P[i].keys : P[i].keys[k].pair = token.signer
  BY DEF Vouching, CandidateKeys, Verifies
<1>5. /\ P[i].skew \in Nat /\ P[i].ttl \in Nat /\ P[i].ttl > 0 /\ IsList(P[i].bindings)
      /\ \A j \in DOMAIN P[i].bindings : \A c \in DOMAIN P[i].bindings[j].claims :
           P[i].bindings[j].claims[c] # None
  BY <1>1, <1>4, ProviderFacts
<1>. DEFINE p == P[i]
            matched == {j \in DOMAIN p.bindings : BindingMatches(p.bindings[j], token)}
<1>. HIDE DEF P
<1>6. /\ token.exp \in Int /\ now <= token.exp + p.skew
      /\ SecondsClaim(token.nbf) # None => now >= token.nbf - p.skew
      /\ p.audience \in token.aud
      /\ matched # {} /\ ~(Cardinality(matched) > 1)
  BY <1>3, <1>5, RefusalVerdict
<1>7. matched = Satisfied(p, token)
  <2>1. ASSUME NEW j \in DOMAIN p.bindings
        PROVE  BindingMatches(p.bindings[j], token) <=>
                 \A c \in DOMAIN p.bindings[j].claims :
                   c \in DOMAIN token.claims /\ token.claims[c] = p.bindings[j].claims[c]
    BY <1>5 DEF BindingMatches, StringClaim
  <2>. QED BY <2>1 DEF Satisfied
<1>8. Cardinality(matched) = 1 /\ \A x, y \in matched : x = y
  <2>1. matched \in SUBSET DOMAIN p.bindings
    OBVIOUS
  <2>. HIDE DEF matched
  <2>. QED BY <1>5, <1>6, <2>1, OneOf
<1>9. \A b \in matched : p.bindings[b].identity = t.identity
  <2>. DEFINE chosen == CHOOSE j \in DOMAIN p.bindings : BindingMatches(p.bindings[j], token)
  <2>1. chosen \in matched
    BY <1>6
  <2>2. t.identity = p.bindings[chosen].identity
    BY <1>3 DEF Bound
  <2>. HIDE DEF chosen, matched
  <2>. QED BY <1>8, <2>1, <2>2
<1>10. now < t.expires /\ t.expires <= now + p.ttl
  <2>1. asked \in Nat \cup {None}
    BY TokenAssumption
  <2>2. Lifetime(asked, p.ttl) \in Nat /\ Lifetime(asked, p.ttl) > 0 /\ Lifetime(asked, p.ttl) <= p.ttl
    BY <1>5, <2>1 DEF Lifetime
  <2>. QED BY <1>3, <1>5, <2>2
<1>11. Justifies(p, t)
  BY <1>4, <1>6, <1>7, <1>8, <1>9, <1>10 DEF Justifies
<1>12. t.identity \in BoundIdentities(P)
  <2>1. PICK b \in matched : p.bindings[b].identity = t.identity
    BY <1>6, <1>9
  <2>. QED BY <1>4, <2>1 DEF BoundIdentities
<1>. QED BY <1>4, <1>11, <1>12 DEF P

LEMMA MintStep ==
  ASSUME Shape, Loaded, [Next]_vars, NEW t \in tokens' \ tokens
  PROVE  /\ \E i \in DOMAIN Providers("server") : Justifies(Providers("server")[i], t)
         /\ t.identity \in DOMAIN Policies("server").identities
         /\ trail'[t.entry].kind = "minted" /\ trail'[t.entry].identity = t.identity
<1>1. \E token \in IdTokens, asked \in Asked, now \in 0..MaxClock : Login(token, asked, now)
  <2>1. CASE \E x \in Procs : Load(x) \/ FromFiles(x)
    BY <2>1 DEF Load, FromFiles
  <2>2. CASE Start \/ StoreState
    BY <2>2 DEF Start, OpenStore, Migrate, MigrationFails, Unseal, RecordSurface, StoreState,
                RecordQuarantined, NothingQuarantined, NotRecorded, Serve, Stop
  <2>3. CASE \E token \in IdTokens, now \in 0..MaxClock : MintFails(token, now)
    BY <2>3 DEF MintFails
  <2>4. CASE Operator \/ UNCHANGED vars
    BY <2>4, OperatorStays DEF vars
  <2>. QED BY <2>1, <2>2, <2>3, <2>4 DEF Next
<1>2. PICK token \in IdTokens, asked \in Asked, now \in 0..MaxClock : Login(token, asked, now)
  BY <1>1
<1>. DEFINE o == proc["server"].config.oidc
            result == Exchange(ResolveFederation(o).value, token, now)
            row == [identity |-> result.identity, source |-> token, minted |-> now,
                    entry |-> Len(trail) + 1, expires |-> now + Lifetime(asked, result.ttl)]
<1>3. /\ proc["server"].at = "serving" /\ asked # 0 /\ result.outcome = "accepted"
      /\ trail' = Append(trail, LoginEntryOf("minted", result)) /\ tokens' = tokens \cup {row}
  <2>1. /\ proc["server"].at = "serving" /\ asked # 0
        /\ CASE result.outcome = "refused" ->
                  /\ trail' = Append(trail, LoginEntryOf("login-refused", result))
                  /\ UNCHANGED tokens
             [] result.outcome = "accepted" ->
                  /\ trail' = Append(trail, LoginEntryOf("minted", result))
                  /\ tokens' = tokens \cup {row}
             [] OTHER -> UNCHANGED <<trail, tokens>>
    BY <1>2 DEF Login, Providers
  <2>. HIDE DEF result, row
  <2>2. ~(UNCHANGED tokens)
    OBVIOUS
  <2>3. CASE result.outcome = "refused"
    BY <2>1, <2>2, <2>3
  <2>4. CASE result.outcome = "accepted"
    BY <2>1, <2>4
  <2>5. CASE result.outcome \notin {"refused", "accepted"}
    BY <2>1, <2>2, <2>5
  <2>. QED BY <2>3, <2>4, <2>5
<1>4. t = row
  BY <1>3
<1>5. /\ AreStanzas(o)
      /\ FilesProblem(proc["server"].build, proc["server"].config, proc["server"].file) = Fine
  BY <1>3 DEF Loaded, Procs
<1>6. ResolveFederation(o).ok
  BY <1>5, FilesVerdict
<1>7. now \in Nat
  OBVIOUS
<1>8. /\ \E i \in DOMAIN ResolveFederation(o).value : Justifies(ResolveFederation(o).value[i], t)
      /\ t.identity \in BoundIdentities(ResolveFederation(o).value)
  <2>1. /\ t.source = token /\ t.minted = now /\ t.identity = result.identity
        /\ t.expires = now + Lifetime(asked, result.ttl)
    BY <1>4
  <2>. QED BY <1>3, <1>5, <1>6, <1>7, <2>1, MintVerdict
<1>9. t.identity \in DOMAIN Policies("server").identities
  BY <1>5, <1>8, FilesVerdict DEF Policies
<1>10. trail'[t.entry].kind = "minted" /\ trail'[t.entry].identity = t.identity
  <2>1. PICK S : trail \in Seq(S)
    BY DEF Shape, TrailShape
  <2>2. trail'[Len(trail) + 1] = LoginEntryOf("minted", result)
    BY <1>3, <2>1
  <2>3. t.entry = Len(trail) + 1 /\ t.identity = result.identity
    BY <1>4
  <2>4. LoginEntryOf("minted", result).kind = "minted"
        /\ LoginEntryOf("minted", result).identity = result.identity
    BY DEF LoginEntryOf
  <2>. QED BY <2>2, <2>3, <2>4
<1>. QED BY <1>8, <1>9, <1>10 DEF Providers

\* A login mints only what a provider signed for: for its audience, in its time,
\* for exactly one binding, an identity with rules, within the ceiling, and with an
\* entry that names it (Federation::exchange, oidc_login).
THEOREM MintIsJustifiedHolds == Spec => MintIsJustified
<1>1. (Shape /\ Loaded) /\ [Next]_vars =>
        [ \A t \in tokens' \ tokens :
            /\ \E i \in DOMAIN Providers("server") : Justifies(Providers("server")[i], t)
            /\ t.identity \in DOMAIN Policies("server").identities
            /\ trail'[t.entry].kind = "minted" /\ trail'[t.entry].identity = t.identity ]_vars
  BY MintStep
<1>. QED BY <1>1, LoadedInvariant, PTL DEF Spec, MintIsJustified

-----------------------------------------------------------------------------
(* A pattern matches what the documentation says it covers.                *)

\* What PathPattern::parse lets through: '**' at the end or nowhere.
Pattern(p) == IsText(p) /\ \A i \in 1..Len(p) : p[i] = Rest => i = Len(p)

\* One turn of the scan, given what the scan says of the rest.
Turn(f, p, q) ==
  [i \in 1..Len(p) + 1 |->
     IF i > Len(p) THEN i > Len(q)
     ELSE IF i > Len(q) THEN FALSE
     ELSE IF p[i] = Rest THEN TRUE
     ELSE IF p[i] = One THEN f[i + 1]
     ELSE p[i] = q[i] /\ f[i + 1]]

\* What the scan has found when it is at a segment, without scanning.
Suffix(p, q) ==
  LET open == p[Len(p)] = Rest
      n    == IF open THEN Len(p) - 1 ELSE Len(p)
  IN  [i \in 1..Len(p) + 1 |->
         IF i > Len(p) THEN i > Len(q)
         ELSE /\ IF open THEN Len(q) > n ELSE Len(q) = n
              /\ \A j \in i..n : p[j] \in {One, q[j]}]

LEMMA ScanIsTurn ==
  ASSUME NEW p, NEW q
  PROVE  Matches(p, q) = (CHOOSE f : f = Turn(f, p, q))[1]
BY DEF Matches, Turn

\* What the scan is meant to find is what one turn after the other finds.
LEMMA SuffixTurns ==
  ASSUME NEW p, NEW q, Pattern(p), IsText(q)
  PROVE  Suffix(p, q) = Turn(Suffix(p, q), p, q)
<1>. DEFINE L == Len(p)
            M == Len(q)
            open == p[L] = Rest
            n == IF open THEN L - 1 ELSE L
            g == Suffix(p, q)
            fits == IF open THEN M > n ELSE M = n
            from(i) == \A j \in i..n : p[j] \in {One, q[j]}
            turn(i) == IF i > L THEN i > M
                       ELSE IF i > M THEN FALSE
                       ELSE IF p[i] = Rest THEN TRUE
                       ELSE IF p[i] = One THEN g[i + 1]
                       ELSE p[i] = q[i] /\ g[i + 1]
<1>1. L \in Nat /\ M \in Nat /\ L > 0 /\ M > 0
  BY DEF Pattern, IsText, IsList
<1>2. g = [i \in 1..L + 1 |-> IF i > L THEN i > M ELSE fits /\ from(i)]
  BY DEF Suffix
<1>3. Turn(g, p, q) = [i \in 1..L + 1 |-> turn(i)]
  BY DEF Turn
<1>. DEFINE meant(i) == IF i > L THEN i > M ELSE fits /\ from(i)
<1>4. ASSUME NEW i \in 1..L + 1 PROVE meant(i) = turn(i)
  <2>1. CASE i > L
    BY <2>1
  <2>2. CASE i <= L /\ i > M
    <3>1. ~fits
      BY <1>1, <2>2
    <3>2. meant(i) = FALSE
      BY <1>1, <2>2, <3>1
    <3>3. turn(i) = FALSE
      BY <1>1, <2>2
    <3>. QED BY <3>2, <3>3
  <2>3. CASE i <= L /\ i <= M /\ p[i] = Rest
    <3>1. i = L /\ open
      BY <1>1, <2>3 DEF Pattern
    <3>2. fits /\ from(i)
      BY <1>1, <2>3, <3>1
    <3>3. meant(i) = TRUE
      <4>1. ~(i > L)
        BY <1>1, <2>3
      <4>. HIDE DEF fits, from
      <4>. QED BY <3>2, <4>1
    <3>4. turn(i) = TRUE
      BY <1>1, <2>3
    <3>. QED BY <3>3, <3>4
  <2>4. CASE i < L /\ i <= M /\ p[i] # Rest
    <3>1. i + 1 \in 1..L + 1 /\ ~(i + 1 > L) /\ i \in i..n /\ ~(i > L) /\ ~(i > M)
      BY <1>1, <2>4
    <3>2. g[i + 1] = (fits /\ from(i + 1))
      <4>. HIDE DEF fits, from, g
      <4>. QED BY <1>2, <3>1
    <3>3. from(i) <=> (p[i] \in {One, q[i]} /\ from(i + 1))
      BY <1>1, <2>4, <3>1
    <3>4. meant(i) = (fits /\ from(i))
      <4>. HIDE DEF fits, from
      <4>. QED BY <3>1
    <3>5. turn(i) = IF p[i] = One THEN g[i + 1] ELSE p[i] = q[i] /\ g[i + 1]
      <4>. HIDE DEF g
      <4>. QED BY <2>4, <3>1
    <3>6. CASE p[i] = One
      <4>1. (fits /\ from(i)) = (fits /\ from(i + 1))
        BY <3>3, <3>6
      <4>. HIDE DEF meant, turn, g
      <4>. QED BY <3>2, <3>4, <3>5, <3>6, <4>1
    <3>7. CASE p[i] # One
      <4>1. (fits /\ from(i)) = (p[i] = q[i] /\ (fits /\ from(i + 1)))
        BY <3>3, <3>7
      <4>2. turn(i) = (p[i] = q[i] /\ g[i + 1])
        <5>. HIDE DEF turn, g
        <5>. QED BY <3>5, <3>7
      <4>3. CASE fits /\ from(i + 1)
        <5>1. g[i + 1] = TRUE
          <6>. HIDE DEF g, fits, from
          <6>. QED BY <3>2, <4>3
        <5>. HIDE DEF meant, turn, g, fits, from
        <5>. QED BY <3>4, <4>1, <4>2, <4>3, <5>1
      <4>4. CASE ~(fits /\ from(i + 1))
        <5>1. g[i + 1] = FALSE
          <6>. HIDE DEF g, fits, from
          <6>. QED BY <3>2, <4>4
        <5>. HIDE DEF meant, turn, g, fits, from
        <5>. QED BY <3>4, <4>1, <4>2, <4>4, <5>1
      <4>. QED BY <4>3, <4>4
    <3>. QED BY <3>6, <3>7
  <2>5. CASE i = L /\ i <= M /\ p[i] # Rest
    <3>1. ~open /\ n = L /\ L + 1 \in 1..L + 1 /\ L + 1 > L /\ ~(i > L) /\ ~(i > M)
      BY <1>1, <2>5
    <3>2. g[i + 1] = (L + 1 > M)
      <4>. HIDE DEF fits, from, g
      <4>. QED BY <1>2, <2>5, <3>1
    <3>3. fits <=> L + 1 > M
      BY <1>1, <2>5, <3>1
    <3>4. from(i) <=> p[i] \in {One, q[i]}
      BY <1>1, <2>5, <3>1
    <3>5. meant(i) = (p[i] \in {One, q[i]} /\ L + 1 > M)
      <4>1. meant(i) = (fits /\ from(i))
        <5>. HIDE DEF fits, from
        <5>. QED BY <3>1
      <4>. QED BY <3>3, <3>4, <4>1
    <3>6. turn(i) = IF p[i] = One THEN g[i + 1] ELSE p[i] = q[i] /\ g[i + 1]
      <4>. HIDE DEF g
      <4>. QED BY <2>5, <3>1
    <3>7. CASE p[i] = One
      <4>. HIDE DEF meant, turn, g
      <4>. QED BY <3>2, <3>5, <3>6, <3>7
    <3>8. CASE p[i] # One
      <4>1. turn(i) = (p[i] = q[i] /\ g[i + 1])
        <5>. HIDE DEF turn, g
        <5>. QED BY <3>6, <3>8
      <4>2. meant(i) = (p[i] = q[i] /\ L + 1 > M)
        <5>. HIDE DEF meant
        <5>. QED BY <3>5, <3>8
      <4>3. CASE L + 1 > M
        <5>1. g[i + 1] = TRUE
          <6>. HIDE DEF g
          <6>. QED BY <3>2, <4>3
        <5>. HIDE DEF meant, turn, g
        <5>. QED BY <4>1, <4>2, <4>3, <5>1
      <4>4. CASE ~(L + 1 > M)
        <5>1. g[i + 1] = FALSE
          <6>1. (L + 1 > M) = FALSE
            BY <4>4
          <6>. HIDE DEF g, L, M
          <6>. QED BY <3>2, <6>1
        <5>. HIDE DEF meant, turn, g
        <5>. QED BY <4>1, <4>2, <4>4, <5>1
      <4>. QED BY <4>3, <4>4
    <3>. QED BY <3>7, <3>8
  <2>. HIDE DEF meant, turn
  <2>. QED BY <1>1, <2>1, <2>2, <2>3, <2>4, <2>5
<1>5. g = [i \in 1..L + 1 |-> meant(i)]
  BY <1>2
<1>. HIDE DEF g, meant, turn
<1>. QED BY <1>3, <1>4, <1>5 DEF g

\* There is one scan only: of two the last difference would be a difference behind it.
LEMMA OneScan ==
  ASSUME NEW p, NEW q, IsText(p), NEW f, NEW g, f = Turn(f, p, q), g = Turn(g, p, q),
         NEW i \in 1..Len(p) + 1
  PROVE  f[i] = g[i]
<1>1. Len(p) \in Nat
  BY DEF IsText, IsList
<1>. DEFINE L == Len(p)
            D == {d \in 0..L : f[L + 1 - d] # g[L + 1 - d]}
            turn(h, j) == IF j > Len(p) THEN j > Len(q)
                          ELSE IF j > Len(q) THEN FALSE
                          ELSE IF p[j] = Rest THEN TRUE
                          ELSE IF p[j] = One THEN h[j + 1]
                          ELSE p[j] = q[j] /\ h[j + 1]
<1>2. ASSUME NEW j \in 1..L + 1 PROVE f[j] = turn(f, j) /\ g[j] = turn(g, j)
  <2>1. Turn(f, p, q)[j] = turn(f, j) /\ Turn(g, p, q)[j] = turn(g, j)
    BY DEF Turn
  <2>. QED BY <2>1
<1>3. D = {}
  <2>. SUFFICES ASSUME D # {} PROVE FALSE
    OBVIOUS
  <2>1. D \in SUBSET Nat
    BY <1>1
  <2>2. PICK d \in D : \A c \in D : d <= c
    <3>. HIDE DEF D
    <3>. QED BY <2>1, LeastHas
  <2>. DEFINE j == L + 1 - d
  <2>3. d \in 0..L /\ j \in 1..L + 1 /\ f[j] # g[j]
    BY <1>1, <2>2
  <2>4. CASE d = 0
    <3>1. turn(f, j) = turn(g, j)
      <4>1. j > Len(p)
        BY <1>1, <2>4
      <4>. HIDE DEF j
      <4>. QED BY <4>1
    <3>. QED BY <1>2, <2>3, <3>1
  <2>5. CASE d > 0
    <3>1. d - 1 \in 0..L /\ d - 1 \notin D
      BY <1>1, <2>2, <2>3, <2>5
    <3>2. f[L + 1 - (d - 1)] = g[L + 1 - (d - 1)]
      BY <3>1
    <3>3. L + 1 - (d - 1) = j + 1
      BY <1>1, <2>3
    <3>4. f[j + 1] = g[j + 1]
      BY <3>2, <3>3
    <3>5. turn(f, j) = turn(g, j)
      <4>. HIDE DEF j
      <4>. QED BY <3>4
    <3>. QED BY <1>2, <2>3, <3>5
  <2>. QED BY <1>1, <2>3, <2>4, <2>5
<1>4. L + 1 - i \in 0..L /\ L + 1 - (L + 1 - i) = i
  BY <1>1
<1>. QED BY <1>3, <1>4

\* PathPattern::matches scans once and finds what the documentation says.
LEMMA MatchesIsCovers ==
  ASSUME NEW p, NEW q, Pattern(p), IsText(q)
  PROVE  Matches(p, q) <=> Covers(p, q)
<1>. DEFINE f == CHOOSE h : h = Turn(h, p, q)
<1>1. f = Turn(f, p, q)
  BY SuffixTurns
<1>2. Len(p) \in Nat /\ Len(p) > 0 /\ IsText(p) /\ 1 \in 1..Len(p) + 1
  BY DEF Pattern, IsText, IsList
<1>3. f[1] = Suffix(p, q)[1]
  <2>. HIDE DEF f
  <2>. QED BY <1>1, <1>2, SuffixTurns, OneScan
<1>4. Suffix(p, q)[1] <=> Covers(p, q)
  BY <1>2 DEF Suffix, Covers
<1>. QED BY <1>3, <1>4, ScanIsTurn

\* A wildcard counts for nothing, so a pattern is as specific as it is long at most.
LEMMA SpecificityRange ==
  ASSUME NEW p, IsText(p)
  PROVE  /\ Specificity(p) \in Nat /\ Specificity(p) <= Len(p)
         /\ (\A i \in 1..Len(p) : p[i] \notin {One, Rest}) => Specificity(p) = Len(p)
<1>. DEFINE literal == {i \in DOMAIN p : p[i] \notin {One, Rest}}
<1>1. Len(p) \in Nat /\ DOMAIN p = 1..Len(p)
  BY DEF IsText, IsList
<1>2. IsFiniteSet(1..Len(p)) /\ Cardinality(1..Len(p)) = Len(p)
  <2>1. /\ IsFiniteSet(1..Len(p))
        /\ Cardinality(1..Len(p)) = IF 1 > Len(p) THEN 0 ELSE Len(p) - 1 + 1
    BY <1>1, FS_Interval
  <2>. QED BY <1>1, <2>1
<1>3. literal \in SUBSET (1..Len(p))
  BY <1>1
<1>4. IsFiniteSet(literal) /\ Cardinality(literal) <= Cardinality(1..Len(p))
  <2>. HIDE DEF literal
  <2>. QED BY <1>2, <1>3, FS_Subset
<1>5. Cardinality(literal) \in Nat
  <2>. HIDE DEF literal
  <2>. QED BY <1>4, FS_CardinalityType
<1>6. ASSUME \A i \in 1..Len(p) : p[i] \notin {One, Rest} PROVE literal = 1..Len(p)
  BY <1>1, <1>6
<1>7. Specificity(p) = Cardinality(literal)
  BY DEF Specificity
<1>. HIDE DEF literal
<1>. QED BY <1>2, <1>4, <1>5, <1>6, <1>7

\* No pattern is longer than what it covers.
LEMMA CoversLength ==
  ASSUME NEW p, NEW q, IsText(p), IsText(q), Covers(p, q)
  PROVE  Len(p) <= Len(q)
<1>1. Len(p) \in Nat /\ Len(q) \in Nat
  BY DEF IsText, IsList
<1>. QED BY <1>1 DEF Covers

\* What the winners come to, said without the winners.
GrantedAmong(M, c) ==
  \E r \in M : \A s \in M : Specificity(s.pattern) >= Specificity(r.pattern) => c \in s.capabilities

\* Some matching rule is the most specific one.
LEMMA SomeWinner ==
  ASSUME NEW M, M # {}, NEW n \in Nat, \A m \in M : Specificity(m.pattern) \in 0..n
  PROVE  MostSpecific(M) # {}
<1>. DEFINE D == {n - Specificity(m.pattern) : m \in M}
<1>1. D \in SUBSET Nat /\ D # {}
  OBVIOUS
<1>2. PICK d \in D : \A e \in D : d <= e
  <2>. HIDE DEF D
  <2>. QED BY <1>1, LeastHas
<1>3. PICK m \in M : d = n - Specificity(m.pattern)
  BY <1>2
<1>4. ASSUME NEW k \in M PROVE Specificity(k.pattern) <= Specificity(m.pattern)
  <2>1. n - Specificity(k.pattern) \in D
    OBVIOUS
  <2>2. d <= n - Specificity(k.pattern)
    BY <1>2, <2>1
  <2>. QED BY <1>3, <2>2
<1>. QED BY <1>4 DEF MostSpecific

\* Deny by default, the most specific match wins, and on a tie denial wins.
LEMMA DecideGrants ==
  ASSUME NEW M, NEW n \in Nat, \A m \in M : Specificity(m.pattern) \in 0..n, NEW c
  PROVE  Decide(M, c).effect = "allow" <=> GrantedAmong(M, c)
<1>. DEFINE winners == MostSpecific(M)
            granting == {w \in winners : c \in w.capabilities}
<1>1. Decide(M, c).effect = "allow" <=> M # {} /\ granting = winners
  <2>1. \A r : Allow(r).effect = "allow"
    BY DEF Allow
  <2>2. \A y, r : Deny(y, r).effect = "deny"
    BY DEF Deny
  <2>. DEFINE r0 == NamedRule(winners)
              r1 == NamedRule(winners \ granting)
              why == IF granting = {} THEN "not-granted" ELSE "tie"
  <2>3. Decide(M, c) = IF M = {} THEN Deny("no-matching-rule", NoRule)
                       ELSE IF granting = winners THEN Allow(r0)
                       ELSE Deny(why, r1)
    BY DEF Decide
  <2>. HIDE DEF winners, granting, r0, r1, why
  <2>. QED BY <2>1, <2>2, <2>3
<1>2. granting = winners <=> \A w \in winners : c \in w.capabilities
  OBVIOUS
<1>3. ASSUME M # {}, \A w \in winners : c \in w.capabilities PROVE GrantedAmong(M, c)
  <2>1. PICK w \in winners : TRUE
    <3>. HIDE DEF winners
    <3>1. winners # {}
      BY <1>3, SomeWinner DEF winners
    <3>. QED BY <3>1
  <2>2. w \in M /\ \A m \in M : Specificity(m.pattern) <= Specificity(w.pattern)
    BY <2>1 DEF MostSpecific
  <2>3. ASSUME NEW s \in M, Specificity(s.pattern) >= Specificity(w.pattern)
        PROVE  c \in s.capabilities
    <3>1. s \in winners
      <4>1. ASSUME NEW m \in M PROVE Specificity(m.pattern) <= Specificity(s.pattern)
        BY <2>2, <2>3
      <4>. QED BY <4>1 DEF MostSpecific
    <3>. HIDE DEF winners
    <3>. QED BY <1>3, <3>1
  <2>. QED BY <2>2, <2>3 DEF GrantedAmong
<1>4. ASSUME GrantedAmong(M, c) PROVE M # {} /\ \A w \in winners : c \in w.capabilities
  <2>1. PICK r \in M : \A s \in M : Specificity(s.pattern) >= Specificity(r.pattern)
                                      => c \in s.capabilities
    BY <1>4 DEF GrantedAmong
  <2>2. ASSUME NEW w \in winners PROVE c \in w.capabilities
    <3>1. w \in M /\ Specificity(r.pattern) <= Specificity(w.pattern)
      BY <2>1 DEF MostSpecific
    <3>. QED BY <2>1, <3>1
  <2>. QED BY <2>1, <2>2
<1>. HIDE DEF winners, granting
<1>. QED BY <1>1, <1>2, <1>3, <1>4

\* PolicySet::evaluate decides as the documentation of the evaluation says.
LEMMA EvaluateGrants ==
  ASSUME NEW set, NEW i \in DOMAIN set.identities, NEW q, IsText(q), NEW c,
         \A r \in RulesOf(set, i) : Pattern(r.pattern)
  PROVE  Allowed(set, i, q, c) <=> Granted(RulesOf(set, i), q, c)
<1>. DEFINE R == RulesOf(set, i)
            M == {r \in R : Matches(r.pattern, q)}
            C == {r \in R : Covers(r.pattern, q)}
<1>1. ASSUME NEW r \in R PROVE Pattern(r.pattern) /\ IsText(r.pattern)
                               /\ (Matches(r.pattern, q) <=> Covers(r.pattern, q))
  <2>1. Pattern(r.pattern)
    OBVIOUS
  <2>. HIDE DEF R
  <2>. QED BY <2>1, MatchesIsCovers DEF Pattern
<1>2. M = C
  <2>. HIDE DEF R
  <2>. QED BY <1>1
<1>3. Len(q) \in Nat
  BY DEF IsText, IsList
<1>4. ASSUME NEW m \in M PROVE Specificity(m.pattern) \in 0..Len(q)
  <2>1. m \in R /\ Covers(m.pattern, q) /\ IsText(m.pattern)
    <3>. HIDE DEF R
    <3>. QED BY <1>1
  <2>2. Specificity(m.pattern) \in Nat /\ Specificity(m.pattern) <= Len(m.pattern)
    BY <2>1, SpecificityRange
  <2>3. Len(m.pattern) <= Len(q) /\ Len(m.pattern) \in Nat
    BY <2>1, CoversLength DEF IsText, IsList
  <2>. QED BY <1>3, <2>2, <2>3
<1>5. Allowed(set, i, q, c) <=> Decide(M, c).effect = "allow"
  BY DEF Allowed, Evaluate
<1>6. Decide(M, c).effect = "allow" <=> GrantedAmong(M, c)
  <2>. HIDE DEF M
  <2>. QED BY <1>3, <1>4, DecideGrants
<1>7. Granted(R, q, c) <=> GrantedAmong(C, c)
  BY DEF Granted, GrantedAmong
<1>. HIDE DEF R, M, C
<1>. QED BY <1>2, <1>5, <1>6, <1>7 DEF R

\* Two sets of rules say the same when each says what the other says.
Says(A, B) == \A a \in A : \E b \in B : b.pattern = a.pattern /\ b.capabilities = a.capabilities

LEMMA GrantedSame ==
  ASSUME NEW A, NEW B, Says(A, B), Says(B, A), NEW q, NEW c
  PROVE  Granted(A, q, c) <=> Granted(B, q, c)
<1>1. ASSUME NEW X, NEW Y, Says(X, Y), Says(Y, X), Granted(X, q, c) PROVE Granted(Y, q, c)
  <2>1. PICK r \in X :
          /\ Covers(r.pattern, q)
          /\ \A s \in X : /\ Covers(s.pattern, q)
                          /\ Specificity(s.pattern) >= Specificity(r.pattern)
                          => c \in s.capabilities
    BY <1>1 DEF Granted
  <2>2. PICK b \in Y : b.pattern = r.pattern
    BY <1>1 DEF Says
  <2>3. ASSUME NEW s \in Y, Covers(s.pattern, q),
               Specificity(s.pattern) >= Specificity(b.pattern)
        PROVE  c \in s.capabilities
    <3>1. PICK a \in X : a.pattern = s.pattern /\ a.capabilities = s.capabilities
      BY <1>1 DEF Says
    <3>. QED BY <2>1, <2>2, <2>3, <3>1
  <2>. QED BY <2>1, <2>2, <2>3 DEF Granted
<1>. QED BY <1>1

\* A text has as many segments when it is normalized.
LEMMA TextNormalizes ==
  ASSUME NEW x, IsText(x)
  PROVE  IsText(Normalize(x)) /\ Len(Normalize(x)) = Len(x)
<1>. DEFINE text == Normalize(x)
<1>1. x \in Seq({x[i] : i \in DOMAIN x}) /\ Len(x) # 0
  BY DEF IsText, IsList
<1>2. text \in Seq({text[i] : i \in DOMAIN text}) /\ Len(text) = Len(x)
  BY <1>1 DEF Normalize
<1>3. text # <<>>
  BY <1>1, <1>2
<1>. QED BY <1>2, <1>3 DEF IsText, IsList

\* What a parser has found when it succeeds.
LEMMA PatternVerdict ==
  ASSUME NEW x, IsText(x), ParsePattern(x).ok
  PROVE  ParsePattern(x).value = Normalize(x) /\ Pattern(Normalize(x))
<1>. DEFINE text == Normalize(x)
            bad == {i \in 1..Len(text) : PatternSegment(text[i], i = Len(text)) # Fine}
            least == CHOOSE i \in bad : \A j \in bad : i <= j
            first == IF bad = {} THEN Fine ELSE PatternSegment(text[least], least = Len(text))
            whole == WholeText(text)
<1>1. ParsePattern(x) = IF whole # Fine THEN Err(whole)
                        ELSE IF first # Fine THEN Err(first) ELSE Ok(text)
  BY DEF ParsePattern, FirstProblem
<1>2. ASSUME NEW e PROVE ~Err(e).ok
  BY DEF Err
<1>3. first = Fine /\ ParsePattern(x) = Ok(text)
  <2>. HIDE DEF text, first, whole
  <2>. QED BY <1>1, <1>2
<1>4. bad = {}
  <2>. SUFFICES ASSUME bad # {} PROVE FALSE
    OBVIOUS
  <2>1. bad \in SUBSET Nat
    OBVIOUS
  <2>2. least \in bad
    <3>. HIDE DEF bad
    <3>. QED BY <2>1, LeastOf
  <2>3. PatternSegment(text[least], least = Len(text)) # Fine
    <3>. HIDE DEF least
    <3>. QED BY <2>2
  <2>4. first = PatternSegment(text[least], least = Len(text))
    <3>. HIDE DEF bad, least, text
    <3>. QED OBVIOUS
  <2>. QED BY <1>3, <2>3, <2>4
<1>5. IsText(text)
  BY TextNormalizes
<1>6. ASSUME NEW i \in 1..Len(text), text[i] = Rest PROVE i = Len(text)
  <2>1. PatternSegment(text[i], i = Len(text)) = Fine
    BY <1>4
  <2>2. Rest # One /\ "trailing-multi-wildcard-only" # Fine
    BY DEF Rest, One, Fine
  <2>. HIDE DEF text
  <2>. QED BY <1>6, <2>1, <2>2 DEF PatternSegment
<1>7. Pattern(text)
  BY <1>5, <1>6 DEF Pattern
<1>. QED BY <1>3, <1>7 DEF Ok

LEMMA PathVerdict ==
  ASSUME NEW x, IsText(x), ParsePath(x).ok
  PROVE  /\ ParsePath(x).value = Normalize(x) /\ IsText(Normalize(x))
         /\ \A i \in 1..Len(Normalize(x)) : Normalize(x)[i] \notin {One, Rest}
<1>. DEFINE text == Normalize(x)
            bad == {i \in 1..Len(text) : PathSegment(text[i]) # Fine}
            least == CHOOSE i \in bad : \A j \in bad : i <= j
            first == IF bad = {} THEN Fine ELSE PathSegment(text[least])
            whole == WholeText(text)
<1>1. ParsePath(x) = IF whole # Fine THEN Err(whole)
                     ELSE IF first # Fine THEN Err(first) ELSE Ok(text)
  BY DEF ParsePath, FirstProblem
<1>2. ASSUME NEW e PROVE ~Err(e).ok
  BY DEF Err
<1>3. first = Fine /\ ParsePath(x) = Ok(text)
  <2>. HIDE DEF text, first, whole
  <2>. QED BY <1>1, <1>2
<1>4. bad = {}
  <2>. SUFFICES ASSUME bad # {} PROVE FALSE
    OBVIOUS
  <2>1. bad \in SUBSET Nat
    OBVIOUS
  <2>2. least \in bad
    <3>. HIDE DEF bad
    <3>. QED BY <2>1, LeastOf
  <2>3. PathSegment(text[least]) # Fine
    <3>. HIDE DEF least
    <3>. QED BY <2>2
  <2>4. first = PathSegment(text[least])
    <3>. HIDE DEF bad, least, text
    <3>. QED OBVIOUS
  <2>. QED BY <1>3, <2>3, <2>4
<1>5. IsText(text)
  BY TextNormalizes
<1>6. ASSUME NEW i \in 1..Len(text) PROVE text[i] \notin {One, Rest}
  <2>1. PathSegment(text[i]) = Fine
    BY <1>4
  <2>2. "wildcard" # Fine
    BY DEF Fine
  <2>. HIDE DEF text
  <2>. QED BY <2>1, <2>2 DEF PathSegment
<1>. QED BY <1>3, <1>5, <1>6 DEF Ok

\* What from_toml has found when it succeeds.
PolicyFine(f, p) ==
  /\ \A k \in 1..Len(f.policy[p].rule) : ParsePattern(f.policy[p].rule[k].path).ok
  /\ \A j \in 1..p - 1 : f.policy[j].name # f.policy[p].name

IdentityFine(f, n) ==
  /\ \A k \in 1..Len(f.identity[n].policies) : f.identity[n].policies[k] \in NamesOf(f.policy)
  /\ \A j \in 1..n - 1 : f.identity[j].name # f.identity[n].name

LEMMA RuleVerdict ==
  ASSUME NEW rules, NEW k, RuleProblem(rules, k) = Fine
  PROVE  ParsePattern(rules[k].path).ok
<1>1. "pattern" # Fine
  BY DEF Fine
<1>. QED BY <1>1 DEF RuleProblem

LEMMA PolicyVerdict ==
  ASSUME NEW f, NEW p, PolicyProblem(f.policy, p) = Fine
  PROVE  PolicyFine(f, p)
<1>. DEFINE raw == f.policy[p].rule
            bad == {k \in 1..Len(raw) : RuleProblem(raw, k) # Fine}
            least == CHOOSE i \in bad : \A j \in bad : i <= j
            within == IF bad = {} THEN Fine ELSE RuleProblem(raw, least)
            twice == \E j \in 1..p - 1 : f.policy[j].name = f.policy[p].name
<1>1. PolicyProblem(f.policy, p) = IF within # Fine THEN within
                                   ELSE IF twice THEN "duplicate-policy" ELSE Fine
  BY DEF PolicyProblem, FirstProblem
<1>2. "duplicate-policy" # Fine
  BY DEF Fine
<1>3. within = Fine /\ ~twice
  <2>. HIDE DEF within, twice
  <2>. QED BY <1>1, <1>2
<1>4. bad = {}
  <2>. SUFFICES ASSUME bad # {} PROVE FALSE
    OBVIOUS
  <2>1. bad \in SUBSET Nat
    OBVIOUS
  <2>2. least \in bad
    <3>. HIDE DEF bad
    <3>. QED BY <2>1, LeastOf
  <2>3. RuleProblem(raw, least) # Fine
    <3>. HIDE DEF least
    <3>. QED BY <2>2
  <2>4. within = RuleProblem(raw, least)
    <3>. HIDE DEF bad, least, raw
    <3>. QED OBVIOUS
  <2>. QED BY <1>3, <2>3, <2>4
<1>. QED BY <1>3, <1>4, RuleVerdict DEF PolicyFine

LEMMA IdentityVerdict ==
  ASSUME NEW f, NEW n, IdentityProblem(f, n) = Fine
  PROVE  IdentityFine(f, n)
<1>. DEFINE identity == f.identity[n]
            known == {f.policy[k].name : k \in DOMAIN f.policy}
            problem(k) == IF identity.policies[k] \notin known THEN "unknown-policy"
                          ELSE IF \E j \in 1..k - 1 : identity.policies[j] = identity.policies[k]
                            THEN "duplicate-policy-reference" ELSE Fine
            bad == {k \in 1..Len(identity.policies) : problem(k) # Fine}
            least == CHOOSE i \in bad : \A j \in bad : i <= j
            within == IF bad = {} THEN Fine ELSE problem(least)
            strange == identity.kind \notin IdentityKinds
            twice == \E j \in 1..n - 1 : f.identity[j].name = identity.name
<1>1. IdentityProblem(f, n) = IF strange THEN "unknown-identity-kind"
                              ELSE IF within # Fine THEN within
                              ELSE IF twice THEN "duplicate-identity" ELSE Fine
  BY DEF IdentityProblem, FirstProblem
<1>2. "duplicate-identity" # Fine /\ "unknown-identity-kind" # Fine /\ "unknown-policy" # Fine
  BY DEF Fine
<1>3. within = Fine /\ ~twice
  <2>. HIDE DEF strange, within, twice
  <2>. QED BY <1>1, <1>2
<1>4. bad = {}
  <2>. SUFFICES ASSUME bad # {} PROVE FALSE
    OBVIOUS
  <2>1. bad \in SUBSET Nat
    OBVIOUS
  <2>2. least \in bad
    <3>. HIDE DEF bad
    <3>. QED BY <2>1, LeastOf
  <2>3. problem(least) # Fine
    <3>. HIDE DEF least, problem
    <3>. QED BY <2>2
  <2>4. within = problem(least)
    <3>. HIDE DEF bad, least, problem
    <3>. QED OBVIOUS
  <2>. HIDE DEF problem, within
  <2>. QED BY <1>3, <2>3, <2>4
<1>5. ASSUME NEW k \in 1..Len(identity.policies) PROVE identity.policies[k] \in known
  <2>1. problem(k) = Fine
    <3>. HIDE DEF problem
    <3>. QED BY <1>4
  <2>. HIDE DEF known
  <2>. QED BY <1>2, <2>1
<1>. QED BY <1>3, <1>5 DEF IdentityFine, NamesOf

LEMMA FileVerdict ==
  ASSUME NEW f, FromToml(f).ok
  PROVE  /\ f.syntax
         /\ \A p \in 1..Len(f.policy) : PolicyFine(f, p)
         /\ \A n \in 1..Len(f.identity) : IdentityFine(f, n)
         /\ FromToml(f).value =
              [identities |-> [n \in NamesOf(f.identity) |-> Named(f.identity, n).policies],
               policies |-> [n \in NamesOf(f.policy) |->
                               LET raw == Named(f.policy, n).rule
                               IN  [i \in DOMAIN raw |-> Rule(raw[i])]]]
<1>. DEFINE bad1 == {i \in 1..Len(f.policy) : PolicyProblem(f.policy, i) # Fine}
            bad2 == {i \in 1..Len(f.identity) : IdentityProblem(f, i) # Fine}
            least1 == CHOOSE i \in bad1 : \A j \in bad1 : i <= j
            least2 == CHOOSE i \in bad2 : \A j \in bad2 : i <= j
            first1 == IF bad1 = {} THEN Fine ELSE PolicyProblem(f.policy, least1)
            first2 == IF bad2 = {} THEN Fine ELSE IdentityProblem(f, least2)
<1>1. FileProblem(f) = IF ~f.syntax THEN "toml" ELSE IF first1 # Fine THEN first1 ELSE first2
  BY DEF FileProblem, FirstProblem
<1>2. FileProblem(f) = Fine
  BY DEF FromToml, Err
<1>3. "toml" # Fine
  BY DEF Fine
<1>4. f.syntax /\ first1 = Fine /\ first2 = Fine
  <2>. HIDE DEF first1, first2
  <2>. QED BY <1>1, <1>2, <1>3
<1>5. bad1 = {}
  <2>. SUFFICES ASSUME bad1 # {} PROVE FALSE
    OBVIOUS
  <2>1. bad1 \in SUBSET Nat
    OBVIOUS
  <2>2. least1 \in bad1
    <3>. HIDE DEF bad1
    <3>. QED BY <2>1, LeastOf
  <2>3. PolicyProblem(f.policy, least1) # Fine
    <3>. HIDE DEF least1
    <3>. QED BY <2>2
  <2>. QED BY <1>4, <2>3
<1>6. bad2 = {}
  <2>. SUFFICES ASSUME bad2 # {} PROVE FALSE
    OBVIOUS
  <2>1. bad2 \in SUBSET Nat
    OBVIOUS
  <2>2. least2 \in bad2
    <3>. HIDE DEF bad2
    <3>. QED BY <2>1, LeastOf
  <2>3. IdentityProblem(f, least2) # Fine
    <3>. HIDE DEF least2
    <3>. QED BY <2>2
  <2>. QED BY <1>4, <2>3
<1>7. FromToml(f) = Ok([identities |-> [n \in NamesOf(f.identity) |-> Named(f.identity, n).policies],
                        policies |-> [n \in NamesOf(f.policy) |->
                                        LET raw == Named(f.policy, n).rule
                                        IN  [i \in DOMAIN raw |-> Rule(raw[i])]]])
  BY <1>2 DEF FromToml
<1>8. FromToml(f).value =
        [identities |-> [n \in NamesOf(f.identity) |-> Named(f.identity, n).policies],
         policies |-> [n \in NamesOf(f.policy) |->
                         LET raw == Named(f.policy, n).rule
                         IN  [i \in DOMAIN raw |-> Rule(raw[i])]]]
  BY <1>7 DEF Ok
<1>9. \A p \in 1..Len(f.policy) : PolicyFine(f, p)
  BY <1>5, PolicyVerdict
<1>10. \A n \in 1..Len(f.identity) : IdentityFine(f, n)
  BY <1>6, IdentityVerdict
<1>. QED BY <1>4, <1>8, <1>9, <1>10

\* No two entries have a name in common.
Distinct(s) == \A a \in 1..Len(s) : \A b \in 1..a - 1 : s[b].name # s[a].name

LEMMA NamedIsThere ==
  ASSUME NEW s, NEW n \in NamesOf(s)
  PROVE  \E a \in DOMAIN s : s[a].name = n /\ Named(s, n) = s[a]
<1>1. \E a \in DOMAIN s : s[a].name = n
  BY DEF NamesOf
<1>. QED BY <1>1 DEF Named

LEMMA NamedIsOne ==
  ASSUME NEW s, IsList(s), Distinct(s), NEW a \in DOMAIN s
  PROVE  s[a].name \in NamesOf(s) /\ Named(s, s[a].name) = s[a]
<1>1. s[a].name \in NamesOf(s)
  BY DEF NamesOf
<1>2. PICK b \in DOMAIN s : s[b].name = s[a].name /\ Named(s, s[a].name) = s[b]
  BY <1>1, NamedIsThere
<1>3. DOMAIN s = 1..Len(s) /\ Len(s) \in Nat
  BY DEF IsList
<1>4. a = b
  <2>1. ~(a < b)
    BY <1>2, <1>3 DEF Distinct
  <2>2. ~(b < a)
    BY <1>2, <1>3 DEF Distinct
  <2>. QED BY <1>3, <2>1, <2>2
<1>. QED BY <1>1, <1>2, <1>4

\* What a loaded file is known to be.
LEMMA FileFacts ==
  ASSUME NEW f, IsPolicyFile(f), FromToml(f).ok
  PROVE  /\ f.syntax /\ IsList(f.policy) /\ IsList(f.identity)
         /\ Distinct(f.policy) /\ Distinct(f.identity)
         /\ \A p \in DOMAIN f.policy :
              /\ IsList(f.policy[p].rule)
              /\ \A k \in DOMAIN f.policy[p].rule :
                   /\ Rule(f.policy[p].rule[k]).pattern = Normalize(f.policy[p].rule[k].path)
                   /\ Pattern(Normalize(f.policy[p].rule[k].path))
         /\ \A n \in DOMAIN f.identity : \A m \in DOMAIN f.identity[n].policies :
              f.identity[n].policies[m] \in NamesOf(f.policy)
<1>1. /\ f.syntax
      /\ \A p \in 1..Len(f.policy) : PolicyFine(f, p)
      /\ \A n \in 1..Len(f.identity) : IdentityFine(f, n)
  BY FileVerdict
<1>2. /\ IsList(f.policy) /\ IsList(f.identity)
      /\ \A p \in DOMAIN f.policy :
           /\ IsList(f.policy[p].rule)
           /\ \A k \in DOMAIN f.policy[p].rule : IsRule(f.policy[p].rule[k])
      /\ \A n \in DOMAIN f.identity : IsList(f.identity[n].policies)
  BY <1>1 DEF IsPolicyFile
<1>3. \A s : IsList(s) => DOMAIN s = 1..Len(s)
  BY DEF IsList
<1>4. Distinct(f.policy) /\ Distinct(f.identity)
  BY <1>1 DEF PolicyFine, IdentityFine, Distinct
<1>5. ASSUME NEW p \in DOMAIN f.policy, NEW k \in DOMAIN f.policy[p].rule
      PROVE  /\ Rule(f.policy[p].rule[k]).pattern = Normalize(f.policy[p].rule[k].path)
             /\ Pattern(Normalize(f.policy[p].rule[k].path))
  <2>. DEFINE raw == f.policy[p].rule[k]
  <2>1. IsText(raw.path)
    BY <1>2 DEF IsRule
  <2>2. ParsePattern(raw.path).ok
    <3>1. DOMAIN f.policy = 1..Len(f.policy) /\ DOMAIN f.policy[p].rule = 1..Len(f.policy[p].rule)
      BY <1>2, <1>3
    <3>2. PolicyFine(f, p)
      BY <1>1, <3>1
    <3>. QED BY <3>1, <3>2 DEF PolicyFine
  <2>3. Rule(raw).pattern = ParsePattern(raw.path).value
    BY DEF Rule
  <2>. HIDE DEF raw
  <2>. QED BY <2>1, <2>2, <2>3, PatternVerdict DEF raw
<1>6. ASSUME NEW n \in DOMAIN f.identity, NEW m \in DOMAIN f.identity[n].policies
      PROVE  f.identity[n].policies[m] \in NamesOf(f.policy)
  <2>1. /\ DOMAIN f.identity = 1..Len(f.identity)
        /\ DOMAIN f.identity[n].policies = 1..Len(f.identity[n].policies)
    BY <1>2, <1>3
  <2>. QED BY <1>1, <2>1 DEF IdentityFine
<1>. QED BY <1>1, <1>2, <1>4, <1>5, <1>6

\* The loader attaches to an identity the rules that its file attaches to it.
LEMMA AttachedSays ==
  ASSUME NEW f, IsPolicyFile(f), FromToml(f).ok,
         NEW i \in DOMAIN FromToml(f).value.identities
  PROVE  /\ Says(AttachedRules(f, i), RulesOf(FromToml(f).value, i))
         /\ Says(RulesOf(FromToml(f).value, i), AttachedRules(f, i))
         /\ \A r \in RulesOf(FromToml(f).value, i) : Pattern(r.pattern)
<1>. DEFINE set == FromToml(f).value
            A == AttachedRules(f, i)
            R == RulesOf(set, i)
            as(p, k) == [pattern |-> Normalize(f.policy[p].rule[k].path),
                         capabilities |-> {f.policy[p].rule[k].capabilities[c] :
                                             c \in DOMAIN f.policy[p].rule[k].capabilities}]
            attached(p) == \E n \in DOMAIN f.identity :
                             /\ f.identity[n].name = i
                             /\ \E m \in DOMAIN f.identity[n].policies :
                                  f.identity[n].policies[m] = f.policy[p].name
            ruled(p, k) == [policy |-> p, pattern |-> set.policies[p][k].pattern,
                            capabilities |-> set.policies[p][k].capabilities]
<1>1. /\ IsList(f.policy) /\ IsList(f.identity) /\ Distinct(f.policy) /\ Distinct(f.identity)
      /\ \A p \in DOMAIN f.policy : \A k \in DOMAIN f.policy[p].rule :
           /\ Rule(f.policy[p].rule[k]).pattern = Normalize(f.policy[p].rule[k].path)
           /\ Pattern(Normalize(f.policy[p].rule[k].path))
      /\ \A n \in DOMAIN f.identity : \A m \in DOMAIN f.identity[n].policies :
           f.identity[n].policies[m] \in NamesOf(f.policy)
  BY FileFacts
<1>2. set = [identities |-> [n \in NamesOf(f.identity) |-> Named(f.identity, n).policies],
             policies |-> [n \in NamesOf(f.policy) |->
                             LET raw == Named(f.policy, n).rule
                             IN  [k \in DOMAIN raw |-> Rule(raw[k])]]]
  BY FileVerdict
<1>3. /\ DOMAIN set.identities = NamesOf(f.identity)
      /\ \A n \in NamesOf(f.identity) : set.identities[n] = Named(f.identity, n).policies
      /\ \A n \in NamesOf(f.policy) :
           set.policies[n] = [k \in DOMAIN Named(f.policy, n).rule |-> Rule(Named(f.policy, n).rule[k])]
  <2>. HIDE DEF set
  <2>. QED BY <1>2
<1>4. \A a : a \in A <=> \E p \in DOMAIN f.policy : attached(p) /\ \E k \in DOMAIN f.policy[p].rule : a = as(p, k)
  BY DEF AttachedRules
<1>5. \A r : r \in R <=> \E m \in DOMAIN set.identities[i] :
                           \E k \in DOMAIN set.policies[set.identities[i][m]] :
                             r = ruled(set.identities[i][m], k)
  <2>. HIDE DEF set
  <2>. QED BY DEF RulesOf
<1>6. ASSUME NEW p \in DOMAIN f.policy, NEW k
      PROVE  LET name == f.policy[p].name
             IN  /\ k \in DOMAIN set.policies[name] <=> k \in DOMAIN f.policy[p].rule
                 /\ k \in DOMAIN f.policy[p].rule =>
                      /\ ruled(name, k).pattern = as(p, k).pattern
                      /\ ruled(name, k).capabilities = as(p, k).capabilities
                      /\ Pattern(as(p, k).pattern)
  <2>. DEFINE name == f.policy[p].name
              raw == f.policy[p].rule
  <2>1. name \in NamesOf(f.policy) /\ Named(f.policy, name) = f.policy[p]
    BY <1>1, NamedIsOne
  <2>2. set.policies[name] = [j \in DOMAIN raw |-> Rule(raw[j])]
    <3>. HIDE DEF set
    <3>. QED BY <1>3, <2>1
  <2>3. ASSUME k \in DOMAIN raw
        PROVE  /\ ruled(name, k).pattern = as(p, k).pattern
               /\ ruled(name, k).capabilities = as(p, k).capabilities
               /\ Pattern(as(p, k).pattern)
    <3>1. set.policies[name][k] = Rule(raw[k])
      BY <2>2, <2>3
    <3>2. /\ ruled(name, k).pattern = Rule(raw[k]).pattern
          /\ ruled(name, k).capabilities = Rule(raw[k]).capabilities
      <4>. HIDE DEF set, raw, name
      <4>. QED BY <3>1
    <3>3. Rule(raw[k]).capabilities = as(p, k).capabilities
      BY DEF Rule
    <3>4. Rule(raw[k]).pattern = as(p, k).pattern /\ Pattern(as(p, k).pattern)
      BY <1>1, <2>3
    <3>. QED BY <3>2, <3>3, <3>4
  <2>. HIDE DEF set, ruled, as
  <2>. QED BY <2>2, <2>3
<1>7. i \in NamesOf(f.identity)
  BY <1>3
<1>8. PICK n \in DOMAIN f.identity :
        f.identity[n].name = i /\ set.identities[i] = f.identity[n].policies
  <2>1. PICK n \in DOMAIN f.identity : f.identity[n].name = i /\ Named(f.identity, i) = f.identity[n]
    BY <1>7, NamedIsThere
  <2>. HIDE DEF set
  <2>. QED BY <1>3, <1>7, <2>1
<1>9. ASSUME NEW p \in DOMAIN f.policy
      PROVE  attached(p) <=> \E m \in DOMAIN set.identities[i] : set.identities[i][m] = f.policy[p].name
  <2>1. ASSUME NEW o \in DOMAIN f.identity, f.identity[o].name = i PROVE f.identity[o] = f.identity[n]
    <3>1. Named(f.identity, i) = f.identity[o] /\ Named(f.identity, i) = f.identity[n]
      BY <1>1, <1>8, <2>1, NamedIsOne
    <3>. QED BY <3>1
  <2>. HIDE DEF set
  <2>. QED BY <1>8, <2>1
<1>10. Says(A, R)
  <2>1. ASSUME NEW a \in A
        PROVE  \E r \in R : r.pattern = a.pattern /\ r.capabilities = a.capabilities
    <3>1. PICK p \in DOMAIN f.policy : attached(p) /\ \E k \in DOMAIN f.policy[p].rule : a = as(p, k)
      <4>. HIDE DEF A, attached, as
      <4>. QED BY <1>4
    <3>2. PICK k \in DOMAIN f.policy[p].rule : a = as(p, k)
      BY <3>1
    <3>3. PICK m \in DOMAIN set.identities[i] : set.identities[i][m] = f.policy[p].name
      <4>. HIDE DEF set, attached
      <4>. QED BY <1>9, <3>1
    <3>4. /\ k \in DOMAIN set.policies[set.identities[i][m]]
          /\ ruled(set.identities[i][m], k).pattern = a.pattern
          /\ ruled(set.identities[i][m], k).capabilities = a.capabilities
      <4>. HIDE DEF set, ruled, as
      <4>. QED BY <1>6, <3>2, <3>3
    <3>5. ruled(set.identities[i][m], k) \in R
      <4>. HIDE DEF set, ruled, R
      <4>. QED BY <1>5, <3>4
    <3>. HIDE DEF set, ruled, R, A
    <3>. QED BY <3>4, <3>5
  <2>. HIDE DEF A, R
  <2>. QED BY <2>1 DEF Says
<1>11. ASSUME NEW r \in R
       PROVE  \E a \in A : /\ a.pattern = r.pattern /\ a.capabilities = r.capabilities
                           /\ Pattern(a.pattern)
  <2>1. PICK m \in DOMAIN set.identities[i] :
          \E k \in DOMAIN set.policies[set.identities[i][m]] : r = ruled(set.identities[i][m], k)
    <3>. HIDE DEF set, ruled, R
    <3>. QED BY <1>5
  <2>2. PICK k \in DOMAIN set.policies[set.identities[i][m]] : r = ruled(set.identities[i][m], k)
    BY <2>1
  <2>3. set.identities[i][m] \in NamesOf(f.policy)
    <3>. HIDE DEF set
    <3>. QED BY <1>1, <1>8
  <2>4. PICK p \in DOMAIN f.policy : f.policy[p].name = set.identities[i][m]
    BY <2>3, NamedIsThere
  <2>5. attached(p)
    <3>. HIDE DEF set, attached
    <3>. QED BY <1>9, <2>4
  <2>6. /\ k \in DOMAIN f.policy[p].rule
        /\ as(p, k).pattern = r.pattern /\ as(p, k).capabilities = r.capabilities
        /\ Pattern(as(p, k).pattern)
    <3>. HIDE DEF set, ruled, as
    <3>. QED BY <1>6, <2>2, <2>4
  <2>7. as(p, k) \in A
    <3>. HIDE DEF A, attached, as
    <3>. QED BY <1>4, <2>5, <2>6
  <2>. HIDE DEF A, R, as
  <2>. QED BY <2>6, <2>7
<1>. HIDE DEF set, A, R
<1>. QED BY <1>10, <1>11 DEF Says, set, A, R

\* What a loaded file allows is what the documentation says of the file.
LEMMA LoadedGrants ==
  ASSUME NEW f, IsPolicyFile(f), FromToml(f).ok,
         NEW i \in DOMAIN FromToml(f).value.identities, NEW q, IsText(q)
  PROVE  EffectiveCapabilities(FromToml(f).value, i, q)
           = {c \in Capabilities : Granted(AttachedRules(f, i), q, c)}
<1>1. ASSUME NEW c
      PROVE  Allowed(FromToml(f).value, i, q, c) <=> Granted(AttachedRules(f, i), q, c)
  <2>1. Allowed(FromToml(f).value, i, q, c) <=> Granted(RulesOf(FromToml(f).value, i), q, c)
    BY AttachedSays, EvaluateGrants
  <2>. QED BY <2>1, AttachedSays, GrantedSame
<1>. QED BY <1>1 DEF EffectiveCapabilities

\* The identity has the policy, by the file.
Attached(f, i, p) ==
  \E n \in DOMAIN f.identity :
    /\ f.identity[n].name = i
    /\ \E m \in DOMAIN f.identity[n].policies : f.identity[n].policies[m] = f.policy[p].name

LEMMA IdentitiesOf ==
  ASSUME NEW f, FromToml(f).ok
  PROVE  /\ DOMAIN FromToml(f).value.identities = NamesOf(f.identity)
         /\ \A i \in NamesOf(f.identity) :
              FromToml(f).value.identities[i] = Named(f.identity, i).policies
<1>. DEFINE set == FromToml(f).value
<1>1. set = [identities |-> [n \in NamesOf(f.identity) |-> Named(f.identity, n).policies],
             policies |-> [n \in NamesOf(f.policy) |->
                             LET raw == Named(f.policy, n).rule
                             IN  [k \in DOMAIN raw |-> Rule(raw[k])]]]
  BY FileVerdict
<1>2. /\ DOMAIN set.identities = NamesOf(f.identity)
      /\ \A i \in NamesOf(f.identity) : set.identities[i] = Named(f.identity, i).policies
  <2>. HIDE DEF set
  <2>. QED BY <1>1
<1>. QED BY <1>2

LEMMA AttachedNames ==
  ASSUME NEW f, IsPolicyFile(f), FromToml(f).ok,
         NEW i \in DOMAIN FromToml(f).value.identities, NEW p \in DOMAIN f.policy
  PROVE  LET mine == FromToml(f).value.identities[i]
         IN  Attached(f, i, p) <=> \E m \in DOMAIN mine : mine[m] = f.policy[p].name
<1>. DEFINE set == FromToml(f).value
<1>1. IsList(f.identity) /\ Distinct(f.identity)
  BY FileFacts
<1>2. /\ DOMAIN set.identities = NamesOf(f.identity)
      /\ set.identities[i] = Named(f.identity, i).policies
  BY IdentitiesOf
<1>3. PICK n \in DOMAIN f.identity : f.identity[n].name = i /\ Named(f.identity, i) = f.identity[n]
  BY <1>2, NamedIsThere
<1>4. ASSUME NEW o \in DOMAIN f.identity, f.identity[o].name = i PROVE f.identity[o] = f.identity[n]
  <2>1. Named(f.identity, f.identity[o].name) = f.identity[o]
    BY <1>1, NamedIsOne
  <2>. QED BY <1>3, <1>4, <2>1
<1>. HIDE DEF set
<1>5. Attached(f, i, p) <=> \E m \in DOMAIN set.identities[i] : set.identities[i][m] = f.policy[p].name
  BY <1>2, <1>3, <1>4 DEF Attached
<1>. QED BY <1>5 DEF set

\* The file with one rule more.
OneMore(f, g, p, r) ==
  /\ g.identity = f.identity /\ DOMAIN g.policy = DOMAIN f.policy
  /\ \A o \in DOMAIN f.policy :
       /\ g.policy[o].name = f.policy[o].name
       /\ o # p => g.policy[o].rule = f.policy[o].rule
  /\ g.policy[p].rule = Append(f.policy[p].rule, r)

Raw(r) == [pattern |-> Normalize(r.path),
           capabilities |-> {r.capabilities[c] : c \in DOMAIN r.capabilities}]

LEMMA OneMoreAttached ==
  ASSUME NEW f, NEW g, NEW p \in DOMAIN f.policy, NEW r, NEW i, OneMore(f, g, p, r),
         IsList(f.policy[p].rule)
  PROVE  /\ ~Attached(f, i, p) => AttachedRules(g, i) = AttachedRules(f, i)
         /\ Attached(f, i, p) => AttachedRules(g, i) = AttachedRules(f, i) \cup {Raw(r)}
<1>1. ASSUME NEW h, NEW a
      PROVE  a \in AttachedRules(h, i) <=>
               \E o \in DOMAIN h.policy : Attached(h, i, o) /\
                 \E k \in DOMAIN h.policy[o].rule : a = Raw(h.policy[o].rule[k])
  BY DEF AttachedRules, Attached, Raw
<1>2. \A o \in DOMAIN f.policy : Attached(g, i, o) <=> Attached(f, i, o)
  BY DEF Attached, OneMore
<1>. DEFINE old == f.policy[p].rule
            new == g.policy[p].rule
<1>3. /\ DOMAIN new = DOMAIN old \cup {Len(old) + 1}
      /\ \A k \in DOMAIN old : new[k] = old[k]
      /\ new[Len(old) + 1] = r
  <2>1. old \in Seq({old[k] : k \in DOMAIN old} \cup {r}) /\ new = Append(old, r)
    BY DEF OneMore, IsList
  <2>. HIDE DEF old, new
  <2>. QED BY <2>1
<1>4. \A o \in DOMAIN f.policy : o # p => g.policy[o].rule = f.policy[o].rule
  BY DEF OneMore
<1>5. DOMAIN g.policy = DOMAIN f.policy
  BY DEF OneMore
<1>6. ASSUME NEW a
      PROVE  a \in AttachedRules(g, i) <=>
               a \in AttachedRules(f, i) \/ (Attached(f, i, p) /\ a = Raw(r))
  <2>1. ASSUME NEW o \in DOMAIN f.policy
        PROVE  (\E k \in DOMAIN g.policy[o].rule : a = Raw(g.policy[o].rule[k])) <=>
                 \/ \E k \in DOMAIN f.policy[o].rule : a = Raw(f.policy[o].rule[k])
                 \/ o = p /\ a = Raw(r)
    <3>1. CASE o = p
      <4>. HIDE DEF old, new
      <4>1. (\E k \in DOMAIN new : a = Raw(new[k])) <=>
              (\E k \in DOMAIN old : a = Raw(old[k])) \/ a = Raw(r)
        BY <1>3
      <4>. QED BY <3>1, <4>1 DEF old, new
    <3>2. CASE o # p
      BY <1>4, <3>2
    <3>. QED BY <3>1, <3>2
  <2>. QED BY <1>1, <1>2, <1>5, <2>1
<1>. QED BY <1>6

\* What one rule more can change.
LEMMA OneMoreRule ==
  ASSUME NEW A, NEW B, NEW new, B = A \cup {new}, NEW q, NEW c,
         Specificity(new.pattern) \in Nat
  PROVE  /\ ~Covers(new.pattern, q) => (Granted(B, q, c) <=> Granted(A, q, c))
         /\ Granted(B, q, c) /\ ~Granted(A, q, c) => c \in new.capabilities
         /\ /\ Granted(B, q, c) /\ Covers(new.pattern, q)
            /\ \A s \in B : Covers(s.pattern, q) =>
                 Specificity(new.pattern) >= Specificity(s.pattern)
            => c \in new.capabilities
<1>. DEFINE of(X) == {s \in X : Covers(s.pattern, q)}
            wins(X, s) == \A t \in of(X) : Specificity(t.pattern) >= Specificity(s.pattern)
                                             => c \in t.capabilities
<1>0. \A X : Granted(X, q, c) <=> \E s \in of(X) : wins(X, s)
  BY DEF Granted
<1>1. ASSUME ~Covers(new.pattern, q) PROVE Granted(B, q, c) <=> Granted(A, q, c)
  <2>1. of(A) = of(B)
    BY <1>1
  <2>2. \A s : wins(A, s) <=> wins(B, s)
    <3>. HIDE DEF of
    <3>. QED BY <2>1
  <2>. HIDE DEF of, wins
  <2>. QED BY <1>0, <2>1, <2>2
<1>2. ASSUME Granted(B, q, c), ~Granted(A, q, c) PROVE c \in new.capabilities
  <2>1. PICK s \in of(B) : wins(B, s)
    BY <1>0, <1>2
  <2>2. s \notin of(A)
    <3>1. \A t \in of(A) : t \in of(B)
      OBVIOUS
    <3>2. wins(A, s)
      <4>. HIDE DEF of
      <4>. QED BY <2>1, <3>1
    <3>. HIDE DEF of, wins
    <3>. QED BY <1>0, <1>2, <3>2
  <2>3. s = new /\ s \in of(B)
    BY <2>1, <2>2
  <2>4. Specificity(s.pattern) >= Specificity(s.pattern)
    BY <2>3
  <2>. QED BY <2>1, <2>3, <2>4
<1>3. ASSUME Granted(B, q, c), Covers(new.pattern, q),
             \A s \in B : Covers(s.pattern, q) =>
               Specificity(new.pattern) >= Specificity(s.pattern)
      PROVE  c \in new.capabilities
  <2>1. PICK s \in of(B) : wins(B, s)
    BY <1>0, <1>3
  <2>2. new \in of(B) /\ Specificity(new.pattern) >= Specificity(s.pattern)
    BY <1>3, <2>1
  <2>. QED BY <2>1, <2>2
<1>. QED BY <1>1, <1>2, <1>3

\* One rule more in a loaded file: what it may change of the decisions.
LEMMA EditContained ==
  ASSUME NEW f, NEW g, IsPolicyFile(f), IsPolicyFile(g), FromToml(f).ok, FromToml(g).ok,
         NEW p \in DOMAIN f.policy, NEW r, IsRule(r), OneMore(f, g, p, r),
         NEW i \in DOMAIN FromToml(f).value.identities, NEW raw, IsText(raw), ParsePath(raw).ok
  PROVE  LET path   == Normalize(raw)
             old    == FromToml(f).value
             before == EffectiveCapabilities(old, i, path)
             after  == EffectiveCapabilities(FromToml(g).value, i, path)
             mine   == \E k \in DOMAIN old.identities[i] : old.identities[i][k] = f.policy[p].name
         IN  /\ before # after => mine /\ Covers(Normalize(r.path), path)
             /\ after \ before \subseteq Rule(r).capabilities
             /\ mine /\ Normalize(r.path) = path => after \subseteq Rule(r).capabilities
<1>. DEFINE q == Normalize(raw)
            old == FromToml(f).value
            A == AttachedRules(f, i)
            B == AttachedRules(g, i)
            before == EffectiveCapabilities(old, i, q)
            after == EffectiveCapabilities(FromToml(g).value, i, q)
            mine == \E k \in DOMAIN old.identities[i] : old.identities[i][k] = f.policy[p].name
            caps == Rule(r).capabilities
<1>1. IsText(q) /\ \A k \in 1..Len(q) : q[k] \notin {One, Rest}
  BY PathVerdict
<1>2. i \in DOMAIN FromToml(g).value.identities
  <2>1. DOMAIN FromToml(f).value.identities = NamesOf(f.identity)
    BY IdentitiesOf
  <2>2. DOMAIN FromToml(g).value.identities = NamesOf(g.identity)
    BY IdentitiesOf
  <2>. QED BY <2>1, <2>2 DEF OneMore
<1>3. before = {c \in Capabilities : Granted(A, q, c)}
  BY <1>1, LoadedGrants
<1>4. after = {c \in Capabilities : Granted(B, q, c)}
  BY <1>1, <1>2, LoadedGrants
<1>5. mine <=> Attached(f, i, p)
  BY AttachedNames
<1>6. IsList(f.policy[p].rule)
  BY FileFacts
<1>7. /\ ~mine => B = A
      /\ mine => B = A \cup {Raw(r)}
  <2>. HIDE DEF mine
  <2>. QED BY <1>5, <1>6, OneMoreAttached
<1>8. Raw(r).pattern = Normalize(r.path) /\ Raw(r).capabilities = caps
  BY DEF Raw, Rule
<1>9. IsText(Normalize(r.path)) /\ Specificity(Raw(r).pattern) \in Nat
  <2>1. IsText(Normalize(r.path))
    BY TextNormalizes DEF IsRule
  <2>. QED BY <1>8, <2>1, SpecificityRange
<1>10. ASSUME before # after PROVE mine /\ Covers(Normalize(r.path), q)
  <2>1. mine
    <3>. HIDE DEF mine, A, B, before, after
    <3>. QED BY <1>3, <1>4, <1>7, <1>10
  <2>2. ASSUME ~Covers(Normalize(r.path), q) PROVE FALSE
    <3>1. \A c : Granted(B, q, c) <=> Granted(A, q, c)
      <4>. HIDE DEF mine, A, B
      <4>. QED BY <1>7, <1>8, <1>9, <2>1, <2>2, OneMoreRule
    <3>. HIDE DEF A, B, before, after
    <3>. QED BY <1>3, <1>4, <1>10, <3>1
  <2>. QED BY <2>1, <2>2
<1>11. ASSUME NEW c \in after \ before PROVE c \in caps
  <2>1. Granted(B, q, c) /\ ~Granted(A, q, c)
    <3>. HIDE DEF A, B, before, after
    <3>. QED BY <1>3, <1>4
  <2>2. mine
    <3>. HIDE DEF mine, A, B
    <3>. QED BY <1>7, <2>1
  <2>. HIDE DEF mine, A, B, caps
  <2>. QED BY <1>7, <1>8, <1>9, <2>1, <2>2, OneMoreRule
<1>12. ASSUME mine, Normalize(r.path) = q, NEW c \in after PROVE c \in caps
  <2>1. Granted(B, q, c)
    <3>. HIDE DEF B, after
    <3>. QED BY <1>4
  <2>2. Covers(q, q) /\ Len(q) \in Nat /\ Specificity(q) = Len(q)
    <3>1. Len(q) \in Nat /\ Len(q) > 0
      BY <1>1 DEF IsText, IsList
    <3>2. Specificity(q) = Len(q)
      BY <1>1, SpecificityRange
    <3>. HIDE DEF q
    <3>3. q[Len(q)] # Rest
      BY <1>1, <3>1
    <3>. QED BY <3>1, <3>2, <3>3 DEF Covers
  <2>3. ASSUME NEW s \in B, Covers(s.pattern, q)
        PROVE  Specificity(Raw(r).pattern) >= Specificity(s.pattern)
    <3>1. IsText(s.pattern)
      <4>1. Says(AttachedRules(g, i), RulesOf(FromToml(g).value, i))
            /\ \A t \in RulesOf(FromToml(g).value, i) : Pattern(t.pattern)
        BY <1>2, AttachedSays
      <4>2. PICK t \in RulesOf(FromToml(g).value, i) : t.pattern = s.pattern
        BY <4>1 DEF Says
      <4>. QED BY <4>1, <4>2 DEF Pattern
    <3>2. Specificity(s.pattern) \in Nat /\ Specificity(s.pattern) <= Len(s.pattern)
      BY <3>1, SpecificityRange
    <3>3. Len(s.pattern) <= Len(q) /\ Len(s.pattern) \in Nat
      <4>1. Len(s.pattern) \in Nat
        BY <3>1 DEF IsText, IsList
      <4>. HIDE DEF q
      <4>. QED BY <1>1, <2>3, <3>1, <4>1, CoversLength
    <3>4. Specificity(Raw(r).pattern) = Len(q)
      BY <1>8, <1>12, <2>2
    <3>. QED BY <2>2, <3>2, <3>3, <3>4
  <2>4. Covers(Raw(r).pattern, q)
    BY <1>8, <1>12, <2>2
  <2>. HIDE DEF mine, A, B, caps, q
  <2>. QED BY <1>7, <1>8, <1>9, <1>12, <2>1, <2>3, <2>4, OneMoreRule
<1>. HIDE DEF q, old, A, B, before, after, mine, caps
<1>13. /\ before # after => mine /\ Covers(Normalize(r.path), q)
       /\ after \ before \subseteq caps
       /\ mine /\ Normalize(r.path) = q => after \subseteq caps
  BY <1>10, <1>11, <1>12
<1>. QED BY <1>13 DEF q, old, before, after, mine, caps

-----------------------------------------------------------------------------
(* Decisions of a deployment, and what an added rule does to them.         *)

\* The policy files that are there are ones the loader's types describe.
FilesTyped ==
  /\ IsPolicyFile(disk.policies)
  /\ \A x \in Procs : proc[x].at \notin {"idle", "loaded"} => IsPolicyFile(proc[x].file)

\* A list with one element more is a list.
LEMMA ListAppends ==
  ASSUME NEW s, IsList(s), NEW e
  PROVE  /\ IsList(Append(s, e)) /\ DOMAIN Append(s, e) = DOMAIN s \cup {Len(s) + 1}
         /\ \A k \in DOMAIN s : Append(s, e)[k] = s[k]
         /\ Append(s, e)[Len(s) + 1] = e
<1>. DEFINE t == Append(s, e)
<1>1. s \in Seq({s[k] : k \in DOMAIN s} \cup {e})
  BY DEF IsList
<1>2. /\ t \in Seq({s[k] : k \in DOMAIN s} \cup {e}) /\ DOMAIN t = DOMAIN s \cup {Len(s) + 1}
      /\ \A k \in DOMAIN s : t[k] = s[k]
      /\ t[Len(s) + 1] = e
  BY <1>1
<1>3. t \in Seq({t[k] : k \in DOMAIN t})
  <2>. HIDE DEF t
  <2>. QED BY <1>2
<1>. QED BY <1>2, <1>3 DEF IsList

\* The operator adds one rule, and the file stays one the loader's types describe.
LEMMA AddRuleAdds ==
  ASSUME DiskShape, IsPolicyFile(disk.policies), NEW p, NEW r \in RawRules, AddRule(p, r)
  PROVE  /\ p \in DOMAIN disk.policies.policy /\ IsPolicyFile(disk'.policies)
         /\ OneMore(disk.policies, disk'.policies, p, r)
<1>. DEFINE f == disk.policies
            g == disk'.policies
            P == f.policy
            more == [P EXCEPT ![p].rule = Append(P[p].rule, r)]
<1>1. f.syntax /\ p \in DOMAIN P /\ disk' = [disk EXCEPT !.policies.policy[p].rule = Append(@, r)]
  BY DEF AddRule
<1>2. /\ DOMAIN f = {"syntax", "identity", "policy"} /\ IsList(P) /\ IsList(f.identity)
      /\ \A o \in DOMAIN P :
           /\ DOMAIN P[o] = {"name", "rule"} /\ IsList(P[o].rule)
           /\ \A k \in DOMAIN P[o].rule : IsRule(P[o].rule[k])
      /\ \A n \in DOMAIN f.identity : IsList(f.identity[n].policies)
  BY <1>1 DEF IsPolicyFile
<1>3. g = [f EXCEPT !.policy = more]
  BY <1>1 DEF DiskShape
<1>4. DOMAIN g = DOMAIN f /\ g.syntax /\ g.identity = f.identity /\ g.policy = more
  <2>. HIDE DEF f, g, more
  <2>. QED BY <1>1, <1>2, <1>3
<1>5. /\ DOMAIN more = DOMAIN P /\ \A o \in DOMAIN P \ {p} : more[o] = P[o]
      /\ more[p] = [P[p] EXCEPT !.rule = Append(P[p].rule, r)]
  <2>. HIDE DEF f, P
  <2>. QED BY <1>1
<1>6. DOMAIN more[p] = {"name", "rule"} /\ more[p].name = P[p].name
      /\ more[p].rule = Append(P[p].rule, r)
  <2>. HIDE DEF f, P, more
  <2>. QED BY <1>1, <1>2, <1>5
<1>7. OneMore(f, g, p, r)
  <2>. HIDE DEF f, g, P, more
  <2>. QED BY <1>4, <1>5, <1>6 DEF OneMore, P
<1>8. IsList(more)
  <2>. HIDE DEF f, P
  <2>1. DOMAIN P = 1..Len(P) /\ Len(P) \in Nat
    BY <1>2 DEF IsList
  <2>. HIDE DEF more
  <2>2. more = [o \in 1..Len(P) |-> more[o]]
    BY <1>5, <2>1 DEF more
  <2>. QED BY <2>1, <2>2 DEF IsList
<1>9. ASSUME NEW o \in DOMAIN more
      PROVE  /\ DOMAIN more[o] = {"name", "rule"} /\ IsList(more[o].rule)
             /\ \A k \in DOMAIN more[o].rule : IsRule(more[o].rule[k])
  <2>1. CASE o # p
    <3>. HIDE DEF f, P, more
    <3>. QED BY <1>2, <1>5, <2>1
  <2>2. CASE o = p
    <3>1. IsRule(r)
      BY FilesAssumption
    <3>. HIDE DEF f, P, more
    <3>2. IsList(P[p].rule) /\ \A k \in DOMAIN P[p].rule : IsRule(P[p].rule[k])
      BY <1>1, <1>2
    <3>. DEFINE rules == Append(P[p].rule, r)
    <3>3. /\ IsList(rules) /\ DOMAIN rules = DOMAIN P[p].rule \cup {Len(P[p].rule) + 1}
          /\ \A k \in DOMAIN P[p].rule : rules[k] = P[p].rule[k]
          /\ rules[Len(P[p].rule) + 1] = r
      BY <3>2, ListAppends
    <3>. HIDE DEF rules
    <3>4. \A k \in DOMAIN rules : IsRule(rules[k])
      BY <3>1, <3>2, <3>3
    <3>. QED BY <1>6, <2>2, <3>3, <3>4 DEF rules
  <2>. QED BY <2>1, <2>2
<1>10. IsPolicyFile(g)
  <2>. HIDE DEF f, g, P, more
  <2>. QED BY <1>2, <1>4, <1>8, <1>9 DEF IsPolicyFile
<1>. QED BY <1>1, <1>7, <1>10

LEMMA TypedStep ==
  ASSUME Shape, FilesTyped, [Next]_vars
  PROVE  FilesTyped'
<1>1. IsPolicyFile(disk'.policies)
  <2>0. DiskShape /\ IsPolicyFile(disk.policies)
    BY DEF Shape, FilesTyped
  <2>1. CASE \E p \in 1..2, r \in RawRules : AddRule(p, r)
    BY <2>0, <2>1, AddRuleAdds
  <2>2. CASE EditPolicies
    <3>1. PICK f \in PolicyFiles : disk' = [disk EXCEPT !.policies = f]
      BY <2>2 DEF EditPolicies
    <3>2. disk'.policies = f
      BY <2>0, <3>1 DEF DiskShape
    <3>. QED BY <3>2, FilesAssumption
  <2>3. CASE EditConfig
    <3>1. disk'.policies = disk.policies
      BY <2>0, <2>3 DEF EditConfig, DiskShape
    <3>. QED BY <2>0, <3>1
  <2>4. CASE UNCHANGED disk
    BY <2>0, <2>4
  <2>. QED BY <2>1, <2>2, <2>3, <2>4, DiskMoves
<1>2. ASSUME NEW x \in Procs, proc'[x].at \notin {"idle", "loaded"} PROVE IsPolicyFile(proc'[x].file)
  <2>1. Moves(x)
    BY NextMoves
  <2>2. CASE proc'[x] = proc[x]
    BY <1>2, <2>2 DEF FilesTyped
  <2>3. CASE Ended(x)
    BY <1>2, <2>3, IdleAt DEF Ended
  <2>4. CASE Read1(x)
    BY <1>2, <2>4 DEF Read1
  <2>5. CASE Read2(x)
    BY <2>5 DEF Read2, FilesTyped
  <2>6. CASE Further(x)
    BY <2>6 DEF Further, FilesTyped
  <2>. QED BY <2>1, <2>2, <2>3, <2>4, <2>5, <2>6 DEF Moves
<1>. QED BY <1>1, <1>2 DEF FilesTyped

LEMMA TypedInvariant == Spec => []FilesTyped
<1>1. Init => FilesTyped
  <2>. SUFFICES ASSUME Init PROVE FilesTyped
    OBVIOUS
  <2>1. IsPolicyFile(disk.policies)
    BY FilesAssumption DEF Init
  <2>2. \A x \in Procs : proc[x].at = "idle"
    BY DEF Init, Idle
  <2>. QED BY <2>1, <2>2 DEF FilesTyped
<1>2. Shape /\ FilesTyped /\ [Next]_vars => FilesTyped'
  BY TypedStep
<1>. QED BY <1>1, <1>2, LoadedInvariant, PTL DEF Spec

\* A server that has read its files holds policies that were loaded.
LEMMA ServerLoaded ==
  ASSUME Loaded, FilesTyped, proc["server"].at = "files"
  PROVE  FromToml(proc["server"].file).ok /\ IsPolicyFile(proc["server"].file)
<1>1. "server" \in Procs
  BY DEF Procs
<1>2. FilesProblem(proc["server"].build, proc["server"].config, proc["server"].file) = Fine
  BY <1>1 DEF Loaded
<1>. QED BY <1>1, <1>2, FilesVerdict DEF FilesTyped

\* Whatever file a server has loaded, it allows every identity on every path what
\* the documentation of the pattern language and of the evaluation says of the
\* file: no default but denial, the most specific match, denial on a tie, and
\* however path and pattern were typed (PathPattern::matches, PolicySet::evaluate,
\* PolicySet::from_toml).
THEOREM DecisionsAreDocumented == Spec => []DecisionIsDocumented
<1>1. ASSUME Loaded, FilesTyped PROVE DecisionIsDocumented
  <2>. SUFFICES ASSUME proc["server"].at = "files",
                       NEW i \in DOMAIN Policies("server").identities,
                       NEW raw \in RawPaths, ParsePath(raw).ok
                PROVE  {c \in Capabilities :
                          Granted(AttachedRules(proc["server"].file, i), Normalize(raw), c)}
                         = EffectiveCapabilities(Policies("server"), i, ParsePath(raw).value)
    BY DEF DecisionIsDocumented
  <2>1. FromToml(proc["server"].file).ok /\ IsPolicyFile(proc["server"].file)
    BY <1>1, ServerLoaded
  <2>2. IsText(raw)
    BY FilesAssumption
  <2>3. ParsePath(raw).value = Normalize(raw) /\ IsText(Normalize(raw))
    BY <2>2, PathVerdict
  <2>. QED BY <2>1, <2>3, LoadedGrants DEF Policies
<1>2. Loaded /\ FilesTyped => DecisionIsDocumented
  BY <1>1
<1>. QED BY <1>2, LoadedInvariant, TypedInvariant, PTL

\* A rule that is added to a loaded file and loaded with it changes no decision
\* about a path it does not cover or an identity that lacks its policy, allows
\* nothing it does not name, and denies what it leaves out on the path it spells
\* out (PolicySet::evaluate, build_policy).
THEOREM RuleEditsAreContained == Spec => RuleEditIsContained
<1>. DEFINE contained(p, r) ==
              \A old \in {Policies("server")}, new \in {FromToml(disk'.policies).value} :
                \A i \in DOMAIN old.identities, raw \in RawPaths : ParsePath(raw).ok =>
                  LET path   == Normalize(raw)
                      before == EffectiveCapabilities(old, i, path)
                      after  == EffectiveCapabilities(new, i, path)
                      mine   == \E k \in DOMAIN old.identities[i] :
                                  old.identities[i][k] = disk.policies.policy[p].name
                  IN  /\ before # after => mine /\ Covers(Normalize(r.path), path)
                      /\ after \ before \subseteq Rule(r).capabilities
                      /\ mine /\ Normalize(r.path) = path => after \subseteq Rule(r).capabilities
<1>1. ASSUME Shape, Loaded, FilesTyped, NEW p \in 1..2, NEW r \in RawRules,
             proc["server"].at = "files", proc["server"].file = disk.policies,
             AddRule(p, r), FromToml(disk'.policies).ok
      PROVE  contained(p, r)
  <2>1. FromToml(disk.policies).ok /\ IsPolicyFile(disk.policies)
    BY <1>1, ServerLoaded
  <2>2. /\ p \in DOMAIN disk.policies.policy /\ IsPolicyFile(disk'.policies)
        /\ OneMore(disk.policies, disk'.policies, p, r)
    BY <1>1, <2>1, AddRuleAdds DEF Shape
  <2>3. IsRule(r) /\ \A raw \in RawPaths : IsText(raw)
    BY FilesAssumption
  <2>4. Policies("server") = FromToml(disk.policies).value
    BY <1>1 DEF Policies
  <2>. QED BY <1>1, <2>1, <2>2, <2>3, <2>4, EditContained
<1>2. Shape /\ Loaded /\ FilesTyped =>
        [ \A p \in 1..2, r \in RawRules :
            /\ proc["server"].at = "files" /\ proc["server"].file = disk.policies
            /\ AddRule(p, r)
            /\ FromToml(disk'.policies).ok
            => contained(p, r) ]_vars
  BY <1>1
<1>. QED BY <1>2, LoadedInvariant, TypedInvariant, PTL DEF RuleEditIsContained

-----------------------------------------------------------------------------
(* Types: the errors of the loaders, and the ranges of the state.          *)

\* Every refusal of from_toml is a PolicyError.
LEMMA PolicyErrorRange ==
  ASSUME NEW f
  PROVE  FileProblem(f) \in {Fine} \cup PolicyErrors
<1>. DEFINE E == {Fine} \cup PolicyErrors
<1>1. ASSUME NEW pattern, NEW names, NEW k PROVE CapabilityProblem(pattern, names, k) \in E
  BY DEF CapabilityProblem, PolicyErrors
<1>2. ASSUME NEW rules, NEW k PROVE RuleProblem(rules, k) \in E
  <2>. DEFINE pattern == ParsePattern(rules[k].path)
              names == rules[k].capabilities
              bad == {c \in 1..Len(names) : CapabilityProblem(pattern.value, names, c) # Fine}
              least == CHOOSE i \in bad : \A j \in bad : i <= j
              first == IF bad = {} THEN Fine ELSE CapabilityProblem(pattern.value, names, least)
              known == pattern.value \in {ParsePattern(rules[j].path).value : j \in 1..k - 1}
  <2>1. RuleProblem(rules, k) = IF ~pattern.ok THEN "pattern"
                                ELSE IF known THEN "duplicate-pattern" ELSE first
    BY DEF RuleProblem, FirstProblem
  <2>2. first \in E
    <3>. HIDE DEF E, least, bad, pattern, names
    <3>1. Fine \in E
      BY DEF E
    <3>. QED BY <1>1, <3>1
  <2>. HIDE DEF pattern, first, known
  <2>. QED BY <2>1, <2>2 DEF PolicyErrors
<1>3. ASSUME NEW policies, NEW p PROVE PolicyProblem(policies, p) \in E
  <2>. DEFINE raw == policies[p].rule
              bad == {k \in 1..Len(raw) : RuleProblem(raw, k) # Fine}
              least == CHOOSE i \in bad : \A j \in bad : i <= j
              within == IF bad = {} THEN Fine ELSE RuleProblem(raw, least)
              twice == \E j \in 1..p - 1 : policies[j].name = policies[p].name
  <2>1. PolicyProblem(policies, p) = IF within # Fine THEN within
                                     ELSE IF twice THEN "duplicate-policy" ELSE Fine
    BY DEF PolicyProblem, FirstProblem
  <2>2. within \in E
    <3>. HIDE DEF E, least, bad, raw
    <3>1. Fine \in E
      BY DEF E
    <3>. QED BY <1>2, <3>1
  <2>. HIDE DEF within, twice
  <2>. QED BY <2>1, <2>2 DEF PolicyErrors
<1>4. ASSUME NEW n PROVE IdentityProblem(f, n) \in E
  <2>. DEFINE identity == f.identity[n]
              known == {f.policy[k].name : k \in DOMAIN f.policy}
              problem(k) == IF identity.policies[k] \notin known THEN "unknown-policy"
                            ELSE IF \E j \in 1..k - 1 : identity.policies[j] = identity.policies[k]
                              THEN "duplicate-policy-reference" ELSE Fine
              bad == {k \in 1..Len(identity.policies) : problem(k) # Fine}
              least == CHOOSE i \in bad : \A j \in bad : i <= j
              within == IF bad = {} THEN Fine ELSE problem(least)
              strange == identity.kind \notin IdentityKinds
              twice == \E j \in 1..n - 1 : f.identity[j].name = identity.name
  <2>1. IdentityProblem(f, n) = IF strange THEN "unknown-identity-kind"
                                ELSE IF within # Fine THEN within
                                ELSE IF twice THEN "duplicate-identity" ELSE Fine
    BY DEF IdentityProblem, FirstProblem
  <2>2. \A k : problem(k) \in E
    <3>. HIDE DEF identity, known
    <3>. QED BY DEF PolicyErrors
  <2>3. within \in E
    <3>. HIDE DEF problem, bad, least, E
    <3>1. Fine \in E
      BY DEF E
    <3>. QED BY <2>2, <3>1
  <2>. HIDE DEF within, strange, twice
  <2>. QED BY <2>1, <2>3 DEF PolicyErrors
<1>. DEFINE bad1 == {i \in 1..Len(f.policy) : PolicyProblem(f.policy, i) # Fine}
            bad2 == {i \in 1..Len(f.identity) : IdentityProblem(f, i) # Fine}
            least1 == CHOOSE i \in bad1 : \A j \in bad1 : i <= j
            least2 == CHOOSE i \in bad2 : \A j \in bad2 : i <= j
            first1 == IF bad1 = {} THEN Fine ELSE PolicyProblem(f.policy, least1)
            first2 == IF bad2 = {} THEN Fine ELSE IdentityProblem(f, least2)
<1>5. FileProblem(f) = IF ~f.syntax THEN "toml" ELSE IF first1 # Fine THEN first1 ELSE first2
  BY DEF FileProblem, FirstProblem
<1>6. first1 \in E /\ first2 \in E
  <2>. HIDE DEF E, bad1, bad2, least1, least2
  <2>1. Fine \in E
    BY DEF E
  <2>. QED BY <1>3, <1>4, <2>1
<1>. HIDE DEF first1, first2
<1>. QED BY <1>5, <1>6 DEF PolicyErrors

\* Every refusal of Federation::resolve is a ConfigError.
LEMMA FederationErrorRange ==
  ASSUME NEW o, NEW i
  PROVE  ProviderProblem(o, i) \in {Fine} \cup ConfigErrors
<1>. DEFINE E == {Fine} \cup ConfigErrors
<1>1. ASSUME NEW keys PROVE KeysProblem(keys) \in E
  <2>1. ASSUME NEW k PROVE KeyProblem(keys, k) \in E
    BY DEF KeyProblem, ConfigErrors
  <2>. DEFINE bad == {k \in 1..Len(keys) : KeyProblem(keys, k) # Fine}
              least == CHOOSE k \in bad : \A j \in bad : k <= j
              first == IF bad = {} THEN Fine ELSE KeyProblem(keys, least)
  <2>2. KeysProblem(keys) = IF keys = <<>> THEN "oidc-no-keys" ELSE first
    BY DEF KeysProblem, FirstProblem
  <2>3. first \in E
    <3>. HIDE DEF E, bad, least
    <3>1. Fine \in E
      BY DEF E
    <3>. QED BY <2>1, <3>1
  <2>. HIDE DEF first
  <2>. QED BY <2>2, <2>3 DEF ConfigErrors
<1>2. ASSUME NEW bindings PROVE BindingsProblem(bindings) \in E
  <2>1. ASSUME NEW k PROVE BindingProblem(bindings, k) \in E
    BY DEF BindingProblem, ConfigErrors
  <2>. DEFINE bad == {k \in 1..Len(bindings) : BindingProblem(bindings, k) # Fine}
              least == CHOOSE k \in bad : \A j \in bad : k <= j
              first == IF bad = {} THEN Fine ELSE BindingProblem(bindings, least)
  <2>2. BindingsProblem(bindings) = IF bindings = <<>> THEN "oidc-no-bindings" ELSE first
    BY DEF BindingsProblem, FirstProblem
  <2>3. first \in E
    <3>. HIDE DEF E, bad, least
    <3>1. Fine \in E
      BY DEF E
    <3>. QED BY <2>1, <3>1
  <2>. HIDE DEF first
  <2>. QED BY <2>2, <2>3 DEF ConfigErrors
<1>. DEFINE same == \E j \in DOMAIN o \ {i} : o[j].issuer = o[i].issuer /\ o[j].audience = o[i].audience
            ttl == ParseDuration(o[i].ttl)
            keys == KeysProblem(o[i].keys)
            rest == BindingsProblem(o[i].bindings)
<1>3. ProviderProblem(o, i) =
        IF o[i].name = "" THEN "oidc-name"
        ELSE IF o[i].issuer = "" THEN "oidc-issuer"
        ELSE IF o[i].audience = "" THEN "oidc-audience"
        ELSE IF same THEN "oidc-duplicate-provider"
        ELSE IF ttl = None THEN "oidc-ttl"
        ELSE IF keys # Fine THEN keys
        ELSE rest
  BY DEF ProviderProblem
<1>4. keys \in E /\ rest \in E
  BY <1>1, <1>2
<1>. HIDE DEF same, ttl, keys, rest
<1>. QED BY <1>3, <1>4 DEF ConfigErrors

\* Every refusal of surface::resolve is a ConfigError.
LEMMA SurfaceErrorRange ==
  ASSUME NEW b, NEW stanzas
  PROVE  SurfaceProblem(b, stanzas) \in {Fine} \cup ConfigErrors
<1>. DEFINE E == {Fine} \cup ConfigErrors
            bad == {i \in 1..Len(stanzas) : StanzaProblem(stanzas, i) # Fine}
            least == CHOOSE i \in bad : \A j \in bad : i <= j
            within == IF bad = {} THEN Fine ELSE StanzaProblem(stanzas, least)
            built == {d \in DOMAIN Entries : Entries[d] = "build"}
            lacks == \E d \in built : d \in ActiveEntries(stanzas) /\ ~CompiledIn(b, d)
            hides == \E d \in built : d \notin ActiveEntries(stanzas) /\ CompiledIn(b, d)
<1>1. ASSUME NEW i PROVE StanzaProblem(stanzas, i) \in E
  BY DEF StanzaProblem, ConfigErrors
<1>2. SurfaceProblem(b, stanzas) =
        IF within # Fine THEN within
        ELSE IF lacks THEN "surface-not-built"
        ELSE IF hides THEN "surface-undeclared"
        ELSE Fine
  BY DEF SurfaceProblem, FirstProblem
<1>3. within \in E
  <2>. HIDE DEF E, bad, least
  <2>1. Fine \in E
    BY DEF E
  <2>. QED BY <1>1, <2>1
<1>. HIDE DEF within, lacks, hides
<1>. QED BY <1>2, <1>3 DEF ConfigErrors

\* Every refusal of from_files and of Config::load is one of the two errors.
LEMMA ErrorRange ==
  ASSUME NEW b, NEW c, NEW f
  PROVE  /\ FilesProblem(b, c, f) \in {Fine} \cup ConfigErrors \cup PolicyErrors
         /\ ConfigProblem(c) \in {Fine} \cup ConfigErrors
<1>. DEFINE toml == FromToml(f)
            surface == SurfaceProblem(b, c.surface)
            oidc == ResolveFederation(c.oidc)
            known == BoundIdentities(oidc.value) \subseteq DOMAIN toml.value.identities
<1>1. FilesProblem(b, c, f) =
        IF ~toml.ok THEN toml.error
        ELSE IF surface # Fine THEN surface
        ELSE IF ~oidc.ok THEN oidc.error
        ELSE IF ~known THEN "oidc-unknown-identity"
        ELSE Fine
  BY DEF FilesProblem
<1>2. ~toml.ok => toml.error \in {Fine} \cup PolicyErrors
  <2>1. CASE FileProblem(f) # Fine
    BY <2>1, PolicyErrorRange DEF FromToml, Err
  <2>2. CASE FileProblem(f) = Fine
    BY <2>2 DEF FromToml, Ok
  <2>. QED BY <2>1, <2>2
<1>3. ~oidc.ok => oidc.error \in {Fine} \cup ConfigErrors
  <2>. DEFINE o == c.oidc
              bad == {i \in 1..Len(o) : ProviderProblem(o, i) # Fine}
              least == CHOOSE i \in bad : \A j \in bad : i <= j
              first == IF bad = {} THEN Fine ELSE ProviderProblem(o, least)
  <2>1. oidc = IF first # Fine THEN Err(first) ELSE Ok([i \in DOMAIN o |-> Provider(o[i])])
    BY DEF ResolveFederation, FirstProblem
  <2>2. first \in {Fine} \cup ConfigErrors
    <3>. HIDE DEF bad, least, o
    <3>. QED BY FederationErrorRange
  <2>. HIDE DEF first, o, oidc
  <2>. QED BY <2>1, <2>2 DEF Err, Ok
<1>4. surface \in {Fine} \cup ConfigErrors
  BY SurfaceErrorRange
<1>5. "oidc-unknown-identity" \in ConfigErrors
  BY DEF ConfigErrors
<1>6. FilesProblem(b, c, f) \in {Fine} \cup ConfigErrors \cup PolicyErrors
  <2>. HIDE DEF toml, surface, oidc, known
  <2>. QED BY <1>1, <1>2, <1>3, <1>4, <1>5
<1>7. ConfigProblem(c) \in {Fine} \cup ConfigErrors
  BY DEF ConfigProblem, ConfigErrors
<1>. QED BY <1>6, <1>7

ServerAt == {"idle", "loaded", "files", "migrating", "open", "recorded", "prepared", "serving"}
Whys     == {"none", "running", "done", "stopped"} \cup StartupErrors

\* Where the processes are, and why the last ones ended.
ProcOK ==
  /\ \A x \in Procs : proc[x].at \in ServerAt /\ proc[x].why \in Whys
  /\ proc["check"].at \in {"idle", "loaded", "files"}

LEMMA ProcOKStep ==
  ASSUME Shape, ProcOK, [Next]_vars
  PROVE  ProcOK'
<1>0. ProcShape /\ "server" \in Procs /\ "check" \in Procs /\ Procs = {"server", "check"}
  BY DEF Shape, Procs
<1>1. ASSUME NEW x \in Procs, Exit(x, "config") \/ Exit(x, "files") \/ Exit(x, "store")
                \/ Exit(x, "migration") \/ Exit(x, "hole") \/ Exit(x, "audit")
                \/ Exit(x, "tls") \/ Exit(x, "stopped") \/ Exit(x, "done")
      PROVE  ProcOK'
  <2>1. PICK why \in Whys : Exit(x, why)
    BY <1>1 DEF Whys, StartupErrors
  <2>2. proc'[x] = Idle(why) /\ \A y \in Procs \ {x} : proc'[y] = proc[y]
    BY <1>0, <2>1, ExitMoves
  <2>. QED BY <1>0, <2>2, IdleAt DEF ProcOK, ServerAt
<1>2. ASSUME NEW at \in ServerAt \ {"idle", "loaded"}, Goes("server", at),
             proc["server"].at \notin {"idle", "loaded"}
      PROVE  ProcOK'
  <2>1. /\ proc'["server"].at = at /\ proc'["server"].why = proc["server"].why
        /\ \A y \in Procs \ {"server"} : proc'[y] = proc[y]
    BY <1>0, <1>2, GoesMoves
  <2>2. proc'["check"] = proc["check"]
    BY <1>0, <2>1
  <2>. QED BY <1>0, <2>1, <2>2 DEF ProcOK
<1>3. CASE UNCHANGED proc
  BY <1>3 DEF ProcOK
<1>4. ASSUME NEW x \in Procs, Load(x) \/ FromFiles(x) PROVE ProcOK'
  <2>1. proc[x].at \in {"idle", "loaded"} /\ Moves(x)
    BY <1>4, NextMoves DEF Load, FromFiles
  <2>2. proc'[x].at \in {"idle", "loaded", "files"}
    BY <2>1, IdleAt DEF Moves, Ended, Read1, Read2, Further
  <2>3. proc'[x].why \in Whys /\ \A y \in Procs \ {x} : proc'[y] = proc[y]
    BY <1>4, LoadMoves, FromFilesMoves DEF ProcOK, Whys, StartupErrors
  <2>. QED BY <1>0, <2>2, <2>3 DEF ProcOK, ServerAt
<1>5. CASE Start
  <2>1. CASE OpenStore
    BY <1>0, <1>1, <1>2, <2>1 DEF OpenStore, ServerAt
  <2>2. CASE Migrate
    BY <1>3, <2>2 DEF Migrate
  <2>3. CASE MigrationFails \/ NotRecorded \/ Stop
    BY <1>0, <1>1, <2>3 DEF MigrationFails, NotRecorded, Stop
  <2>4. CASE Unseal
    BY <1>0, <1>1, <1>2, <2>4 DEF Unseal, ServerAt
  <2>5. CASE RecordSurface \/ RecordQuarantined \/ NothingQuarantined
    BY <1>0, <1>2, <2>5 DEF RecordSurface, RecordQuarantined, NothingQuarantined, ServerAt
  <2>6. CASE Serve
    BY <1>0, <1>1, <1>2, <2>6 DEF Serve, ServerAt
  <2>. QED BY <1>5, <2>1, <2>2, <2>3, <2>4, <2>5, <2>6 DEF Start
<1>6. CASE StoreState
  BY <1>0, <1>1, <1>6 DEF StoreState
<1>7. CASE Operator \/ UNCHANGED vars
  BY <1>3, <1>7, OperatorStays DEF vars
<1>. QED BY <1>3, <1>4, <1>5, <1>6, <1>7, LoginStays DEF Next

\* What a check reported, and how often the operator stepped in.
ReportOK ==
  report.exit \in {None, 0, 1, 3} /\ report.current \in BOOLEAN /\ edits \in 0..MaxEdits

LEMMA ReportOKStep ==
  ASSUME Shape, ReportOK, [Next]_vars
  PROVE  ReportOK'
<1>0. ReportShape
  BY DEF Shape
<1>1. ASSUME NEW x, NEW current \in BOOLEAN, Reports(x, 1, current), UNCHANGED edits PROVE ReportOK'
  BY <1>1 DEF ReportOK, Reports
<1>2. CASE UNCHANGED <<report, edits>>
  BY <1>2 DEF ReportOK
<1>3. ASSUME NEW x \in Procs, Load(x) \/ FromFiles(x) PROVE ReportOK'
  <2>1. Fresh(x) \in BOOLEAN
    BY DEF Fresh
  <2>2. UNCHANGED edits
    BY <1>3 DEF Load, FromFiles
  <2>3. UNCHANGED report \/ Reports(x, 1, TRUE) \/ Reports(x, 1, Fresh(x))
    BY <1>3 DEF Load, FromFiles
  <2>. QED BY <1>1, <1>2, <2>1, <2>2, <2>3
<1>4. CASE Migrate
  <2>1. report' = [report EXCEPT !.current = report.current /\ proc["server"].build = build]
        /\ UNCHANGED edits
    BY <1>4 DEF Migrate
  <2>2. report'.exit = report.exit /\ report'.current \in BOOLEAN
    BY <1>0, <2>1 DEF ReportShape
  <2>. QED BY <2>1, <2>2 DEF ReportOK
<1>5. CASE StoreState
  <2>1. UNCHANGED edits /\ Checked(StoreReady(host, proc["check"].build, proc["check"].config))
    BY <1>5 DEF StoreState
  <2>2. (Fresh("check") /\ proc["check"].file = disk.policies) \in BOOLEAN
    OBVIOUS
  <2>3. report'.exit \in {0, 3} /\ report'.current \in BOOLEAN
    BY <2>1, <2>2 DEF Checked
  <2>. QED BY <2>1, <2>3 DEF ReportOK
<1>6. CASE Operator
  <2>1. Edit
    BY <1>6 DEF Operator, EditConfig, EditPolicies, AddRule, Install, Repair
  <2>2. report'.exit = report.exit /\ report'.current = FALSE /\ edits' \in 0..MaxEdits
    BY <1>0, <2>1, DeploymentAssumption DEF ReportShape, ReportOK, Edit
  <2>. QED BY <2>2 DEF ReportOK
<1>7. CASE Start /\ ~Migrate
  BY <1>2, <1>7 DEF Start, OpenStore, Unseal, MigrationFails, RecordSurface,
                RecordQuarantined, NothingQuarantined, NotRecorded, Serve, Stop
<1>8. CASE UNCHANGED vars
  BY <1>2, <1>8 DEF vars
<1>. QED BY <1>2, <1>3, <1>4, <1>5, <1>6, <1>7, <1>8, LoginStays DEF Next

HostOK == host.file \in BOOLEAN /\ host.exists \in BOOLEAN

LEMMA HostOKStep ==
  ASSUME Shape, HostOK, [Next]_vars
  PROVE  HostOK'
<1>0. DOMAIN host = HostFields
  BY DEF Shape, HostShape
<1>1. CASE OpenStore
  BY <1>0, <1>1 DEF OpenStore, HostOK, HostFields
<1>2. CASE Migrate
  BY <1>0, <1>2 DEF Migrate, HostOK, HostFields
<1>3. CASE Unseal \/ StoreState
  <2>1. \E more \in BOOLEAN : host' = [host EXCEPT !.file = host.file \/ more]
    BY <1>3 DEF Unseal, StoreState
  <2>. QED BY <1>0, <2>1 DEF HostOK, HostFields
<1>4. CASE \E h \in Hosts : Repair(h)
  BY <1>4, FilesAssumption DEF Repair, HostOK
<1>5. CASE UNCHANGED host
  BY <1>5 DEF HostOK
<1>. QED BY <1>1, <1>2, <1>3, <1>4, <1>5, HostMoves

\* The trail, and the entries that the rows name.
RowsOK ==
  /\ Len(trail) \in 0..MaxTrail + 1
  /\ \A t \in tokens : t.entry \in 1..Len(trail) /\ t.minted \in 0..MaxClock

LEMMA RowsOKStep ==
  ASSUME Shape, RowsOK, [Next]_vars
  PROVE  RowsOK'
<1>0. PICK T : trail \in Seq(T)
  BY DEF Shape, TrailShape
<1>1. MaxTrail \in Nat /\ Len(trail) \in Nat
  BY <1>0, DeploymentAssumption
<1>2. ASSUME Len(trail) < MaxTrail, NEW e, trail' = Append(trail, e), UNCHANGED tokens PROVE RowsOK'
  <2>1. Len(trail') = Len(trail) + 1
    BY <1>0, <1>2
  <2>. QED BY <1>1, <1>2, <2>1 DEF RowsOK
<1>3. CASE UNCHANGED <<trail, tokens>>
  BY <1>3 DEF RowsOK
<1>4. CASE \E x \in Procs : Load(x) \/ FromFiles(x)
  BY <1>3, <1>4 DEF Load, FromFiles
<1>5. CASE RecordSurface \/ RecordQuarantined
  BY <1>2, <1>5 DEF RecordSurface, RecordQuarantined
<1>6. CASE Start /\ ~RecordSurface /\ ~RecordQuarantined
  BY <1>3, <1>6 DEF Start, OpenStore, Migrate, Unseal, MigrationFails, NothingQuarantined,
                NotRecorded, Serve, Stop
<1>7. CASE StoreState
  BY <1>3, <1>7 DEF StoreState
<1>8. CASE \E token \in IdTokens, asked \in Asked, now \in 0..MaxClock : Login(token, asked, now)
  <2>1. PICK token \in IdTokens, asked \in Asked, now \in 0..MaxClock : Login(token, asked, now)
    BY <1>8
  <2>. DEFINE result == Exchange(Providers("server"), token, now)
              row == [identity |-> result.identity, source |-> token, minted |-> now,
                      entry |-> Len(trail) + 1, expires |-> now + Lifetime(asked, result.ttl)]
  <2>2. /\ Len(trail) < MaxTrail
        /\ \/ UNCHANGED <<trail, tokens>>
           \/ UNCHANGED tokens /\ \E e : trail' = Append(trail, e)
           \/ tokens' = tokens \cup {row} /\ \E e : trail' = Append(trail, e)
    BY <2>1 DEF Login
  <2>3. row.entry = Len(trail) + 1 /\ row.minted = now
    OBVIOUS
  <2>. HIDE DEF row
  <2>4. CASE tokens' = tokens \cup {row} /\ \E e : trail' = Append(trail, e)
    <3>1. Len(trail') = Len(trail) + 1
      BY <1>0, <2>4
    <3>2. ASSUME NEW t \in tokens' PROVE t.entry \in 1..Len(trail') /\ t.minted \in 0..MaxClock
      <4>1. CASE t \in tokens
        BY <1>1, <3>1, <4>1 DEF RowsOK
      <4>2. CASE t = row
        BY <1>1, <2>3, <3>1, <4>2
      <4>. QED BY <2>4, <4>1, <4>2
    <3>. QED BY <1>1, <2>2, <3>1, <3>2 DEF RowsOK
  <2>. QED BY <1>2, <1>3, <2>2, <2>4
<1>9. CASE \E token \in IdTokens, now \in 0..MaxClock : MintFails(token, now)
  <2>1. Len(trail) < MaxTrail /\ UNCHANGED tokens /\ \E e, f : trail' = trail \o <<e, f>>
    BY <1>9 DEF MintFails
  <2>2. PICK e, f : trail' = trail \o <<e, f>>
    BY <2>1
  <2>3. Len(trail') = Len(trail) + 2
    <3>1. trail \in Seq(T \cup {e, f}) /\ <<e, f>> \in Seq(T \cup {e, f}) /\ Len(<<e, f>>) = 2
      BY <1>0
    <3>. QED BY <2>2, <3>1
  <2>. QED BY <1>1, <2>1, <2>3 DEF RowsOK
<1>10. CASE Operator \/ UNCHANGED vars
  BY <1>3, <1>10, OperatorStays DEF vars
<1>. QED BY <1>4, <1>5, <1>6, <1>7, <1>8, <1>9, <1>10 DEF Next

\* Every process is at a line of its program, every refusal is one of the errors
\* the program has, the trail and the counters are within their bounds, and every
\* token row names an entry that is there.
THEOREM DeploymentTypes == Spec => []TypeOK
<1>. DEFINE Ranges == ProcOK /\ ReportOK /\ HostOK /\ RowsOK
<1>1. Init => Ranges
  <2>. SUFFICES ASSUME Init PROVE Ranges
    OBVIOUS
  <2>1. ProcOK
    BY IdleAt DEF Init, ProcOK, Procs, ServerAt, Whys
  <2>2. ReportOK
    BY DeploymentAssumption DEF Init, ReportOK
  <2>3. HostOK
    BY FilesAssumption DEF Init, HostOK
  <2>4. RowsOK
    BY DeploymentAssumption DEF Init, RowsOK
  <2>. QED BY <2>1, <2>2, <2>3, <2>4
<1>2. Shape /\ Ranges /\ [Next]_vars => Ranges'
  BY ProcOKStep, ReportOKStep, HostOKStep, RowsOKStep
<1>3. Shape /\ Ranges => TypeOK
  BY ErrorRange DEF Shape, HostShape, ProcOK, ReportOK, HostOK, RowsOK, TypeOK, ServerAt, Whys
<1>. HIDE DEF Ranges
<1>. QED BY <1>1, <1>2, <1>3, LoadedInvariant, PTL DEF Spec
=============================================================================
