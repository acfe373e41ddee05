----------------------------- MODULE Deployment -----------------------------
(***************************************************************************)
(* A deployment of ciphr: the configuration and the policy file on disk,   *)
(* the store and the keys of the host, ciphr-server starting and serving   *)
(* from them, ciphr-server --check-config beside it, and logins through a  *)
(* federated provider (crates/ciphr-server: main.rs, config.rs, surface.rs,*)
(* server.rs, tls.rs, and oidc_login of api.rs; crates/ciphr-store/src/    *)
(* migrations.rs).                                                         *)
(*                                                                         *)
(* The two files are read one after the other, and an operator edits them  *)
(* at any time. A start reads, migrates, unseals, opens, records and binds *)
(* in steps, and may be killed between any two of them. What happens to a  *)
(* request after it is authenticated is in module Requests, how devices    *)
(* fail in AuditSink, how the lock is taken in StoreLock.                  *)
(***************************************************************************)
EXTENDS Federation

CONSTANTS
  Builds,        \* the binaries a host may have: the schema and the bait feature
  Hosts,         \* the hosts a deployment may begin on
  BaseFiles,     \* the pairs of files it may begin with
  Audits,        \* what an operator may write instead: audit devices,
  Surfaces,      \*   surface stanzas,
  Oidcs,         \*   providers,
  PolicyFiles,   \*   whole policy files,
  RawRules,      \*   and rules added to a policy
  IdTokens,      \* the tokens a provider may have issued or a caller made up
  Asked,         \* the lifetimes a caller may ask for
  RawPaths,      \* the paths a request may name, as they are typed
  MaxBytes,      \* u64::MAX for a rotation size
  MaxEdits,
  MaxTrail,      \* how long the trail may be when a handler begins
  MaxClock       \* what the clock of the host may say at a login, in any order

\* A list of the file, of whatever elements.
IsList(s) == s \in Seq({s[i] : i \in DOMAIN s})

\* What the loader's types say of the [[auth.oidc]] stanzas, right or wrong.
AreStanzas(o) ==
  /\ IsList(o)
  /\ \A i \in DOMAIN o :
       /\ o[i].skew \in Nat /\ o[i].ttl.digits \in Nat
       /\ IsList(o[i].bindings)
       /\ \A j \in DOMAIN o[i].bindings : \A c \in DOMAIN o[i].bindings[j].claims :
            o[i].bindings[j].claims[c] # None

\* A text that is cut at its slashes has at least one segment.
IsText(t) == IsList(t) /\ t # <<>>

IsRule(r) == IsText(r.path) /\ IsList(r.capabilities)

\* What the loader's types say of a policy file that is TOML of its shape.
IsPolicyFile(f) ==
  f.syntax =>
    /\ DOMAIN f = {"syntax", "identity", "policy"}
    /\ IsList(f.policy) /\ IsList(f.identity)
    /\ \A p \in DOMAIN f.policy :
         /\ DOMAIN f.policy[p] = {"name", "rule"} /\ IsList(f.policy[p].rule)
         /\ \A k \in DOMAIN f.policy[p].rule : IsRule(f.policy[p].rule[k])
    /\ \A n \in DOMAIN f.identity : IsList(f.identity[n].policies)

ASSUME DeploymentAssumption ==
  /\ MaxEdits \in Nat /\ MaxClock \in Nat /\ MaxTrail \in Nat
  /\ \A b \in Builds : b.schema \in Nat \ {0} /\ b.bait \in BOOLEAN

ASSUME FilesAssumption ==
  /\ \A h \in Hosts :
       /\ DOMAIN h = {"exists", "schema", "seal", "master", "dir", "file", "tls", "hole"}
       /\ h.schema \in Nat /\ h.file \in BOOLEAN /\ h.exists \in BOOLEAN
  /\ \A f \in BaseFiles :
       /\ DOMAIN f = {"config", "policies"}
       /\ DOMAIN f.config = {"syntax", "audit", "surface", "oidc", "seal"}
       /\ AreStanzas(f.config.oidc) /\ IsPolicyFile(f.policies)
  /\ \A o \in Oidcs : AreStanzas(o)
  /\ \A f \in PolicyFiles : IsPolicyFile(f)
  /\ \A r \in RawRules : IsRule(r)
  /\ \A t \in RawPaths : IsText(t)

ASSUME TokenAssumption ==
  /\ None \notin Int /\ NotWhole \notin Int
  /\ Asked \subseteq Nat \cup {None}
  /\ \A t \in IdTokens : {t.exp, t.nbf} \subseteq Int \cup {None, NotWhole}

VARIABLES
  disk,     \* [config, policies]: the two files
  build,    \* the binary that is installed
  host,     \* store, master key, TLS material and audit file
  proc,     \* the processes: the server, and a check beside it
  report,   \* what the last check said, and of what
  trail,    \* the entries of start-up and of logins
  tokens,   \* the tokens that logins minted
  edits

vars == <<disk, build, host, proc, report, trail, tokens, edits>>

Procs == {"server", "check"}

-----------------------------------------------------------------------------
(* Config::load.                                                           *)

UnitBytes == [GB |-> 1024 * 1024 * 1024, MB |-> 1024 * 1024, KB |-> 1024, B |-> 1]

\* parse_size: None for an error.
ParseSize(size) ==
  IF /\ size.digits # NotWhole
     /\ size.digits > 0
     /\ size.digits <= MaxBytes \div UnitBytes[size.unit]
  THEN size.digits * UnitBytes[size.unit]
  ELSE None

LoginEntry == "oidc_login"

\* Config::validate.
ConfigProblem(config) ==
  LET named == \E i \in DOMAIN config.surface : config.surface[i].entry = LoginEntry
  IN  IF ~config.syntax THEN "syntax"
      ELSE IF config.audit = <<>> THEN "no-audit-device"
      ELSE IF \A i \in DOMAIN config.audit : config.audit[i].type # "sqlite"
        THEN "no-store-audit-device"
      ELSE IF \E i \in DOMAIN config.audit :
                /\ config.audit[i].type = "file" /\ config.audit[i].size # None
                /\ ParseSize(config.audit[i].size) = None
        THEN "size"
      ELSE IF named /\ config.oidc = <<>> THEN "oidc-entry-without-provider"
      ELSE IF ~named /\ config.oidc # <<>> THEN "oidc-provider-without-entry"
      ELSE Fine

-----------------------------------------------------------------------------
(* surface::resolve.                                                       *)

\* ENTRIES, and how each is switched on.
Entries ==
  [viewer_api |-> "runtime", bulk_export |-> "runtime", token_status |-> "runtime",
   token_revoke |-> "runtime", oidc_login |-> "runtime", honeypot_alert |-> "build"]

CompiledIn(b, entry) == Entries[entry] = "build" => b.bait

\* is_iso_date: the shape of a date, and a month and a day that exist in some year.
IsIsoDate(date) == date # NotWhole /\ date[2] \in 1..12 /\ date[3] \in 1..31

\* One stanza, after the stanzas before it.
StanzaProblem(stanzas, i) ==
  IF stanzas[i].entry \notin DOMAIN Entries THEN "surface-unknown"
  ELSE IF \E j \in 1..i - 1 : stanzas[j].entry = stanzas[i].entry THEN "surface-duplicate"
  ELSE IF ~IsIsoDate(stanzas[i].accepted) THEN "surface-date"
  ELSE IF stanzas[i].reason = "" THEN "surface-reason"
  ELSE Fine

ActiveEntries(stanzas) == {stanzas[i].entry : i \in DOMAIN stanzas}

\* Mutant of SurfaceProblem: the file is not held against the binary.
SurfaceProblemFileOnly(b, stanzas) ==
  LET Problem(i) == StanzaProblem(stanzas, i)
  IN  FirstProblem(Len(stanzas), Problem)

\* The stanzas first, then the binary against the file in both directions.
SurfaceProblem(b, stanzas) ==
  LET Problem(i) == StanzaProblem(stanzas, i)
      within     == FirstProblem(Len(stanzas), Problem)
      built      == {e \in DOMAIN Entries : Entries[e] = "build"}
  IN  IF within # Fine THEN within
      ELSE IF \E e \in built : e \in ActiveEntries(stanzas) /\ ~CompiledIn(b, e)
        THEN "surface-not-built"
      ELSE IF \E e \in built : e \notin ActiveEntries(stanzas) /\ CompiledIn(b, e)
        THEN "surface-undeclared"
      ELSE Fine

-----------------------------------------------------------------------------
(* Why a start or a check refuses.                                         *)

\* ConfigError.
ConfigErrors ==
  {"syntax", "size", "no-audit-device", "no-store-audit-device",
   "surface-unknown", "surface-duplicate", "surface-date", "surface-reason",
   "surface-not-built", "surface-undeclared",
   "oidc-name", "oidc-issuer", "oidc-audience", "oidc-duplicate-provider", "oidc-ttl",
   "oidc-no-keys", "oidc-key-encoding", "oidc-key-size", "oidc-duplicate-key",
   "oidc-no-bindings", "oidc-binding-identity", "oidc-binding-no-claims",
   "oidc-binding-verified-claim", "oidc-duplicate-binding", "oidc-unknown-identity",
   "oidc-entry-without-provider", "oidc-provider-without-entry"}

\* StartupError, by what refused: the configuration file, the two files together,
\* the store with its key and devices, the chain, a migration, the trail, TLS.
StartupErrors == {"config", "files", "store", "hole", "migration", "audit", "tls"}

-----------------------------------------------------------------------------
(* from_files, which a start and a check share.                            *)

FilesProblem(b, config, file) ==
  LET policies   == FromToml(file)
      federation == ResolveFederation(config.oidc)
  IN  IF ~policies.ok THEN policies.error
      ELSE IF SurfaceProblem(b, config.surface) # Fine THEN SurfaceProblem(b, config.surface)
      ELSE IF ~federation.ok THEN federation.error
      ELSE IF ~(BoundIdentities(federation.value) \subseteq DOMAIN policies.value.identities)
        THEN "oidc-unknown-identity"
      ELSE Fine

-----------------------------------------------------------------------------
(* The processes.                                                          *)

NoFile == [syntax |-> FALSE]

NoBuild == [schema |-> 0, bait |-> FALSE]

\* A process that does not run, and why the last one ended. A running one keeps
\* its binary, the configuration and, once it has read them, the policies.
Idle(why) == [at |-> "idle", config |-> NoFile, file |-> NoFile, build |-> NoBuild,
              why |-> why]

Policies(x)   == FromToml(proc[x].file).value
Surface(x)    == ActiveEntries(proc[x].config.surface)
Providers(x)  == ResolveFederation(proc[x].config.oidc).value

\* The process ends. A server that ends gives back the store lock.
Exit(x, why) == proc' = [proc EXCEPT ![x] = Idle(why)]

Goes(x, at) == proc' = [proc EXCEPT ![x].at = at]

\* A check ends with a code: 0 usable and ready, 1 not usable, 3 not ready.
\* current tells whether the files, the binary and the host are still the ones
\* that it looked at. A start that the files refuse reports nothing.
Reports(x, code, current) ==
  IF x = "check" THEN report' = [exit |-> code, current |-> current, unreachable |-> {}]
                 ELSE UNCHANGED report

\* run: Config::load reads and validates the configuration file.
Load(x) ==
  /\ proc[x].at = "idle"
  /\ IF ConfigProblem(disk.config) = Fine
       THEN /\ proc' = [proc EXCEPT ![x].at = "loaded", ![x].config = disk.config,
                                    ![x].build = build, ![x].why = "running"]
            /\ UNCHANGED report
       ELSE Exit(x, "config") /\ Reports(x, 1, TRUE)
  /\ UNCHANGED <<disk, build, host, trail, tokens, edits>>

\* The binary and the configuration of a process are the ones installed now.
Fresh(x) == proc[x].config = disk.config /\ proc[x].build = build

\* from_files reads the policy file, which may be a later one.
FromFiles(x) ==
  /\ proc[x].at = "loaded"
  /\ IF FilesProblem(proc[x].build, proc[x].config, disk.policies) = Fine
       THEN /\ proc' = [proc EXCEPT ![x].at = "files", ![x].file = disk.policies]
            /\ UNCHANGED report
       ELSE Exit(x, "files") /\ Reports(x, 1, Fresh(x))
  /\ UNCHANGED <<disk, build, host, trail, tokens, edits>>

-----------------------------------------------------------------------------
(* Server::prepare and Server::serve.                                      *)

\* The table audit_log arrives with the second migration.
AuditTable(h) == h.schema >= 2

\* The seal record exists and the configured key opens it.
Unsealed(h, config) == h.seal /\ h.master[config.seal] = "right"

\* One device of open_devices.
DeviceOpens(h, device) == IF device.type = "sqlite" THEN AuditTable(h) ELSE h.dir

DevicesOpen(h, config) == \A i \in DOMAIN config.audit : DeviceOpens(h, config.audit[i])

\* Opening a file device creates the file. The loop ends at the first refusal.
FileCreated(h, config) ==
  \/ h.file
  \/ \E i \in DOMAIN config.audit :
       /\ config.audit[i].type = "file"
       /\ \A j \in 1..i : DeviceOpens(h, config.audit[j])

\* SqliteStore::open creates a database that is missing, and refuses a newer one.
OpenStore ==
  /\ proc["server"].at = "files"
  /\ IF host.schema > proc["server"].build.schema
       THEN Exit("server", "store") /\ UNCHANGED host
       ELSE Goes("server", "migrating") /\ host' = [host EXCEPT !.exists = TRUE]
  /\ UNCHANGED <<disk, build, report, trail, tokens, edits>>

\* migrations::apply: one migration and its marker in one transaction. A binary
\* that is no longer the installed one makes what a check said of this host stale.
Migrate ==
  /\ proc["server"].at = "migrating"
  /\ host.schema < proc["server"].build.schema
  /\ host' = [host EXCEPT !.schema = @ + 1]
  /\ report' = [report EXCEPT !.current = @ /\ proc["server"].build = build]
  /\ UNCHANGED <<disk, build, proc, trail, tokens, edits>>

\* A migration fails and is rolled back; the ones before it stay.
MigrationFails ==
  /\ proc["server"].at = "migrating"
  /\ host.schema < proc["server"].build.schema
  /\ Exit("server", "migration")
  /\ UNCHANGED <<disk, build, host, report, trail, tokens, edits>>

\* The seal record, the master key, the devices, and the chain that the store
\* says is continued. Each of them refuses, and a file that was created stays.
Unseal ==
  LET config == proc["server"].config
      opens  == Unsealed(host, config) /\ DevicesOpen(host, config)
  IN  /\ proc["server"].at = "migrating"
      /\ host.schema = proc["server"].build.schema
      /\ host' = [host EXCEPT !.file = @ \/ (Unsealed(host, config) /\ FileCreated(host, config))]
      /\ \/ ~opens /\ Exit("server", "store")
         \/ opens /\ host.hole /\ Exit("server", "hole")
         \/ opens /\ ~host.hole /\ Goes("server", "open")
      /\ UNCHANGED <<disk, build, report, trail, tokens, edits>>

SurfaceEntry(S) == [kind |-> "surface", surface |-> S]

\* Mutant of RecordSurface: the entry names what the file on disk says now.
RecordSurfaceOfDisk ==
  /\ proc["server"].at = "open"
  /\ Len(trail) < MaxTrail
  /\ trail' = Append(trail, SurfaceEntry(ActiveEntries(disk.config.surface)))
  /\ Goes("server", "recorded")
  /\ UNCHANGED <<disk, build, host, report, tokens, edits>>

\* AppState::record_surface, before the listener is bound.
RecordSurface ==
  /\ proc["server"].at = "open"
  /\ Len(trail) < MaxTrail
  /\ trail' = Append(trail, SurfaceEntry(Surface("server")))
  /\ Goes("server", "recorded")
  /\ UNCHANGED <<disk, build, host, report, tokens, edits>>

\* AppState::record_quarantined: one entry for a file that came back behind the
\* chain, which is for AuditSink to say.
RecordQuarantined ==
  /\ proc["server"].at = "recorded"
  /\ Len(trail) < MaxTrail
  /\ \E i \in DOMAIN proc["server"].config.audit : proc["server"].config.audit[i].type = "file"
  /\ trail' = Append(trail, [kind |-> "quarantined"])
  /\ Goes("server", "prepared")
  /\ UNCHANGED <<disk, build, host, report, tokens, edits>>

NothingQuarantined ==
  /\ proc["server"].at = "recorded"
  /\ Goes("server", "prepared")
  /\ UNCHANGED <<disk, build, host, report, trail, tokens, edits>>

\* No device accepts one of the two entries, and prepare gives up.
NotRecorded ==
  /\ proc["server"].at \in {"open", "recorded"}
  /\ Exit("server", "audit")
  /\ UNCHANGED <<disk, build, host, report, trail, tokens, edits>>

\* tls::load: both files are there, and each holds what it should.
TlsLoads(h) == h.tls.cert = "certificate" /\ h.tls.key = "private key"

\* Server::serve: the TLS material, which nothing before looked at, and the listener.
Serve ==
  /\ proc["server"].at = "prepared"
  /\ IF TlsLoads(host) THEN Goes("server", "serving") ELSE Exit("server", "tls")
  /\ UNCHANGED <<disk, build, host, report, trail, tokens, edits>>

\* The listener cannot be bound, a signal asks the server to stop, or the
\* process is killed, at any point.
Stop ==
  /\ proc["server"].at # "idle"
  /\ Exit("server", "stopped")
  /\ UNCHANGED <<disk, build, host, report, trail, tokens, edits>>

-----------------------------------------------------------------------------
(* ciphr-server --check-config: Server::check after from_files.            *)

\* Mutant of StoreReady: the key is located and not used.
StoreReadyKeyLocated(h, b, config) ==
  /\ h.exists
  /\ h.schema <= b.schema
  /\ h.seal /\ h.master[config.seal] # "missing"
  /\ DevicesOpen(h, config)

\* store_state: what it takes for the store to be reported as ready.
StoreReady(h, b, config) ==
  /\ h.exists
  /\ h.schema <= b.schema
  /\ Unsealed(h, config)
  /\ DevicesOpen(h, config)

\* anyone_may, over the grants that REACHABILITY lists.
Unreachable(policies, surface) ==
  {e \in {"token_status", "token_revoke"} \cap surface :
     \A i \in DOMAIN policies.identities :
       ~Allowed(policies, i, <<Reserved, "tokens">>,
                IF e = "token_status" THEN "inspect" ELSE "revoke")}

\* Server::check and check_report, with the store as store_state found it.
Checked(ready) ==
  report' = [exit |-> IF ready THEN 0 ELSE 3,
             current |-> Fresh("check") /\ proc["check"].file = disk.policies,
             unreachable |-> Unreachable(Policies("check"), Surface("check"))]

\* store_state opens the store read-only, and the devices as a start opens them.
StoreState ==
  LET config == proc["check"].config
      b      == proc["check"].build
      opened == host.exists /\ host.schema <= b.schema /\ Unsealed(host, config)
  IN  /\ proc["check"].at = "files"
      /\ Exit("check", "done")
      /\ host' = [host EXCEPT !.file = @ \/ (opened /\ FileCreated(host, config))]
      /\ Checked(StoreReady(host, b, config))
      /\ UNCHANGED <<disk, build, trail, tokens, edits>>

-----------------------------------------------------------------------------
(* oidc_login of api.rs, and AppState::store_federated_token.              *)

\* The trail also says why a token was refused, and whose it was.
LoginEntryOf(kind, result) ==
  [kind |-> kind, provider |-> result.provider,
   identity |-> IF kind = "minted" THEN result.identity ELSE None]

\* "Less on request, never more."
Lifetime(asked, ttl) == IF asked = None \/ asked > ttl THEN ttl ELSE asked

\* Mutant of Login: the row is written and the entry is not.
LoginUnrecorded(token, asked, now) ==
  LET result == Exchange(Providers("server"), token, now)
  IN  /\ proc["server"].at = "serving"
      /\ LoginEntry \in Surface("server")
      /\ asked # 0
      /\ Len(trail) < MaxTrail
      /\ result.outcome = "accepted"
      /\ tokens' = tokens \cup
           {[identity |-> result.identity, source |-> token, minted |-> now,
             entry |-> Len(trail) + 1, expires |-> now + Lifetime(asked, result.ttl)]}
      /\ UNCHANGED <<disk, build, host, proc, report, trail, edits>>

\* The route exists when the surface names the entry. What no key verifies is
\* answered and not recorded; what a provider signed is recorded either way, and
\* the row is written after the entry.
Login(token, asked, now) ==
  LET result == Exchange(Providers("server"), token, now)
  IN  /\ proc["server"].at = "serving"
      /\ LoginEntry \in Surface("server")
      /\ asked # 0
      /\ Len(trail) < MaxTrail
      /\ CASE result.outcome = "refused" ->
                /\ trail' = Append(trail, LoginEntryOf("login-refused", result))
                /\ UNCHANGED tokens
           [] result.outcome = "accepted" ->
                /\ trail' = Append(trail, LoginEntryOf("minted", result))
                /\ tokens' = tokens \cup
                     {[identity |-> result.identity, source |-> token, minted |-> now,
                       entry |-> Len(trail) + 1,
                       expires |-> now + Lifetime(asked, result.ttl)]}
           [] OTHER -> UNCHANGED <<trail, tokens>>
      /\ UNCHANGED <<disk, build, host, proc, report, edits>>

\* The entry is stored and the row is not: the correcting entry follows.
MintFails(token, now) ==
  LET result == Exchange(Providers("server"), token, now)
  IN  /\ proc["server"].at = "serving"
      /\ LoginEntry \in Surface("server")
      /\ Len(trail) < MaxTrail
      /\ result.outcome = "accepted"
      /\ trail' = trail \o <<LoginEntryOf("minted", result), LoginEntryOf("mint-failed", result)>>
      /\ UNCHANGED <<disk, build, host, proc, report, tokens, edits>>

-----------------------------------------------------------------------------
(* What an operator does.                                                  *)

Edit == edits < MaxEdits /\ edits' = edits + 1 /\ report' = [report EXCEPT !.current = FALSE]

\* An editor or a deployment replaces one part of the configuration.
EditConfig ==
  /\ Edit
  /\ \/ \E a \in Audits : disk' = [disk EXCEPT !.config.audit = a]
     \/ \E s \in Surfaces : disk' = [disk EXCEPT !.config.surface = s]
     \/ \E o \in Oidcs : disk' = [disk EXCEPT !.config.oidc = o]
     \/ \E k \in {"static_env", "static_file"} : disk' = [disk EXCEPT !.config.seal = k]
  /\ UNCHANGED <<build, host, proc, trail, tokens>>

EditPolicies ==
  /\ Edit
  /\ \E f \in PolicyFiles : disk' = [disk EXCEPT !.policies = f]
  /\ UNCHANGED <<build, host, proc, trail, tokens>>

\* One rule more in one policy.
AddRule(p, r) ==
  /\ Edit
  /\ disk.policies.syntax
  /\ p \in DOMAIN disk.policies.policy
  /\ disk' = [disk EXCEPT !.policies.policy[p].rule = Append(@, r)]
  /\ UNCHANGED <<build, host, proc, trail, tokens>>

\* Another binary is installed. A process keeps the one it was started from.
Install(b) ==
  /\ Edit
  /\ build' = b
  /\ UNCHANGED <<disk, host, proc, trail, tokens>>

\* The host is initialized, restored or repaired while nothing runs on it.
Repair(h) ==
  /\ Edit
  /\ \A x \in Procs : proc[x].at = "idle"
  /\ host' = h
  /\ UNCHANGED <<disk, build, proc, trail, tokens>>

-----------------------------------------------------------------------------
(* The specification.                                                      *)

Init ==
  /\ disk \in BaseFiles
  /\ build \in Builds
  /\ host \in Hosts
  /\ proc = [x \in Procs |-> Idle("none")]
  /\ report = [exit |-> None, current |-> FALSE, unreachable |-> {}]
  /\ trail = <<>>
  /\ tokens = {}
  /\ edits = 0

Start == OpenStore \/ Migrate \/ MigrationFails \/ Unseal \/ RecordSurface
         \/ RecordQuarantined \/ NothingQuarantined \/ NotRecorded \/ Serve \/ Stop

Operator ==
  \/ EditConfig
  \/ EditPolicies
  \/ \E p \in 1..2, r \in RawRules : AddRule(p, r)
  \/ \E b \in Builds : Install(b)
  \/ \E h \in Hosts : Repair(h)

Next ==
  \/ \E x \in Procs : Load(x) \/ FromFiles(x)
  \/ Start
  \/ StoreState
  \/ \E token \in IdTokens, asked \in Asked, now \in 0..MaxClock : Login(token, asked, now)
  \/ \E token \in IdTokens, now \in 0..MaxClock : MintFails(token, now)
  \/ Operator

Spec == Init /\ [][Next]_vars

-----------------------------------------------------------------------------
(* Properties.                                                             *)

\* Every process is at a line of main, prepare, serve or check, the trail and
\* the counters are within their bounds, and a token row has its fields.
TypeOK ==
  /\ \A x \in Procs : proc[x].at \in {"idle", "loaded", "files", "migrating", "open",
                                      "recorded", "prepared", "serving"}
  /\ proc["check"].at \in {"idle", "loaded", "files"}
  /\ \A x \in Procs :
       proc[x].why \in {"none", "running", "done", "stopped"} \cup StartupErrors
  /\ proc["server"].at = "loaded" =>
       FilesProblem(proc["server"].build, proc["server"].config, disk.policies) \in
         {Fine} \cup ConfigErrors \cup PolicyErrors
  /\ ConfigProblem(disk.config) \in {Fine} \cup ConfigErrors
  /\ report.exit \in {None, 0, 1, 3} /\ report.current \in BOOLEAN
  /\ host.schema \in Nat /\ host.file \in BOOLEAN /\ host.exists \in BOOLEAN
  /\ Len(trail) \in 0..MaxTrail + 1
  /\ \A t \in tokens : t.entry \in 1..Len(trail) /\ t.minted \in 0..MaxClock
  /\ edits \in 0..MaxEdits

\* A check that ended with 0 predicts the start: as long as the files, the binary
\* and the host are the ones it saw, a start is refused neither by the files nor
\* by the store, the key or the devices (Server::check: "the drift would be
\* invisible until a file passed the check and refused to start"). What a check
\* does not look at stays out: migrations, the chain, TLS and the first entry.
CheckPredictsStart ==
  [][ report.exit = 0 /\ report.current /\ proc["server"].at \in {"idle", "loaded", "files", "migrating"}
      /\ (proc["server"].at = "loaded" => Fresh("server"))
      /\ (proc["server"].at \in {"files", "migrating"} =>
            Fresh("server") /\ proc["server"].file = disk.policies)
        => proc'["server"].why \notin {"config", "files", "store"} \ {proc["server"].why} ]_vars

\* A check spends nothing: while no start is under way the schema stays, whatever
\* is checked, and no check adds to the trail (Server::check: "No migration",
\* "No audit record").
CheckSpendsNothing ==
  [][ proc["server"].at = "idle" /\ edits' = edits => host'.schema = host.schema /\ trail' = trail ]_vars

\* What a server offers is what its newest surface entry says, however the file
\* was edited while it was starting, and the entry is there before it serves.
ServesWhatItRecorded ==
  proc["server"].at \in {"recorded", "prepared", "serving"} =>
    \E i \in DOMAIN trail :
      /\ trail[i] = SurfaceEntry(Surface("server"))
      /\ \A j \in i + 1..Len(trail) : trail[j].kind # "surface"

\* A server that has read its files runs no entry its binary lacks and lacks none
\* its binary has; it federates exactly when the login entry is on; and every
\* identity a provider may resolve to has rules in the file it loaded.
StartedInAgreement ==
  proc["server"].at \notin {"idle", "loaded"} =>
    /\ \A e \in DOMAIN Entries :
         Entries[e] = "build" => (e \in Surface("server")) = proc["server"].build.bait
    /\ (LoginEntry \in Surface("server")) = (Providers("server") # <<>>)
    /\ BoundIdentities(Providers("server")) \subseteq DOMAIN Policies("server").identities

\* The bindings of a provider whose claims a presented token carries.
Satisfied(p, source) ==
  {b \in DOMAIN p.bindings :
     \A c \in DOMAIN p.bindings[b].claims :
       c \in DOMAIN source.claims /\ source.claims[c] = p.bindings[b].claims[c]}

\* The provider signed what the row was minted from, for its audience and in its
\* time, for the one binding it satisfies, and for no longer than its ceiling.
Justifies(p, t) ==
  /\ p.issuer = t.source.iss
  /\ \E k \in DOMAIN p.keys : p.keys[k].pair = t.source.signer
  /\ p.audience \in t.source.aud
  /\ t.source.exp \in Int /\ t.minted <= t.source.exp + p.skew
  /\ SecondsClaim(t.source.nbf) # None => t.minted >= t.source.nbf - p.skew
  /\ Cardinality(Satisfied(p, t.source)) = 1
  /\ \A b \in Satisfied(p, t.source) : p.bindings[b].identity = t.identity
  /\ t.minted < t.expires /\ t.expires <= t.minted + p.ttl

\* A login mints for a token that a provider of the running configuration signed
\* for its audience and in its time, for the one binding that its claims satisfy,
\* an identity with rules, and for no longer than the provider's ceiling; the
\* entry that names it is in the trail (oidc_login, Federation::exchange).
MintIsJustified ==
  [][ \A t \in tokens' \ tokens :
        /\ \E i \in DOMAIN Providers("server") : Justifies(Providers("server")[i], t)
        /\ t.identity \in DOMAIN Policies("server").identities
        /\ trail'[t.entry].kind = "minted" /\ trail'[t.entry].identity = t.identity ]_vars

\* The rules a policy file attaches to an identity, read without the loader.
AttachedRules(file, identity) ==
  UNION {{[pattern |-> Normalize(file.policy[p].rule[k].path),
           capabilities |-> {file.policy[p].rule[k].capabilities[c] :
                               c \in DOMAIN file.policy[p].rule[k].capabilities}] :
            k \in DOMAIN file.policy[p].rule} :
         p \in {p \in DOMAIN file.policy :
                  \E n \in DOMAIN file.identity :
                    /\ file.identity[n].name = identity
                    /\ \E m \in DOMAIN file.identity[n].policies :
                         file.identity[n].policies[m] = file.policy[p].name}}

\* What a server decides with the file it loaded is what the documentation of the
\* pattern language and of the evaluation says, for every identity, path and
\* capability, however path and pattern were typed.
DecisionIsDocumented ==
  proc["server"].at = "files" =>
    LET set == Policies("server")
    IN  \A i \in DOMAIN set.identities :
          LET rules == AttachedRules(proc["server"].file, i)
          IN  \A raw \in RawPaths : ParsePath(raw).ok =>
                {c \in Capabilities : Granted(rules, Normalize(raw), c)}
                  = EffectiveCapabilities(set, i, ParsePath(raw).value)

\* A rule that is added to a file a server has loaded changes, once the file is
\* loaded again, no decision about a path it does not cover, allows nothing it
\* does not name, and on the very path it spells out denies what it leaves out.
RuleEditIsContained ==
  [][ \A p \in 1..2, r \in RawRules :
        /\ proc["server"].at = "files" /\ proc["server"].file = disk.policies
        /\ AddRule(p, r)
        /\ FromToml(disk'.policies).ok
        => \A old \in {Policies("server")}, new \in {FromToml(disk'.policies).value} :
             \A i \in DOMAIN old.identities, raw \in RawPaths : ParsePath(raw).ok =>
               LET path   == Normalize(raw)
                   before == EffectiveCapabilities(old, i, path)
                   after  == EffectiveCapabilities(new, i, path)
                   mine   == \E k \in DOMAIN old.identities[i] :
                               old.identities[i][k] = disk.policies.policy[p].name
               IN  /\ before # after => mine /\ Covers(Normalize(r.path), path)
                   /\ after \ before \subseteq Rule(r).capabilities
                   /\ mine /\ Normalize(r.path) = path => after \subseteq Rule(r).capabilities
    ]_vars
=============================================================================
