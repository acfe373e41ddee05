------------------------------ MODULE Requests ------------------------------
(***************************************************************************)
(* Requests to the server (crates/ciphr-server/src/api.rs, state.rs) and   *)
(* the latch tasks they leave behind, over one store and one audit trail.  *)
(*                                                                         *)
(* A handler runs on a thread of its own. It shares the store, the sink    *)
(* and the set of latch claims with the others, each behind its own mutex, *)
(* and holds no two of them at once: a step is one borrow of one of them.  *)
(* A store call may fail, the sink may refuse a record and the process may *)
(* be killed at any step. What the sink does with a record is AuditSink.   *)
(*                                                                         *)
(* Left out: values, timestamps and the expiry of tokens; paths are        *)
(* compared and never taken apart.                                         *)
(***************************************************************************)
EXTENDS Naturals, Sequences

CONSTANTS
  Reqs,        \* the requests that ever arrive
  Jobs,        \* what a request may ask for
  Paths,       \* the paths of secrets
  Sys,         \* the virtual path of the administrative routes
  Tokens,      \* the identifiers of tokens
  None,        \* no token, no path, no request
  Grants,      \* <<token, capability, path>>: what the policies allow
  Issued,      \* the tokens the store has rows of when the server starts
  Stored,      \* the paths that have a version when the server starts
  Bait,        \* the paths and tokens that are honeypots
  MaxVersion   \* the largest version number

Kinds == {"read", "write", "classify", "delete", "versions", "list", "export",
          "revoke", "login", "policies", "honeypots", "audit", "tokens", "nowhere"}

\* The routes that are about secrets; the others are about the virtual path.
PathKinds == {"read", "write", "classify", "delete", "versions", "list", "export"}

\* How a request is put: as it should be; naming a version; with a body or a
\* route the server does not read; with a malformed path; under sys/ or with an
\* unknown class; with a malformed query or lifetime.
Asks == {"plain", "pinned", "unread", "path", "reserved", "query"}

Job == [kind : Kinds, ask : Asks, token : Tokens \cup {None},
        target : Tokens \cup {None}, paths : Seq(Paths \cup {Sys})]

ASSUME JobAssumption ==
  /\ Jobs \subseteq Job
  /\ \A j \in Jobs :
       /\ j.paths # <<>>
       /\ j.kind # "export" => Len(j.paths) = 1
       /\ j.kind \in PathKinds => \A i \in 1..Len(j.paths) : j.paths[i] \in Paths
       /\ j.kind \notin PathKinds => j.paths = <<Sys>>
       /\ j.kind \in {"revoke", "login"} => j.target \in Tokens
       /\ \A i, k \in 1..Len(j.paths) : j.paths[i] = j.paths[k] => i = k
       /\ j.kind = "nowhere" => j.ask = "unread"
       /\ j.ask = "query" => j.kind \in {"read", "delete", "audit", "login"}

ASSUME StoreAssumption ==
  /\ Sys \notin Paths /\ None \notin Paths \cup Tokens \cup Reqs \cup {Sys}
  /\ Paths \cap Tokens = {}
  /\ Issued \subseteq Tokens /\ Stored \subseteq Paths
  /\ Bait \subseteq Issued \cup Stored
  /\ MaxVersion \in Nat \ {0}

VARIABLES
  at,        \* per request: the step it is at
  job,       \* per request: what it asks for
  done,      \* per request: how many allowed decisions it has recorded
  fixed,     \* per request: how many of them it has corrected
  seen,      \* per request: what it looked up and uses later
  answer,    \* per request: the answer, or the error it will be
  trail,     \* the entries of the audit trail
  versions,  \* per path: who wrote each version and who deleted it
  class,     \* per path: who set its rotation class
  issued,    \* the tokens that have a row
  revoker,   \* per token: who revoked it
  trips,     \* the bait whose trip is open
  claims,    \* LatchClaims: the bait a latch task was scheduled for
  tasks,     \* the latch tasks that have not run
  up         \* whether the server runs

local == <<at, job, done, fixed, seen, answer>>
store == <<versions, class, issued, revoker>>
latch == <<trips, claims, tasks>>
vars == <<local, trail, store, latch, up>>

Successes == {"served", "revoked", "already"}
Errors == {"unauthenticated", "bad", "forbidden", "missing", "internal", "unavailable"}

\* The action that a route records, and the capability it needs.
Action(j) ==
  CASE j.kind \in {"write", "classify"} -> "write"
    [] j.kind = "delete" -> "delete"
    [] j.kind \in {"versions", "list"} -> "list"
    [] j.kind = "revoke" -> "revoke-token"
    [] j.kind = "login" -> "federate-token"
    [] OTHER -> "read"

Capability(j) ==
  CASE j.kind \in {"read", "export"} -> "read"
    [] j.kind \in {"write", "classify"} -> "write"
    [] j.kind = "delete" -> "delete"
    [] j.kind \in {"versions", "list"} -> "list"
    [] j.kind = "revoke" -> "revoke"
    [] OTHER -> "inspect"

\* The decisions a request records before it is served: one per path, and a
\* second one for the class that a write names.
Count(j) == IF j.kind = "classify" THEN 2 ELSE Len(j.paths)

PathAt(j, i) == IF j.kind = "classify" THEN j.paths[1] ELSE j.paths[i]

GateAt(j, i) ==
  <<IF j.kind = "classify" /\ i = 2 THEN "classify" ELSE Action(j), PathAt(j, i)>>

\* The decision that is next to be recorded.
Gate(r) == GateAt(job[r], done[r] + 1)

GatePath(r) == PathAt(job[r], done[r] + 1)

\* A federated exchange is decided by the provider's signature and not by a
\* policy.
Allowed(j, p) == j.kind = "login" \/ <<j.token, Capability(j), p>> \in Grants

Entry(r, gate, bait, allowed) ==
  [req |-> r, gate |-> gate, bait |-> bait, allowed |-> allowed]

Recorded(entries, r, gate, allowed) ==
  \E e \in entries : e.req = r /\ e.gate = gate /\ e.allowed = allowed

Has(r, gate, allowed) == Recorded(trail, r, gate, allowed)

TripRecorded(b) == \E e \in trail : e.req # None /\ e.bait = b

-----------------------------------------------------------------------------
(* How a step ends.                                                        *)

Goes(r, to) == at' = [at EXCEPT ![r] = to] /\ UNCHANGED answer

Answers(r, a) ==
  at' = [at EXCEPT ![r] = "done"] /\ answer' = [answer EXCEPT ![r] = a]

\* The error that leaves complete_or_record: after the corrections, if there is
\* a decision to correct.
Fails(r, error) ==
  /\ at' = [at EXCEPT ![r] = IF done[r] = 0 THEN "done" ELSE "correct"]
  /\ answer' = [answer EXCEPT ![r] = error]

Records(e) == trail' = trail \cup {e}

\* claim, and spawn_blocking for whoever got the claim.
Claims(b) ==
  /\ claims' = claims \cup {b}
  /\ tasks' = IF b \in claims THEN tasks ELSE tasks \cup {b}
  /\ UNCHANGED trips

\* authorize_and_record for the decision after n others: the bait is looked up
\* only for a read that is allowed.
GateStep(j, n) ==
  IF Capability(j) = "read" /\ Allowed(j, PathAt(j, n + 1)) THEN "tier" ELSE "gate"

\* What follows the nth allowed decision.
AfterGate(j, n) == IF j.kind = "classify" /\ n = 1 THEN "gate" ELSE "act"

-----------------------------------------------------------------------------
(* Before the decision.                                                    *)

Arrive(r) ==
  /\ up /\ at[r] = "new"
  /\ Goes(r, "auth")
  /\ UNCHANGED <<job, done, fixed, seen, trail, store, latch, up>>

\* A body that is not read and a route that does not exist are answered before
\* the credential is: one that authenticates nobody is treated as an absent one.
Rejects(r, error, to) ==
  IF job[r].ask = "unread"
  THEN Answers(r, "bad")
  ELSE at' = [at EXCEPT ![r] = to] /\ answer' = [answer EXCEPT ![r] = error]

\* The checks of a handler between authentication and the first decision.
Accepts(r) ==
  LET j == job[r] IN
  \/ j.ask \in {"unread", "path"} /\ Goes(r, "refuse")
  \/ j.ask = "reserved" /\ Answers(r, "bad")
  \/ /\ j.ask \notin {"unread", "path", "reserved"}
     /\ \/ j.kind = "revoke" /\ Goes(r, "lookup")
        \/ j.kind = "list" /\ Goes(r, "list")
        \/ j.kind \notin {"revoke", "list"} /\ Goes(r, GateStep(j, 0))

\* Bait is recognised before its dates are looked at.
Authenticate(r) ==
  LET t == job[r].token IN
  /\ at[r] = "auth" /\ (job[r].kind # "login" \/ job[r].ask = "unread")
  /\ \/ t \in issued \ Bait /\ revoker[t] = None /\ Accepts(r)
     \/ t \in issued \ Bait /\ revoker[t] # None /\ Rejects(r, "unauthenticated", "reject")
     \/ t \notin issued /\ Rejects(r, "unauthenticated", "reject")
     \/ t \in issued \cap Bait /\ Rejects(r, "unauthenticated", "bait")
     \/ t # None /\ Rejects(r, "internal", "reject")
  /\ UNCHANGED <<job, done, fixed, seen, trail, store, latch, up>>

\* oidc_login up to its entry: an unverifiable token leaves no trace, a verified
\* one that is refused does.
Exchange(r) ==
  /\ at[r] = "auth" /\ job[r].kind = "login" /\ job[r].ask # "unread"
  /\ IF job[r].ask = "query"
     THEN Answers(r, "bad")
     ELSE \/ Answers(r, "unauthenticated")
          \/ Rejects(r, "unauthenticated", "reject")
          \/ Answers(r, "internal")
          \/ Goes(r, "gate")
  /\ UNCHANGED <<job, done, fixed, seen, trail, store, latch, up>>

\* record_rejection, and record_federation for a refusal.
Reject(r) ==
  /\ at[r] = "reject"
  /\ \/ Records(Entry(r, <<Action(job[r]), None>>, None, FALSE)) /\ Answers(r, answer[r])
     \/ Answers(r, "unavailable") /\ UNCHANGED trail
  /\ UNCHANGED <<job, done, fixed, seen, store, latch, up>>

\* record_rejection for bait: the entry, and then the claim.
RejectBait(r) ==
  /\ at[r] = "bait"
  /\ \/ /\ Records(Entry(r, <<Action(job[r]), None>>, job[r].token, FALSE))
        /\ Goes(r, "baitlatch")
     \/ Answers(r, "unavailable") /\ UNCHANGED trail
  /\ UNCHANGED <<job, done, fixed, seen, store, latch, up>>

ClaimToken(r) ==
  /\ at[r] = "baitlatch"
  /\ Claims(job[r].token)
  /\ Answers(r, answer[r])
  /\ UNCHANGED <<job, done, fixed, seen, trail, store, up>>

\* record_refusal: an authenticated caller leaves a trace of what it got wrong.
Refuse(r) ==
  /\ at[r] = "refuse"
  /\ \/ Records(Entry(r, <<"request-refused", None>>, None, FALSE)) /\ Answers(r, "bad")
     \/ Answers(r, "unavailable") /\ UNCHANGED trail
  /\ UNCHANGED <<job, done, fixed, seen, store, latch, up>>

\* What SqliteStore::token knows of a token: no row, a live one, a revoked one.
TokenState(t) ==
  IF t \notin issued THEN 0 ELSE IF revoker[t] = None THEN 1 ELSE 2

\* revoke_token looks the token up before it asks whether it may.
Lookup(r) ==
  /\ at[r] = "lookup"
  /\ \/ seen' = [seen EXCEPT ![r] = TokenState(job[r].target)] /\ Goes(r, "gate")
     \/ Answers(r, "internal") /\ UNCHANGED seen
  /\ UNCHANGED <<job, done, fixed, trail, store, latch, up>>

-----------------------------------------------------------------------------
(* The decision and its entry.                                             *)

\* A decision that could not be recorded, or that was a denial: export corrects
\* the decisions before it, every other route returns.
Stops(r, error) ==
  IF job[r].kind = "export" THEN Fails(r, error) ELSE Answers(r, error)

\* Mutant of Tier: the claim before the entry.
TierClaiming(r) ==
  /\ at[r] = "tier"
  /\ Goes(r, "gate")
  /\ IF GatePath(r) \in Bait THEN Claims(GatePath(r)) ELSE UNCHANGED latch
  /\ UNCHANGED <<job, done, fixed, seen, trail, store, up>>

\* honeypot_tier: one row for every allowed read, bait or not. Bait is planted
\* and taken up on the host only, with the server stopped.
Tier(r) ==
  /\ at[r] = "tier"
  /\ Goes(r, "gate") \/ Stops(r, "internal")
  /\ UNCHANGED <<job, done, fixed, seen, trail, store, latch, up>>

\* The trip replaces the action of an allowed read.
Tripped(r) ==
  IF Capability(job[r]) = "read" /\ GatePath(r) \in Bait THEN GatePath(r) ELSE None

\* The decision is on the trail: go on if it was an allowed one.
Decided(r) ==
  /\ Records(Entry(r, Gate(r), Tripped(r), TRUE))
  /\ done' = [done EXCEPT ![r] = @ + 1]
  /\ Goes(r, IF Tripped(r) # None THEN "latch" ELSE AfterGate(job[r], done[r] + 1))

\* Mutant of Decide: the request goes on when its entry was refused.
DecideOpen(r) ==
  /\ at[r] = "gate"
  /\ Allowed(job[r], GatePath(r))
  /\ \/ Decided(r)
     \/ /\ done' = [done EXCEPT ![r] = @ + 1]
        /\ Goes(r, AfterGate(job[r], done[r] + 1)) /\ UNCHANGED trail
  /\ UNCHANGED <<job, fixed, seen, store, latch, up>>

\* authorize_and_record, and record_federation for a token that is minted.
Decide(r) ==
  /\ at[r] = "gate"
  /\ \/ Allowed(job[r], GatePath(r)) /\ Decided(r)
     \/ /\ ~Allowed(job[r], GatePath(r))
        /\ Records(Entry(r, Gate(r), None, FALSE))
        /\ Stops(r, "forbidden")
        /\ UNCHANGED done
     \/ Stops(r, "unavailable") /\ UNCHANGED <<trail, done>>
  /\ UNCHANGED <<job, fixed, seen, store, latch, up>>

\* latch_off_the_request_path, after the entry is stored.
ClaimSecret(r) ==
  /\ at[r] = "latch"
  /\ Claims(PathAt(job[r], done[r]))
  /\ Goes(r, AfterGate(job[r], done[r]))
  /\ UNCHANGED <<job, done, fixed, seen, trail, store, up>>

\* record_outcome for the decisions of a request that was not served, oldest
\* first. A correction that cannot be recorded replaces the error.
Correct(r) ==
  /\ at[r] = "correct"
  /\ \/ /\ Records(Entry(r, GateAt(job[r], fixed[r] + 1), None, FALSE))
        /\ fixed' = [fixed EXCEPT ![r] = @ + 1]
        /\ Goes(r, IF fixed[r] + 1 = done[r] THEN "done" ELSE "correct")
     \/ Answers(r, "unavailable") /\ UNCHANGED <<trail, fixed>>
  /\ UNCHANGED <<job, done, seen, store, latch, up>>

-----------------------------------------------------------------------------
(* What the decision was about.                                            *)

Acting(r, kinds) == at[r] = "act" /\ job[r].kind \in kinds /\ job[r].ask # "query"

\* The path that a read or a path of an export is about, and the one that any
\* other request is about.
Path(r) == job[r].paths[done[r]]

Target(r) == job[r].paths[1]

\* A malformed query is refused after the decision is on the trail. Only delete
\* has it inside complete_or_record.
BadQuery(r) ==
  /\ at[r] = "act" /\ job[r].ask = "query" /\ job[r].kind \in {"read", "delete", "audit"}
  /\ IF job[r].kind = "delete" THEN Fails(r, "bad") ELSE Answers(r, "bad")
  /\ UNCHANGED <<job, done, fixed, seen, trail, store, latch, up>>

\* read_surface, read_identities and read_policies answer from memory.
Policies(r) ==
  /\ Acting(r, {"policies"})
  /\ Answers(r, "served")
  /\ UNCHANGED <<job, done, fixed, seen, trail, store, latch, up>>

\* read_honeypots and read_audit query the store inside complete_or_record.
Inspect(r) ==
  /\ Acting(r, {"honeypots", "audit"})
  /\ Answers(r, "served") \/ Fails(r, "internal")
  /\ UNCHANGED <<job, done, fixed, seen, trail, store, latch, up>>

\* read_tokens leaves its entry as it is when the query fails.
ReadTokens(r) ==
  /\ Acting(r, {"tokens"})
  /\ Answers(r, "served") \/ Answers(r, "internal")
  /\ UNCHANGED <<job, done, fixed, seen, trail, store, latch, up>>

Newest(p) == Len(versions[p])

\* SqliteStore::get: the version is there and neither deleted nor destroyed.
Readable(p, n) == n \in 1..Newest(p) /\ versions[p][n].gone = None

Wanted(r, p) == IF job[r].ask = "pinned" THEN 1 ELSE Newest(p)

\* Mutant of Get: an export that fails corrects nothing.
GetAlone(r) ==
  /\ Acting(r, {"read", "export"})
  /\ \/ Readable(Path(r), Wanted(r, Path(r))) /\ done[r] = Count(job[r]) /\ Answers(r, "served")
     \/ Readable(Path(r), Wanted(r, Path(r))) /\ done[r] < Count(job[r])
        /\ Goes(r, GateStep(job[r], done[r]))
     \/ Answers(r, "missing")
  /\ UNCHANGED <<job, done, fixed, seen, trail, store, latch, up>>

\* read_secret and the loop of export_secrets: get and decrypt. An export that
\* grows too large fails like one whose path is missing.
Get(r) ==
  /\ Acting(r, {"read", "export"})
  /\ \/ /\ Readable(Path(r), Wanted(r, Path(r)))
        /\ IF done[r] = Count(job[r])
           THEN Answers(r, "served")
           ELSE Goes(r, GateStep(job[r], done[r]))
     \/ ~Readable(Path(r), Wanted(r, Path(r))) /\ Fails(r, "missing")
     \/ Fails(r, "internal")
     \/ job[r].kind = "export" /\ Fails(r, "bad")
  /\ UNCHANGED <<job, done, fixed, seen, trail, store, latch, up>>

ListVersions(r) ==
  /\ Acting(r, {"versions"})
  /\ \/ versions[Target(r)] # <<>> /\ Answers(r, "served")
     \/ versions[Target(r)] = <<>> /\ Fails(r, "missing")
     \/ Fails(r, "internal")
  /\ UNCHANGED <<job, done, fixed, seen, trail, store, latch, up>>

\* list_paths produces the listing first and records how much it reveals, with
\* no decision and nothing to correct.
ListPaths(r) ==
  /\ at[r] = "list"
  /\ Goes(r, "listing") \/ Answers(r, "internal")
  /\ UNCHANGED <<job, done, fixed, seen, trail, store, latch, up>>

RecordListing(r) ==
  /\ at[r] = "listing"
  /\ \/ /\ Records(Entry(r, Gate(r), None, TRUE))
        /\ done' = [done EXCEPT ![r] = 1]
        /\ Answers(r, "served")
     \/ Answers(r, "unavailable") /\ UNCHANGED <<trail, done>>
  /\ UNCHANGED <<job, fixed, seen, store, latch, up>>

NewVersion(r) == [by |-> r, gone |-> None]

\* COALESCE: a write that names no class leaves the one there is.
Classed(r) ==
  IF job[r].kind = "classify" THEN [class EXCEPT ![Target(r)] = r] ELSE class

\* Mutant of Put: the class of an earlier write is not kept.
PutForgetting(r) ==
  LET p == Target(r) IN
  /\ Acting(r, {"write", "classify"})
  /\ Newest(p) < MaxVersion
  /\ versions' = [versions EXCEPT ![p] = Append(@, NewVersion(r))]
  /\ class' = [class EXCEPT ![p] = IF job[r].kind = "classify" THEN r ELSE None]
  /\ Answers(r, "served")
  /\ UNCHANGED <<job, done, fixed, seen, trail, issued, revoker, latch, up>>

\* Mutant of Put: the class is a second write, after the version is committed.
PutByHalf(r) ==
  LET p == Target(r) IN
  /\ Acting(r, {"write", "classify"})
  /\ Newest(p) < MaxVersion
  /\ versions' = [versions EXCEPT ![p] = Append(@, NewVersion(r))]
  /\ \/ /\ class' = Classed(r)
        /\ Answers(r, "served")
     \/ Fails(r, "internal") /\ UNCHANGED class
  /\ UNCHANGED <<job, done, fixed, seen, trail, issued, revoker, latch, up>>

\* Mutant of Put: the version number is not checked.
PutOverflowing(r) ==
  LET p == Target(r) IN
  /\ Acting(r, {"write", "classify"})
  /\ versions' = [versions EXCEPT ![p] = Append(@, NewVersion(r))]
  /\ class' = Classed(r)
  /\ Answers(r, "served")
  /\ UNCHANGED <<job, done, fixed, seen, trail, issued, revoker, latch, up>>

\* put_with_rotation: the version and the class in one transaction, which fails
\* when the last version number is taken.
Put(r) ==
  LET p == Target(r) IN
  /\ Acting(r, {"write", "classify"})
  /\ \/ /\ Newest(p) < MaxVersion
        /\ versions' = [versions EXCEPT ![p] = Append(@, NewVersion(r))]
        /\ class' = Classed(r)
        /\ Answers(r, "served")
     \/ Fails(r, "internal") /\ UNCHANGED <<versions, class>>
  /\ UNCHANGED <<job, done, fixed, seen, trail, issued, revoker, latch, up>>

\* delete_secret, first borrow of the store: which version is current.
FindCurrent(r) ==
  LET p == Target(r) IN
  /\ Acting(r, {"delete"})
  /\ \/ /\ job[r].ask = "pinned" \/ versions[p] # <<>>
        /\ seen' = [seen EXCEPT ![r] = Wanted(r, p)]
        /\ Goes(r, "delete")
     \/ /\ job[r].ask # "pinned" /\ versions[p] = <<>>
        /\ Fails(r, "missing") /\ UNCHANGED seen
     \/ job[r].ask # "pinned" /\ Fails(r, "internal") /\ UNCHANGED seen
  /\ UNCHANGED <<job, done, fixed, trail, store, latch, up>>

\* Second borrow: SqliteStore::delete. A version that is deleted already counts
\* as success.
Delete(r) ==
  LET p == Target(r) n == seen[r] IN
  /\ at[r] = "delete"
  /\ \/ /\ Readable(p, n)
        /\ versions' = [versions EXCEPT ![p][n] = [by |-> @.by, gone |-> r]]
        /\ Answers(r, "served")
     \/ /\ n \in 1..Newest(p) /\ ~Readable(p, n)
        /\ Answers(r, "served") /\ UNCHANGED versions
     \/ n \notin 1..Newest(p) /\ Fails(r, "missing") /\ UNCHANGED versions
     \/ Fails(r, "internal") /\ UNCHANGED versions
  /\ UNCHANGED <<job, done, fixed, seen, trail, class, issued, revoker, latch, up>>

\* Mutant of Revoke: revoked_now from what the lookup saw.
RevokeFromLookup(r) ==
  LET t == job[r].target IN
  /\ Acting(r, {"revoke"})
  /\ seen[r] # 0
  /\ revoker' = [revoker EXCEPT ![t] = IF @ = None THEN r ELSE @]
  /\ Answers(r, IF seen[r] = 1 THEN "revoked" ELSE "already")
  /\ UNCHANGED <<job, done, fixed, seen, trail, versions, class, issued, latch, up>>

\* revoke_token: an identifier that was not found ends here, with its entry as
\* it is; the database decides which call stopped the credential.
Revoke(r) ==
  LET t == job[r].target IN
  /\ Acting(r, {"revoke"})
  /\ \/ seen[r] = 0 /\ Answers(r, "missing") /\ UNCHANGED revoker
     \/ /\ seen[r] # 0 /\ revoker[t] = None
        /\ revoker' = [revoker EXCEPT ![t] = r]
        /\ Answers(r, "revoked")
     \/ seen[r] # 0 /\ revoker[t] # None /\ Answers(r, "already") /\ UNCHANGED revoker
     \/ seen[r] # 0 /\ Fails(r, "internal") /\ UNCHANGED revoker
  /\ UNCHANGED <<job, done, fixed, seen, trail, versions, class, issued, latch, up>>

\* store_federated_token: the row of the token, whose entry is on the trail. An
\* identifier that has a row is a database error.
Mint(r) ==
  /\ Acting(r, {"login"})
  /\ \/ /\ job[r].target \notin issued
        /\ issued' = issued \cup {job[r].target}
        /\ Answers(r, "served")
     \/ Fails(r, "internal") /\ UNCHANGED issued
  /\ UNCHANGED <<job, done, fixed, seen, trail, versions, class, revoker, latch, up>>

-----------------------------------------------------------------------------
(* Latch tasks, the process and the host.                                  *)

\* latch_trip: the partial index makes an open trip a success.
Latch(b) ==
  /\ b \in tasks
  /\ tasks' = tasks \ {b} /\ trips' = trips \cup {b}
  /\ UNCHANGED <<local, trail, store, claims, up>>

\* Mutant of LatchFails: the claim is kept.
LatchFailsClaimed(b) ==
  /\ b \in tasks
  /\ tasks' = tasks \ {b}
  /\ UNCHANGED <<local, trail, store, trips, claims, up>>

\* A latch that could not be written gives its claim back and says so on the
\* trail, if the trail takes it.
LatchFails(b) ==
  /\ b \in tasks
  /\ tasks' = tasks \ {b} /\ claims' = claims \ {b}
  /\ Records(Entry(None, <<"latch-failed", None>>, b, FALSE)) \/ UNCHANGED trail
  /\ UNCHANGED <<local, store, trips, up>>

\* The process ends: its threads, tasks and claims with it.
Kill ==
  /\ up /\ up' = FALSE
  /\ at' = [r \in Reqs |-> IF at[r] \in {"new", "done"} THEN at[r] ELSE "lost"]
  /\ claims' = {} /\ tasks' = {}
  /\ UNCHANGED <<job, done, fixed, seen, answer, trail, store, trips>>

Restart ==
  /\ ~up /\ up' = TRUE
  /\ UNCHANGED <<local, trail, store, latch>>

\* ciphr honeypot clear: on the host, with the lock that a server would hold.
ClearTrips ==
  /\ ~up
  /\ trips' = {}
  /\ UNCHANGED <<local, trail, store, claims, tasks, up>>

-----------------------------------------------------------------------------
Init ==
  /\ at = [r \in Reqs |-> "new"]
  /\ job \in [Reqs -> Jobs]
  /\ done = [r \in Reqs |-> 0] /\ fixed = [r \in Reqs |-> 0] /\ seen = [r \in Reqs |-> 0]
  /\ answer = [r \in Reqs |-> "none"]
  /\ trail = {}
  /\ versions = [p \in Paths |-> IF p \in Stored THEN <<NewVersion(None)>> ELSE <<>>]
  /\ class = [p \in Paths |-> None]
  /\ issued = Issued
  /\ revoker = [t \in Tokens |-> None]
  /\ trips = {} /\ claims = {} /\ tasks = {}
  /\ up = TRUE

Before(r) ==
  Arrive(r) \/ Authenticate(r) \/ Exchange(r) \/ Reject(r) \/ RejectBait(r)
    \/ ClaimToken(r) \/ Refuse(r) \/ Lookup(r)

Deciding(r) == Tier(r) \/ Decide(r) \/ ClaimSecret(r) \/ Correct(r)

Reading(r) ==
  BadQuery(r) \/ Policies(r) \/ Inspect(r) \/ ReadTokens(r) \/ Get(r)
    \/ ListVersions(r) \/ ListPaths(r) \/ RecordListing(r)

Changing(r) == Put(r) \/ FindCurrent(r) \/ Delete(r) \/ Revoke(r) \/ Mint(r)

Next ==
  \/ \E r \in Reqs : Before(r) \/ Deciding(r) \/ Reading(r) \/ Changing(r)
  \/ \E b \in Bait : Latch(b) \/ LatchFails(b)
  \/ Kill \/ Restart \/ ClearTrips

Spec == Init /\ [][Next]_vars

-----------------------------------------------------------------------------
(* Properties.                                                             *)

Steps == {"new", "auth", "reject", "bait", "baitlatch", "refuse", "lookup", "tier",
          "gate", "latch", "correct", "act", "list", "listing", "delete", "done", "lost"}

Author == Reqs \cup {None}

LocalTyped ==
  /\ at \in [Reqs -> Steps]
  /\ job \in [Reqs -> Jobs]
  /\ done \in [Reqs -> Nat] /\ fixed \in [Reqs -> Nat] /\ seen \in [Reqs -> Nat]
  /\ answer \in [Reqs -> Successes \cup Errors \cup {"none"}]

StoreTyped ==
  /\ versions \in [Paths -> Seq([by : Author, gone : Author])]
  /\ \A p \in Paths : Len(versions[p]) <= MaxVersion
  /\ class \in [Paths -> Author]
  /\ issued \subseteq Tokens
  /\ revoker \in [Tokens -> Author]

\* The type of the state. The number of a version fits its type.
TypeOK ==
  /\ LocalTyped /\ StoreTyped
  /\ trips \subseteq Bait /\ claims \subseteq Bait /\ tasks \subseteq claims
  /\ up \in BOOLEAN

VersionsRecorded ==
  \A p \in Paths : \A n \in 1..Len(versions[p]) :
    /\ versions[p][n].by # None => Has(versions[p][n].by, <<"write", p>>, TRUE)
    /\ versions[p][n].gone # None => Has(versions[p][n].gone, <<"delete", p>>, TRUE)

ClassesRecorded ==
  \A p \in Paths : class[p] # None => Has(class[p], <<"classify", p>>, TRUE)

RevocationsRecorded ==
  \A t \in Tokens : revoker[t] # None => Has(revoker[t], <<"revoke-token", Sys>>, TRUE)

TokensRecorded ==
  \A t \in issued \ Issued : \E r \in Reqs :
    job[r].target = t /\ Has(r, <<"federate-token", Sys>>, TRUE)

ChangesRecorded ==
  VersionsRecorded /\ ClassesRecorded /\ RevocationsRecorded /\ TokensRecorded

ServedRecorded ==
  \A r \in Reqs : answer[r] \in Successes =>
    \A i \in 1..Count(job[r]) : Has(r, GateAt(job[r], i), TRUE)

\* Fail-closed: whatever changed in the store, and whatever was served, has an
\* allowed entry of that very request on the trail, whichever threads ran in
\* between and wherever the process was killed.
NothingUnrecorded == ChangesRecorded /\ ServedRecorded

Changed(r) ==
  \/ \E p \in Paths : class[p] = r
  \/ \E p \in Paths : \E n \in 1..Len(versions[p]) :
       versions[p][n].by = r \/ versions[p][n].gone = r
  \/ \E t \in Tokens : revoker[t] = r

\* "Automation reads an HTTP failure as 'the requested state was not
\* established'": a request that is answered with an error, 503 included, has
\* changed nothing, the class of a write included.
FailureChangesNothing ==
  \A r \in Reqs : answer[r] \in Errors => ~Changed(r)

\* The entries that the code leaves standing after an error: a malformed query
\* of a read or of the trail, a query of the tokens that failed, and the
\* revocation of a token that does not exist.
LeftStanding(r) ==
  \/ job[r].kind \in {"read", "audit"} /\ job[r].ask = "query"
  \/ job[r].kind = "tokens"
  \/ job[r].kind = "revoke" /\ seen[r] = 0

\* "A trail left over-claiming is the failure this whole module exists to
\* prevent": when a request is answered with an error other than the trail being
\* down, each of the decisions it recorded as allowed has a second entry, every
\* path of an export included.
TrailIsHonest ==
  \A r \in Reqs : at[r] = "done" /\ answer[r] \in Errors \ {"unavailable"} =>
    LeftStanding(r) \/ \A i \in 1..done[r] : Has(r, GateAt(job[r], i), FALSE)

\* However many revocations of one token run at once, at most one is told that it
\* stopped the credential, and it is the one that did.
OneRevoker ==
  \A r \in Reqs : answer[r] = "revoked" => revoker[job[r].target] = r

\* A claim suppresses the latch only while there is no need of it: its task has
\* yet to run or its trip is open, over failed latches, restarts and cleared
\* tripwires.
ClaimsAreBacked == claims \subseteq trips \cup tasks

\* "A latch nobody can read about would leave /v1/health claiming something the
\* trail cannot confirm": an open trip has its entry.
TripsAreRecorded == \A b \in trips : TripRecorded(b)

\* The versions of a path whose write named a class.
Naming(p) ==
  {n \in 1..Len(versions[p]) :
     versions[p][n].by # None /\ job[versions[p][n].by].kind = "classify"}

\* The class of a path is the one that the newest write naming a class named,
\* whichever writes without one, and failed ones, came in between.
ClassIsNewest ==
  \A p \in Paths :
    /\ class[p] = None <=> Naming(p) = {}
    /\ \A n \in Naming(p) : (\A m \in Naming(p) : m <= n) => class[p] = versions[p][n].by

-----------------------------------------------------------------------------
(* The inductive invariant behind the theorems of RequestsProofs.           *)

\* What a request has on the trail, and how far it has come.
Logged(r) ==
  /\ done[r] <= Count(job[r]) /\ fixed[r] <= done[r]
  /\ \A i \in 1..done[r] : Has(r, GateAt(job[r], i), TRUE)
  /\ \A i \in 1..fixed[r] : Has(r, GateAt(job[r], i), FALSE)
  /\ job[r].kind = "classify" /\ done[r] # 0 => Allowed(job[r], job[r].paths[1])

Undecided == {"new", "auth", "reject", "bait", "baitlatch", "refuse", "lookup", "list",
              "listing"}

\* How far it has come at each step.
Placed(r) ==
  /\ at[r] \in Undecided => done[r] = 0
  /\ at[r] \in {"list", "listing"} => job[r].kind = "list"
  /\ at[r] \in {"tier", "gate"} => done[r] < Count(job[r])
  /\ at[r] \in {"tier", "latch"} => Capability(job[r]) = "read"
  /\ at[r] = "latch" =>
       done[r] # 0 /\ PathAt(job[r], done[r]) \in Bait /\ TripRecorded(PathAt(job[r], done[r]))
  /\ at[r] = "act" =>
       done[r] # 0 /\ (job[r].kind # "export" => done[r] = Count(job[r]))
  /\ at[r] = "delete" => job[r].kind = "delete" /\ done[r] = 1
  /\ at[r] \in {"bait", "baitlatch"} => job[r].token \in Bait
  /\ at[r] = "baitlatch" => TripRecorded(job[r].token)

\* What it has to say at each step.
Answered(r) ==
  /\ at[r] = "correct" => fixed[r] < done[r]
  /\ at[r] \notin {"correct", "done", "lost"} => fixed[r] = 0
  /\ at[r] \in {"reject", "bait", "baitlatch", "correct"} => answer[r] \in Errors
  /\ answer[r] \in Successes => at[r] = "done" /\ done[r] = Count(job[r])
  /\ answer[r] = "revoked" => job[r].kind = "revoke"
  /\ at[r] = "done" /\ answer[r] \in Errors \ {"unavailable"} =>
       fixed[r] = done[r] \/ LeftStanding(r)

RequestInv(r) == Logged(r) /\ Placed(r) /\ Answered(r)

Stopped == {"new", "done", "lost"}

\* Of a process that has ended nothing runs on.
LatchInv ==
  /\ claims \subseteq Bait /\ tasks \subseteq claims /\ trips \subseteq Bait
  /\ ClaimsAreBacked
  /\ \A b \in trips \cup claims : TripRecorded(b)
  /\ ~up => claims = {} /\ \A r \in Reqs : at[r] \in Stopped

ChangeInv ==
  /\ ChangesRecorded
  /\ OneRevoker
  /\ \A r \in Reqs : Changed(r) => answer[r] \in Successes

ServerInv ==
  /\ LocalTyped /\ StoreTyped /\ up \in BOOLEAN
  /\ LatchInv /\ ChangeInv
  /\ \A r \in Reqs : RequestInv(r)

=============================================================================
