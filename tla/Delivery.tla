------------------------------ MODULE Delivery ------------------------------
(***************************************************************************)
(* A job that fetches its secrets: ciphr-run, which replaces itself with a *)
(* command, and ciphr-ci, which hands values to a CI runner (crates/       *)
(* ciphr-run, ciphr-ci, ciphr-export), over the client library (crates/    *)
(* ciphr-sdk/src/client.rs, environment.rs) and the routes it calls (list, *)
(* export and read of crates/ciphr-server/src/api.rs).                     *)
(*                                                                         *)
(* A job is one process and several requests. Between two of them, and     *)
(* between two paths of one export, others write and delete secrets, the   *)
(* policy changes, the token is revoked, and the server comes back with    *)
(* another surface. An answer may be late or lost, and the job be killed.  *)
(* How a request is authenticated and recorded when devices fail is in     *)
(* Requests; here the trail holds the entries about reads.                 *)
(***************************************************************************)
EXTENDS Integers, Sequences, FiniteSets

CONSTANTS
  Paths,       \* the paths of the store, in the order of a listing: a sequence
  NameOf,      \* the last segment of each path, or NotAName
  NotAName,
  Control,     \* the names that decide how a process starts
  Values,      \* a text of one line, of several, and what is no UTF-8
  Jobs,        \* the command lines, each with the machine it runs on: [job, site]
  Stores,      \* what the store may hold at first
  Denials,     \* which paths the policies may keep the identity from reading
  Hidings,     \* and from listing
  None,
  Size,        \* how much room a value takes
  MaxExport,   \* EXPORT_PATHS_MAX
  MaxBytes,    \* EXPORT_BYTES_MAX
  MaxEdits     \* how often others may interfere with one job

AllPaths == {Paths[i] : i \in DOMAIN Paths}

ASSUME DeliveryAssumption ==
  /\ MaxExport \in Nat \ {0} /\ MaxBytes \in Nat /\ MaxEdits \in Nat
  /\ Size \in [Values -> Nat] /\ Stores \subseteq [AllPaths -> Values \cup {"absent", "deleted"}]
  /\ {"absent", "deleted", "denied"} \cap Values = {}
  /\ Paths \in Seq(AllPaths) /\ IsFiniteSet(AllPaths) /\ AllPaths \subseteq DOMAIN NameOf
  /\ Denials \subseteq SUBSET AllPaths /\ Hidings \subseteq SUBSET AllPaths

\* The command lines are ones that the argument parsers let through.
ASSUME JobsAssumption ==
  \A j \in Jobs :
    /\ j = [job |-> j.job, site |-> j.site]
    /\ j.job.tool \in {"run", "ci"} /\ j.job.prefix \in BOOLEAN
    /\ ~j.job.prefix => j.job.paths \in Seq(AllPaths) \ {<<>>}

VARIABLES
  job, site,   \* the command line and the machine, which stay
  store,       \* for each path a value, or "absent" or "deleted"
  grants,      \* [list, read]: the paths the identity may list and read
  server,      \* [bulk, token, broken]: the bulk_export entry, the token still
               \* valid, and whether the process or its trail failed during the job
  client,      \* where the job is: at, want (paths), got (secrets), outcome
  req,         \* the request the server works on: kind, paths, done, bytes, reply
  trail,       \* the entries about paths: decisions, and what corrects them
  sent,        \* how often the value of a path left in an answer
  runner,      \* what reached others: shown, out (not flushed), file, child
  had,         \* what each path was since the job began, "denied" included
  revoked,     \* the token was invalid at some moment of the job
  edits

vars == <<job, site, store, grants, server, client, req, trail, sent, runner, had,
          revoked, edits>>

world == <<store, grants, server, had, revoked, edits>>

-----------------------------------------------------------------------------
(* Names.                                                                  *)

Fine == "fine"

\* EnvVarName::assign: the first path without a usable name, or with a name that
\* an earlier path has.
Nameable(paths) ==
  \A i \in DOMAIN paths :
    /\ NameOf[paths[i]] # NotAName
    /\ \A j \in 1..i - 1 : NameOf[paths[j]] # NameOf[paths[i]]

\* process_control_reason.
Controls(paths) == \E i \in DOMAIN paths : NameOf[paths[i]] \in Control

\* Environment::assemble: the names of the paths that came back, in their order.
Environment(secrets) ==
  [n \in {NameOf[secrets[i].path] : i \in DOMAIN secrets} |->
     secrets[CHOOSE i \in DOMAIN secrets : NameOf[secrets[i].path] = n].value]

-----------------------------------------------------------------------------
(* How a job may end short of its purpose.                                 *)

\* SdkError. The one that absent_export_route makes of a 404 is never the last.
SdkErrors == {"transport", "unauthenticated", "forbidden", "not-found", "bad-request",
              "audit-unavailable", "unexpected", "path", "nothing-under-prefix", "names",
              "configuration"}

\* RunError, with the exit codes of a command that cannot be run told apart.
RunErrors == SdkErrors \cup {"no-exec", "no-command", "token-file",
              "token-file-world-accessible", "authority-file", "control-name", "exec-126",
              "exec-127"}

\* CiError.
CiErrors == SdkErrors \cup {"format", "token-file", "token-file-world-accessible",
             "authority-file", "render", "control-name", "github-env-without-actions",
             "github-env-unset", "output", "environment-file", "would-pipe-secret"}

Outcomes == {"started", "delivered", "killed"} \cup RunErrors \cup CiErrors

ASSUME NoneAssumption == None \notin Outcomes

-----------------------------------------------------------------------------
(* Before the first request.                                               *)

\* open_credential and read_token: one descriptor, a regular file, no world bits.
TokenProblem == CASE site.token \in {"missing", "fifo"} -> "token-file"
                  [] site.token = "world"              -> "token-file-world-accessible"
                  [] OTHER                             -> Fine

\* The authority file, and ClientBuilder::build.
ClientProblem ==
  IF site.authority = "missing" THEN "authority-file"
  ELSE IF site.url # "https" THEN "configuration"
  ELSE IF site.authority \in {"garbage", "key", "no-certificate"} THEN "configuration"
  ELSE Fine

\* run of ciphr-run, up to the fetch.
RunProblem ==
  IF ~site.exec THEN "no-exec"
  ELSE IF job.program = "none" THEN "no-command"
  ELSE IF TokenProblem # Fine THEN TokenProblem
  ELSE IF ClientProblem # Fine THEN ClientProblem
  ELSE IF ~job.parses THEN "path"
  ELSE Fine

ValuesOnStdout == job.format \in {"dotenv", "json"}

\* run of ciphr-ci, up to the paths.
CiProblem ==
  IF job.format \notin {"dotenv", "json", "actions-env"} THEN "format"
  ELSE IF job.github /\ job.format # "actions-env" THEN "github-env-without-actions"
  ELSE IF job.github /\ site.github = "unset" THEN "github-env-unset"
  ELSE IF ValuesOnStdout /\ ~job.force /\ ~site.terminal THEN "would-pipe-secret"
  ELSE IF TokenProblem # Fine THEN TokenProblem
  ELSE IF ClientProblem # Fine THEN ClientProblem
  ELSE IF ~job.parses THEN "path"
  ELSE Fine

Reply(status, body) == [status |-> status, body |-> body]

NoReply == Reply(0, <<>>)

NoRequest == [kind |-> "none", paths |-> <<>>, done |-> <<>>, bytes |-> 0, reply |-> NoReply]

\* The job ends. What its standard output still holds is flushed.
Exit(outcome) ==
  /\ client' = [client EXCEPT !.at = "done", !.outcome = outcome]
  /\ runner' = [runner EXCEPT !.shown = @ \o runner.out, !.out = <<>>]

\* One request over the wire, and the job waits for its answer.
Send(kind, paths) == req' = [NoRequest EXCEPT !.kind = kind, !.paths = paths]

\* What is wrong with the names of a set before anything is read: environment_of,
\* and run of ciphr-ci, where JSON has no names and the others no control names.
NamesProblem(paths) ==
  IF job.tool = "ci" /\ job.format = "json" THEN Fine
  ELSE IF ~Nameable(paths) THEN "names"
  ELSE IF job.tool = "ci" /\ Controls(paths) THEN "control-name"
  ELSE Fine

\* Mutant of Fetch: the names are looked at when the values are there.
FetchUnchecked(paths) ==
  /\ Send("export", paths)
  /\ client' = [client EXCEPT !.at = "export", !.want = paths]
  /\ UNCHANGED runner

\* environment_of and read_all: names first, then the bulk route.
Fetch(paths) ==
  IF NamesProblem(paths) # Fine
    THEN Exit(NamesProblem(paths)) /\ UNCHANGED req
    ELSE /\ Send("export", paths)
         /\ client' = [client EXCEPT !.at = "export", !.want = paths]
         /\ UNCHANGED runner

\* main and run of either program.
Begin ==
  LET problem == IF job.tool = "run" THEN RunProblem ELSE CiProblem
  IN  /\ client.at = "start"
      /\ CASE problem # Fine -> Exit(problem) /\ UNCHANGED req
           [] problem = Fine /\ job.prefix ->
                /\ Send("list", <<>>)
                /\ client' = [client EXCEPT !.at = "list"]
                /\ UNCHANGED runner
           [] problem = Fine /\ ~job.prefix -> Fetch(job.paths)
      /\ UNCHANGED <<job, site, trail, sent, world>>

-----------------------------------------------------------------------------
(* The server.                                                             *)

Decision(p, status)   == [kind |-> "decision", path |-> p, status |-> status]
Correction(p, status) == [kind |-> "correction", path |-> p, status |-> status]

\* A value that can be served is stored and is text.
Stored(p) == store[p] \notin {"absent", "deleted"}

\* How a read that was allowed ends: StoreError and decrypt_to_text as a status.
ReadStatus(p) == CASE ~Stored(p)            -> 404
                   [] store[p] = "binary"   -> 500
                   [] OTHER                 -> 200

Secret(p) == [path |-> p, value |-> store[p]]

\* A set of paths in the order of the store.
Listing(S) ==
  {s \in [1..Cardinality(S) -> S] :
     \A i, j \in DOMAIN s : i < j =>
       \E m, n \in DOMAIN Paths : m < n /\ Paths[m] = s[i] /\ Paths[n] = s[j]}

\* list_paths: every path that has a row, a deleted one too, and that the
\* identity may list.
ServeList ==
  LET visible == {p \in AllPaths : store[p] # "absent" /\ p \in grants.list}
  IN  /\ req.kind = "list" /\ req.reply = NoReply
      /\ \E body \in Listing(visible) :
           req' = [req EXCEPT !.reply = IF server.token THEN Reply(200, body)
                                                        ELSE Reply(401, <<>>)]
      /\ UNCHANGED <<job, site, client, trail, sent, runner, world>>

\* Mutant of Exportable: the number of paths is not bounded.
ExportableUnbounded(paths) ==
  /\ paths # <<>>
  /\ \A i, j \in DOMAIN paths : i # j => paths[i] # paths[j]

\* validate_export_paths: some paths, not too many, none of them twice.
Exportable(paths) ==
  /\ Len(paths) \in 1..MaxExport
  /\ \A i, j \in DOMAIN paths : i # j => paths[i] # paths[j]

\* A request that never reaches the loop of export_secrets: no such route, which
\* is found before the token is looked at, no valid token, or a malformed body.
RefuseExport ==
  /\ req.kind = "export" /\ req.reply = NoReply /\ req.done = <<>>
  /\ ~server.bulk \/ ~server.token \/ ~Exportable(req.paths)
  /\ req' = [req EXCEPT !.reply = Reply(CASE ~server.bulk -> 404
                                          [] server.bulk /\ ~server.token -> 401
                                          [] OTHER -> 400, <<>>)]
  /\ UNCHANGED <<job, site, client, trail, sent, runner, world>>

\* Mutant of Corrections: only the path that failed is corrected.
CorrectionsOfLast(n, status) == IF n = 0 THEN <<>> ELSE <<Correction(req.paths[n], status)>>

\* The entries that correct what an export had recorded when it failed.
Corrections(n, status) == [i \in 1..n |-> Correction(req.paths[i], status)]

\* One turn of export_secrets. The route, the token and the body were looked at
\* before the first; the policies are the ones of the process.
ExportPath ==
  LET n  == Len(req.done) + 1
      p  == req.paths[n]
      bytes  == req.bytes + IF ReadStatus(p) = 200 THEN Size[store[p]] ELSE 0
      status == IF bytes > MaxBytes THEN 400 ELSE ReadStatus(p)
      done   == Append(req.done, Secret(p))
  IN  /\ req.kind = "export" /\ req.reply = NoReply
      /\ req.done = <<>> => server.bulk /\ server.token
      /\ req.done = <<>> => Exportable(req.paths)
      /\ CASE p \notin grants.read ->
                /\ trail' = Append(trail, Decision(p, 403)) \o Corrections(n - 1, 403)
                /\ req' = [req EXCEPT !.reply = Reply(403, <<>>)]
                /\ UNCHANGED sent
           [] p \in grants.read /\ status # 200 ->
                /\ trail' = Append(trail, Decision(p, 200)) \o Corrections(n, status)
                /\ req' = [req EXCEPT !.reply = Reply(status, <<>>)]
                /\ UNCHANGED sent
           [] OTHER ->
                /\ trail' = Append(trail, Decision(p, 200))
                /\ req' = [req EXCEPT !.done = done, !.bytes = bytes,
                             !.reply = IF n = Len(req.paths) THEN Reply(200, done) ELSE NoReply]
                /\ sent' = IF n = Len(req.paths)
                             THEN [q \in AllPaths |-> sent[q] +
                                     Cardinality({i \in 1..n : req.paths[i] = q})]
                             ELSE sent
      /\ UNCHANGED <<job, site, client, runner, world>>

\* read_secret.
ServeGet ==
  LET p == req.paths[1]
      status == ReadStatus(p)
  IN  /\ req.kind = "get" /\ req.reply = NoReply
      /\ CASE ~server.token ->
                /\ req' = [req EXCEPT !.reply = Reply(401, <<>>)]
                /\ UNCHANGED <<trail, sent>>
           [] server.token /\ p \notin grants.read ->
                /\ trail' = Append(trail, Decision(p, 403))
                /\ req' = [req EXCEPT !.reply = Reply(403, <<>>)]
                /\ UNCHANGED sent
           [] server.token /\ p \in grants.read /\ status # 200 ->
                /\ trail' = trail \o <<Decision(p, 200), Correction(p, status)>>
                /\ req' = [req EXCEPT !.reply = Reply(status, <<>>)]
                /\ UNCHANGED sent
           [] OTHER ->
                /\ trail' = Append(trail, Decision(p, 200))
                /\ req' = [req EXCEPT !.reply = Reply(200, <<Secret(p)>>)]
                /\ sent' = [sent EXCEPT ![p] = @ + 1]
      /\ UNCHANGED <<job, site, client, runner, world>>

\* No device takes an entry: the decision itself, or, when the decision is on the
\* trail already and the read found nothing, what would correct it. What an export
\* recorded before stays as it is, because the corrections are entries too.
AuditFails ==
  LET p == req.paths[Len(req.done) + 1]
  IN  /\ req.kind # "none" /\ req.reply = NoReply
      /\ server.token /\ (req.kind = "export" => server.bulk /\ Exportable(req.paths))
      /\ req' = [req EXCEPT !.reply = Reply(503, <<>>)]
      /\ \/ UNCHANGED trail
         \/ /\ req.kind # "list" /\ p \in grants.read /\ ReadStatus(p) # 200
            /\ trail' = Append(trail, Decision(p, 200))
      /\ server' = [server EXCEPT !.broken = TRUE]
      /\ UNCHANGED <<job, site, client, sent, runner, store, grants, had, revoked, edits>>

-----------------------------------------------------------------------------
(* The answers.                                                            *)

\* status_error.
StatusError(status) == CASE status = 400 -> "bad-request"
                         [] status = 401 -> "unauthenticated"
                         [] status = 403 -> "forbidden"
                         [] status = 404 -> "not-found"
                         [] status = 503 -> "audit-unavailable"
                         [] OTHER        -> "unexpected"

Answered(kind) == client.at = kind /\ req.kind = kind /\ req.reply # NoReply

\* Client::list, and the refusal of an empty listing.
TakeListing ==
  /\ Answered("list")
  /\ CASE req.reply.status # 200 -> Exit(StatusError(req.reply.status)) /\ UNCHANGED req
       [] req.reply.status = 200 /\ req.reply.body = <<>> ->
            Exit("nothing-under-prefix") /\ UNCHANGED req
       [] OTHER -> Fetch(req.reply.body)
  /\ UNCHANGED <<job, site, trail, sent, world>>

\* Mutant of Assemble: ciphr-run executes whatever names the store holds.
AssembleUnchecked(secrets) ==
  /\ client' = [client EXCEPT !.at = IF job.tool = "run" THEN "exec" ELSE "deliver",
                              !.got = secrets]
  /\ UNCHANGED runner

\* Environment::assemble and the control names of ciphr-run, or as_text of
\* ciphr-ci, where every value that came as JSON is text.
Assemble(secrets) ==
  LET paths == [i \in DOMAIN secrets |-> secrets[i].path]
  IN  CASE job.tool = "run" /\ (~Nameable(paths) \/ Controls(paths)) ->
             Exit(IF Nameable(paths) THEN "control-name" ELSE "names")
        [] OTHER -> /\ client' = [client EXCEPT !.got = secrets,
                                    !.at = IF job.tool = "run" THEN "exec" ELSE "deliver"]
                    /\ UNCHANGED runner

\* Mutant of TakeExport: a 404 of the bulk route is taken for a missing secret.
TakeExportNoFallback ==
  /\ Answered("export")
  /\ IF req.reply.status = 200 THEN Assemble(req.reply.body)
                               ELSE Exit(StatusError(req.reply.status))
  /\ UNCHANGED <<job, site, req, trail, sent, world>>

\* Client::export and read_all. Any 404 of the bulk route is read as a deployment
\* without the route, and the paths are then read one by one.
TakeExport ==
  /\ Answered("export")
  /\ CASE req.reply.status = 200 -> Assemble(req.reply.body) /\ UNCHANGED req
       [] req.reply.status = 404 ->
            /\ Send("get", SubSeq(client.want, 1, 1))
            /\ client' = [client EXCEPT !.at = "get"]
            /\ UNCHANGED runner
       [] OTHER -> Exit(StatusError(req.reply.status)) /\ UNCHANGED req
  /\ UNCHANGED <<job, site, trail, sent, world>>

\* What follows once n paths are read: the next of them, or the whole set.
Continue(got, n) ==
  IF n = Len(client.want)
    THEN Assemble(got) /\ UNCHANGED req
    ELSE /\ Send("get", SubSeq(client.want, n + 1, n + 1))
         /\ client' = [client EXCEPT !.got = got]
         /\ UNCHANGED runner

\* Mutant of TakeGet: a path that is not there is left out.
TakeGetSkipsMissing ==
  LET n == CHOOSE i \in DOMAIN client.want : client.want[i] = req.paths[1]
  IN  /\ Answered("get")
      /\ CASE req.reply.status = 200 -> Continue(client.got \o req.reply.body, n)
           [] req.reply.status = 404 -> Continue(client.got, n)
           [] OTHER -> Exit(StatusError(req.reply.status)) /\ UNCHANGED req
      /\ UNCHANGED <<job, site, trail, sent, world>>

\* Mutant of TakeGet: a token that is refused is shown once more.
TakeGetRetries ==
  /\ Answered("get")
  /\ CASE req.reply.status = 200 ->
            Continue(client.got \o req.reply.body, Len(client.got) + 1)
       [] req.reply.status = 401 -> Send("get", req.paths) /\ UNCHANGED <<client, runner>>
       [] OTHER -> Exit(StatusError(req.reply.status)) /\ UNCHANGED req
  /\ UNCHANGED <<job, site, trail, sent, world>>

\* Client::get in the loop of read_all: the first refusal ends the fetch.
TakeGet ==
  /\ Answered("get")
  /\ IF req.reply.status = 200
       THEN Continue(client.got \o req.reply.body, Len(client.got) + 1)
       ELSE Exit(StatusError(req.reply.status)) /\ UNCHANGED req
  /\ UNCHANGED <<job, site, trail, sent, world>>

\* The timeout of the agent, a connection that is lost, or an answer that is no
\* answer of this API. The server may work on all the same.
GiveUp ==
  /\ client.at \in {"list", "export", "get"}
  /\ Exit("transport")
  /\ UNCHANGED <<job, site, req, trail, sent, world>>

-----------------------------------------------------------------------------
(* Plan::exec of ciphr-run, and deliver of ciphr-ci.                       *)

Exec ==
  /\ client.at = "exec"
  /\ client' = [client EXCEPT !.at = "done",
                  !.outcome = CASE job.program = "missing"  -> "exec-127"
                                [] job.program = "unusable" -> "exec-126"
                                [] OTHER                    -> "started"]
  /\ runner' = IF job.program = "there" THEN [runner EXCEPT !.child = Environment(client.got)]
                                        ELSE runner
  /\ UNCHANGED <<job, site, req, trail, sent, world>>

\* The lines that render_actions_env writes for one secret, masks and assignment
\* apart. A blank value has no line to mask.
Mask(s)       == [kind |-> IF s.value = "blank" THEN "nothing" ELSE "mask", path |-> s.path]
Assignment(s) == [kind |-> "value", path |-> s.path]

Masks == [i \in DOMAIN client.got |-> Mask(client.got[i])]

\* The second half, and render for the other formats. An object of JSON has one
\* member for a path, however often it was asked for.
Assignments ==
  IF job.format # "json" THEN [i \in DOMAIN client.got |-> Assignment(client.got[i])]
  ELSE [i \in DOMAIN Paths |->
          [kind |-> IF \E k \in DOMAIN client.got : client.got[k].path = Paths[i]
                      THEN "value" ELSE "nothing",
           path |-> Paths[i]]]

Goes(at) == client' = [client EXCEPT !.at = at]

\* No delimiter for a value of several lines: nothing has been written.
RenderFails ==
  /\ client.at = "deliver" /\ job.format = "actions-env"
  /\ \E i \in DOMAIN client.got : client.got[i].value = "lines"
  /\ Exit("render")
  /\ UNCHANGED <<job, site, req, trail, sent, world>>

\* A sink that refuses may have taken some of the lines.
Refuses(sink, lines, outcome) ==
  \E n \in 0..Len(lines) :
    /\ runner' = [runner EXCEPT ![sink] = @ \o SubSeq(lines, 1, n), !.out = <<>>]
    /\ client' = [client EXCEPT !.at = "done", !.outcome = outcome]

\* write_out of the masks, or of everything in the other formats. The sink is any
\* writer, and may hold what it took until it is flushed.
WriteOut ==
  LET lines == IF job.format = "actions-env" THEN Masks ELSE Assignments
  IN  /\ client.at = "deliver"
      /\ \/ /\ runner' = [runner EXCEPT !.out = lines]
            /\ Goes(IF job.format = "actions-env" THEN "masked" ELSE "written")
         \/ Refuses("shown", lines, "output")
      /\ UNCHANGED <<job, site, req, trail, sent, world>>

\* Mutant of Flush: the masks stay in the buffer.
FlushLater ==
  /\ client.at = "masked"
  /\ Goes("flushed")
  /\ UNCHANGED <<job, site, req, trail, sent, runner, world>>

\* out.flush(), before a value goes anywhere.
Flush ==
  /\ client.at = "masked"
  /\ \/ /\ runner' = [runner EXCEPT !.shown = @ \o runner.out, !.out = <<>>]
        /\ Goes("flushed")
     \/ Refuses("shown", runner.out, "output")
  /\ UNCHANGED <<job, site, req, trail, sent, world>>

\* append to the file of the runner, which has to be there, or the assignments on
\* standard output.
Assign ==
  /\ client.at = "flushed"
  /\ CASE job.github /\ site.github = "gone" -> Exit("environment-file")
       [] job.github /\ site.github = "there" ->
            \/ runner' = [runner EXCEPT !.file = Assignments] /\ Goes("written")
            \/ Refuses("file", Assignments, "environment-file")
       [] OTHER ->
            \/ runner' = [runner EXCEPT !.out = @ \o Assignments] /\ Goes("written")
            \/ Refuses("shown", Assignments, "output")
  /\ UNCHANGED <<job, site, req, trail, sent, world>>

\* deliver has returned, and so does main.
Finish ==
  /\ client.at = "written"
  /\ Exit("delivered")
  /\ UNCHANGED <<job, site, req, trail, sent, world>>

\* The container or the runner is stopped. What was not flushed is lost.
Kill ==
  /\ client.at # "done"
  /\ client' = [client EXCEPT !.at = "done", !.outcome = "killed"]
  /\ runner' = [runner EXCEPT !.out = <<>>]
  /\ UNCHANGED <<job, site, req, trail, sent, world>>

-----------------------------------------------------------------------------
(* Everyone else, while the job waits for the server.                      *)

Meanwhile ==
  /\ client.at \in {"list", "export", "get"}
  /\ edits < MaxEdits
  /\ edits' = edits + 1
  /\ UNCHANGED <<job, site, client, trail, sent, runner>>

\* Client::put of another program, which refuses what is no UTF-8 by itself, and
\* Client::delete, which hides the newest version.
Put ==
  /\ Meanwhile
  /\ \E p \in AllPaths, v \in Values \ {"binary"} :
       /\ v # store[p]
       /\ store' = [store EXCEPT ![p] = v]
       /\ had' = [had EXCEPT ![p] = @ \cup {v}]
  /\ UNCHANGED <<req, grants, server, revoked>>

Delete ==
  /\ Meanwhile
  /\ \E p \in AllPaths :
       /\ Stored(p)
       /\ store' = [store EXCEPT ![p] = "deleted"]
       /\ had' = [had EXCEPT ![p] = @ \cup {"deleted"}]
  /\ UNCHANGED <<req, grants, server, revoked>>

\* The token is revoked by the operator.
Revoke ==
  /\ Meanwhile
  /\ server.token
  /\ server' = [server EXCEPT !.token = FALSE]
  /\ revoked' = TRUE
  /\ UNCHANGED <<req, store, grants, had>>

\* What the process serves after a start: the files may have changed.
Restarted(broken) ==
  /\ \E bulk \in BOOLEAN : server' = [server EXCEPT !.bulk = bulk, !.broken = broken]
  /\ \E denied \in Denials :
       /\ grants' = [grants EXCEPT !.read = AllPaths \ denied]
       /\ had' = [p \in AllPaths |-> had[p] \cup IF p \in denied THEN {"denied"} ELSE {}]
  /\ UNCHANGED <<store, revoked>>

\* serve ends after SIGTERM with nothing in flight, and a new process starts.
Restart ==
  /\ Meanwhile
  /\ req.reply # NoReply
  /\ Restarted(server.broken)
  /\ UNCHANGED req

\* The process dies with a request in flight: nobody answers it.
Crash ==
  /\ Meanwhile
  /\ req.reply = NoReply
  /\ req' = NoRequest
  /\ Restarted(TRUE)

-----------------------------------------------------------------------------
Init ==
  /\ \E j \in Jobs : job = j.job /\ site = j.site
  /\ store \in Stores
  /\ \E denied \in Denials, hidden \in Hidings :
       /\ job.prefix \/ hidden = {}   \* nobody else lists
       /\ grants = [list |-> AllPaths \ hidden, read |-> AllPaths \ denied]
       /\ had = [p \in AllPaths |-> {store[p]} \cup IF p \in denied THEN {"denied"} ELSE {}]
  /\ \E bulk, token \in BOOLEAN :
       /\ server = [bulk |-> bulk, token |-> token, broken |-> FALSE]
       /\ revoked = ~token
  /\ client = [at |-> "start", want |-> <<>>, got |-> <<>>, outcome |-> None]
  /\ req = NoRequest
  /\ trail = <<>> /\ sent = [p \in AllPaths |-> 0]
  /\ runner = [shown |-> <<>>, out |-> <<>>, file |-> <<>>, child |-> None]
  /\ edits = 0

\* The steps of the job's own process.
JobStep == Begin \/ TakeListing \/ TakeExport \/ TakeGet \/ GiveUp \/ Exec
           \/ RenderFails \/ WriteOut \/ Flush \/ Assign \/ Finish

ServerStep == ServeList \/ RefuseExport \/ ExportPath \/ ServeGet \/ AuditFails

Others == Put \/ Delete \/ Revoke \/ Restart \/ Crash \/ Kill

\* The job is over and its request is answered or lost.
Over == client.at = "done" /\ (req.kind = "none" \/ req.reply # NoReply) /\ UNCHANGED vars

Next == JobStep \/ ServerStep \/ Others \/ Over

\* A job that nobody stops goes on: every request has a timeout, and the rest is
\* its own work. Nothing is asked of the server.
Spec == Init /\ [][Next]_vars /\ WF_vars(JobStep)
-----------------------------------------------------------------------------
(* Properties.                                                             *)

Entries == [kind : {"decision", "correction"}, path : AllPaths, status : {200, 400, 403, 404, 500}]
Lines   == [kind : {"mask", "value", "nothing"}, path : AllPaths]
Secrets == [path : AllPaths, value : Values]

\* The state has its types, and an export in progress holds no more plaintext than
\* validate_export_paths and the running total of export_secrets allow.
TypeOK ==
  /\ [job |-> job, site |-> site] \in Jobs
  /\ store \in [AllPaths -> Values \cup {"absent", "deleted"}]
  /\ grants \in [list : SUBSET AllPaths, read : SUBSET AllPaths]
  /\ server \in [bulk : BOOLEAN, token : BOOLEAN, broken : BOOLEAN]
  /\ client.at \in {"start", "list", "export", "get", "exec", "deliver", "masked", "flushed",
                    "written", "done"}
  /\ client.outcome \in Outcomes \cup {None}
  /\ client.want \in Seq(AllPaths) /\ client.got \in Seq(Secrets)
  /\ req.kind \in {"none", "list", "export", "get"} /\ req.paths \in Seq(AllPaths)
  /\ req.done \in Seq(Secrets) /\ Len(req.done) <= MaxExport /\ req.bytes \in 0..MaxBytes
  /\ req.reply = Reply(req.reply.status, req.reply.body) /\ req.reply.status \in Nat
  /\ req.reply.body \in IF req.kind = "list" THEN Seq(AllPaths) ELSE Seq(Secrets)
  /\ trail \in Seq(Entries) /\ sent \in [AllPaths -> Nat]
  /\ runner.shown \in Seq(Lines) /\ runner.out \in Seq(Lines) /\ runner.file \in Seq(Lines)
  /\ had \in [AllPaths -> SUBSET (Values \cup {"absent", "deleted", "denied"})]
  /\ revoked \in BOOLEAN /\ edits \in 0..MaxEdits

Wanted == {client.want[i] : i \in DOMAIN client.want}

Delivered == {runner.shown[i].path : i \in {j \in DOMAIN runner.shown : runner.shown[j].kind = "value"}}
             \cup {runner.file[i].path : i \in DOMAIN runner.file}

\* A service started by ciphr-run, and a step after a ciphr-ci that reported success,
\* has every secret the job asked for: one variable for each, with a value that its
\* path had while the job ran. Whatever is deleted, denied, revoked or restarted
\* between the requests, nobody goes on with half a configuration.
StartsComplete ==
  /\ runner.child # None =>
       /\ DOMAIN runner.child = {NameOf[p] : p \in Wanted}
       /\ \A p \in Wanted : runner.child[NameOf[p]] \in had[p]
  /\ client.outcome = "delivered" => Delivered = Wanted /\ Wanted # {}

\* In the format for a runner no value is visible, on standard output or in the
\* environment file, before the mask of it is: deliver flushes the masks first.
MasksFirst ==
  job.tool = "ci" /\ job.format = "actions-env" =>
    \A p \in Delivered :
      \/ \E i \in DOMAIN client.got : client.got[i] = [path |-> p, value |-> "blank"]
      \/ \E i \in DOMAIN runner.shown :
           /\ runner.shown[i] = [kind |-> "mask", path |-> p]
           /\ \A j \in 1..i : runner.shown[j].kind # "value"

\* A set of paths that cannot become an environment costs no read: environment_of
\* and run of ciphr-ci refuse the names before a value is asked for, so the trail has
\* no entry for it.
RefusedNamesCostNothing ==
  client.outcome = "names" \/ (job.tool = "ci" /\ client.outcome = "control-name")
    => trail = <<>>

\* No process is started, and no later step is set up, with a variable that decides
\* how programs start, whatever names were written to the store after the listing.
NoControlNames ==
  /\ runner.child # None => DOMAIN runner.child \cap Control = {}
  /\ job.format # "json" => \A p \in Delivered : NameOf[p] \notin Control

Count(kind, status, p) ==
  Cardinality({i \in DOMAIN trail : /\ trail[i].kind = kind /\ trail[i].path = p
                                    /\ status = 0 \/ trail[i].status = status})

\* What the trail says was read, corrections taken off, is what left the server: it
\* never says less, and it says more only while an export runs or when the process
\* or the trail itself failed in the middle of a request.
TrailIsTrue ==
  \A p \in AllPaths :
    LET told == Count("decision", 200, p) - Count("correction", 0, p)
    IN  /\ told >= sent[p]
        /\ (req.kind = "none" \/ req.reply # NoReply) /\ ~server.broken => told = sent[p]

\* The bytes of some values, each with the value it is of.
Bytes(values) == UNION {{i} \X (1..Size[values[i]]) : i \in DOMAIN values}

\* The first of the paths had values that are together too much for one export.
TooLarge(paths, h) ==
  \E n \in DOMAIN paths : \E values \in [1..n -> Values] :
    /\ \A i \in 1..n : values[i] \in h[paths[i]]
    /\ Cardinality(Bytes(values)) > MaxBytes

\* A job that ends with a refusal of the service was refused for a reason that held
\* at some moment while it ran: a secret that was not there, a read that was denied,
\* a token that was not valid, a set that is too large or names a path twice. A
\* deployment without the bulk route is none of them.
RefusalIsTrue ==
  /\ client.outcome = "not-found" => \E p \in Wanted : had[p] \cap {"absent", "deleted"} # {}
  /\ client.outcome = "forbidden" => \E p \in Wanted : "denied" \in had[p]
  /\ client.outcome = "unauthenticated" => revoked
  /\ client.outcome = "audit-unavailable" => server.broken
  /\ client.outcome = "unexpected" => \E p \in Wanted : "binary" \in had[p]
  /\ client.outcome = "bad-request" => ~Exportable(client.want) \/ TooLarge(client.want, had)

\* A job that starts ends: it becomes the command, delivers, or refuses. No answer,
\* and no missing answer, leaves it waiting or asking forever.
JobEnds == client.at = "start" ~> client.at = "done"
=============================================================================
