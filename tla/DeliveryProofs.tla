--------------------------- MODULE DeliveryProofs ---------------------------
(***************************************************************************)
(* Proofs about Delivery, for any paths, names, values, jobs, policies and *)
(* bounds: whatever happens between the requests of a job, what it starts  *)
(* or delivers is the whole set it asked for, under names it may use; a    *)
(* value never comes before its mask; the trail tells of what left the     *)
(* server; and a refusal has a reason that once held.                      *)
(***************************************************************************)
EXTENDS Delivery, FiniteSetTheorems, TLAPS

Ats  == {"start", "list", "export", "get", "exec", "deliver", "masked", "flushed", "written",
         "done"}
Asking  == {"list", "export", "get"}
Handing == {"deliver", "masked", "flushed", "written"}
Late    == {"exec"} \cup Handing

-----------------------------------------------------------------------------
(* The invariant, in parts. Each names the variables it is about.          *)

\* The secrets are those of the first paths, with values that the paths had.
PartOf(secrets, paths, h) ==
  /\ Len(secrets) <= Len(paths)
  /\ \A i \in 1..Len(secrets) : secrets[i].path = paths[i] /\ secrets[i].value \in h[paths[i]]

Whole(secrets, paths, h) == PartOf(secrets, paths, h) /\ Len(secrets) = Len(paths)

\* The names of a set that gets past NamesProblem.
NamesOk(j, paths) ==
  \/ j.tool = "ci" /\ j.format = "json"
  \/ Nameable(paths) /\ ~(j.tool = "ci" /\ Controls(paths))

WorldInv ==
  /\ [job |-> job, site |-> site] \in Jobs
  /\ store \in [AllPaths -> Values \cup {"absent", "deleted"}]
  /\ grants \in [list : SUBSET AllPaths, read : SUBSET AllPaths]
  /\ server \in [bulk : BOOLEAN, token : BOOLEAN, broken : BOOLEAN]
  /\ had \in [AllPaths -> SUBSET (Values \cup {"absent", "deleted", "denied"})]
  /\ revoked \in BOOLEAN /\ edits \in 0..MaxEdits
  /\ \A p \in AllPaths : store[p] \in had[p]

ClientType(c) ==
  c \in [at : Ats, want : Seq(AllPaths), got : Seq(Secrets), outcome : Outcomes \cup {None}]

Replies == [status : Nat, body : Seq(AllPaths) \cup Seq(Secrets)]

ReqType(r) ==
  r \in [kind : {"none", "list", "export", "get"}, paths : Seq(AllPaths), done : Seq(Secrets),
         bytes : 0..MaxBytes, reply : Replies]

\* What a request has done so far, and what its answer holds.
ReqInv(r, h) ==
  /\ ReqType(r)
  /\ r.kind # "export" => r.done = <<>>
  /\ r.kind = "list" => r.reply.body \in Seq(AllPaths)
  /\ r.kind # "list" => r.reply.body \in Seq(Secrets)
  /\ r.kind = "export" =>
       /\ PartOf(r.done, r.paths, h)
       /\ r.reply = NoReply => Len(r.done) < Len(r.paths)
       /\ r.done # <<>> => Exportable(r.paths)
  /\ r.kind = "get" => Len(r.paths) = 1
  /\ r.kind \in {"export", "get"} /\ r.reply.status = 200 => Whole(r.reply.body, r.paths, h)

TrailInv == trail \in Seq(Entries) /\ sent \in [AllPaths -> Nat]

\* Where the job is, and what it has by then.
Stage(j, c, r, t, h) ==
  /\ ClientType(c)
  /\ c.at # "done" => c.outcome = None
  /\ c.at = "start" => c.want = <<>> /\ c.got = <<>> /\ r = NoRequest /\ t = <<>>
  /\ c.at = "list" => c.want = <<>> /\ c.got = <<>> /\ r.kind \in {"none", "list"} /\ t = <<>>
  /\ c.at \in {"export", "get"} \cup Late => NamesOk(j, c.want) /\ c.want # <<>>
  /\ c.at = "export" =>
       c.got = <<>> /\ (r.kind = "none" \/ (r.kind = "export" /\ r.paths = c.want))
  /\ c.at = "get" =>
       /\ PartOf(c.got, c.want, h) /\ Len(c.got) < Len(c.want)
       /\ r.kind = "none" \/ (r.kind = "get" /\ r.paths = <<c.want[Len(c.got) + 1]>>)
  /\ c.at \in Late => Whole(c.got, c.want, h)
  /\ c.at = "exec" => Nameable(c.want) /\ ~Controls(c.want)
  /\ c.at \in Handing => j.tool = "ci"

MaskLines(got) == [i \in DOMAIN got |-> Mask(got[i])]

AssignLines(j, got) ==
  IF j.format # "json" THEN [i \in DOMAIN got |-> Assignment(got[i])]
  ELSE [i \in DOMAIN Paths |->
          [kind |-> IF \E k \in DOMAIN got : got[k].path = Paths[i] THEN "value" ELSE "nothing",
           path |-> Paths[i]]]

RunnerType(u) ==
  /\ DOMAIN u = {"shown", "out", "file", "child"}
  /\ u.shown \in Seq(Lines) /\ u.out \in Seq(Lines) /\ u.file \in Seq(Lines)

\* What the job has written at each of its steps.
Output(j, c, u) ==
  /\ RunnerType(u)
  /\ c.at \in {"start", "exec", "deliver"} \cup Asking =>
       u.shown = <<>> /\ u.out = <<>> /\ u.file = <<>>
  /\ c.at # "done" => u.child = None
  /\ c.at \in {"masked", "flushed"} => j.format = "actions-env" /\ u.file = <<>>
  /\ c.at = "masked" => u.shown = <<>> /\ u.out = MaskLines(c.got)
  /\ c.at = "flushed" => u.shown = MaskLines(c.got) /\ u.out = <<>>
  /\ c.at = "written" =>
       \/ /\ j.format # "actions-env" /\ u.shown = <<>> /\ u.file = <<>>
          /\ u.out = AssignLines(j, c.got)
       \/ /\ j.format = "actions-env" /\ u.shown = MaskLines(c.got)
          /\ \/ u.file = AssignLines(j, c.got) /\ u.out = <<>>
             \/ u.file = <<>> /\ u.out = AssignLines(j, c.got)

\* The paths of the lines that hold a value.
ValuePaths(lines) == {lines[i].path : i \in {k \in DOMAIN lines : lines[k].kind = "value"}}

PathsOf(s) == {s[i].path : i \in DOMAIN s}

Reached(u) == ValuePaths(u.shown) \cup PathsOf(u.file)

\* What others can see of the job, now or after its end.
Result(j, c, u, h) ==
  /\ u.child # None =>
       /\ u.child = Environment(c.got) /\ Whole(c.got, c.want, h)
       /\ Nameable(c.want) /\ ~Controls(c.want)
  /\ Reached(u) \subseteq PathsOf(c.got)
  /\ Reached(u) # {} =>
       /\ Whole(c.got, c.want, h) /\ NamesOk(j, c.want) /\ j.tool = "ci"
       /\ j.format = "actions-env" =>
            /\ Len(u.shown) >= Len(c.got)
            /\ \A i \in 1..Len(c.got) : u.shown[i] = Mask(c.got[i])
  /\ c.outcome = "delivered" =>
       Reached(u) = PathsOf(c.got) /\ Whole(c.got, c.want, h) /\ c.want # <<>>

\* A job that refused its names has asked for nothing, and nothing is under way.
Quiet(j, c, r, t) ==
  c.outcome = "names" \/ (j.tool = "ci" /\ c.outcome = "control-name") =>
    t = <<>> /\ (r.kind = "none" \/ r.reply # NoReply)

Inv ==
  /\ WorldInv /\ TrailInv /\ ReqInv(req, had) /\ Stage(job, client, req, trail, had)
  /\ Output(job, client, runner) /\ Result(job, client, runner, had)
  /\ Quiet(job, client, req, trail)

-----------------------------------------------------------------------------
(* Sets of secrets and lines.                                              *)

LEMMA PartOfGrows ==
  ASSUME NEW s \in Seq(Secrets), NEW paths \in Seq(AllPaths), NEW h, NEW k,
         \A p \in AllPaths : h[p] \subseteq k[p], PartOf(s, paths, h)
  PROVE  PartOf(s, paths, k)
<1>1. \A i \in 1..Len(s) : paths[i] \in AllPaths
  BY DEF PartOf
<1>. QED BY <1>1 DEF PartOf

LEMMA WholeGrows ==
  ASSUME NEW s \in Seq(Secrets), NEW paths \in Seq(AllPaths), NEW h, NEW k,
         \A p \in AllPaths : h[p] \subseteq k[p], Whole(s, paths, h)
  PROVE  Whole(s, paths, k)
BY PartOfGrows DEF Whole

\* The paths of a whole set are the paths that were asked for.
LEMMA WholePaths ==
  ASSUME NEW s \in Seq(Secrets), NEW paths \in Seq(AllPaths), NEW h, Whole(s, paths, h)
  PROVE  PathsOf(s) = {paths[i] : i \in DOMAIN paths}
<1>1. DOMAIN s = 1..Len(s) /\ DOMAIN paths = 1..Len(s)
  BY DEF Whole
<1>2. \A i \in 1..Len(s) : s[i].path = paths[i]
  BY DEF Whole, PartOf
<1>. QED BY <1>1, <1>2 DEF PathsOf

\* A set of names that was fine is fine for the secrets that came back for it.
LEMMA WholeNames ==
  ASSUME NEW s \in Seq(Secrets), NEW paths \in Seq(AllPaths), NEW h, Whole(s, paths, h)
  PROVE  [i \in DOMAIN s |-> s[i].path] = paths
<1>1. DOMAIN s = 1..Len(s) /\ DOMAIN paths = 1..Len(s)
  BY DEF Whole
<1>2. \A i \in 1..Len(s) : s[i].path = paths[i]
  BY DEF Whole, PartOf
<1>3. paths = [i \in 1..Len(s) |-> paths[i]]
  BY <1>1
<1>4. [i \in DOMAIN s |-> s[i].path] = [i \in 1..Len(s) |-> paths[i]]
  BY <1>1, <1>2
<1>. QED BY <1>3, <1>4

LEMMA NamesFine ==
  ASSUME NEW paths PROVE NamesProblem(paths) = Fine <=> NamesOk(job, paths)
BY DEF NamesProblem, NamesOk, Fine

\* A function on 1..n is a sequence.
LEMMA FunctionSeq ==
  ASSUME NEW S, NEW n \in Nat, NEW f, f = [i \in 1..n |-> f[i]], \A i \in 1..n : f[i] \in S
  PROVE  f \in Seq(S) /\ Len(f) = n
OBVIOUS

LEMMA OneOf ==
  ASSUME NEW S, NEW s \in Seq(S), NEW n \in 1..Len(s)
  PROVE  SubSeq(s, n, n) = <<s[n]>> /\ <<s[n]>> \in Seq(S) /\ Len(<<s[n]>>) = 1
<1>. DEFINE a == SubSeq(s, n, n)
<1>1. s[n] \in S /\ n \in Nat
  OBVIOUS
<1>2. a \in Seq(S) /\ Len(a) = 1 /\ a[1] = s[n]
  BY <1>1
<1>. HIDE DEF a
<1>3. a = <<s[n]>>
  BY <1>2
<1>. QED BY <1>1, <1>3 DEF a

LEMMA Concat ==
  ASSUME NEW S, NEW a \in Seq(S), NEW b \in Seq(S)
  PROVE  /\ a \o b \in Seq(S) /\ Len(a \o b) = Len(a) + Len(b)
         /\ \A i \in 1..Len(a) : (a \o b)[i] = a[i]
         /\ \A i \in 1..Len(b) : (a \o b)[Len(a) + i] = b[i]
OBVIOUS

LEMMA OneMore ==
  ASSUME NEW S, NEW a \in Seq(S), NEW b \in Seq(S), Len(b) = 1
  PROVE  /\ a \o b \in Seq(S) /\ Len(a \o b) = Len(a) + 1
         /\ \A i \in 1..Len(a) : (a \o b)[i] = a[i]
         /\ (a \o b)[Len(a) + 1] = b[1]
<1>. DEFINE c == a \o b
<1>0. a \in Seq(S) /\ b \in Seq(S)
  OBVIOUS
<1>1. /\ c \in Seq(S) /\ Len(c) = Len(a) + Len(b)
      /\ \A i \in 1..Len(a) : c[i] = a[i]
      /\ \A i \in 1..Len(b) : c[Len(a) + i] = b[i]
  BY ONLY <1>0, Concat
<1>. HIDE DEF c
<1>2. c[Len(a) + 1] = b[1]
  BY <1>1
<1>. QED BY <1>1, <1>2 DEF c

LEMMA MaskFacts ==
  ASSUME NEW got \in Seq(Secrets)
  PROVE  /\ MaskLines(got) \in Seq(Lines) /\ Len(MaskLines(got)) = Len(got)
         /\ \A i \in 1..Len(got) : MaskLines(got)[i] = Mask(got[i])
         /\ ValuePaths(MaskLines(got)) = {}
<1>. DEFINE lines == MaskLines(got)
<1>1. /\ DOMAIN got = 1..Len(got) /\ Len(got) \in Nat
      /\ lines = [i \in 1..Len(got) |-> Mask(got[i])]
  BY DEF MaskLines
<1>2. \A i \in 1..Len(got) : got[i] \in Secrets
  OBVIOUS
<1>3. \A i \in 1..Len(got) : Mask(got[i]) \in Lines /\ Mask(got[i]).kind # "value"
  BY <1>2 DEF Mask, Lines, Secrets
<1>4. lines \in Seq(Lines) /\ Len(lines) = Len(got)
  <2>1. lines = [i \in 1..Len(got) |-> lines[i]] /\ \A i \in 1..Len(got) : lines[i] \in Lines
    BY <1>1, <1>3
  <2>. HIDE DEF lines
  <2>. QED BY <1>1, <2>1, FunctionSeq
<1>5. \A i \in DOMAIN lines : lines[i].kind # "value"
  BY <1>1, <1>3
<1>6. ValuePaths(lines) = {}
  <2>. HIDE DEF lines
  <2>. QED BY <1>5 DEF ValuePaths
<1>. QED BY <1>1, <1>4, <1>6

LEMMA AssignFacts ==
  ASSUME NEW j, NEW got \in Seq(Secrets)
  PROVE  /\ AssignLines(j, got) \in Seq(Lines)
         /\ ValuePaths(AssignLines(j, got)) = PathsOf(got)
         /\ j.format # "json" => PathsOf(AssignLines(j, got)) = PathsOf(got)
<1>. DEFINE lines == AssignLines(j, got)
<1>1. DOMAIN got = 1..Len(got) /\ Len(got) \in Nat /\ \A i \in 1..Len(got) : got[i] \in Secrets
  OBVIOUS
<1>2. CASE j.format # "json"
  <2>1. lines = [i \in 1..Len(got) |-> Assignment(got[i])]
    BY <1>1, <1>2 DEF AssignLines
  <2>2. \A i \in 1..Len(got) : /\ Assignment(got[i]) \in Lines
                               /\ Assignment(got[i]).kind = "value"
                               /\ Assignment(got[i]).path = got[i].path
    BY <1>1 DEF Assignment, Lines, Secrets
  <2>3. DOMAIN lines = 1..Len(got) /\ lines = [i \in 1..Len(got) |-> lines[i]]
        /\ \A i \in 1..Len(got) : lines[i] \in Lines /\ lines[i].kind = "value"
                                  /\ lines[i].path = got[i].path
    BY <2>1, <2>2
  <2>. HIDE DEF lines
  <2>4. lines \in Seq(Lines)
    BY <1>1, <2>3, FunctionSeq
  <2>5. PathsOf(lines) = PathsOf(got)
    BY <1>1, <2>3 DEF PathsOf
  <2>6. ValuePaths(lines) = PathsOf(got)
    BY <1>1, <2>3 DEF PathsOf, ValuePaths
  <2>. QED BY <2>4, <2>5, <2>6 DEF lines
<1>3. CASE j.format = "json"
  <2>. DEFINE has(p) == \E k \in DOMAIN got : got[k].path = p
  <2>1. lines = [i \in DOMAIN Paths |-> [kind |-> IF has(Paths[i]) THEN "value" ELSE "nothing",
                                         path |-> Paths[i]]]
    BY <1>3 DEF AssignLines
  <2>. DEFINE n == Len(Paths)
  <2>2. DOMAIN Paths = 1..n /\ n \in Nat /\ \A i \in 1..n : Paths[i] \in AllPaths
    BY DeliveryAssumption
  <2>. HIDE DEF has, n
  <2>3. /\ DOMAIN lines = 1..n
        /\ \A i \in 1..n : /\ lines[i] = [kind |-> IF has(Paths[i]) THEN "value" ELSE "nothing",
                                          path |-> Paths[i]]
                           /\ lines[i].path = Paths[i] /\ (lines[i].kind = "value" <=> has(Paths[i]))
    BY <2>1, <2>2
  <2>4. \A i \in 1..n : lines[i] \in Lines
    BY <2>2, <2>3 DEF Lines
  <2>5. lines = [i \in 1..n |-> lines[i]]
    BY <2>1, <2>3
  <2>. HIDE DEF lines
  <2>6. lines \in Seq(Lines)
    BY <2>2, <2>4, <2>5, FunctionSeq
  <2>7. ValuePaths(lines) \subseteq PathsOf(got)
    BY <2>3 DEF ValuePaths, PathsOf, has
  <2>8. ASSUME NEW k \in DOMAIN got PROVE got[k].path \in ValuePaths(lines)
    <3>1. got[k].path \in AllPaths
      BY <1>1 DEF Secrets
    <3>2. PICK i \in DOMAIN Paths : Paths[i] = got[k].path
      BY <3>1 DEF AllPaths
    <3>3. has(Paths[i])
      BY <3>2 DEF has
    <3>4. i \in DOMAIN lines /\ lines[i].kind = "value" /\ lines[i].path = got[k].path
      BY <2>2, <2>3, <3>2, <3>3
    <3>. QED BY <3>4 DEF ValuePaths
  <2>9. ValuePaths(lines) = PathsOf(got)
    BY <2>7, <2>8 DEF PathsOf
  <2>. QED BY <1>3, <2>6, <2>9 DEF lines
<1>. QED BY <1>2, <1>3

LEMMA NoPaths == ValuePaths(<<>>) = {} /\ PathsOf(<<>>) = {}
BY DEF ValuePaths, PathsOf

LEMMA ConcatPaths ==
  ASSUME NEW a \in Seq(Lines), NEW b \in Seq(Lines)
  PROVE  a \o b \in Seq(Lines) /\ ValuePaths(a \o b) = ValuePaths(a) \cup ValuePaths(b)
<1>1. a \o b \in Seq(Lines) /\ Len(a \o b) = Len(a) + Len(b)
  OBVIOUS
<1>2. \A i \in 1..Len(a) : (a \o b)[i] = a[i]
  OBVIOUS
<1>3. \A i \in 1..Len(b) : (a \o b)[Len(a) + i] = b[i] /\ Len(a) + i \in 1..Len(a \o b)
  OBVIOUS
<1>. DEFINE c == a \o b
<1>4. DOMAIN a = 1..Len(a) /\ DOMAIN b = 1..Len(b) /\ DOMAIN c = 1..Len(a) + Len(b)
  BY <1>1
<1>. HIDE DEF c
<1>5. ASSUME NEW i \in DOMAIN c, c[i].kind = "value"
      PROVE  c[i].path \in ValuePaths(a) \cup ValuePaths(b)
  <2>1. CASE i \in 1..Len(a)
    BY <2>1, <1>2, <1>4, <1>5 DEF ValuePaths, c
  <2>2. CASE i \notin 1..Len(a)
    <3>1. i - Len(a) \in 1..Len(b) /\ i = Len(a) + (i - Len(a))
      BY <2>2, <1>4
    <3>2. c[i] = b[i - Len(a)]
      BY <3>1, <1>3 DEF c
    <3>. QED BY <3>1, <3>2, <1>4, <1>5 DEF ValuePaths
  <2>. QED BY <2>1, <2>2
<1>6. ASSUME NEW i \in DOMAIN a, a[i].kind = "value" PROVE a[i].path \in ValuePaths(c)
  <2>1. i \in DOMAIN c /\ c[i] = a[i]
    BY <1>1, <1>2, <1>4 DEF c
  <2>. QED BY <2>1, <1>6 DEF ValuePaths
<1>7. ASSUME NEW i \in DOMAIN b, b[i].kind = "value" PROVE b[i].path \in ValuePaths(c)
  <2>1. Len(a) + i \in DOMAIN c /\ c[Len(a) + i] = b[i]
    BY <1>1, <1>3, <1>4 DEF c
  <2>. QED BY <2>1, <1>7 DEF ValuePaths
<1>8. ValuePaths(c) \subseteq ValuePaths(a) \cup ValuePaths(b)
  BY <1>5 DEF ValuePaths
<1>9. ValuePaths(a) \subseteq ValuePaths(c) /\ ValuePaths(b) \subseteq ValuePaths(c)
  BY <1>6, <1>7 DEF ValuePaths
<1>. QED BY <1>1, <1>8, <1>9 DEF c

LEMMA LeadStays ==
  ASSUME NEW a \in Seq(Lines), NEW b \in Seq(Lines)
  PROVE  Len(a \o b) >= Len(a) /\ \A i \in 1..Len(a) : (a \o b)[i] = a[i]
OBVIOUS

LEMMA PrefixPaths ==
  ASSUME NEW a \in Seq(Lines), NEW n \in 0..Len(a)
  PROVE  /\ SubSeq(a, 1, n) \in Seq(Lines)
         /\ ValuePaths(SubSeq(a, 1, n)) \subseteq ValuePaths(a)
         /\ PathsOf(SubSeq(a, 1, n)) \subseteq PathsOf(a)
<1>. DEFINE b == SubSeq(a, 1, n)
<1>1. b \in Seq(Lines) /\ DOMAIN b = 1..n /\ \A i \in 1..n : b[i] = a[i] /\ i \in DOMAIN a
  OBVIOUS
<1>. HIDE DEF b
<1>2. ValuePaths(b) \subseteq ValuePaths(a)
  BY <1>1 DEF ValuePaths
<1>3. PathsOf(b) \subseteq PathsOf(a)
  BY <1>1 DEF PathsOf
<1>. QED BY <1>1, <1>2, <1>3 DEF b

-----------------------------------------------------------------------------
(* The end of a job.                                                       *)

\* The variables that the job's own steps leave alone.
Aside == UNCHANGED <<job, site, trail, sent, world>>

LEMMA AsideStays ==
  ASSUME WorldInv, TrailInv, Aside
  PROVE  WorldInv' /\ TrailInv' /\ job' = job /\ trail' = trail /\ had' = had
<1>1. /\ UNCHANGED <<job, site, trail, sent>>
      /\ UNCHANGED <<store, grants, server, had, revoked, edits>>
  BY DEF Aside, world
<1>. QED BY <1>1 DEF WorldInv, TrailInv

MasksLead(u, c) ==
  Len(u.shown) >= Len(c.got) /\ \A i \in 1..Len(c.got) : u.shown[i] = Mask(c.got[i])

LEMMA Ends ==
  ASSUME Inv, client.at # "done", Aside, req' = req, NEW o \in Outcomes,
         client' = [client EXCEPT !.at = "done", !.outcome = o],
         RunnerType(runner'), runner'.child = None,
         Reached(runner') \subseteq PathsOf(client.got),
         Reached(runner') # {} =>
           client.at \in Handing /\ (job.format = "actions-env" => MasksLead(runner', client)),
         o = "delivered" => client.at = "written" /\ Reached(runner') = PathsOf(client.got),
         o = "names" \/ (job.tool = "ci" /\ o = "control-name") =>
           trail = <<>> /\ (req.kind = "none" \/ req.reply # NoReply)
  PROVE  Inv'
<1>1. WorldInv' /\ TrailInv' /\ job' = job /\ trail' = trail /\ had' = had
  BY AsideStays DEF Inv
<1>2. ReqInv(req, had)'
  BY <1>1 DEF Inv, ReqInv, ReqType, PartOf, Whole, Exportable
<1>3. /\ ClientType(client') /\ client'.at = "done" /\ client'.outcome = o
      /\ client'.got = client.got /\ client'.want = client.want
  BY DEF Inv, Stage, ClientType, Ats
<1>4. Stage(job, client, req, trail, had)'
  <2>1. Stage(job', client', req', trail', had')
    BY <1>3 DEF Stage, Handing, Late
  <2>. QED BY <2>1
<1>5. Output(job, client, runner)'
  <2>1. Output(job', client', runner')
    BY <1>3 DEF Output, Asking
  <2>. QED BY <2>1
<1>6. Result(job, client, runner, had)'
  <2>1. client.at \in Late => /\ Whole(client.got, client.want, had)
                              /\ NamesOk(job, client.want) /\ client.want # <<>>
    BY DEF Inv, Stage
  <2>2. client.at \in Handing => client.at \in Late /\ job.tool = "ci"
    BY DEF Inv, Stage, Late
  <2>3. client.at = "written" => client.at \in Handing
    BY DEF Handing
  <2>4. Result(job', client', runner', had')
    BY <1>1, <1>3, <2>1, <2>2, <2>3 DEF Result, MasksLead
  <2>. QED BY <2>4
<1>7. Quiet(job, client, req, trail)'
  <2>1. Quiet(job', client', req', trail')
    BY <1>1, <1>3 DEF Quiet
  <2>. QED BY <2>1
<1>. QED BY <1>1, <1>2, <1>4, <1>5, <1>6, <1>7 DEF Inv

\* What has reached others once the buffer of a job is flushed.
LEMMA Flushed ==
  ASSUME Inv, client.at # "done", NEW u,
         u = [runner EXCEPT !.shown = @ \o runner.out, !.out = <<>>]
  PROVE  /\ RunnerType(u) /\ u.child = None
         /\ client.at # "written" => Reached(u) = {}
         /\ client.at = "written" => Reached(u) = PathsOf(client.got)
         /\ client.at = "written" /\ job.format = "actions-env" => MasksLead(u, client)
<1>1. /\ RunnerType(runner) /\ runner.child = None /\ Output(job, client, runner)
      /\ client.got \in Seq(Secrets) /\ client.at \in Ats
  BY DEF Inv, Output, Stage, ClientType
<1>2. /\ DOMAIN u = {"shown", "out", "file", "child"} /\ u.child = None
      /\ u.shown = runner.shown \o runner.out /\ u.out = <<>> /\ u.file = runner.file
  BY <1>1 DEF RunnerType
<1>3. RunnerType(u)
  BY <1>1, <1>2, ConcatPaths DEF RunnerType
<1>4. Reached(u) = ValuePaths(runner.shown) \cup ValuePaths(runner.out) \cup PathsOf(runner.file)
  BY <1>1, <1>2, ConcatPaths DEF RunnerType, Reached
<1>. DEFINE masks == MaskLines(client.got)
            lines == AssignLines(job, client.got)
<1>5. /\ masks \in Seq(Lines) /\ ValuePaths(masks) = {} /\ Len(masks) = Len(client.got)
      /\ \A i \in 1..Len(client.got) : masks[i] = Mask(client.got[i])
  BY <1>1, MaskFacts
<1>6. /\ lines \in Seq(Lines) /\ ValuePaths(lines) = PathsOf(client.got)
      /\ job.format # "json" => PathsOf(lines) = PathsOf(client.got)
  BY <1>1, AssignFacts
<1>. HIDE DEF masks, lines
<1>7. CASE client.at \in {"start", "exec", "deliver"} \cup Asking
  <2>1. runner.shown = <<>> /\ runner.out = <<>> /\ runner.file = <<>> /\ client.at # "written"
    BY <1>1, <1>7 DEF Output, Asking
  <2>. QED BY <2>1, <1>2, <1>3, <1>4, NoPaths
<1>8. CASE client.at \in {"masked", "flushed"}
  <2>1. /\ client.at # "written" /\ runner.file = <<>>
        /\ \/ runner.shown = <<>> /\ runner.out = masks
           \/ runner.shown = masks /\ runner.out = <<>>
    BY <1>1, <1>8 DEF Output, masks
  <2>. QED BY <2>1, <1>2, <1>3, <1>4, <1>5, NoPaths
<1>9. CASE client.at = "written"
  <2>1. CASE job.format # "actions-env"
    <3>1. runner.shown = <<>> /\ runner.file = <<>> /\ runner.out = lines
      BY <1>1, <1>9, <2>1 DEF Output, lines
    <3>. QED BY <3>1, <2>1, <1>9, <1>2, <1>3, <1>4, <1>6, NoPaths
  <2>2. CASE job.format = "actions-env"
    <3>1. /\ runner.shown = masks
          /\ \/ runner.file = lines /\ runner.out = <<>>
             \/ runner.file = <<>> /\ runner.out = lines
      BY <1>1, <1>9, <2>2 DEF Output, lines, masks
    <3>2. Reached(u) = PathsOf(client.got)
      BY <3>1, <2>2, <1>4, <1>5, <1>6, NoPaths
    <3>3. runner.out \in Seq(Lines)
      BY <1>1 DEF RunnerType
    <3>4. MasksLead(u, client)
      <4>1. u.shown = masks \o runner.out
        BY <3>1, <1>2
      <4>2. /\ Len(masks \o runner.out) >= Len(masks)
            /\ \A i \in 1..Len(masks) : (masks \o runner.out)[i] = masks[i]
        BY ONLY <3>3, <1>5, LeadStays
      <4>. QED BY <4>1, <4>2, <1>5 DEF MasksLead
    <3>. QED BY <3>2, <3>4, <1>2, <1>3, <1>9
  <2>. QED BY <2>1, <2>2
<1>. QED BY <1>1, <1>7, <1>8, <1>9 DEF Ats, Asking

LEMMA ExitEnds ==
  ASSUME Inv, client.at # "done", Aside, req' = req, NEW o \in Outcomes, Exit(o),
         o = "delivered" => client.at = "written",
         o = "names" \/ (job.tool = "ci" /\ o = "control-name") =>
           trail = <<>> /\ (req.kind = "none" \/ req.reply # NoReply)
  PROVE  Inv'
<1>1. /\ client' = [client EXCEPT !.at = "done", !.outcome = o]
      /\ runner' = [runner EXCEPT !.shown = @ \o runner.out, !.out = <<>>]
  BY DEF Exit
<1>2. /\ RunnerType(runner') /\ runner'.child = None
      /\ client.at # "written" => Reached(runner') = {}
      /\ client.at = "written" => Reached(runner') = PathsOf(client.got)
      /\ client.at = "written" /\ job.format = "actions-env" => MasksLead(runner', client)
  BY <1>1, Flushed
<1>3. client.at = "written" => client.at \in Handing
  BY DEF Handing
<1>. QED BY <1>1, <1>2, <1>3, Ends

\* A sink that takes part of the lines.
LEMMA RefusesEnds ==
  ASSUME Inv, Aside, req' = req, NEW sink \in {"shown", "file"}, NEW lines \in Seq(Lines),
         NEW o \in Outcomes \ {"delivered", "names", "control-name"}, Refuses(sink, lines, o),
         client.at \in {"deliver", "masked", "flushed"}, sink = "file" => client.at = "flushed",
         ValuePaths(lines) \subseteq PathsOf(client.got),
         sink = "file" => PathsOf(lines) \subseteq PathsOf(client.got),
         job.format = "actions-env" /\ client.at # "flushed" => ValuePaths(lines) = {}
  PROVE  Inv'
<1>1. PICK n \in 0..Len(lines) :
        /\ runner' = [runner EXCEPT ![sink] = @ \o SubSeq(lines, 1, n), !.out = <<>>]
        /\ client' = [client EXCEPT !.at = "done", !.outcome = o]
  BY DEF Refuses
<1>2. /\ RunnerType(runner) /\ runner.child = None /\ Output(job, client, runner)
      /\ client.got \in Seq(Secrets)
  BY DEF Inv, Output, Stage, ClientType
<1>. DEFINE part == SubSeq(lines, 1, n)
            masks == MaskLines(client.got)
<1>3. /\ part \in Seq(Lines) /\ ValuePaths(part) \subseteq ValuePaths(lines)
      /\ PathsOf(part) \subseteq PathsOf(lines)
  BY PrefixPaths
<1>4. /\ masks \in Seq(Lines) /\ ValuePaths(masks) = {} /\ Len(masks) = Len(client.got)
      /\ \A i \in 1..Len(client.got) : masks[i] = Mask(client.got[i])
  BY <1>2, MaskFacts
<1>5. runner' = [runner EXCEPT ![sink] = @ \o part, !.out = <<>>]
  BY <1>1
<1>6. /\ client.at # "flushed" => runner.shown = <<>>
      /\ client.at = "flushed" => runner.shown = masks
      /\ runner.file = <<>>
  BY <1>2 DEF Output
<1>. HIDE DEF part, masks
<1>7. CASE sink = "shown"
  <2>1. /\ DOMAIN runner' = {"shown", "out", "file", "child"} /\ runner'.child = None
        /\ runner'.shown = runner.shown \o part /\ runner'.out = <<>> /\ runner'.file = <<>>
    BY <1>5, <1>7, <1>2, <1>6 DEF RunnerType
  <2>2. RunnerType(runner')
    BY <2>1, <1>2, <1>3, ConcatPaths DEF RunnerType
  <2>3. Reached(runner') = ValuePaths(runner.shown) \cup ValuePaths(part)
    BY <2>1, <1>2, <1>3, ConcatPaths, NoPaths DEF RunnerType, Reached
  <2>4. ValuePaths(runner.shown) = {}
    BY <1>6, <1>4, NoPaths
  <2>5. Reached(runner') \subseteq PathsOf(client.got)
    BY <2>3, <2>4, <1>3
  <2>6. Reached(runner') # {} => client.at \in Handing
                                  /\ (job.format = "actions-env" => MasksLead(runner', client))
    <3>1. client.at \in Handing
      BY DEF Handing
    <3>2. job.format = "actions-env" /\ Reached(runner') # {} => client.at = "flushed"
      BY <2>3, <2>4, <1>3
    <3>3. ASSUME client.at = "flushed" PROVE MasksLead(runner', client)
      <4>1. runner'.shown = masks \o part
        BY <2>1, <3>3, <1>6
      <4>2. Len(runner'.shown) >= Len(masks) /\ \A i \in 1..Len(masks) : runner'.shown[i] = masks[i]
        BY <4>1, <1>3, <1>4
      <4>. QED BY <4>2, <1>4 DEF MasksLead
    <3>. QED BY <3>1, <3>2, <3>3
  <2>. QED BY <2>1, <2>2, <2>5, <2>6, <1>1, Ends
<1>8. CASE sink = "file"
  <2>1. /\ DOMAIN runner' = {"shown", "out", "file", "child"} /\ runner'.child = None
        /\ runner'.shown = masks /\ runner'.out = <<>> /\ runner'.file = <<>> \o part
    BY <1>5, <1>8, <1>2, <1>6 DEF RunnerType
  <2>2. runner'.file = part
    BY <2>1, <1>3
  <2>3. RunnerType(runner')
    BY <2>1, <2>2, <1>3, <1>4 DEF RunnerType
  <2>4. Reached(runner') \subseteq PathsOf(client.got)
    BY <2>1, <2>2, <1>3, <1>4, <1>8 DEF Reached
  <2>5. MasksLead(runner', client) /\ client.at \in Handing
    BY <2>1, <1>4, <1>8 DEF MasksLead, Handing
  <2>. QED BY <2>1, <2>3, <2>4, <2>5, <1>1, Ends
<1>. QED BY <1>7, <1>8

-----------------------------------------------------------------------------
(* The steps of the job.                                                   *)

Plain == Outcomes \ {"delivered", "names", "control-name"}

LEMMA ProblemOutcomes ==
  /\ RunProblem # Fine => RunProblem \in Plain
  /\ CiProblem # Fine => CiProblem \in Plain
<1>1. TokenProblem \in Plain \cup {Fine}
  BY DEF TokenProblem, Plain, Outcomes, RunErrors, CiErrors
<1>2. ClientProblem \in Plain \cup {Fine}
  BY DEF ClientProblem, Plain, Outcomes, RunErrors, CiErrors, SdkErrors
<1>3. {"no-exec", "no-command", "path", "format", "github-env-without-actions",
       "github-env-unset", "would-pipe-secret"} \subseteq Plain
  BY DEF Plain, Outcomes, RunErrors, CiErrors, SdkErrors
<1>4. RunProblem # Fine => RunProblem \in Plain
  BY <1>1, <1>2, <1>3 DEF RunProblem
<1>5. CiProblem # Fine => CiProblem \in Plain
  BY <1>1, <1>2, <1>3 DEF CiProblem
<1>. QED BY <1>4, <1>5

LEMMA StatusOutcomes == ASSUME NEW n PROVE StatusError(n) \in Plain
BY DEF StatusError, Plain, Outcomes, RunErrors, CiErrors, SdkErrors

LEMMA OtherOutcomes ==
  /\ {"names", "control-name", "delivered", "started"} \subseteq Outcomes
  /\ {"transport", "nothing-under-prefix", "exec-126", "exec-127", "render", "output",
      "environment-file", "killed"} \subseteq Plain
  /\ None \notin Outcomes
BY NoneAssumption DEF Plain, Outcomes, RunErrors, CiErrors, SdkErrors

LEMMA SendFacts ==
  ASSUME NEW kind \in {"list", "export", "get"}, NEW paths \in Seq(AllPaths), Send(kind, paths),
         kind = "export" => paths # <<>>, kind = "get" => Len(paths) = 1, NEW h
  PROVE  ReqInv(req', h) /\ req'.kind = kind /\ req'.paths = paths /\ req'.reply = NoReply
<1>1. req' = [kind |-> kind, paths |-> paths, done |-> <<>>, bytes |-> 0, reply |-> NoReply]
  BY DEF Send, NoRequest
<1>2. /\ req'.kind = kind /\ req'.paths = paths /\ req'.done = <<>> /\ req'.bytes = 0
      /\ req'.reply = NoReply
  BY <1>1
<1>3. NoReply.status = 0 /\ NoReply.body = <<>> /\ NoReply \in Replies
  BY DEF NoReply, Reply, Replies
<1>4. 0 \in 0..MaxBytes /\ <<>> \in Seq(Secrets) /\ <<>> \in Seq(AllPaths)
  BY DeliveryAssumption
<1>5. ReqType(req')
  BY <1>1, <1>3, <1>4 DEF ReqType
<1>6. kind = "export" => PartOf(<<>>, paths, h) /\ Len(<<>>) < Len(paths)
  BY DEF PartOf
<1>. QED BY <1>2, <1>3, <1>4, <1>5, <1>6 DEF ReqInv

\* A job that has written nothing goes on.
LEMMA GoesOn ==
  ASSUME Inv, Aside, runner' = runner, client.at \in {"start"} \cup Asking,
         client'.at \in {"exec", "deliver"} \cup Asking, client'.outcome = client.outcome,
         ReqInv(req', had), Stage(job, client', req', trail, had)
  PROVE  Inv'
<1>1. WorldInv' /\ TrailInv' /\ job' = job /\ trail' = trail /\ had' = had
  BY AsideStays DEF Inv
<1>2. ReqInv(req', had') /\ Stage(job', client', req', trail', had')
  BY <1>1
<1>3. /\ RunnerType(runner) /\ runner.child = None
      /\ runner.shown = <<>> /\ runner.out = <<>> /\ runner.file = <<>>
  BY DEF Inv, Output, Asking
<1>4. Output(job', client', runner')
  BY <1>3 DEF Output, Asking
<1>5. client'.outcome = None
  BY DEF Inv, Stage, Asking
<1>6. client'.outcome \notin {"delivered", "names", "control-name"}
  BY <1>5, OtherOutcomes
<1>7. Reached(runner') = {}
  BY <1>3, NoPaths DEF Reached
<1>8. Result(job', client', runner', had')
  BY <1>3, <1>6, <1>7 DEF Result
<1>9. Quiet(job', client', req', trail')
  BY <1>6 DEF Quiet
<1>. QED BY <1>1, <1>2, <1>4, <1>8, <1>9 DEF Inv

LEMMA FetchKeeps ==
  ASSUME Inv, Aside, client.at \in {"start", "list"}, NEW paths \in Seq(AllPaths), paths # <<>>,
         req.kind = "none" \/ req.reply # NoReply, Fetch(paths)
  PROVE  Inv'
<1>1. trail = <<>> /\ client.at # "done" /\ ClientType(client) /\ client.got = <<>>
      /\ client.outcome = None
  BY DEF Inv, Stage
<1>2. CASE NamesProblem(paths) # Fine
  <2>1. NamesProblem(paths) \in {"names", "control-name"}
    BY <1>2 DEF NamesProblem
  <2>2. Exit(NamesProblem(paths)) /\ req' = req
    BY <1>2 DEF Fetch
  <2>3. NamesProblem(paths) \in Outcomes /\ NamesProblem(paths) # "delivered"
    BY <2>1, OtherOutcomes
  <2>. QED BY <1>1, <2>2, <2>3, ExitEnds
<1>3. CASE NamesProblem(paths) = Fine
  <2>1. Send("export", paths) /\ runner' = runner
        /\ client' = [client EXCEPT !.at = "export", !.want = paths]
    BY <1>3 DEF Fetch
  <2>2. ReqInv(req', had) /\ req'.kind = "export" /\ req'.paths = paths
    BY <2>1, SendFacts
  <2>3. /\ ClientType(client') /\ client'.at = "export" /\ client'.want = paths
        /\ client'.got = <<>> /\ client'.outcome = None
    BY <1>1, <2>1 DEF ClientType, Ats
  <2>4. NamesOk(job, paths)
    BY <1>3, NamesFine
  <2>5. Stage(job, client', req', trail, had)
    BY <2>2, <2>3, <2>4 DEF Stage, Late, Handing
  <2>6. client.at \in {"start"} \cup Asking /\ client'.at \in {"exec", "deliver"} \cup Asking
    BY <2>3 DEF Asking
  <2>. QED BY <1>1, <2>1, <2>2, <2>3, <2>5, <2>6, GoesOn
<1>. QED BY <1>2, <1>3

LEMMA BeginKeeps == ASSUME Inv, Begin PROVE Inv'
<1>1. /\ client.at = "start" /\ Aside /\ client.outcome = None /\ ClientType(client)
      /\ client.got = <<>> /\ client.want = <<>> /\ req = NoRequest /\ trail = <<>>
  BY DEF Begin, Aside, Inv, Stage
<1>2. /\ job.prefix \in BOOLEAN
      /\ ~job.prefix => job.paths \in Seq(AllPaths) \ {<<>>}
  <2>. DEFINE j == [job |-> job, site |-> site]
  <2>1. j \in Jobs /\ j.job = job
    BY DEF Inv, WorldInv
  <2>. HIDE DEF j
  <2>. QED BY <2>1, JobsAssumption
<1>3. req.kind = "none"
  BY <1>1 DEF NoRequest
<1>. DEFINE problem == IF job.tool = "run" THEN RunProblem ELSE CiProblem
<1>4. /\ problem # Fine => Exit(problem) /\ req' = req
      /\ problem = Fine /\ job.prefix =>
           /\ Send("list", <<>>) /\ client' = [client EXCEPT !.at = "list"] /\ runner' = runner
      /\ problem = Fine /\ ~job.prefix => Fetch(job.paths)
  <2>. DEFINE bad == problem # Fine
  <2>1. (CASE bad -> Exit(problem) /\ UNCHANGED req
          [] ~bad /\ job.prefix -> /\ Send("list", <<>>)
                                   /\ client' = [client EXCEPT !.at = "list"]
                                   /\ UNCHANGED runner
          [] ~bad /\ ~job.prefix -> Fetch(job.paths))
    BY DEF Begin
  <2>. HIDE DEF bad
  <2>2. /\ bad => Exit(problem) /\ UNCHANGED req
        /\ ~bad /\ job.prefix => /\ Send("list", <<>>)
                                 /\ client' = [client EXCEPT !.at = "list"]
                                 /\ UNCHANGED runner
        /\ ~bad /\ ~job.prefix => Fetch(job.paths)
    BY <2>1, <1>2
  <2>. QED BY <2>2 DEF bad
<1>5. problem # Fine => problem \in Plain
  BY ProblemOutcomes
<1>. HIDE DEF problem
<1>6. CASE problem # Fine
  <2>1. problem \in Outcomes /\ problem \notin {"delivered", "names", "control-name"}
    BY <1>5, <1>6 DEF Plain
  <2>. QED BY <1>1, <1>4, <1>6, <2>1, ExitEnds
<1>7. CASE problem = Fine /\ job.prefix
  <2>1. Send("list", <<>>) /\ client' = [client EXCEPT !.at = "list"] /\ runner' = runner
    BY <1>4, <1>7
  <2>2. ReqInv(req', had) /\ req'.kind = "list"
    <3>1. <<>> \in Seq(AllPaths)
      OBVIOUS
    <3>. QED BY <2>1, <3>1, SendFacts
  <2>3. /\ ClientType(client') /\ client'.at = "list" /\ client'.want = <<>>
        /\ client'.got = <<>> /\ client'.outcome = None
    BY <1>1, <2>1 DEF ClientType, Ats
  <2>4. Stage(job, client', req', trail, had)
    BY <1>1, <2>2, <2>3 DEF Stage, Late, Handing
  <2>5. client'.at \in {"exec", "deliver"} \cup Asking
    BY <2>3 DEF Asking
  <2>. QED BY <1>1, <2>1, <2>2, <2>3, <2>4, <2>5, GoesOn
<1>8. CASE problem = Fine /\ ~job.prefix
  BY <1>1, <1>2, <1>3, <1>4, <1>8, FetchKeeps
<1>. QED BY <1>2, <1>6, <1>7, <1>8

LEMMA AssembleKeeps ==
  ASSUME Inv, Aside, client.at \in {"export", "get"}, NEW secrets \in Seq(Secrets),
         Whole(secrets, client.want, had), Assemble(secrets), req' = req
  PROVE  Inv'
<1>1. /\ client.at # "done" /\ ClientType(client) /\ client.outcome = None
      /\ client.want \in Seq(AllPaths) /\ client.want # <<>> /\ NamesOk(job, client.want)
      /\ ReqInv(req, had)
  BY DEF Inv, Stage, ClientType
<1>2. job.tool \in {"run", "ci"}
  <2>. DEFINE j == [job |-> job, site |-> site]
  <2>1. j \in Jobs /\ j.job = job
    BY DEF Inv, WorldInv
  <2>. HIDE DEF j
  <2>. QED BY <2>1, JobsAssumption
<1>3. [i \in DOMAIN secrets |-> secrets[i].path] = client.want
  BY <1>1, WholeNames
<1>. DEFINE w == client.want
            refused == job.tool = "run" /\ (~Nameable(w) \/ Controls(w))
<1>4. IF refused THEN Exit(IF Nameable(w) THEN "control-name" ELSE "names")
      ELSE /\ client' = [client EXCEPT !.got = secrets,
                           !.at = IF job.tool = "run" THEN "exec" ELSE "deliver"]
           /\ UNCHANGED runner
  BY <1>3 DEF Assemble
<1>5. CASE refused
  <2>1. Nameable(w)
    BY <1>1, <1>5 DEF NamesOk
  <2>2. Exit("control-name") /\ "control-name" \in Outcomes /\ job.tool # "ci"
    BY <1>4, <1>5, <2>1, OtherOutcomes
  <2>. QED BY <1>1, <2>2, ExitEnds
<1>6. CASE ~refused
  <2>. DEFINE at == IF job.tool = "run" THEN "exec" ELSE "deliver"
  <2>1. client' = [client EXCEPT !.got = secrets, !.at = at] /\ runner' = runner
    BY <1>4, <1>6
  <2>2. at \in {"exec", "deliver"} /\ (at = "exec" <=> job.tool = "run")
    OBVIOUS
  <2>. HIDE DEF at
  <2>3. /\ ClientType(client') /\ client'.at = at /\ client'.want = client.want
        /\ client'.got = secrets /\ client'.outcome = None
    BY <1>1, <2>1, <2>2 DEF ClientType, Ats
  <2>4. at = "exec" => Nameable(w) /\ ~Controls(w)
    BY <1>6, <2>2
  <2>5. at = "deliver" => job.tool = "ci"
    BY <1>2, <2>2
  <2>6. Stage(job, client', req', trail, had)
    BY <1>1, <2>2, <2>3, <2>4, <2>5 DEF Stage, Late, Handing
  <2>7. client.at \in {"start"} \cup Asking /\ client'.at \in {"exec", "deliver"} \cup Asking
    BY <2>2, <2>3 DEF Asking
  <2>8. ReqInv(req', had)
    BY <1>1
  <2>. QED BY <1>1, <2>1, <2>3, <2>6, <2>7, <2>8, GoesOn
<1>. QED BY <1>5, <1>6

LEMMA TakeListingKeeps == ASSUME Inv, TakeListing PROVE Inv'
<1>1. /\ client.at = "list" /\ req.kind = "list" /\ req.reply # NoReply /\ Aside
      /\ req.reply.body \in Seq(AllPaths)
  BY DEF TakeListing, Answered, Aside, Inv, ReqInv
<1>. DEFINE s == req.reply.status
            b == req.reply.body
<1>2. /\ s # 200 => Exit(StatusError(s)) /\ req' = req
      /\ s = 200 /\ b = <<>> => Exit("nothing-under-prefix") /\ req' = req
      /\ s = 200 /\ b # <<>> => Fetch(b)
  <2>. DEFINE A == Exit(StatusError(s)) /\ UNCHANGED req
              B == Exit("nothing-under-prefix") /\ UNCHANGED req
              C == Fetch(b)
  <2>1. (CASE s # 200 -> A [] s = 200 /\ b = <<>> -> B [] OTHER -> C)
    BY DEF TakeListing
  <2>. HIDE DEF A, B, C
  <2>2. (s # 200 => A) /\ (s = 200 /\ b = <<>> => B) /\ (s = 200 /\ b # <<>> => C)
    BY <2>1
  <2>. QED BY <2>2 DEF A, B, C
<1>3. CASE s # 200
  <2>1. StatusError(s) \in Outcomes \ {"delivered", "names", "control-name"}
    BY StatusOutcomes DEF Plain
  <2>. QED BY <1>1, <1>2, <1>3, <2>1, ExitEnds
<1>4. CASE s = 200 /\ b = <<>>
  <2>1. "nothing-under-prefix" \in Outcomes \ {"delivered", "names", "control-name"}
    BY OtherOutcomes DEF Plain
  <2>. QED BY <1>1, <1>2, <1>4, <2>1, ExitEnds
<1>5. CASE s = 200 /\ b # <<>>
  BY <1>1, <1>2, <1>5, FetchKeeps
<1>. QED BY <1>3, <1>4, <1>5

\* The next path is asked for, with what came for those before it.
LEMMA NextGet ==
  ASSUME Inv, Aside, client.at \in {"export", "get"}, NEW secrets \in Seq(Secrets),
         PartOf(secrets, client.want, had), Len(secrets) < Len(client.want),
         Send("get", SubSeq(client.want, Len(secrets) + 1, Len(secrets) + 1)),
         ClientType(client'), client'.at = "get", client'.want = client.want,
         client'.got = secrets, client'.outcome = client.outcome, runner' = runner
  PROVE  Inv'
<1>1. /\ client.at # "done" /\ ClientType(client) /\ client.outcome = None
      /\ client.want \in Seq(AllPaths) /\ client.want # <<>> /\ NamesOk(job, client.want)
  BY DEF Inv, Stage, ClientType
<1>. DEFINE n == Len(secrets) + 1
            w == client.want
<1>2. n \in 1..Len(w)
  BY <1>1
<1>3. SubSeq(w, n, n) = <<w[n]>> /\ <<w[n]>> \in Seq(AllPaths) /\ Len(<<w[n]>>) = 1
  BY <1>1, <1>2, OneOf
<1>4. ReqInv(req', had) /\ req'.kind = "get" /\ req'.paths = <<w[n]>>
  BY <1>3, SendFacts
<1>5. /\ ClientType(client') /\ client'.at = "get" /\ client'.want = w
      /\ client'.got = secrets /\ client'.outcome = None
  BY <1>1
<1>6. Stage(job, client', req', trail, had)
  BY <1>1, <1>4, <1>5 DEF Stage, Late, Handing
<1>7. client.at \in {"start"} \cup Asking /\ client'.at \in {"exec", "deliver"} \cup Asking
  BY <1>5 DEF Asking
<1>. QED BY <1>1, <1>4, <1>5, <1>6, <1>7, GoesOn

LEMMA TakeExportKeeps == ASSUME Inv, TakeExport PROVE Inv'
<1>1. /\ client.at = "export" /\ req.kind = "export" /\ req.reply # NoReply /\ Aside
      /\ req.paths = client.want /\ client.want \in Seq(AllPaths) /\ client.want # <<>>
      /\ req.reply.body \in Seq(Secrets) /\ client.got = <<>> /\ ClientType(client)
      /\ req.reply.status = 200 => Whole(req.reply.body, client.want, had)
  BY DEF TakeExport, Answered, Aside, Inv, ReqInv, Stage, ClientType
<1>. DEFINE s == req.reply.status
            G == /\ Send("get", SubSeq(client.want, 1, 1))
                 /\ client' = [client EXCEPT !.at = "get"]
                 /\ UNCHANGED runner
<1>2. /\ s = 200 => Assemble(req.reply.body) /\ req' = req
      /\ s = 404 => G
      /\ s # 200 /\ s # 404 => Exit(StatusError(s)) /\ req' = req
  <2>. DEFINE A == Assemble(req.reply.body) /\ UNCHANGED req
              C == Exit(StatusError(s)) /\ UNCHANGED req
  <2>1. (CASE s = 200 -> A [] s = 404 -> G [] OTHER -> C)
    BY DEF TakeExport
  <2>. HIDE DEF A, G, C
  <2>2. (s = 200 => A) /\ (s = 404 => G) /\ (s # 200 /\ s # 404 => C)
    BY <2>1
  <2>. QED BY <2>2 DEF A, C
<1>3. CASE s = 200
  BY <1>1, <1>2, <1>3, AssembleKeeps
<1>4. CASE s = 404
  <2>1. /\ <<>> \in Seq(Secrets) /\ Len(<<>>) = 0 /\ Len(client.want) > 0
        /\ PartOf(<<>>, client.want, had)
    BY <1>1 DEF PartOf
  <2>2. Send("get", SubSeq(client.want, Len(<<>>) + 1, Len(<<>>) + 1)) /\ runner' = runner
    BY <1>2, <1>4, <2>1
  <2>3. /\ ClientType(client') /\ client'.at = "get" /\ client'.want = client.want
        /\ client'.got = <<>> /\ client'.outcome = client.outcome
    BY <1>1, <1>2, <1>4 DEF ClientType, Ats
  <2>. QED BY <1>1, <2>1, <2>2, <2>3, NextGet
<1>5. CASE s # 200 /\ s # 404
  <2>1. StatusError(s) \in Outcomes \ {"delivered", "names", "control-name"}
    BY StatusOutcomes DEF Plain
  <2>. QED BY <1>1, <1>2, <1>5, <2>1, ExitEnds
<1>. QED BY <1>3, <1>4, <1>5

LEMMA TakeGetKeeps == ASSUME Inv, TakeGet PROVE Inv'
<1>. DEFINE w == client.want
            n == Len(client.got) + 1
            got == client.got \o req.reply.body
<1>1. /\ client.at = "get" /\ req.kind = "get" /\ req.reply # NoReply /\ Aside
      /\ w \in Seq(AllPaths) /\ w # <<>> /\ client.got \in Seq(Secrets) /\ ClientType(client)
      /\ req.reply.body \in Seq(Secrets)
  BY DEF TakeGet, Answered, Aside, Inv, ReqInv, Stage, ClientType
<1>2. /\ PartOf(client.got, w, had) /\ Len(client.got) < Len(w)
      /\ req.paths = <<w[n]>>
      /\ req.reply.status = 200 => Whole(req.reply.body, <<w[n]>>, had)
  BY <1>1 DEF Inv, Stage, ReqInv
<1>3. CASE req.reply.status = 200
  <2>1. Continue(got, n)
    BY <1>3 DEF TakeGet
  <2>2. /\ Len(req.reply.body) = 1 /\ req.reply.body[1].path = w[n]
        /\ req.reply.body[1].value \in had[w[n]]
    <3>1. /\ Len(req.reply.body) = Len(<<w[n]>>)
          /\ \A i \in 1..Len(req.reply.body) : /\ req.reply.body[i].path = <<w[n]>>[i]
                                               /\ req.reply.body[i].value \in had[<<w[n]>>[i]]
      BY <1>2, <1>3 DEF Whole, PartOf
    <3>2. Len(<<w[n]>>) = 1 /\ <<w[n]>>[1] = w[n] /\ 1 \in 1..1
      OBVIOUS
    <3>. QED BY <3>1, <3>2
  <2>3. /\ got \in Seq(Secrets) /\ Len(got) = n
        /\ \A i \in 1..Len(client.got) : got[i] = client.got[i]
        /\ got[n] = req.reply.body[1]
    BY <1>1, <2>2, OneMore
  <2>. HIDE DEF got
  <2>4. PartOf(got, w, had)
    <3>1. n <= Len(w)
      BY <1>1, <1>2
    <3>2. ASSUME NEW i \in 1..Len(got) PROVE got[i].path = w[i] /\ got[i].value \in had[w[i]]
      <4>1. CASE i = n
        BY <4>1, <2>2, <2>3
      <4>2. CASE i # n
        <5>1. i \in 1..Len(client.got)
          BY <4>2, <2>3, <1>1
        <5>. QED BY <5>1, <2>3, <1>2 DEF PartOf
      <4>. QED BY <4>1, <4>2
    <3>. QED BY <2>3, <3>1, <3>2 DEF PartOf
  <2>5. CASE n = Len(w)
    <3>1. Assemble(got) /\ req' = req
      BY <2>1, <2>5 DEF Continue
    <3>2. Whole(got, w, had)
      BY <2>3, <2>4, <2>5 DEF Whole
    <3>. QED BY <1>1, <2>3, <3>1, <3>2, AssembleKeeps
  <2>6. CASE n # Len(w)
    <3>1. Send("get", SubSeq(w, n + 1, n + 1)) /\ runner' = runner
          /\ client' = [client EXCEPT !.got = got]
      BY <2>1, <2>6 DEF Continue
    <3>2. /\ ClientType(client') /\ client'.at = "get" /\ client'.want = w
          /\ client'.got = got /\ client'.outcome = client.outcome
      BY <1>1, <2>3, <3>1 DEF ClientType, Ats
    <3>3. Len(got) < Len(w)
      BY <1>1, <1>2, <2>3, <2>6
    <3>. QED BY <1>1, <2>3, <2>4, <3>1, <3>2, <3>3, NextGet
  <2>. QED BY <2>5, <2>6
<1>4. CASE req.reply.status # 200
  <2>1. StatusError(req.reply.status) \in Outcomes \ {"delivered", "names", "control-name"}
    BY StatusOutcomes DEF Plain
  <2>2. Exit(StatusError(req.reply.status)) /\ req' = req
    BY <1>4 DEF TakeGet
  <2>. QED BY <1>1, <2>1, <2>2, ExitEnds
<1>. QED BY <1>3, <1>4

LEMMA GiveUpKeeps == ASSUME Inv, GiveUp PROVE Inv'
<1>1. /\ client.at # "done" /\ Aside /\ req' = req /\ Exit("transport")
  BY DEF GiveUp, Aside
<1>2. "transport" \in Outcomes \ {"delivered", "names", "control-name"}
  BY OtherOutcomes DEF Plain
<1>. QED BY <1>1, <1>2, ExitEnds

LEMMA FinishKeeps == ASSUME Inv, Finish PROVE Inv'
<1>1. /\ client.at = "written" /\ Aside /\ req' = req /\ Exit("delivered")
  BY DEF Finish, Aside
<1>2. "delivered" \in Outcomes
  BY OtherOutcomes
<1>. QED BY <1>1, <1>2, ExitEnds

LEMMA RenderFailsKeeps == ASSUME Inv, RenderFails PROVE Inv'
<1>1. /\ client.at = "deliver" /\ Aside /\ req' = req /\ Exit("render")
  BY DEF RenderFails, Aside
<1>2. "render" \in Outcomes \ {"delivered", "names", "control-name"}
  BY OtherOutcomes DEF Plain
<1>. QED BY <1>1, <1>2, ExitEnds

\* What was not flushed is lost: nothing, or masks, or values after their masks.
LEMMA KillKeeps == ASSUME Inv, Kill PROVE Inv'
<1>1. /\ client.at # "done" /\ Aside /\ req' = req
      /\ client' = [client EXCEPT !.at = "done", !.outcome = "killed"]
      /\ runner' = [runner EXCEPT !.out = <<>>]
  BY DEF Kill, Aside
<1>2. "killed" \in Outcomes \ {"delivered", "names", "control-name"}
  BY OtherOutcomes DEF Plain
<1>3. /\ RunnerType(runner) /\ runner.child = None /\ Output(job, client, runner)
      /\ Result(job, client, runner, had)
  BY <1>1 DEF Inv, Output
<1>4. /\ RunnerType(runner') /\ runner'.child = None
      /\ runner'.shown = runner.shown /\ runner'.file = runner.file
  BY <1>1, <1>3 DEF RunnerType
<1>5. Reached(runner') = Reached(runner)
  BY <1>4 DEF Reached
<1>6. Reached(runner') # {} => client.at \in Handing
  <2>1. client.at \in {"start", "exec", "deliver"} \cup Asking => Reached(runner) = {}
    BY <1>3, NoPaths DEF Output, Reached
  <2>2. client.at \in Ats
    BY DEF Inv, Stage, ClientType
  <2>. QED BY <1>1, <1>5, <2>1, <2>2 DEF Ats, Asking, Handing
<1>7. Reached(runner') # {} /\ job.format = "actions-env" => MasksLead(runner', client)
  BY <1>3, <1>4, <1>5 DEF Result, MasksLead
<1>8. Reached(runner') \subseteq PathsOf(client.got)
  BY <1>3, <1>5 DEF Result
<1>. QED BY <1>1, <1>2, <1>4, <1>6, <1>7, <1>8, Ends

\* ciphr-run becomes the command, or cannot.
LEMMA ExecKeeps == ASSUME Inv, Exec PROVE Inv'
<1>. DEFINE o == CASE job.program = "missing"  -> "exec-127"
                   [] job.program = "unusable" -> "exec-126"
                   [] OTHER                    -> "started"
<1>1. /\ client.at = "exec" /\ Aside /\ req' = req
      /\ client' = [client EXCEPT !.at = "done", !.outcome = o]
      /\ runner' = IF job.program = "there" THEN [runner EXCEPT !.child = Environment(client.got)]
                                            ELSE runner
  BY DEF Exec, Aside
<1>2. o \in Outcomes /\ o \notin {"delivered", "names", "control-name"}
  <2>1. {"exec-127", "exec-126", "started"} \subseteq Outcomes
    BY OtherOutcomes DEF Plain
  <2>2. o \in {"exec-127", "exec-126", "started"}
    OBVIOUS
  <2>. HIDE DEF o
  <2>. QED BY <2>1, <2>2
<1>. HIDE DEF o
<1>3. /\ RunnerType(runner) /\ runner.child = None
      /\ runner.shown = <<>> /\ runner.out = <<>> /\ runner.file = <<>>
  BY <1>1 DEF Inv, Output
<1>4. CASE job.program # "there"
  <2>1. runner' = runner /\ Reached(runner') = {}
    BY <1>1, <1>3, <1>4, NoPaths DEF Reached
  <2>. QED BY <1>1, <1>2, <1>3, <2>1, Ends
<1>5. CASE job.program = "there"
  <2>1. WorldInv' /\ TrailInv' /\ job' = job /\ trail' = trail /\ had' = had
    BY <1>1, AsideStays DEF Inv
  <2>2. ReqInv(req', had')
    BY <1>1, <2>1 DEF Inv
  <2>3. /\ DOMAIN runner' = {"shown", "out", "file", "child"}
        /\ runner'.child = Environment(client.got)
        /\ runner'.shown = <<>> /\ runner'.out = <<>> /\ runner'.file = <<>>
    BY <1>1, <1>3, <1>5 DEF RunnerType
  <2>4. RunnerType(runner') /\ Reached(runner') = {}
    BY <1>3, <2>3, NoPaths DEF RunnerType, Reached
  <2>5. /\ ClientType(client') /\ client'.at = "done" /\ client'.outcome = o
        /\ client'.got = client.got /\ client'.want = client.want
    BY <1>1, <1>2 DEF Inv, Stage, ClientType, Ats
  <2>6. Stage(job', client', req', trail', had')
    BY <2>5 DEF Stage, Handing, Late
  <2>7. Output(job', client', runner')
    BY <2>4, <2>5 DEF Output, Asking
  <2>8. Whole(client.got, client.want, had) /\ Nameable(client.want) /\ ~Controls(client.want)
    BY <1>1 DEF Inv, Stage, Late
  <2>9. Result(job', client', runner', had')
    BY <1>2, <2>1, <2>3, <2>4, <2>5, <2>8 DEF Result
  <2>10. Quiet(job', client', req', trail')
    BY <1>2, <2>5 DEF Quiet
  <2>. QED BY <2>1, <2>2, <2>6, <2>7, <2>9, <2>10 DEF Inv
<1>. QED BY <1>4, <1>5

\* ciphr-ci goes on to the next step of deliver.
LEMMA HandsOn ==
  ASSUME Inv, Aside, req' = req, client.at \in {"deliver", "masked", "flushed"},
         NEW at \in {"masked", "flushed", "written"}, Goes(at), RunnerType(runner'),
         runner'.child = None, Output(job, client', runner'),
         Reached(runner') \subseteq PathsOf(client.got),
         Reached(runner') # {} /\ job.format = "actions-env" => MasksLead(runner', client)
  PROVE  Inv'
<1>1. WorldInv' /\ TrailInv' /\ job' = job /\ trail' = trail /\ had' = had
  BY AsideStays DEF Inv
<1>2. ReqInv(req', had') /\ Output(job', client', runner')
  BY <1>1 DEF Inv
<1>3. /\ ClientType(client') /\ client'.at = at /\ client'.outcome = client.outcome
      /\ client'.got = client.got /\ client'.want = client.want /\ client.outcome = None
  BY DEF Inv, Stage, ClientType, Ats, Goes
<1>4. /\ Whole(client.got, client.want, had) /\ NamesOk(job, client.want) /\ client.want # <<>>
      /\ job.tool = "ci"
  BY DEF Inv, Stage, Late, Handing
<1>5. Stage(job', client', req', trail', had')
  BY <1>1, <1>3, <1>4 DEF Stage, Late, Handing
<1>6. None \notin {"delivered", "names", "control-name"}
  BY OtherOutcomes
<1>7. Result(job', client', runner', had')
  BY <1>1, <1>3, <1>4, <1>6 DEF Result, MasksLead
<1>8. Quiet(job', client', req', trail')
  BY <1>3, <1>6 DEF Quiet
<1>. QED BY <1>1, <1>2, <1>5, <1>7, <1>8 DEF Inv

LEMMA WriteOutKeeps == ASSUME Inv, WriteOut PROVE Inv'
<1>. DEFINE masks == MaskLines(client.got)
            lines == AssignLines(job, client.got)
            all == IF job.format = "actions-env" THEN masks ELSE lines
            at == IF job.format = "actions-env" THEN "masked" ELSE "written"
<1>1. /\ client.at = "deliver" /\ Aside /\ req' = req
      /\ \/ runner' = [runner EXCEPT !.out = all] /\ Goes(at)
         \/ Refuses("shown", all, "output")
  BY DEF WriteOut, Aside, Masks, Assignments, MaskLines, AssignLines
<1>2. /\ RunnerType(runner) /\ runner.child = None
      /\ runner.shown = <<>> /\ runner.out = <<>> /\ runner.file = <<>>
  BY <1>1 DEF Inv, Output
<1>3. client.got \in Seq(Secrets) /\ ClientType(client)
  BY DEF Inv, Stage, ClientType
<1>4. masks \in Seq(Lines) /\ ValuePaths(masks) = {}
  BY <1>3, MaskFacts
<1>5. lines \in Seq(Lines) /\ ValuePaths(lines) = PathsOf(client.got)
  BY <1>3, AssignFacts
<1>6. /\ all \in Seq(Lines) /\ ValuePaths(all) \subseteq PathsOf(client.got)
      /\ job.format = "actions-env" => all = masks /\ ValuePaths(all) = {} /\ at = "masked"
      /\ job.format # "actions-env" => all = lines /\ at = "written"
      /\ at \in {"masked", "written"}
  BY <1>4, <1>5
<1>. HIDE DEF masks, lines, all, at
<1>7. CASE Refuses("shown", all, "output")
  <2>1. "output" \in Outcomes \ {"delivered", "names", "control-name"}
    BY OtherOutcomes DEF Plain
  <2>. QED BY <1>1, <1>6, <1>7, <2>1, RefusesEnds
<1>8. CASE runner' = [runner EXCEPT !.out = all] /\ Goes(at)
  <2>1. /\ DOMAIN runner' = {"shown", "out", "file", "child"} /\ runner'.child = None
        /\ runner'.shown = <<>> /\ runner'.out = all /\ runner'.file = <<>>
    BY <1>2, <1>8 DEF RunnerType
  <2>2. RunnerType(runner') /\ Reached(runner') = {}
    BY <1>2, <1>6, <2>1, NoPaths DEF RunnerType, Reached
  <2>3. client'.at = at /\ client'.got = client.got
    BY <1>3, <1>8 DEF Goes, ClientType
  <2>4. Output(job, client', runner')
    BY <1>6, <2>1, <2>2, <2>3 DEF Output, Asking, masks, lines
  <2>. QED BY <1>1, <1>6, <1>8, <2>1, <2>2, <2>4, HandsOn
<1>. QED BY <1>1, <1>7, <1>8

LEMMA FlushKeeps == ASSUME Inv, Flush PROVE Inv'
<1>. DEFINE masks == MaskLines(client.got)
<1>1. /\ client.at = "masked" /\ Aside /\ req' = req
      /\ \/ /\ runner' = [runner EXCEPT !.shown = @ \o runner.out, !.out = <<>>]
            /\ Goes("flushed")
         \/ Refuses("shown", runner.out, "output")
  BY DEF Flush, Aside
<1>2. /\ RunnerType(runner) /\ runner.child = None /\ job.format = "actions-env"
      /\ runner.shown = <<>> /\ runner.out = masks /\ runner.file = <<>>
  BY <1>1 DEF Inv, Output
<1>3. client.got \in Seq(Secrets) /\ ClientType(client)
  BY DEF Inv, Stage, ClientType
<1>4. masks \in Seq(Lines) /\ ValuePaths(masks) = {}
  BY <1>3, MaskFacts
<1>. HIDE DEF masks
<1>5. CASE Refuses("shown", runner.out, "output")
  <2>1. "output" \in Outcomes \ {"delivered", "names", "control-name"}
    BY OtherOutcomes DEF Plain
  <2>. QED BY <1>1, <1>2, <1>4, <1>5, <2>1, RefusesEnds
<1>6. CASE runner' = [runner EXCEPT !.shown = @ \o runner.out, !.out = <<>>] /\ Goes("flushed")
  <2>1. /\ DOMAIN runner' = {"shown", "out", "file", "child"} /\ runner'.child = None
        /\ runner'.shown = <<>> \o masks /\ runner'.out = <<>> /\ runner'.file = <<>>
    BY <1>2, <1>6 DEF RunnerType
  <2>2. runner'.shown = masks
    BY <1>4, <2>1
  <2>3. RunnerType(runner') /\ Reached(runner') = {}
    BY <1>2, <1>4, <2>1, <2>2, NoPaths DEF RunnerType, Reached
  <2>4. client'.at = "flushed" /\ client'.got = client.got
    BY <1>3, <1>6 DEF Goes, ClientType
  <2>5. Output(job, client', runner')
    BY <1>2, <2>1, <2>2, <2>3, <2>4 DEF Output, Asking, masks
  <2>. QED BY <1>1, <1>6, <2>1, <2>3, <2>5, HandsOn
<1>. QED BY <1>1, <1>5, <1>6

LEMMA AssignKeeps == ASSUME Inv, Assign PROVE Inv'
<1>. DEFINE masks == MaskLines(client.got)
            lines == AssignLines(job, client.got)
            F == \/ runner' = [runner EXCEPT !.file = lines] /\ Goes("written")
                 \/ Refuses("file", lines, "environment-file")
            O == \/ runner' = [runner EXCEPT !.out = @ \o lines] /\ Goes("written")
                 \/ Refuses("shown", lines, "output")
<1>1. /\ client.at = "flushed" /\ Aside /\ req' = req
      /\ Exit("environment-file") \/ F \/ O
  <2>. DEFINE E == Exit("environment-file")
  <2>1. lines = Assignments
    BY DEF Assignments, AssignLines
  <2>2. (CASE job.github /\ site.github = "gone" -> E
           [] job.github /\ site.github = "there" -> F
           [] OTHER -> O)
    BY <2>1 DEF Assign
  <2>. HIDE DEF E, F, O
  <2>3. E \/ F \/ O
    BY <2>2
  <2>. QED BY <2>3 DEF E, Assign, Aside
<1>2. /\ RunnerType(runner) /\ runner.child = None /\ job.format = "actions-env"
      /\ runner.shown = masks /\ runner.out = <<>> /\ runner.file = <<>>
  BY <1>1 DEF Inv, Output
<1>3. client.got \in Seq(Secrets) /\ ClientType(client)
  BY DEF Inv, Stage, ClientType
<1>4. /\ masks \in Seq(Lines) /\ ValuePaths(masks) = {} /\ Len(masks) = Len(client.got)
      /\ \A i \in 1..Len(client.got) : masks[i] = Mask(client.got[i])
  BY <1>3, MaskFacts
<1>5. /\ lines \in Seq(Lines) /\ ValuePaths(lines) = PathsOf(client.got)
      /\ PathsOf(lines) = PathsOf(client.got)
  BY <1>2, <1>3, AssignFacts
<1>6. {"output", "environment-file"} \subseteq Outcomes \ {"delivered", "names", "control-name"}
  BY OtherOutcomes DEF Plain
<1>. HIDE DEF masks, lines
<1>7. CASE Exit("environment-file")
  BY <1>1, <1>6, <1>7, ExitEnds
<1>8. CASE Refuses("file", lines, "environment-file")
  BY <1>1, <1>5, <1>6, <1>8, RefusesEnds
<1>9. CASE Refuses("shown", lines, "output")
  BY <1>1, <1>5, <1>6, <1>9, RefusesEnds
<1>10. ASSUME Goes("written") PROVE client'.at = "written" /\ client'.got = client.got
  BY <1>3, <1>10 DEF Goes, ClientType
<1>11. CASE runner' = [runner EXCEPT !.file = lines] /\ Goes("written")
  <2>1. /\ DOMAIN runner' = {"shown", "out", "file", "child"} /\ runner'.child = None
        /\ runner'.shown = masks /\ runner'.out = <<>> /\ runner'.file = lines
    BY <1>2, <1>11 DEF RunnerType
  <2>2. RunnerType(runner') /\ Reached(runner') = PathsOf(client.got)
    BY <1>4, <1>5, <2>1 DEF RunnerType, Reached
  <2>3. MasksLead(runner', client)
    BY <1>4, <2>1 DEF MasksLead
  <2>4. Output(job, client', runner')
    BY <1>2, <1>10, <1>11, <2>1, <2>2 DEF Output, Asking, masks, lines
  <2>. QED BY <1>1, <1>11, <2>1, <2>2, <2>3, <2>4, HandsOn
<1>12. CASE runner' = [runner EXCEPT !.out = @ \o lines] /\ Goes("written")
  <2>1. /\ DOMAIN runner' = {"shown", "out", "file", "child"} /\ runner'.child = None
        /\ runner'.shown = masks /\ runner'.out = <<>> \o lines /\ runner'.file = <<>>
    BY <1>2, <1>12 DEF RunnerType
  <2>2. runner'.out = lines
    BY <1>5, <2>1
  <2>3. RunnerType(runner') /\ Reached(runner') = {}
    BY <1>4, <1>5, <2>1, <2>2, NoPaths DEF RunnerType, Reached
  <2>4. Output(job, client', runner')
    BY <1>2, <1>10, <1>12, <2>1, <2>2, <2>3 DEF Output, Asking, masks, lines
  <2>. QED BY <1>1, <1>12, <2>1, <2>3, <2>4, HandsOn
<1>. QED BY <1>1, <1>7, <1>8, <1>9, <1>11, <1>12

-----------------------------------------------------------------------------
(* The steps of the server.                                                *)

\* The server goes on with a request that is not answered.
LEMMA Serves ==
  ASSUME Inv, WorldInv', TrailInv', UNCHANGED <<job, client, runner, had>>,
         req.kind # "none", req.reply = NoReply, ReqInv(req', had),
         req'.kind = req.kind, req'.paths = req.paths, req.kind = "list" => trail' = trail
  PROVE  Inv'
<1>1. client.at # "start"
  BY DEF Inv, Stage, NoRequest
<1>2. client.at = "list" => req.kind = "list" /\ trail' = <<>>
  BY DEF Inv, Stage
<1>3. Stage(job, client, req, trail, had)
  BY DEF Inv
<1>4. Stage(job', client', req', trail', had')
  BY <1>1, <1>2, <1>3 DEF Stage
<1>5. ReqInv(req', had') /\ Output(job', client', runner') /\ Result(job', client', runner', had')
  BY DEF Inv
<1>6. Quiet(job', client', req', trail')
  BY DEF Inv, Quiet
<1>. QED BY <1>4, <1>5, <1>6 DEF Inv

\* A refusal, which holds nothing.
LEMMA Declined ==
  ASSUME ReqInv(req, had), NEW n \in Nat \ {0, 200}, req' = [req EXCEPT !.reply = Reply(n, <<>>)]
  PROVE  ReqInv(req', had) /\ req'.kind = req.kind /\ req'.paths = req.paths
<1>1. Reply(n, <<>>).status = n /\ Reply(n, <<>>).body = <<>> /\ Reply(n, <<>>) # NoReply
      /\ Reply(n, <<>>) \in Replies
  BY DEF Reply, NoReply, Replies
<1>2. ReqType(req)
  BY DEF ReqInv
<1>3. /\ ReqType(req') /\ req'.kind = req.kind /\ req'.paths = req.paths /\ req'.done = req.done
      /\ req'.reply = Reply(n, <<>>)
  BY <1>1, <1>2 DEF ReqType
<1>4. <<>> \in Seq(AllPaths) /\ <<>> \in Seq(Secrets)
  OBVIOUS
<1>5. n # 200
  OBVIOUS
<1>6. req.kind = "export" => /\ PartOf(req'.done, req'.paths, had)
                             /\ req'.done # <<>> => Exportable(req'.paths)
  BY <1>3 DEF ReqInv
<1>7. /\ req'.kind # "export" => req'.done = <<>>
      /\ req'.kind = "get" => Len(req'.paths) = 1
      /\ req'.reply.status # 200 /\ req'.reply # NoReply /\ req'.reply.body = <<>>
  BY <1>1, <1>3, <1>5 DEF ReqInv
<1>8. ReqInv(req', had)
  BY <1>3, <1>4, <1>6, <1>7 DEF ReqInv
<1>. QED BY <1>3, <1>8

\* The variables that an answer leaves alone.
Outside == UNCHANGED <<job, site, client, runner, world>>

LEMMA OutsideStays ==
  ASSUME WorldInv, Outside
  PROVE  WorldInv' /\ UNCHANGED <<job, client, runner, had>>
<1>1. /\ UNCHANGED <<job, site, client, runner>>
      /\ UNCHANGED <<store, grants, server, had, revoked, edits>>
  BY DEF Outside, world
<1>. QED BY <1>1 DEF WorldInv

LEMMA ListingFacts ==
  ASSUME NEW S \in SUBSET AllPaths, NEW body \in Listing(S) PROVE body \in Seq(AllPaths)
<1>1. IsFiniteSet(S)
  BY DeliveryAssumption, FS_Subset
<1>2. Cardinality(S) \in Nat
  BY <1>1, FS_CardinalityType
<1>3. body \in [1..Cardinality(S) -> S]
  BY DEF Listing
<1>. QED BY <1>2, <1>3

LEMMA ServeListKeeps == ASSUME Inv, ServeList PROVE Inv'
<1>. DEFINE visible == {p \in AllPaths : store[p] # "absent" /\ p \in grants.list}
<1>1. /\ req.kind = "list" /\ req.reply = NoReply /\ Outside /\ trail' = trail /\ sent' = sent
      /\ \E body \in Listing(visible) :
           req' = [req EXCEPT !.reply = IF server.token THEN Reply(200, body)
                                                        ELSE Reply(401, <<>>)]
  BY DEF ServeList, Outside
<1>2. PICK body \in Listing(visible) :
        req' = [req EXCEPT !.reply = IF server.token THEN Reply(200, body) ELSE Reply(401, <<>>)]
  BY <1>1
<1>3. body \in Seq(AllPaths)
  BY ListingFacts
<1>. HIDE DEF visible
<1>4. WorldInv' /\ TrailInv' /\ UNCHANGED <<job, client, runner, had>>
  BY <1>1, OutsideStays DEF Inv, TrailInv
<1>5. ReqInv(req, had)
  BY DEF Inv
<1>6. CASE ~server.token
  <2>. DEFINE n == 401
  <2>1. req' = [req EXCEPT !.reply = Reply(n, <<>>)] /\ n \in Nat \ {0, 200}
    BY <1>2, <1>6
  <2>. HIDE DEF n
  <2>2. ReqInv(req', had) /\ req'.kind = req.kind /\ req'.paths = req.paths
    BY <1>5, <2>1, Declined
  <2>. QED BY <1>1, <1>4, <2>2, Serves
<1>7. CASE server.token
  <2>1. req' = [req EXCEPT !.reply = Reply(200, body)]
    BY <1>2, <1>7
  <2>2. /\ Reply(200, body).status = 200 /\ Reply(200, body).body = body
        /\ Reply(200, body) \in Replies
    BY <1>3 DEF Reply, Replies
  <2>3. ReqType(req)
    BY <1>5 DEF ReqInv
  <2>4. /\ ReqType(req') /\ req'.kind = "list" /\ req'.paths = req.paths /\ req'.done = req.done
        /\ req'.reply = Reply(200, body)
    BY <1>1, <2>1, <2>2, <2>3 DEF ReqType
  <2>5. req.done = <<>>
    BY <1>1, <1>5 DEF ReqInv
  <2>6. ReqInv(req', had)
    BY <1>3, <2>2, <2>4, <2>5 DEF ReqInv
  <2>. QED BY <1>1, <1>4, <2>4, <2>6, Serves
<1>. QED BY <1>6, <1>7

LEMMA RefuseExportKeeps == ASSUME Inv, RefuseExport PROVE Inv'
<1>. DEFINE n == CASE ~server.bulk -> 404 [] server.bulk /\ ~server.token -> 401 [] OTHER -> 400
<1>1. /\ req.kind = "export" /\ req.reply = NoReply /\ Outside /\ trail' = trail /\ sent' = sent
      /\ req' = [req EXCEPT !.reply = Reply(n, <<>>)]
  BY DEF RefuseExport, Outside
<1>2. n \in Nat \ {0, 200}
  <2>1. n \in {404, 401, 400}
    OBVIOUS
  <2>. HIDE DEF n
  <2>. QED BY <2>1
<1>. HIDE DEF n
<1>3. WorldInv' /\ TrailInv' /\ UNCHANGED <<job, client, runner, had>>
  BY <1>1, OutsideStays DEF Inv, TrailInv
<1>4. ReqInv(req', had) /\ req'.kind = req.kind /\ req'.paths = req.paths
  BY <1>1, <1>2, Declined DEF Inv
<1>. QED BY <1>1, <1>3, <1>4, Serves

Refusals == {400, 401, 403, 404, 500, 503}

LEMMA Declines ==
  ASSUME Inv, WorldInv', TrailInv', UNCHANGED <<job, client, runner, had>>,
         req.kind # "none", req.reply = NoReply, NEW n \in Refusals,
         req' = [req EXCEPT !.reply = Reply(n, <<>>)], req.kind = "list" => trail' = trail
  PROVE  Inv'
<1>1. n \in Nat \ {0, 200}
  BY DEF Refusals
<1>2. ReqInv(req', had) /\ req'.kind = req.kind /\ req'.paths = req.paths
  BY <1>1, Declined DEF Inv
<1>. QED BY <1>2, Serves

LEMMA EntryTypes ==
  ASSUME NEW p \in AllPaths, NEW s \in {200, 400, 403, 404, 500}
  PROVE  Decision(p, s) \in Entries /\ Correction(p, s) \in Entries
BY DEF Decision, Correction, Entries

LEMMA CorrectionsType ==
  ASSUME ReqType(req), NEW n \in 0..Len(req.paths), NEW s \in {200, 400, 403, 404, 500}
  PROVE  Corrections(n, s) \in Seq(Entries)
<1>1. req.paths \in Seq(AllPaths)
  BY DEF ReqType
<1>2. \A i \in 1..n : req.paths[i] \in AllPaths
  BY <1>1
<1>. DEFINE c == Corrections(n, s)
<1>3. c = [i \in 1..n |-> c[i]] /\ \A i \in 1..n : c[i] \in Entries
  BY <1>2, EntryTypes DEF Corrections
<1>. HIDE DEF c
<1>4. n \in Nat
  BY <1>1
<1>5. c \in Seq(Entries)
  BY <1>3, <1>4, FunctionSeq
<1>. QED BY <1>5 DEF c

\* What a read of a path can come to.
LEMMA ReadFacts ==
  ASSUME WorldInv, NEW p \in AllPaths
  PROVE  /\ ReadStatus(p) \in {200, 404, 500}
         /\ ReadStatus(p) = 200 => Secret(p) \in Secrets /\ Size[store[p]] \in Nat
         /\ Secret(p).path = p /\ Secret(p).value = store[p] /\ store[p] \in had[p]
<1>1. store[p] \in Values \cup {"absent", "deleted"} /\ store[p] \in had[p]
  BY DEF WorldInv
<1>2. ReadStatus(p) \in {200, 404, 500}
  BY DEF ReadStatus
<1>3. ASSUME ReadStatus(p) = 200 PROVE store[p] \in Values
  <2>1. CASE ~Stored(p)
    <3>1. store[p] # "binary"
      BY <2>1 DEF Stored
    <3>2. ReadStatus(p) = 404
      BY <2>1, <3>1 DEF ReadStatus
    <3>. QED BY <1>3, <3>2
  <2>2. CASE Stored(p)
    BY <2>2, <1>1 DEF Stored
  <2>. QED BY <2>1, <2>2
<1>4. ASSUME ReadStatus(p) = 200 PROVE Secret(p) \in Secrets /\ Size[store[p]] \in Nat
  BY <1>3, <1>4, DeliveryAssumption DEF Secret, Secrets
<1>. QED BY <1>1, <1>2, <1>4 DEF Secret

LEMMA ServeGetKeeps == ASSUME Inv, ServeGet PROVE Inv'
<1>. DEFINE p == req.paths[1]
            status == ReadStatus(p)
            read == p \in grants.read
            A == req' = [req EXCEPT !.reply = Reply(401, <<>>)] /\ UNCHANGED <<trail, sent>>
            B == /\ trail' = Append(trail, Decision(p, 403))
                 /\ req' = [req EXCEPT !.reply = Reply(403, <<>>)]
                 /\ UNCHANGED sent
            C == /\ trail' = trail \o <<Decision(p, 200), Correction(p, status)>>
                 /\ req' = [req EXCEPT !.reply = Reply(status, <<>>)]
                 /\ UNCHANGED sent
            D == /\ trail' = Append(trail, Decision(p, 200))
                 /\ req' = [req EXCEPT !.reply = Reply(200, <<Secret(p)>>)]
                 /\ sent' = [sent EXCEPT ![p] = @ + 1]
<1>1. /\ req.kind = "get" /\ req.reply = NoReply /\ Outside
      /\ (CASE ~server.token -> A [] server.token /\ ~read -> B
            [] server.token /\ read /\ status # 200 -> C [] OTHER -> D)
  BY DEF ServeGet, Outside
<1>2. A \/ B \/ (status # 200 /\ C) \/ (status = 200 /\ D)
  <2>. DEFINE ok == status = 200
  <2>1. (CASE ~server.token -> A [] server.token /\ ~read -> B
            [] server.token /\ read /\ ~ok -> C [] OTHER -> D)
    BY <1>1
  <2>. HIDE DEF A, B, C, D, ok, read
  <2>2. A \/ B \/ (~ok /\ C) \/ (ok /\ D)
    BY <2>1
  <2>. QED BY <2>2 DEF ok
<1>3. /\ ReqInv(req, had) /\ ReqType(req) /\ WorldInv /\ TrailInv
      /\ trail \in Seq(Entries) /\ sent \in [AllPaths -> Nat] /\ req.paths \in Seq(AllPaths)
      /\ Len(req.paths) = 1 /\ req.done = <<>>
  BY <1>1 DEF Inv, ReqInv, ReqType, TrailInv
<1>4. p \in AllPaths
  BY <1>3
<1>5. WorldInv' /\ UNCHANGED <<job, client, runner, had>>
  BY <1>1, <1>3, OutsideStays
<1>6. /\ status \in {200, 404, 500}
      /\ status = 200 => Secret(p) \in Secrets /\ Size[store[p]] \in Nat
      /\ Secret(p).path = p /\ Secret(p).value = store[p] /\ store[p] \in had[p]
  BY <1>3, <1>4, ReadFacts
<1>. HIDE DEF p, status
<1>7. CASE A
  <2>. DEFINE n == 401
  <2>1. n \in Refusals /\ req' = [req EXCEPT !.reply = Reply(n, <<>>)] /\ TrailInv'
    BY <1>3, <1>7 DEF Refusals, TrailInv
  <2>. HIDE DEF n
  <2>. QED BY <1>1, <1>5, <2>1, Declines
<1>8. CASE B
  <2>. DEFINE n == 403
  <2>1. n \in Refusals /\ req' = [req EXCEPT !.reply = Reply(n, <<>>)]
    BY <1>8 DEF Refusals
  <2>2. TrailInv'
    BY <1>3, <1>4, <1>8, EntryTypes DEF TrailInv
  <2>. HIDE DEF n
  <2>. QED BY <1>1, <1>5, <2>1, <2>2, Declines
<1>9. CASE status # 200 /\ C
  <2>1. status \in Refusals /\ req' = [req EXCEPT !.reply = Reply(status, <<>>)]
    BY <1>6, <1>9 DEF Refusals
  <2>2. Decision(p, 200) \in Entries /\ Correction(p, status) \in Entries
    BY <1>4, <1>6, EntryTypes
  <2>3. <<Decision(p, 200), Correction(p, status)>> \in Seq(Entries)
    BY <2>2
  <2>4. TrailInv'
    BY <1>3, <1>9, <2>3 DEF TrailInv
  <2>. QED BY <1>1, <1>5, <2>1, <2>4, Declines
<1>10. CASE status = 200 /\ D
  <2>1. TrailInv'
    BY <1>3, <1>4, <1>10, EntryTypes DEF TrailInv
  <2>. DEFINE body == <<Secret(p)>>
              n == 200
  <2>2. /\ body \in Seq(Secrets) /\ Len(body) = 1 /\ body[1] = Secret(p)
    BY <1>6, <1>10
  <2>3. Whole(body, req.paths, had)
    <3>. HIDE DEF body
    <3>. QED BY <1>3, <1>6, <2>2 DEF Whole, PartOf, p
  <2>. HIDE DEF body
  <2>4. Reply(n, body).status = n /\ Reply(n, body).body = body /\ Reply(n, body) \in Replies
    BY <2>2 DEF Reply, Replies
  <2>5. req' = [req EXCEPT !.reply = Reply(n, body)]
    BY <1>10 DEF body
  <2>. HIDE DEF n
  <2>6. /\ ReqType(req') /\ req'.kind = "get" /\ req'.paths = req.paths /\ req'.done = <<>>
        /\ req'.reply = Reply(n, body)
    BY <1>1, <1>3, <2>4, <2>5 DEF ReqType
  <2>7. ReqInv(req', had)
    BY <1>3, <2>2, <2>3, <2>4, <2>6 DEF ReqInv
  <2>. QED BY <1>1, <1>5, <2>1, <2>6, <2>7, Serves
<1>. QED BY <1>2, <1>7, <1>8, <1>9, <1>10

LEMMA ExportPathKeeps == ASSUME Inv, ExportPath PROVE Inv'
<1>. DEFINE n  == Len(req.done) + 1
            p  == req.paths[n]
            size   == IF ReadStatus(p) = 200 THEN Size[store[p]] ELSE 0
            bytes  == req.bytes + size
            status == IF bytes > MaxBytes THEN 400 ELSE ReadStatus(p)
            done   == Append(req.done, Secret(p))
            last   == n = Len(req.paths)
            read   == p \in grants.read
            A == /\ trail' = Append(trail, Decision(p, 403)) \o Corrections(n - 1, 403)
                 /\ req' = [req EXCEPT !.reply = Reply(403, <<>>)]
                 /\ UNCHANGED sent
            B == /\ trail' = Append(trail, Decision(p, 200)) \o Corrections(n, status)
                 /\ req' = [req EXCEPT !.reply = Reply(status, <<>>)]
                 /\ UNCHANGED sent
            C == /\ trail' = Append(trail, Decision(p, 200))
                 /\ req' = [req EXCEPT !.done = done, !.bytes = bytes,
                              !.reply = IF last THEN Reply(200, done) ELSE NoReply]
                 /\ sent' = IF last
                              THEN [q \in AllPaths |-> sent[q] +
                                      Cardinality({i \in 1..n : req.paths[i] = q})]
                              ELSE sent
<1>1. /\ req.kind = "export" /\ req.reply = NoReply /\ Outside
      /\ req.done = <<>> => Exportable(req.paths)
      /\ (CASE ~read -> A [] read /\ status # 200 -> B [] OTHER -> C)
  BY DEF ExportPath, Outside
<1>2. A \/ (status # 200 /\ B) \/ (status = 200 /\ C)
  <2>. DEFINE ok == status = 200
  <2>1. (CASE ~read -> A [] read /\ ~ok -> B [] OTHER -> C)
    BY <1>1
  <2>. HIDE DEF A, B, C, ok, read
  <2>2. A \/ (~ok /\ B) \/ (ok /\ C)
    BY <2>1
  <2>. QED BY <2>2 DEF ok
<1>3. /\ ReqInv(req, had) /\ ReqType(req) /\ WorldInv /\ TrailInv
      /\ trail \in Seq(Entries) /\ sent \in [AllPaths -> Nat] /\ req.paths \in Seq(AllPaths)
      /\ req.done \in Seq(Secrets) /\ req.bytes \in 0..MaxBytes
      /\ PartOf(req.done, req.paths, had) /\ Len(req.done) < Len(req.paths)
      /\ Exportable(req.paths)
  BY <1>1 DEF Inv, ReqInv, ReqType, TrailInv
<1>4. n \in 1..Len(req.paths) /\ p \in AllPaths /\ n - 1 \in 0..Len(req.paths)
      /\ n \in 0..Len(req.paths) /\ n \in Nat /\ n - 1 = Len(req.done)
  BY <1>3
<1>5. WorldInv' /\ UNCHANGED <<job, client, runner, had>>
  BY <1>1, <1>3, OutsideStays
<1>6. /\ ReadStatus(p) \in {200, 404, 500}
      /\ ReadStatus(p) = 200 => Secret(p) \in Secrets /\ Size[store[p]] \in Nat
      /\ Secret(p).path = p /\ Secret(p).value = store[p] /\ store[p] \in had[p]
  BY <1>3, <1>4, ReadFacts
<1>7. /\ status \in {200, 400, 404, 500}
      /\ status = 200 => ReadStatus(p) = 200 /\ bytes \in 0..MaxBytes
  <2>. HIDE DEF n, p
  <2>1. size \in Nat
    BY <1>6
  <2>. HIDE DEF size
  <2>2. MaxBytes \in Nat
    BY DeliveryAssumption
  <2>3. bytes \in Nat
    BY <1>3, <2>1, <2>2
  <2>. HIDE DEF bytes
  <2>. QED BY <1>6, <2>2, <2>3
<1>. HIDE DEF n, p, bytes, status
<1>8. CASE A
  <2>. DEFINE s == 403
  <2>1. s \in Refusals /\ req' = [req EXCEPT !.reply = Reply(s, <<>>)] /\ sent' = sent
        /\ s \in {200, 400, 403, 404, 500}
        /\ trail' = Append(trail, Decision(p, s)) \o Corrections(n - 1, s)
    BY <1>8 DEF Refusals
  <2>. HIDE DEF s
  <2>2. Decision(p, s) \in Entries
    BY <1>4, <2>1, EntryTypes
  <2>3. Corrections(n - 1, s) \in Seq(Entries)
    <3>. DEFINE m == n - 1
    <3>1. m \in 0..Len(req.paths)
      BY <1>4
    <3>. HIDE DEF m
    <3>2. Corrections(m, s) \in Seq(Entries)
      BY <1>3, <2>1, <3>1, CorrectionsType
    <3>. QED BY <3>2 DEF m
  <2>4. TrailInv'
    BY <1>3, <2>1, <2>2, <2>3 DEF TrailInv
  <2>. QED BY <1>1, <1>5, <2>1, <2>4, Declines
<1>9. CASE status # 200 /\ B
  <2>1. status \in Refusals /\ req' = [req EXCEPT !.reply = Reply(status, <<>>)] /\ sent' = sent
        /\ status \in {200, 400, 403, 404, 500}
        /\ trail' = Append(trail, Decision(p, 200)) \o Corrections(n, status)
    BY <1>7, <1>9 DEF Refusals
  <2>2. Decision(p, 200) \in Entries
    BY <1>4, EntryTypes
  <2>3. Corrections(n, status) \in Seq(Entries)
    <3>1. ReqType(req) /\ n \in 0..Len(req.paths)
      BY <1>3, <1>4
    <3>2. status \in {200, 400, 403, 404, 500}
      BY <2>1
    <3>. QED BY ONLY <3>1, <3>2, CorrectionsType
  <2>4. TrailInv'
    BY <1>3, <2>1, <2>2, <2>3 DEF TrailInv
  <2>. QED BY <1>1, <1>5, <2>1, <2>4, Declines
<1>10. CASE status = 200 /\ C
  <2>1. sent' \in [AllPaths -> Nat]
    <3>1. IsFiniteSet(1..n)
      BY <1>4, FS_Interval
    <3>2. \A q \in AllPaths : Cardinality({i \in 1..n : req.paths[i] = q}) \in Nat
      <4>1. ASSUME NEW q \in AllPaths PROVE Cardinality({i \in 1..n : req.paths[i] = q}) \in Nat
        <5>1. {i \in 1..n : req.paths[i] = q} \subseteq 1..n
          OBVIOUS
        <5>2. IsFiniteSet({i \in 1..n : req.paths[i] = q})
          BY <3>1, <5>1, FS_Subset
        <5>. QED BY <5>2, FS_CardinalityType
      <4>. QED BY <4>1
    <3>. DEFINE card(q) == Cardinality({i \in 1..n : req.paths[i] = q})
    <3>3. sent' = IF last THEN [q \in AllPaths |-> sent[q] + card(q)] ELSE sent
      BY <1>10
    <3>4. \A q \in AllPaths : card(q) \in Nat
      BY <3>2
    <3>. HIDE DEF card, last
    <3>. QED BY <1>3, <3>3, <3>4
  <2>2. TrailInv'
    <3>1. Decision(p, 200) \in Entries
      BY <1>4, EntryTypes
    <3>. QED BY <1>3, <1>10, <2>1, <3>1 DEF TrailInv
  <2>3. /\ done \in Seq(Secrets) /\ Len(done) = n /\ done # <<>> /\ done[n] = Secret(p)
        /\ \A i \in 1..Len(req.done) : done[i] = req.done[i]
    <3>1. Secret(p) \in Secrets /\ req.done \in Seq(Secrets) /\ n = Len(req.done) + 1
      BY <1>3, <1>6, <1>7, <1>10 DEF n
    <3>. QED BY <3>1
  <2>. HIDE DEF done
  <2>4. PartOf(done, req.paths, had)
    <3>1. ASSUME NEW i \in 1..Len(done)
          PROVE  done[i].path = req.paths[i] /\ done[i].value \in had[req.paths[i]]
      <4>1. CASE i = n
        BY <4>1, <1>6, <2>3 DEF p
      <4>2. CASE i # n
        <5>1. i \in 1..Len(req.done)
          BY <4>2, <2>3, <1>3, <1>4
        <5>. QED BY <5>1, <2>3, <1>3 DEF PartOf
      <4>. QED BY <4>1, <4>2
    <3>. QED BY <1>4, <2>3, <3>1 DEF PartOf
  <2>. DEFINE reply == IF last THEN Reply(200, done) ELSE NoReply
  <2>5. /\ reply \in Replies /\ reply.body \in Seq(Secrets)
        /\ reply.status = 200 => last /\ reply.body = done
        /\ reply = NoReply => ~last
    BY <2>3 DEF Reply, NoReply, Replies
  <2>6. req' = [req EXCEPT !.done = done, !.bytes = bytes, !.reply = reply]
    BY <1>10
  <2>. HIDE DEF reply
  <2>7. /\ ReqType(req') /\ req'.kind = "export" /\ req'.paths = req.paths /\ req'.done = done
        /\ req'.reply = reply
    <3>1. bytes \in 0..MaxBytes /\ done \in Seq(Secrets) /\ reply \in Replies
      BY <1>7, <1>10, <2>3, <2>5
    <3>. QED BY <1>1, <1>3, <2>6, <3>1 DEF ReqType
  <2>8. ~last => Len(done) < Len(req.paths)
    BY <1>3, <1>4, <2>3
  <2>9. last => Whole(done, req.paths, had)
    BY <2>3, <2>4 DEF Whole
  <2>10. ReqInv(req', had)
    BY <1>3, <2>4, <2>5, <2>7, <2>8, <2>9 DEF ReqInv
  <2>. QED BY <1>1, <1>5, <2>2, <2>7, <2>10, Serves
<1>. QED BY <1>2, <1>8, <1>9, <1>10

LEMMA AuditFailsKeeps == ASSUME Inv, AuditFails PROVE Inv'
<1>. DEFINE p == req.paths[Len(req.done) + 1]
            n == 503
<1>1. /\ req.kind # "none" /\ req.reply = NoReply
      /\ req' = [req EXCEPT !.reply = Reply(n, <<>>)] /\ n \in Refusals
      /\ \/ trail' = trail
         \/ req.kind # "list" /\ trail' = Append(trail, Decision(p, 200))
      /\ server' = [server EXCEPT !.broken = TRUE]
      /\ UNCHANGED <<job, site, client, sent, runner, store, grants, had, revoked, edits>>
  BY DEF AuditFails, Refusals
<1>. HIDE DEF n
<1>2. WorldInv'
  BY <1>1 DEF Inv, WorldInv
<1>3. TrailInv /\ ReqInv(req, had) /\ ReqType(req)
  BY DEF Inv, ReqInv
<1>4. req.kind # "list" => p \in AllPaths
  <2>1. req.paths \in Seq(AllPaths) /\ req.done \in Seq(Secrets)
        /\ req.kind \in {"none", "list", "export", "get"}
    BY <1>3 DEF ReqType
  <2>2. req.kind = "export" => Len(req.done) < Len(req.paths)
    BY <1>1, <1>3 DEF ReqInv
  <2>3. req.kind = "get" => Len(req.paths) = 1 /\ Len(req.done) = 0
    BY <1>3 DEF ReqInv
  <2>4. req.kind # "list" => Len(req.done) + 1 \in 1..Len(req.paths)
    BY <1>1, <2>1, <2>2, <2>3
  <2>. QED BY <2>1, <2>4
<1>. HIDE DEF p
<1>5. TrailInv'
  <2>1. CASE trail' = trail
    BY <1>1, <1>3, <2>1 DEF TrailInv
  <2>2. CASE req.kind # "list" /\ trail' = Append(trail, Decision(p, 200))
    <3>1. Decision(p, 200) \in Entries
      BY <1>4, <2>2, EntryTypes
    <3>. QED BY <1>1, <1>3, <2>2, <3>1 DEF TrailInv
  <2>. QED BY <1>1, <2>1, <2>2
<1>. QED BY <1>1, <1>2, <1>5, Declines

-----------------------------------------------------------------------------
(* Everyone else.                                                          *)

\* Others change the store, the policies or the process; what a path once was it
\* still has been.
LEMMA OthersKeep ==
  ASSUME Inv, WorldInv', client.at \in Asking, \A p \in AllPaths : had[p] \subseteq had'[p],
         UNCHANGED <<job, client, trail, sent, runner>>, req' = req \/ req' = NoRequest
  PROVE  Inv'
<1>1. /\ ReqInv(req, had) /\ ReqType(req) /\ Stage(job, client, req, trail, had)
      /\ client.want \in Seq(AllPaths) /\ client.got \in Seq(Secrets)
      /\ req.paths \in Seq(AllPaths) /\ req.done \in Seq(Secrets)
      /\ req.kind # "list" => req.reply.body \in Seq(Secrets)
  BY DEF Inv, ReqInv, ReqType, Stage, ClientType
<1>2. ReqInv(req, had')
  <2>1. PartOf(req.done, req.paths, had) => PartOf(req.done, req.paths, had')
    BY <1>1, PartOfGrows
  <2>2. req.kind # "list" /\ Whole(req.reply.body, req.paths, had) =>
          Whole(req.reply.body, req.paths, had')
    BY <1>1, WholeGrows
  <2>. QED BY <1>1, <2>1, <2>2 DEF ReqInv
<1>3. ReqInv(NoRequest, had') /\ NoRequest.kind = "none" /\ NoRequest.reply = NoReply
  <2>1. /\ NoRequest.kind = "none" /\ NoRequest.done = <<>> /\ NoRequest.reply = NoReply
        /\ NoReply.body = <<>> /\ NoReply \in Replies
    BY DEF NoRequest, NoReply, Reply, Replies
  <2>2. <<>> \in Seq(Secrets) /\ 0 \in 0..MaxBytes /\ <<>> \in Seq(AllPaths)
    BY DeliveryAssumption
  <2>3. ReqType(NoRequest)
    BY <2>1, <2>2 DEF NoRequest, ReqType
  <2>. QED BY <2>1, <2>2, <2>3 DEF ReqInv
<1>4. ReqInv(req', had')
  BY <1>2, <1>3
<1>5. client.outcome = None /\ client.at \notin Late \cup {"start", "done"}
  BY <1>1 DEF Stage, Asking, Late, Handing
<1>6. PartOf(client.got, client.want, had) => PartOf(client.got, client.want, had')
  BY <1>1, PartOfGrows
<1>7. Stage(job', client', req', trail', had')
  BY <1>1, <1>3, <1>5, <1>6 DEF Stage, Late, Handing
<1>8. None \notin {"delivered", "names", "control-name"}
  BY OtherOutcomes
<1>9. runner.child = None /\ Reached(runner) = {}
  BY NoPaths DEF Inv, Output, Asking, Reached
<1>10. Result(job', client', runner', had')
  BY <1>5, <1>8, <1>9 DEF Result
<1>11. Quiet(job', client', req', trail')
  BY <1>5, <1>8 DEF Quiet
<1>12. TrailInv' /\ Output(job', client', runner')
  BY DEF Inv, TrailInv
<1>. QED BY <1>4, <1>7, <1>10, <1>11, <1>12 DEF Inv

LEMMA MeanwhileFacts ==
  ASSUME Inv, Meanwhile
  PROVE  /\ client.at \in Asking /\ UNCHANGED <<job, site, client, trail, sent, runner>>
         /\ edits' \in 0..MaxEdits /\ WorldInv
BY DeliveryAssumption DEF Meanwhile, Inv, WorldInv, Asking

LEMMA PutKeeps == ASSUME Inv, Put PROVE Inv'
<1>1. /\ Meanwhile /\ UNCHANGED <<req, grants, server, revoked>>
      /\ \E p \in AllPaths, v \in Values :
           store' = [store EXCEPT ![p] = v] /\ had' = [had EXCEPT ![p] = @ \cup {v}]
  BY DEF Put
<1>2. PICK p \in AllPaths, v \in Values :
        store' = [store EXCEPT ![p] = v] /\ had' = [had EXCEPT ![p] = @ \cup {v}]
  BY <1>1
<1>3. /\ client.at \in Asking /\ UNCHANGED <<job, site, client, trail, sent, runner>>
      /\ edits' \in 0..MaxEdits /\ WorldInv
  BY <1>1, MeanwhileFacts
<1>4. WorldInv' /\ \A q \in AllPaths : had[q] \subseteq had'[q]
  BY <1>1, <1>2, <1>3 DEF WorldInv
<1>. QED BY <1>1, <1>3, <1>4, OthersKeep

LEMMA DeleteKeeps == ASSUME Inv, Delete PROVE Inv'
<1>1. /\ Meanwhile /\ UNCHANGED <<req, grants, server, revoked>>
      /\ \E p \in AllPaths :
           /\ store' = [store EXCEPT ![p] = "deleted"]
           /\ had' = [had EXCEPT ![p] = @ \cup {"deleted"}]
  BY DEF Delete
<1>2. PICK p \in AllPaths : /\ store' = [store EXCEPT ![p] = "deleted"]
                            /\ had' = [had EXCEPT ![p] = @ \cup {"deleted"}]
  BY <1>1
<1>3. /\ client.at \in Asking /\ UNCHANGED <<job, site, client, trail, sent, runner>>
      /\ edits' \in 0..MaxEdits /\ WorldInv
  BY <1>1, MeanwhileFacts
<1>4. WorldInv' /\ \A q \in AllPaths : had[q] \subseteq had'[q]
  BY <1>1, <1>2, <1>3 DEF WorldInv
<1>. QED BY <1>1, <1>3, <1>4, OthersKeep

LEMMA RevokeKeeps == ASSUME Inv, Revoke PROVE Inv'
<1>1. /\ Meanwhile /\ server' = [server EXCEPT !.token = FALSE] /\ revoked' = TRUE
      /\ UNCHANGED <<req, store, grants, had>>
  BY DEF Revoke
<1>2. /\ client.at \in Asking /\ UNCHANGED <<job, site, client, trail, sent, runner>>
      /\ edits' \in 0..MaxEdits /\ WorldInv
  BY <1>1, MeanwhileFacts
<1>3. WorldInv' /\ \A q \in AllPaths : had[q] \subseteq had'[q]
  BY <1>1, <1>2 DEF WorldInv
<1>. QED BY <1>1, <1>2, <1>3, OthersKeep

LEMMA RestartedKeeps ==
  ASSUME Inv, Meanwhile, NEW b \in BOOLEAN, Restarted(b), req' = req \/ req' = NoRequest
  PROVE  Inv'
<1>1. PICK denied \in Denials :
        /\ grants' = [grants EXCEPT !.read = AllPaths \ denied]
        /\ had' = [p \in AllPaths |-> had[p] \cup IF p \in denied THEN {"denied"} ELSE {}]
  BY DEF Restarted
<1>2. PICK bulk \in BOOLEAN : server' = [server EXCEPT !.bulk = bulk, !.broken = b]
  BY DEF Restarted
<1>3. /\ client.at \in Asking /\ UNCHANGED <<job, site, client, trail, sent, runner>>
      /\ edits' \in 0..MaxEdits /\ WorldInv /\ store' = store /\ revoked' = revoked
  BY MeanwhileFacts DEF Restarted
<1>4. grants' \in [list : SUBSET AllPaths, read : SUBSET AllPaths]
      /\ server' \in [bulk : BOOLEAN, token : BOOLEAN, broken : BOOLEAN]
  BY <1>1, <1>2, <1>3 DEF WorldInv
<1>5. /\ had' \in [AllPaths -> SUBSET (Values \cup {"absent", "deleted", "denied"})]
      /\ \A q \in AllPaths : had[q] \subseteq had'[q]
  BY <1>1, <1>3 DEF WorldInv
<1>6. WorldInv'
  BY <1>3, <1>4, <1>5 DEF WorldInv
<1>. QED BY <1>3, <1>5, <1>6, OthersKeep

LEMMA RestartKeeps == ASSUME Inv, Restart PROVE Inv'
<1>1. server.broken \in BOOLEAN
  BY DEF Inv, WorldInv
<1>. QED BY <1>1, RestartedKeeps DEF Restart

LEMMA CrashKeeps == ASSUME Inv, Crash PROVE Inv'
BY RestartedKeeps DEF Crash

-----------------------------------------------------------------------------
(* The invariant.                                                          *)

LEMMA InitInv == ASSUME Init PROVE Inv
<1>1. PICK j \in Jobs : job = j.job /\ site = j.site
  BY DEF Init
<1>2. [job |-> job, site |-> site] \in Jobs
  BY <1>1, JobsAssumption
<1>3. PICK denied \in Denials, hidden \in Hidings :
        /\ grants = [list |-> AllPaths \ hidden, read |-> AllPaths \ denied]
        /\ had = [p \in AllPaths |-> {store[p]} \cup IF p \in denied THEN {"denied"} ELSE {}]
  BY DEF Init
<1>4. PICK bulk \in BOOLEAN, token \in BOOLEAN :
        /\ server = [bulk |-> bulk, token |-> token, broken |-> FALSE]
        /\ revoked = ~token
  BY DEF Init
<1>5. store \in [AllPaths -> Values \cup {"absent", "deleted"}]
  BY DeliveryAssumption DEF Init
<1>6. WorldInv
  <2>1. grants \in [list : SUBSET AllPaths, read : SUBSET AllPaths]
    BY <1>3
  <2>2. /\ had \in [AllPaths -> SUBSET (Values \cup {"absent", "deleted", "denied"})]
        /\ \A p \in AllPaths : store[p] \in had[p]
    BY <1>3, <1>5
  <2>3. server \in [bulk : BOOLEAN, token : BOOLEAN, broken : BOOLEAN] /\ revoked \in BOOLEAN
    BY <1>4
  <2>4. edits \in 0..MaxEdits
    BY DeliveryAssumption DEF Init
  <2>. QED BY <1>2, <1>5, <2>1, <2>2, <2>3, <2>4 DEF WorldInv
<1>7. /\ trail = <<>> /\ sent = [p \in AllPaths |-> 0] /\ req = NoRequest
      /\ client = [at |-> "start", want |-> <<>>, got |-> <<>>, outcome |-> None]
      /\ runner = [shown |-> <<>>, out |-> <<>>, file |-> <<>>, child |-> None]
  BY DEF Init
<1>8. TrailInv
  BY <1>7 DEF TrailInv
<1>9. /\ client.at = "start" /\ client.want = <<>> /\ client.got = <<>>
      /\ client.outcome = None /\ ClientType(client)
  <2>1. <<>> \in Seq(AllPaths) /\ <<>> \in Seq(Secrets)
    OBVIOUS
  <2>. QED BY <1>7, <2>1 DEF ClientType, Ats
<1>10. ReqInv(req, had)
  <2>1. /\ NoRequest.kind = "none" /\ NoRequest.done = <<>> /\ NoRequest.reply = NoReply
        /\ NoReply.body = <<>> /\ NoReply \in Replies
    BY DEF NoRequest, NoReply, Reply, Replies
  <2>2. <<>> \in Seq(Secrets) /\ 0 \in 0..MaxBytes /\ <<>> \in Seq(AllPaths)
    BY DeliveryAssumption
  <2>3. ReqType(NoRequest)
    BY <2>1, <2>2 DEF NoRequest, ReqType
  <2>. QED BY <1>7, <2>1, <2>2, <2>3 DEF ReqInv
<1>11. Stage(job, client, req, trail, had)
  BY <1>7, <1>9 DEF Stage, Late, Handing
<1>12. /\ RunnerType(runner) /\ runner.child = None
       /\ runner.shown = <<>> /\ runner.out = <<>> /\ runner.file = <<>>
  BY <1>7 DEF RunnerType
<1>13. Output(job, client, runner)
  BY <1>9, <1>12 DEF Output
<1>14. None \notin {"delivered", "names", "control-name"}
  BY OtherOutcomes
<1>15. Reached(runner) = {}
  BY <1>12, NoPaths DEF Reached
<1>16. Result(job, client, runner, had) /\ Quiet(job, client, req, trail)
  BY <1>9, <1>12, <1>14, <1>15 DEF Result, Quiet
<1>. QED BY <1>6, <1>8, <1>10, <1>11, <1>13, <1>16 DEF Inv

LEMMA StutterKeeps == ASSUME Inv, UNCHANGED vars PROVE Inv'
<1>1. /\ UNCHANGED <<job, site, store, grants, server, client, req, trail, sent, runner>>
      /\ UNCHANGED <<had, revoked, edits>>
  BY DEF vars
<1>2. WorldInv' /\ TrailInv'
  BY <1>1 DEF Inv, WorldInv, TrailInv
<1>3. /\ ReqInv(req', had') /\ Stage(job', client', req', trail', had')
      /\ Output(job', client', runner') /\ Result(job', client', runner', had')
      /\ Quiet(job', client', req', trail')
  BY <1>1 DEF Inv
<1>. QED BY <1>2, <1>3 DEF Inv

LEMMA NextInv == ASSUME Inv, [Next]_vars PROVE Inv'
<1>1. CASE JobStep
  BY <1>1, BeginKeeps, TakeListingKeeps, TakeExportKeeps, TakeGetKeeps, GiveUpKeeps, ExecKeeps,
     RenderFailsKeeps, WriteOutKeeps, FlushKeeps, AssignKeeps, FinishKeeps DEF JobStep
<1>2. CASE ServerStep
  BY <1>2, ServeListKeeps, RefuseExportKeeps, ExportPathKeeps, ServeGetKeeps, AuditFailsKeeps
     DEF ServerStep
<1>3. CASE Others
  BY <1>3, PutKeeps, DeleteKeeps, RevokeKeeps, RestartKeeps, CrashKeeps, KillKeeps DEF Others
<1>4. CASE Over
  BY <1>4, StutterKeeps DEF Over
<1>5. CASE UNCHANGED vars
  BY <1>5, StutterKeeps
<1>. QED BY <1>1, <1>2, <1>3, <1>4, <1>5 DEF Next

LEMMA SpecInv == Spec => []Inv
BY InitInv, NextInv, PTL DEF Spec

-----------------------------------------------------------------------------
(* The properties.                                                         *)

LEMMA InvTypes == ASSUME Inv PROVE TypeOK
<1>1. /\ ClientType(client) /\ ReqType(req) /\ RunnerType(runner) /\ ReqInv(req, had)
      /\ WorldInv /\ TrailInv
  BY DEF Inv, Stage, ReqInv, Output
<1>2. Len(req.done) <= MaxExport
  <2>1. MaxExport \in Nat /\ req.done \in Seq(Secrets) /\ req.paths \in Seq(AllPaths)
    BY <1>1, DeliveryAssumption DEF ReqType
  <2>2. CASE req.done = <<>>
    BY <2>1, <2>2
  <2>3. CASE req.done # <<>>
    <3>1. PartOf(req.done, req.paths, had) /\ Exportable(req.paths)
      BY <1>1, <2>3 DEF ReqInv
    <3>. QED BY <2>1, <3>1 DEF PartOf, Exportable
  <2>. QED BY <2>2, <2>3
<1>3. /\ req.reply = Reply(req.reply.status, req.reply.body) /\ req.reply.status \in Nat
      /\ req.reply.body \in IF req.kind = "list" THEN Seq(AllPaths) ELSE Seq(Secrets)
  <2>1. req.reply \in Replies
    BY <1>1 DEF ReqType
  <2>2. req.reply = Reply(req.reply.status, req.reply.body) /\ req.reply.status \in Nat
    BY <2>1 DEF Replies, Reply
  <2>. QED BY <1>1, <2>2 DEF ReqInv
<1>4. /\ client.at \in Ats /\ client.outcome \in Outcomes \cup {None}
      /\ client.want \in Seq(AllPaths) /\ client.got \in Seq(Secrets)
  BY <1>1 DEF ClientType
<1>5. /\ req.kind \in {"none", "list", "export", "get"} /\ req.paths \in Seq(AllPaths)
      /\ req.done \in Seq(Secrets) /\ req.bytes \in 0..MaxBytes
  BY <1>1 DEF ReqType
<1>. QED BY <1>1, <1>2, <1>3, <1>4, <1>5 DEF TypeOK, WorldInv, TrailInv, RunnerType, Ats

LEMMA InvReached == Delivered = Reached(runner) /\ Wanted = {client.want[i] : i \in DOMAIN client.want}
BY DEF Delivered, Reached, ValuePaths, PathsOf, Wanted

\* A whole set with names of its own becomes an environment with all of it.
LEMMA WholeEnvironment ==
  ASSUME NEW s \in Seq(Secrets), NEW paths \in Seq(AllPaths), NEW h, Whole(s, paths, h),
         Nameable(paths)
  PROVE  /\ DOMAIN Environment(s) = {NameOf[paths[i]] : i \in DOMAIN paths}
         /\ \A i \in DOMAIN paths : Environment(s)[NameOf[paths[i]]] \in h[paths[i]]
<1>1. DOMAIN s = 1..Len(paths) /\ DOMAIN paths = 1..Len(paths)
  BY DEF Whole
<1>2. \A i \in 1..Len(paths) : s[i].path = paths[i] /\ s[i].value \in h[paths[i]]
  BY DEF Whole, PartOf
<1>3. \A i, j \in 1..Len(paths) : NameOf[paths[i]] = NameOf[paths[j]] => i = j
  <2>1. ASSUME NEW i \in 1..Len(paths), NEW j \in 1..Len(paths), j < i
        PROVE  NameOf[paths[j]] # NameOf[paths[i]]
    <3>1. j \in 1..i - 1
      BY <2>1
    <3>. QED BY <1>1, <3>1 DEF Nameable
  <2>. QED BY <2>1
<1>4. DOMAIN Environment(s) = {NameOf[paths[i]] : i \in DOMAIN paths}
  BY <1>1, <1>2 DEF Environment
<1>5. ASSUME NEW i \in DOMAIN paths PROVE Environment(s)[NameOf[paths[i]]] \in h[paths[i]]
  <2>. DEFINE k == CHOOSE m \in DOMAIN s : NameOf[s[m].path] = NameOf[paths[i]]
  <2>1. k \in DOMAIN s /\ NameOf[s[k].path] = NameOf[paths[i]]
    BY <1>1, <1>2
  <2>2. Environment(s)[NameOf[paths[i]]] = s[k].value
    BY <1>1, <1>2 DEF Environment
  <2>. HIDE DEF k
  <2>3. k = i
    BY <1>1, <1>2, <1>3, <2>1
  <2>. QED BY <1>1, <1>2, <2>2, <2>3
<1>. QED BY <1>4, <1>5

LEMMA InvComplete == ASSUME Inv PROVE StartsComplete
<1>1. /\ Result(job, client, runner, had) /\ client.want \in Seq(AllPaths)
      /\ client.got \in Seq(Secrets)
  BY DEF Inv, Stage, ClientType
<1>2. ASSUME runner.child # None
      PROVE  /\ DOMAIN runner.child = {NameOf[p] : p \in Wanted}
             /\ \A p \in Wanted : runner.child[NameOf[p]] \in had[p]
  <2>1. /\ runner.child = Environment(client.got) /\ Whole(client.got, client.want, had)
        /\ Nameable(client.want)
    BY <1>1, <1>2 DEF Result
  <2>2. /\ DOMAIN runner.child = {NameOf[client.want[i]] : i \in DOMAIN client.want}
        /\ \A i \in DOMAIN client.want :
             runner.child[NameOf[client.want[i]]] \in had[client.want[i]]
    BY <1>1, <2>1, WholeEnvironment
  <2>. QED BY <2>2 DEF Wanted
<1>3. ASSUME client.outcome = "delivered" PROVE Delivered = Wanted /\ Wanted # {}
  <2>1. /\ Reached(runner) = PathsOf(client.got) /\ Whole(client.got, client.want, had)
        /\ client.want # <<>>
    BY <1>1, <1>3 DEF Result
  <2>2. Delivered = Wanted
    BY <1>1, <2>1, WholePaths, InvReached
  <2>3. 1 \in DOMAIN client.want
    BY <1>1, <2>1
  <2>. QED BY <2>2, <2>3 DEF Wanted
<1>. QED BY <1>2, <1>3 DEF StartsComplete

LEMMA InvMasks == ASSUME Inv PROVE MasksFirst
<1>1. Result(job, client, runner, had) /\ client.got \in Seq(Secrets)
  BY DEF Inv, Stage, ClientType
<1>2. SUFFICES ASSUME job.format = "actions-env", NEW p \in Delivered
               PROVE  \/ \E i \in DOMAIN client.got :
                           client.got[i] = [path |-> p, value |-> "blank"]
                      \/ \E i \in DOMAIN runner.shown :
                           /\ runner.shown[i] = [kind |-> "mask", path |-> p]
                           /\ \A j \in 1..i : runner.shown[j].kind # "value"
  BY DEF MasksFirst
<1>3. p \in PathsOf(client.got) /\ Reached(runner) # {}
  BY <1>1, <1>2, InvReached DEF Result
<1>4. PICK k \in DOMAIN client.got : client.got[k].path = p
  BY <1>3 DEF PathsOf
<1>5. /\ Len(runner.shown) >= Len(client.got)
      /\ \A i \in 1..Len(client.got) : runner.shown[i] = Mask(client.got[i])
  BY <1>1, <1>2, <1>3 DEF Result
<1>6. runner.shown \in Seq(Lines)
  BY DEF Inv, Output, RunnerType
<1>7. k \in 1..Len(client.got) /\ k \in DOMAIN runner.shown
  BY <1>1, <1>4, <1>5, <1>6
<1>8. \A j \in 1..k : runner.shown[j].kind # "value"
  <2>1. \A j \in 1..k : j \in 1..Len(client.got)
    BY <1>7
  <2>2. \A s : Mask(s).kind # "value"
    BY DEF Mask
  <2>. QED BY <1>5, <2>1, <2>2
<1>9. client.got[k] \in Secrets
  BY <1>1, <1>4
<1>10. CASE client.got[k].value = "blank"
  <2>1. client.got[k] = [path |-> p, value |-> "blank"]
    BY <1>4, <1>9, <1>10 DEF Secrets
  <2>. QED BY <1>4, <2>1
<1>11. CASE client.got[k].value # "blank"
  <2>1. runner.shown[k] = [kind |-> "mask", path |-> p]
    BY <1>4, <1>5, <1>7, <1>11 DEF Mask
  <2>. QED BY <1>7, <1>8, <2>1
<1>. QED BY <1>10, <1>11

LEMMA InvNames == ASSUME Inv PROVE NoControlNames
<1>1. /\ Result(job, client, runner, had) /\ client.want \in Seq(AllPaths)
      /\ client.got \in Seq(Secrets)
  BY DEF Inv, Stage, ClientType
<1>2. ASSUME runner.child # None PROVE DOMAIN runner.child \cap Control = {}
  <2>1. /\ runner.child = Environment(client.got) /\ Whole(client.got, client.want, had)
        /\ Nameable(client.want) /\ ~Controls(client.want)
    BY <1>1, <1>2 DEF Result
  <2>2. DOMAIN runner.child = {NameOf[client.want[i]] : i \in DOMAIN client.want}
    BY <1>1, <2>1, WholeEnvironment
  <2>. QED BY <2>1, <2>2 DEF Controls
<1>3. ASSUME job.format # "json", NEW p \in Delivered PROVE NameOf[p] \notin Control
  <2>1. /\ p \in PathsOf(client.got) /\ Whole(client.got, client.want, had)
        /\ NamesOk(job, client.want) /\ job.tool = "ci"
    BY <1>1, <1>3, InvReached DEF Result
  <2>2. ~Controls(client.want)
    BY <1>3, <2>1 DEF NamesOk
  <2>3. p \in {client.want[i] : i \in DOMAIN client.want}
    BY <1>1, <2>1, WholePaths
  <2>. QED BY <2>2, <2>3 DEF Controls
<1>. QED BY <1>2, <1>3 DEF NoControlNames

\* Every state of a job has its types, and an export that is under way holds no more
\* secrets and no more bytes than validate_export_paths and export_secrets allow.
THEOREM TypeOKHolds == Spec => []TypeOK
BY SpecInv, InvTypes, PTL

\* Whatever others do between two requests of a job, and wherever it is killed, a
\* process that ciphr-run starts has every secret that was asked for, each with a
\* value its path had while the job ran, and ciphr-ci reports success only when the
\* whole set was handed over.
THEOREM StartsCompleteHolds == Spec => []StartsComplete
BY SpecInv, InvComplete, PTL

\* deliver never lets a value be seen before its mask, also when a sink takes only a
\* part of what it is given, or the process is killed between two writes.
THEOREM MasksFirstHolds == Spec => []MasksFirst
BY SpecInv, InvMasks, PTL

\* A job that ends because of its names has read nothing, and no read of it is still
\* under way: environment_of and ciphr-ci look at the names first.
THEOREM RefusedNamesCostNothingHolds == Spec => []RefusedNamesCostNothing
<1>1. Inv => RefusedNamesCostNothing
  BY DEF Inv, Quiet, RefusedNamesCostNothing
<1>. QED BY SpecInv, <1>1, PTL

\* No control name reaches a process or a later step of a pipeline, whatever names the
\* store holds when it is listed.
THEOREM NoControlNamesHolds == Spec => []NoControlNames
BY SpecInv, InvNames, PTL

-----------------------------------------------------------------------------
(* What the trail says was read.                                           *)

\* The entries of Count, on any trail.
Hits(t, kind, status, p) ==
  {i \in DOMAIN t : /\ t[i].kind = kind /\ t[i].path = p
                    /\ status = 0 \/ t[i].status = status}

Told(t, p) == Cardinality(Hits(t, "decision", 200, p)) - Cardinality(Hits(t, "correction", 0, p))

\* What one entry adds.
Worth(e, p) ==
  IF e.path # p THEN 0
  ELSE IF e.kind = "correction" THEN -1
  ELSE IF e.status = 200 THEN 1 ELSE 0

\* How often a path is among the first n of some paths.
Times(paths, n, p) == Cardinality({i \in 1..n : paths[i] = p})

LEMMA HitsFinite ==
  ASSUME NEW t \in Seq(Entries), NEW kind, NEW status, NEW p
  PROVE  /\ Hits(t, kind, status, p) \subseteq 1..Len(t)
         /\ IsFiniteSet(Hits(t, kind, status, p)) /\ Cardinality(Hits(t, kind, status, p)) \in Nat
<1>1. DOMAIN t = 1..Len(t) /\ Len(t) \in Int
  OBVIOUS
<1>2. Hits(t, kind, status, p) \subseteq 1..Len(t)
  BY <1>1 DEF Hits
<1>3. IsFiniteSet(1..Len(t))
  BY <1>1, FS_Interval
<1>4. IsFiniteSet(Hits(t, kind, status, p))
  BY <1>2, <1>3, FS_Subset
<1>. QED BY <1>2, <1>4, FS_CardinalityType

LEMMA ToldIsInt == ASSUME NEW t \in Seq(Entries), NEW p PROVE Told(t, p) \in Int
<1>1. Cardinality(Hits(t, "decision", 200, p)) \in Nat /\ Cardinality(Hits(t, "correction", 0, p)) \in Nat
  BY HitsFinite
<1>. QED BY <1>1 DEF Told

LEMMA TimesIsNat == ASSUME NEW paths, NEW n \in Nat, NEW p PROVE Times(paths, n, p) \in Nat
<1>1. IsFiniteSet(1..n)
  BY FS_Interval
<1>2. {i \in 1..n : paths[i] = p} \subseteq 1..n
  OBVIOUS
<1>3. IsFiniteSet({i \in 1..n : paths[i] = p})
  BY <1>1, <1>2, FS_Subset
<1>. QED BY <1>3, FS_CardinalityType DEF Times

LEMMA TimesNone == ASSUME NEW paths, NEW p PROVE Times(paths, 0, p) = 0
<1>1. {i \in 1..0 : paths[i] = p} = {}
  OBVIOUS
<1>. QED BY <1>1, FS_EmptySet DEF Times

LEMMA TimesOneMore ==
  ASSUME NEW paths, NEW n \in Nat, NEW p
  PROVE  Times(paths, n + 1, p) = Times(paths, n, p) + (IF paths[n + 1] = p THEN 1 ELSE 0)
<1>. DEFINE S == {i \in 1..n : paths[i] = p}
            T == {i \in 1..(n + 1) : paths[i] = p}
<1>1. IsFiniteSet(S) /\ Cardinality(S) \in Nat
  <2>1. IsFiniteSet(1..n) /\ S \subseteq 1..n
    BY FS_Interval
  <2>2. IsFiniteSet(S)
    BY <2>1, FS_Subset
  <2>. QED BY <2>2, FS_CardinalityType
<1>2. CASE paths[n + 1] = p
  <2>1. T = S \cup {n + 1} /\ n + 1 \notin S
    BY <1>2
  <2>. HIDE DEF S, T
  <2>2. Cardinality(T) = Cardinality(S) + 1
    BY <1>1, <2>1, FS_AddElement
  <2>. QED BY <1>2, <2>2 DEF S, T, Times
<1>3. CASE paths[n + 1] # p
  <2>1. T = S
    BY <1>3
  <2>. QED BY <1>1, <1>3, <2>1 DEF Times
<1>. QED BY <1>2, <1>3

\* One entry more.
LEMMA HitsAppend ==
  ASSUME NEW t \in Seq(Entries), NEW e \in Entries, NEW kind, NEW status, NEW p
  PROVE  Cardinality(Hits(Append(t, e), kind, status, p)) =
           Cardinality(Hits(t, kind, status, p))
             + (IF e.kind = kind /\ e.path = p /\ (status = 0 \/ e.status = status) THEN 1 ELSE 0)
<1>. DEFINE u == Append(t, e)
            n == Len(t)
            S == Hits(t, kind, status, p)
            T == Hits(u, kind, status, p)
            hit == e.kind = kind /\ e.path = p /\ (status = 0 \/ e.status = status)
<1>1. /\ n \in Nat /\ DOMAIN t = 1..n /\ DOMAIN u = 1..(n + 1) /\ u[n + 1] = e
      /\ \A i \in 1..n : u[i] = t[i]
  OBVIOUS
<1>2. S \subseteq 1..n /\ IsFiniteSet(S) /\ Cardinality(S) \in Nat
  BY HitsFinite
<1>. HIDE DEF u, n
<1>3. \A i \in 1..n : i \in T <=> i \in S
  BY <1>1 DEF Hits
<1>4. T \subseteq 1..(n + 1) /\ (n + 1 \in T <=> hit)
  BY <1>1 DEF Hits
<1>. HIDE DEF S, T, hit
<1>5. CASE hit
  <2>0. \A i : i \in 1..(n + 1) <=> i \in 1..n \/ i = n + 1
    BY <1>1
  <2>1. T = S \cup {n + 1}
    BY <2>0, <1>2, <1>3, <1>4, <1>5
  <2>2. n + 1 \notin S
    BY <1>1, <1>2
  <2>3. Cardinality(T) = Cardinality(S) + 1
    BY <1>2, <2>1, <2>2, FS_AddElement
  <2>. QED BY <1>5, <2>3 DEF S, T, u, hit
<1>6. CASE ~hit
  <2>0. \A i : i \in 1..(n + 1) <=> i \in 1..n \/ i = n + 1
    BY <1>1
  <2>1. T = S
    BY <2>0, <1>2, <1>3, <1>4, <1>6
  <2>2. Cardinality(T) = Cardinality(S) + 0
    BY <1>2, <2>1
  <2>. QED BY <1>6, <2>2 DEF S, T, u, hit
<1>. QED BY <1>5, <1>6

LEMMA ToldAppend ==
  ASSUME NEW t \in Seq(Entries), NEW e \in Entries, NEW p
  PROVE  Told(Append(t, e), p) = Told(t, p) + Worth(e, p)
<1>. DEFINE d == Cardinality(Hits(t, "decision", 200, p))
            c == Cardinality(Hits(t, "correction", 0, p))
            d2 == Cardinality(Hits(Append(t, e), "decision", 200, p))
            c2 == Cardinality(Hits(Append(t, e), "correction", 0, p))
<1>1. d \in Nat /\ c \in Nat
  BY HitsFinite
<1>2. d2 = d + (IF e.kind = "decision" /\ e.path = p /\ (200 = 0 \/ e.status = 200) THEN 1 ELSE 0)
  BY HitsAppend
<1>3. c2 = c + (IF e.kind = "correction" /\ e.path = p /\ (0 = 0 \/ e.status = 0) THEN 1 ELSE 0)
  BY HitsAppend
<1>4. Told(Append(t, e), p) = d2 - c2 /\ Told(t, p) = d - c
  BY DEF Told
<1>5. e.kind \in {"decision", "correction"}
  BY DEF Entries
<1>. HIDE DEF d, c, d2, c2
<1>. QED BY <1>1, <1>2, <1>3, <1>4, <1>5 DEF Worth

\* A sequence of corrections takes off as many entries as it has for the path.
LEMMA ToldCorrected ==
  ASSUME ReqType(req), NEW t \in Seq(Entries), NEW n \in 0..Len(req.paths),
         NEW s \in {200, 400, 403, 404, 500}, NEW p
  PROVE  Told(t \o Corrections(n, s), p) = Told(t, p) - Times(req.paths, n, p)
<1>. DEFINE more == Corrections(n, s)
            u == t \o more
            m == Len(t)
            I == {i \in 1..n : req.paths[i] = p}
            J == {m + i : i \in I}
            S == Hits(t, "correction", 0, p)
            T == Hits(u, "correction", 0, p)
<1>1. req.paths \in Seq(AllPaths) /\ n \in Nat
  BY DEF ReqType
<1>2. more \in Seq(Entries)
  BY CorrectionsType
<1>3. Len(more) = n /\ \A i \in 1..n : more[i] = Correction(req.paths[i], s)
  BY <1>1 DEF Corrections
<1>. HIDE DEF more
<1>4. /\ m \in Nat /\ DOMAIN t = 1..m /\ u \in Seq(Entries) /\ DOMAIN u = 1..(m + n)
      /\ \A i \in 1..m : u[i] = t[i]
      /\ \A i \in 1..n : u[m + i] = more[i]
  <2>1. /\ u \in Seq(Entries) /\ Len(u) = Len(t) + Len(more)
        /\ \A i \in 1..Len(t) : u[i] = t[i]
        /\ \A i \in 1..Len(more) : u[Len(t) + i] = more[i]
    BY <1>2, Concat
  <2>. HIDE DEF u
  <2>. QED BY <1>1, <1>3, <2>1
<1>5. \A i \in 1..n : /\ u[m + i].kind = "correction" /\ u[m + i].path = req.paths[i]
  BY <1>3, <1>4 DEF Correction
<1>. HIDE DEF u, m
<1>6. \A i \in (1..(m + n)) \ (1..m) : i - m \in 1..n /\ i = m + (i - m)
  BY <1>1, <1>4
<1>7. Hits(u, "decision", 200, p) = Hits(t, "decision", 200, p)
  <2>1. \A i \in (1..(m + n)) \ (1..m) : u[i].kind = "correction"
    BY <1>5, <1>6
  <2>2. \A i \in 1..m : i \in 1..(m + n)
    BY <1>1, <1>4
  <2>. QED BY <1>4, <2>1, <2>2 DEF Hits
<1>8. T = S \cup J
  <2>1. ASSUME NEW i \in T PROVE i \in S \cup J
    <3>1. i \in 1..(m + n) /\ u[i].kind = "correction" /\ u[i].path = p
      BY <2>1, <1>4 DEF Hits
    <3>2. CASE i \in 1..m
      BY <3>1, <3>2, <1>4 DEF Hits
    <3>3. CASE i \notin 1..m
      <4>1. i - m \in 1..n /\ i = m + (i - m)
        BY <1>6, <3>1, <3>3
      <4>2. u[m + (i - m)].path = req.paths[i - m]
        BY <1>5, <4>1
      <4>3. i - m \in I
        BY <3>1, <4>1, <4>2
      <4>. QED BY <4>1, <4>3
    <3>. QED BY <3>2, <3>3
  <2>2. ASSUME NEW i \in S PROVE i \in T
    <3>1. i \in 1..m /\ t[i].kind = "correction" /\ t[i].path = p
      BY <2>2, <1>4 DEF Hits
    <3>2. i \in 1..(m + n) /\ u[i] = t[i]
      BY <3>1, <1>1, <1>4
    <3>. QED BY <3>1, <3>2, <1>4 DEF Hits
  <2>3. ASSUME NEW i \in J PROVE i \in T
    <3>1. PICK k \in I : i = m + k
      OBVIOUS
    <3>2. k \in 1..n /\ req.paths[k] = p
      OBVIOUS
    <3>3. i \in 1..(m + n)
      BY <3>1, <3>2, <1>1, <1>4
    <3>4. u[i].kind = "correction" /\ u[i].path = p
      BY <3>1, <3>2, <1>5
    <3>. QED BY <3>3, <3>4, <1>4 DEF Hits
  <2>. QED BY <2>1, <2>2, <2>3
<1>9. S \subseteq 1..m /\ IsFiniteSet(S) /\ Cardinality(S) \in Nat
  BY HitsFinite DEF m
<1>10. IsFiniteSet(I) /\ Cardinality(I) \in Nat
  <2>1. IsFiniteSet(1..n) /\ I \subseteq 1..n
    BY <1>1, FS_Interval
  <2>2. IsFiniteSet(I)
    BY <2>1, FS_Subset
  <2>. QED BY <2>2, FS_CardinalityType
<1>11. IsFiniteSet(J) /\ Cardinality(J) = Cardinality(I)
  <2>. DEFINE f == [i \in I |-> m + i]
  <2>1. f \in Bijection(I, J)
    <3>0. \A i \in I : i \in Int
      BY <1>1
    <3>1. f \in [I -> J]
      OBVIOUS
    <3>2. \A a, b \in I : f[a] = f[b] => a = b
      BY <3>0, <1>4
    <3>3. \A j \in J : \E i \in I : f[i] = j
      OBVIOUS
    <3>. HIDE DEF f, I, J
    <3>. QED BY <3>1, <3>2, <3>3 DEF Bijection, Injection, Surjection, IsInjective
  <2>2. ExistsBijection(I, J)
    BY <2>1 DEF ExistsBijection
  <2>. QED BY <1>10, <2>2, FS_Bijection
<1>12. S \cap J = {}
  <2>1. \A j \in J : j \notin 1..m
    BY <1>1, <1>4
  <2>. QED BY <1>9, <2>1
<1>13. Times(req.paths, n, p) = Cardinality(I)
  BY DEF Times
<1>. HIDE DEF I, J, S, T
<1>14. Cardinality(T) = Cardinality(S) + Cardinality(I)
  <2>1. Cardinality(S \cap J) = 0
    BY <1>12, FS_EmptySet
  <2>2. Cardinality(S \cup J) = Cardinality(S) + Cardinality(J) - Cardinality(S \cap J)
    BY <1>9, <1>11, FS_Union
  <2>. QED BY <1>8, <1>9, <1>10, <1>11, <2>1, <2>2
<1>15. Cardinality(Hits(t, "decision", 200, p)) \in Nat
  BY HitsFinite
<1>16. /\ Told(u, p) = Cardinality(Hits(t, "decision", 200, p)) - Cardinality(T)
       /\ Told(t, p) = Cardinality(Hits(t, "decision", 200, p)) - Cardinality(S)
  BY <1>7 DEF Told, S, T
<1>17. Told(u, p) = Told(t, p) - Times(req.paths, n, p)
  BY <1>9, <1>10, <1>13, <1>14, <1>15, <1>16
<1>. QED BY <1>17 DEF u, more

-----------------------------------------------------------------------------
(* One turn of an export, and a read, with what each of them comes to.     *)

\* Why a read that was allowed ended with a status other than 200.
ReadEnds(p, status) ==
  /\ status = 404 => store[p] \in {"absent", "deleted"}
  /\ status = 500 => store[p] = "binary"

LEMMA StatusReasons ==
  ASSUME WorldInv, NEW p \in AllPaths
  PROVE  /\ ReadStatus(p) \in {200, 404, 500} /\ ReadEnds(p, ReadStatus(p))
         /\ ReadStatus(p) = 200 =>
              store[p] \in Values /\ Size[store[p]] \in Nat /\ Secret(p) \in Secrets
<1>1. store[p] \in Values \cup {"absent", "deleted"}
  BY DEF WorldInv
<1>2. CASE store[p] \in {"absent", "deleted"}
  <2>1. ~Stored(p) /\ store[p] # "binary"
    BY <1>2 DEF Stored
  <2>2. ReadStatus(p) = 404
    BY <2>1 DEF ReadStatus
  <2>. QED BY <1>2, <2>2 DEF ReadEnds
<1>3. CASE store[p] \notin {"absent", "deleted"}
  <2>1. Stored(p) /\ store[p] \in Values
    BY <1>1, <1>3 DEF Stored
  <2>2. CASE store[p] = "binary"
    <3>1. ReadStatus(p) = 500
      BY <2>1, <2>2 DEF ReadStatus
    <3>. QED BY <2>2, <3>1 DEF ReadEnds
  <2>3. CASE store[p] # "binary"
    <3>1. ReadStatus(p) = 200
      BY <2>1, <2>3 DEF ReadStatus
    <3>. QED BY <2>1, <3>1, DeliveryAssumption DEF ReadEnds, Secret, Secrets
  <2>. QED BY <2>2, <2>3
<1>. QED BY <1>2, <1>3

\* The path an export is at is denied,
TurnDenied(n, p) ==
  /\ p \notin grants.read
  /\ trail' = Append(trail, Decision(p, 403)) \o Corrections(n - 1, 403)
  /\ req' = [req EXCEPT !.reply = Reply(403, <<>>)] /\ sent' = sent

\* or cannot be read, or is too much,
TurnFails(n, p, status) ==
  /\ status \in {400, 404, 500} /\ ReadEnds(p, status)
  /\ status = 400 => store[p] \in Values /\ req.bytes + Size[store[p]] > MaxBytes
  /\ trail' = Append(trail, Decision(p, 200)) \o Corrections(n, status)
  /\ req' = [req EXCEPT !.reply = Reply(status, <<>>)] /\ sent' = sent

\* or is read.
TurnReads(n, p) ==
  /\ store[p] \in Values /\ trail' = Append(trail, Decision(p, 200))
  /\ req'.kind = "export" /\ req'.paths = req.paths
  /\ req'.done = Append(req.done, Secret(p)) /\ req'.bytes = req.bytes + Size[store[p]]
  /\ req'.reply = IF n = Len(req.paths) THEN Reply(200, Append(req.done, Secret(p))) ELSE NoReply
  /\ sent' = IF n = Len(req.paths) THEN [q \in AllPaths |-> sent[q] + Times(req.paths, n, q)]
                                   ELSE sent

LEMMA ExportTurns ==
  ASSUME Inv, ExportPath
  PROVE  /\ req.kind = "export" /\ req.reply = NoReply /\ Outside
         /\ \E n \in 1..Len(req.paths), p \in AllPaths, status \in {200, 400, 404, 500} :
              /\ n = Len(req.done) + 1 /\ p = req.paths[n]
              /\ TurnDenied(n, p) \/ TurnFails(n, p, status) \/ TurnReads(n, p)
<1>. DEFINE n  == Len(req.done) + 1
            p  == req.paths[n]
            size   == IF ReadStatus(p) = 200 THEN Size[store[p]] ELSE 0
            bytes  == req.bytes + size
            status == IF bytes > MaxBytes THEN 400 ELSE ReadStatus(p)
            done   == Append(req.done, Secret(p))
            last   == n = Len(req.paths)
            read   == p \in grants.read
            A == /\ trail' = Append(trail, Decision(p, 403)) \o Corrections(n - 1, 403)
                 /\ req' = [req EXCEPT !.reply = Reply(403, <<>>)]
                 /\ UNCHANGED sent
            B == /\ trail' = Append(trail, Decision(p, 200)) \o Corrections(n, status)
                 /\ req' = [req EXCEPT !.reply = Reply(status, <<>>)]
                 /\ UNCHANGED sent
            C == /\ trail' = Append(trail, Decision(p, 200))
                 /\ req' = [req EXCEPT !.done = done, !.bytes = bytes,
                              !.reply = IF last THEN Reply(200, done) ELSE NoReply]
                 /\ sent' = IF last
                              THEN [q \in AllPaths |-> sent[q] +
                                      Cardinality({i \in 1..n : req.paths[i] = q})]
                              ELSE sent
<1>1. /\ req.kind = "export" /\ req.reply = NoReply /\ Outside
      /\ (CASE ~read -> A [] read /\ status # 200 -> B [] OTHER -> C)
  BY DEF ExportPath, Outside
<1>2. (~read /\ A) \/ (status # 200 /\ B) \/ (status = 200 /\ C)
  <2>. DEFINE ok == status = 200
  <2>1. (CASE ~read -> A [] read /\ ~ok -> B [] OTHER -> C)
    BY <1>1
  <2>. HIDE DEF A, B, C, ok, read
  <2>2. (~read /\ A) \/ (~ok /\ B) \/ (ok /\ C)
    BY <2>1
  <2>. QED BY <2>2 DEF ok
<1>3. /\ ReqType(req) /\ WorldInv /\ req.paths \in Seq(AllPaths)
      /\ req.done \in Seq(Secrets) /\ req.bytes \in 0..MaxBytes /\ Len(req.done) < Len(req.paths)
  BY <1>1 DEF Inv, ReqInv, ReqType
<1>4. n \in 1..Len(req.paths) /\ p \in AllPaths
  BY <1>3
<1>5. /\ ReadStatus(p) \in {200, 404, 500} /\ ReadEnds(p, ReadStatus(p))
      /\ ReadStatus(p) = 200 => store[p] \in Values /\ Size[store[p]] \in Nat
  BY <1>3, <1>4, StatusReasons
<1>6. MaxBytes \in Nat /\ ~(400 \in {200, 404, 500})
  BY DeliveryAssumption
<1>. HIDE DEF n, p
<1>7. CASE ~read /\ A
  <2>1. TurnDenied(n, p)
    BY <1>7 DEF TurnDenied
  <2>. QED BY <1>1, <1>4, <2>1 DEF n, p
<1>8. CASE status # 200 /\ B
  <2>1. CASE bytes > MaxBytes
    <3>1. status = 400
      BY <2>1
    <3>2. ReadStatus(p) = 200
      BY <2>1, <1>3, <1>6
    <3>3. store[p] \in Values /\ req.bytes + Size[store[p]] > MaxBytes
      BY <2>1, <3>2, <1>5
    <3>4. ReadEnds(p, 400)
      BY DEF ReadEnds
    <3>5. TurnFails(n, p, 400)
      <4>. HIDE DEF status
      <4>. QED BY <1>8, <3>1, <3>3, <3>4 DEF TurnFails
    <3>. QED BY <1>1, <1>4, <3>5 DEF n, p
  <2>2. CASE ~(bytes > MaxBytes)
    <3>1. status = ReadStatus(p)
      BY <2>2
    <3>. HIDE DEF status
    <3>2. status \in {404, 500} /\ ReadEnds(p, status)
      BY <3>1, <1>5, <1>8
    <3>3. TurnFails(n, p, status)
      BY <1>8, <3>2 DEF TurnFails
    <3>4. status \in {200, 400, 404, 500}
      BY <3>2
    <3>. QED BY <1>1, <1>4, <3>3, <3>4 DEF n, p
  <2>. QED BY <2>1, <2>2
<1>9. CASE status = 200 /\ C
  <2>1. ReadStatus(p) = 200 /\ size = Size[store[p]] /\ store[p] \in Values
    BY <1>5, <1>6, <1>9
  <2>. DEFINE reply == IF last THEN Reply(200, done) ELSE NoReply
  <2>2. req' = [req EXCEPT !.done = done, !.bytes = bytes, !.reply = reply]
    BY <1>9
  <2>3. bytes = req.bytes + Size[store[p]]
    BY <2>1
  <2>. HIDE DEF done, bytes, reply
  <2>4. /\ req'.kind = "export" /\ req'.paths = req.paths /\ req'.done = done
        /\ req'.bytes = bytes /\ req'.reply = reply
    BY <1>1, <1>3, <2>2 DEF ReqType
  <2>5. sent' = IF n = Len(req.paths) THEN [q \in AllPaths |-> sent[q] + Times(req.paths, n, q)]
                                      ELSE sent
    BY <1>9 DEF Times
  <2>6. trail' = Append(trail, Decision(p, 200))
    BY <1>9
  <2>7. TurnReads(n, p)
    BY <2>1, <2>3, <2>4, <2>5, <2>6 DEF TurnReads, done, reply
  <2>. QED BY <1>1, <1>4, <2>7 DEF n, p
<1>. QED BY <1>2, <1>7, <1>8, <1>9

\* A read without a token that is valid, of a path that is denied, of one that cannot
\* be read, and of one that is.
GetUnknown == ~server.token /\ req' = [req EXCEPT !.reply = Reply(401, <<>>)]
              /\ trail' = trail /\ sent' = sent

GetDenied(p) ==
  /\ p \notin grants.read /\ trail' = Append(trail, Decision(p, 403))
  /\ req' = [req EXCEPT !.reply = Reply(403, <<>>)] /\ sent' = sent

GetFails(p, status) ==
  /\ status \in {404, 500} /\ ReadEnds(p, status)
  /\ trail' = trail \o <<Decision(p, 200), Correction(p, status)>>
  /\ req' = [req EXCEPT !.reply = Reply(status, <<>>)] /\ sent' = sent

GetReads(p) ==
  /\ trail' = Append(trail, Decision(p, 200))
  /\ req' = [req EXCEPT !.reply = Reply(200, <<Secret(p)>>)]
  /\ sent' = [sent EXCEPT ![p] = @ + 1]

LEMMA GetTurns ==
  ASSUME Inv, ServeGet
  PROVE  /\ req.kind = "get" /\ req.reply = NoReply /\ Outside /\ Len(req.paths) = 1
         /\ \E p \in AllPaths, status \in {200, 404, 500} :
              /\ p = req.paths[1]
              /\ GetUnknown \/ GetDenied(p) \/ GetFails(p, status) \/ GetReads(p)
<1>. DEFINE p == req.paths[1]
            status == ReadStatus(p)
            read == p \in grants.read
            A == req' = [req EXCEPT !.reply = Reply(401, <<>>)] /\ UNCHANGED <<trail, sent>>
            B == /\ trail' = Append(trail, Decision(p, 403))
                 /\ req' = [req EXCEPT !.reply = Reply(403, <<>>)]
                 /\ UNCHANGED sent
            C == /\ trail' = trail \o <<Decision(p, 200), Correction(p, status)>>
                 /\ req' = [req EXCEPT !.reply = Reply(status, <<>>)]
                 /\ UNCHANGED sent
            D == /\ trail' = Append(trail, Decision(p, 200))
                 /\ req' = [req EXCEPT !.reply = Reply(200, <<Secret(p)>>)]
                 /\ sent' = [sent EXCEPT ![p] = @ + 1]
<1>1. /\ req.kind = "get" /\ req.reply = NoReply /\ Outside
      /\ (CASE ~server.token -> A [] server.token /\ ~read -> B
            [] server.token /\ read /\ status # 200 -> C [] OTHER -> D)
  BY DEF ServeGet, Outside
<1>2. (~server.token /\ A) \/ (~read /\ B) \/ (status # 200 /\ C) \/ (status = 200 /\ D)
  <2>. DEFINE ok == status = 200
  <2>1. (CASE ~server.token -> A [] server.token /\ ~read -> B
            [] server.token /\ read /\ ~ok -> C [] OTHER -> D)
    BY <1>1
  <2>0. server.token \in BOOLEAN
    BY DEF Inv, WorldInv
  <2>. HIDE DEF A, B, C, D, ok, read
  <2>2. (~server.token /\ A) \/ (~read /\ B) \/ (~ok /\ C) \/ (ok /\ D)
    BY <2>0, <2>1
  <2>. QED BY <2>2 DEF ok
<1>3. WorldInv /\ req.paths \in Seq(AllPaths) /\ Len(req.paths) = 1
  BY <1>1 DEF Inv, ReqInv, ReqType
<1>4. p \in AllPaths
  BY <1>3
<1>5. status \in {200, 404, 500} /\ ReadEnds(p, status)
  BY <1>3, <1>4, StatusReasons
<1>. HIDE DEF p, status
<1>6. GetUnknown \/ GetDenied(p) \/ GetFails(p, status) \/ GetReads(p)
  BY <1>2, <1>5 DEF GetUnknown, GetDenied, GetFails, GetReads
<1>. QED BY <1>1, <1>3, <1>4, <1>5, <1>6 DEF p

-----------------------------------------------------------------------------
(* The steps of a job, as far as the trail and a refusal are concerned.    *)

\* The server has nothing to do for the job.
Idle == req.kind = "none" \/ req.reply # NoReply

\* The errors of the client library that stand for an answer of the service.
Refused == {"not-found", "forbidden", "unauthenticated", "audit-unavailable", "unexpected",
            "bad-request"}

\* The job ends with what the service answered.
EndsWith(kind) ==
  /\ Answered(kind) /\ req.reply.status # 200 /\ (kind = "export" => req.reply.status # 404)
  /\ client' = [client EXCEPT !.at = "done", !.outcome = StatusError(req.reply.status)]

JobMove ==
  /\ Aside
  /\ req' = req \/ (Idle /\ \E kind \in Asking : \E paths : Send(kind, paths))
  /\ client'.outcome \notin Refused \/ (\E kind \in Asking : EndsWith(kind))

LEMMA Unrefused ==
  /\ None \notin Refused
  /\ RunProblem # Fine => RunProblem \notin Refused
  /\ CiProblem # Fine => CiProblem \notin Refused
  /\ \A paths : NamesProblem(paths) \notin Refused
<1>1. None \notin Refused
  BY NoneAssumption DEF Refused, Outcomes, RunErrors, CiErrors, SdkErrors
<1>2. TokenProblem \notin Refused
  BY DEF TokenProblem, Refused, Fine
<1>3. ClientProblem \notin Refused
  BY DEF ClientProblem, Refused, Fine
<1>4. RunProblem \notin Refused
  BY <1>2, <1>3 DEF RunProblem, Refused, Fine
<1>5. CiProblem \notin Refused
  BY <1>2, <1>3 DEF CiProblem, Refused, Fine
<1>6. \A paths : NamesProblem(paths) \notin Refused
  BY DEF NamesProblem, Refused, Fine
<1>. QED BY <1>1, <1>4, <1>5, <1>6

LEMMA ExitOutcome ==
  ASSUME ClientType(client), NEW o, Exit(o) PROVE client'.outcome = o
BY DEF Exit, ClientType

\* Goes, and whatever else leaves the outcome alone.
LEMMA StillOpen ==
  ASSUME Inv, client.at # "done", client'.outcome = client.outcome
  PROVE  client'.outcome \notin Refused
BY Unrefused DEF Inv, Stage

LEMMA FetchMoves ==
  ASSUME Inv, client.at # "done", Idle, Aside, NEW paths, Fetch(paths)
  PROVE  JobMove
<1>1. ClientType(client)
  BY DEF Inv, Stage
<1>2. CASE NamesProblem(paths) # Fine
  <2>1. Exit(NamesProblem(paths)) /\ req' = req
    BY <1>2 DEF Fetch
  <2>2. client'.outcome \notin Refused
    BY <1>1, <2>1, ExitOutcome, Unrefused
  <2>. QED BY <2>1, <2>2 DEF JobMove
<1>3. CASE NamesProblem(paths) = Fine
  <2>1. Send("export", paths) /\ client' = [client EXCEPT !.at = "export", !.want = paths]
    BY <1>3 DEF Fetch
  <2>2. client'.outcome \notin Refused
    <3>1. client'.outcome = client.outcome
      BY <1>1, <2>1 DEF ClientType
    <3>. QED BY <3>1, StillOpen
  <2>. QED BY <2>1, <2>2 DEF JobMove, Asking
<1>. QED BY <1>2, <1>3

LEMMA AssembleOutcome ==
  ASSUME Inv, client.at # "done", NEW secrets, Assemble(secrets)
  PROVE  client'.outcome \notin Refused
<1>. DEFINE paths == [i \in DOMAIN secrets |-> secrets[i].path]
            bad == job.tool = "run" /\ (~Nameable(paths) \/ Controls(paths))
            o == IF Nameable(paths) THEN "control-name" ELSE "names"
            at == IF job.tool = "run" THEN "exec" ELSE "deliver"
<1>1. ClientType(client)
  BY DEF Inv, Stage
<1>2. \/ Exit(o)
      \/ client' = [client EXCEPT !.got = secrets, !.at = at]
  BY DEF Assemble
<1>3. o \notin Refused
  BY DEF Refused
<1>. HIDE DEF o, at
<1>4. CASE Exit(o)
  BY <1>1, <1>3, <1>4, ExitOutcome
<1>5. CASE client' = [client EXCEPT !.got = secrets, !.at = at]
  <2>1. client'.outcome = client.outcome
    BY <1>1, <1>5 DEF ClientType
  <2>. QED BY <2>1, StillOpen
<1>. QED BY <1>2, <1>4, <1>5

LEMMA BeginMoves == ASSUME Inv, Begin PROVE JobMove
<1>1. client.at = "start" /\ Aside /\ ClientType(client) /\ Idle
  BY DEF Begin, Aside, Inv, Stage, NoRequest, Idle
<1>. DEFINE problem == IF job.tool = "run" THEN RunProblem ELSE CiProblem
            bad == problem # Fine
<1>2. job.prefix \in BOOLEAN
  <2>. DEFINE j == [job |-> job, site |-> site]
  <2>1. j \in Jobs /\ j.job = job
    BY DEF Inv, WorldInv
  <2>. HIDE DEF j
  <2>. QED BY <2>1, JobsAssumption
<1>3. \/ bad /\ Exit(problem) /\ req' = req
      \/ Send("list", <<>>) /\ client' = [client EXCEPT !.at = "list"]
      \/ Fetch(job.paths)
  <2>1. (CASE bad -> Exit(problem) /\ UNCHANGED req
          [] ~bad /\ job.prefix -> /\ Send("list", <<>>)
                                   /\ client' = [client EXCEPT !.at = "list"]
                                   /\ UNCHANGED runner
          [] ~bad /\ ~job.prefix -> Fetch(job.paths))
    BY DEF Begin
  <2>. HIDE DEF bad
  <2>. QED BY <2>1, <1>2
<1>4. bad => problem \notin Refused
  BY Unrefused
<1>. HIDE DEF problem, bad
<1>5. CASE bad /\ Exit(problem) /\ req' = req
  <2>1. client'.outcome \notin Refused
    BY <1>1, <1>4, <1>5, ExitOutcome
  <2>. QED BY <1>1, <1>5, <2>1 DEF JobMove
<1>6. CASE Send("list", <<>>) /\ client' = [client EXCEPT !.at = "list"]
  <2>1. client'.outcome = client.outcome
    BY <1>1, <1>6 DEF ClientType
  <2>2. client'.outcome \notin Refused
    BY <1>1, <2>1, StillOpen
  <2>. QED BY <1>1, <1>6, <2>2 DEF JobMove, Asking
<1>7. CASE Fetch(job.paths)
  BY <1>1, <1>7, FetchMoves
<1>. QED BY <1>3, <1>5, <1>6, <1>7

\* A refusal of the service is what the job ends with.
LEMMA StatusMoves ==
  ASSUME Aside, NEW kind \in Asking, Answered(kind), req' = req, req.reply.status # 200,
         kind = "export" => req.reply.status # 404, Exit(StatusError(req.reply.status))
  PROVE  JobMove
<1>1. EndsWith(kind)
  BY DEF EndsWith, Exit
<1>. QED BY <1>1 DEF JobMove

LEMMA TakeListingMoves == ASSUME Inv, TakeListing PROVE JobMove
<1>1. Answered("list") /\ Aside /\ ClientType(client) /\ client.at = "list" /\ Idle
  BY DEF TakeListing, Aside, Inv, Stage, Answered, Idle
<1>. DEFINE good == req.reply.status = 200
            empty == req.reply.body = <<>>
<1>2. \/ ~good /\ Exit(StatusError(req.reply.status)) /\ req' = req
      \/ Exit("nothing-under-prefix") /\ req' = req
      \/ Fetch(req.reply.body)
  <2>1. (CASE ~good -> Exit(StatusError(req.reply.status)) /\ UNCHANGED req
          [] good /\ empty -> Exit("nothing-under-prefix") /\ UNCHANGED req
          [] OTHER -> Fetch(req.reply.body))
    BY DEF TakeListing
  <2>. HIDE DEF good, empty
  <2>. QED BY <2>1
<1>3. CASE ~good /\ Exit(StatusError(req.reply.status)) /\ req' = req
  <2>1. "list" \in Asking
    BY DEF Asking
  <2>. QED BY <1>1, <1>3, <2>1, StatusMoves
<1>4. CASE Exit("nothing-under-prefix") /\ req' = req
  <2>1. client'.outcome \notin Refused
    BY <1>1, <1>4, ExitOutcome DEF Refused
  <2>. QED BY <1>1, <1>4, <2>1 DEF JobMove
<1>5. CASE Fetch(req.reply.body)
  BY <1>1, <1>5, FetchMoves
<1>. QED BY <1>2, <1>3, <1>4, <1>5

LEMMA TakeExportMoves == ASSUME Inv, TakeExport PROVE JobMove
<1>1. Answered("export") /\ Aside /\ ClientType(client) /\ client.at = "export" /\ Idle
  BY DEF TakeExport, Aside, Inv, Stage, Answered, Idle
<1>. DEFINE s == req.reply.status
            get == /\ Send("get", SubSeq(client.want, 1, 1))
                   /\ client' = [client EXCEPT !.at = "get"]
<1>2. \/ Assemble(req.reply.body) /\ req' = req
      \/ get
      \/ s # 200 /\ s # 404 /\ Exit(StatusError(s)) /\ req' = req
  <2>. DEFINE a == s = 200
              b == s = 404
  <2>0. ~(a /\ b)
    OBVIOUS
  <2>1. (CASE a -> Assemble(req.reply.body) /\ UNCHANGED req
          [] b -> /\ Send("get", SubSeq(client.want, 1, 1))
                  /\ client' = [client EXCEPT !.at = "get"]
                  /\ UNCHANGED runner
          [] OTHER -> Exit(StatusError(s)) /\ UNCHANGED req)
    BY DEF TakeExport
  <2>. HIDE DEF a, b
  <2>2. \/ Assemble(req.reply.body) /\ req' = req
        \/ get
        \/ ~a /\ ~b /\ Exit(StatusError(s)) /\ req' = req
    BY <2>0, <2>1
  <2>. QED BY <2>2 DEF a, b
<1>3. CASE Assemble(req.reply.body) /\ req' = req
  <2>1. client'.outcome \notin Refused
    BY <1>1, <1>3, AssembleOutcome
  <2>. QED BY <1>1, <1>3, <2>1 DEF JobMove
<1>4. CASE get
  <2>1. client'.outcome = client.outcome
    BY <1>1, <1>4 DEF ClientType
  <2>2. client'.outcome \notin Refused
    BY <1>1, <2>1, StillOpen
  <2>. QED BY <1>1, <1>4, <2>2 DEF JobMove, Asking
<1>5. CASE s # 200 /\ s # 404 /\ Exit(StatusError(s)) /\ req' = req
  <2>1. "export" \in Asking
    BY DEF Asking
  <2>. QED BY <1>1, <1>5, <2>1, StatusMoves
<1>. QED BY <1>2, <1>3, <1>4, <1>5

LEMMA TakeGetMoves == ASSUME Inv, TakeGet PROVE JobMove
<1>1. Answered("get") /\ Aside /\ ClientType(client) /\ client.at = "get" /\ Idle
  BY DEF TakeGet, Aside, Inv, Stage, Answered, Idle
<1>. DEFINE got == client.got \o req.reply.body
            n == Len(client.got) + 1
<1>2. CASE req.reply.status = 200
  <2>1. Continue(got, n)
    BY <1>2 DEF TakeGet
  <2>. HIDE DEF got, n
  <2>2. CASE n = Len(client.want)
    <3>1. Assemble(got) /\ req' = req
      BY <2>1, <2>2 DEF Continue
    <3>2. client'.outcome \notin Refused
      BY <1>1, <3>1, AssembleOutcome
    <3>. QED BY <1>1, <3>1, <3>2 DEF JobMove
  <2>3. CASE n # Len(client.want)
    <3>1. Send("get", SubSeq(client.want, n + 1, n + 1)) /\ client' = [client EXCEPT !.got = got]
      BY <2>1, <2>3 DEF Continue
    <3>2. client'.outcome = client.outcome
      BY <1>1, <3>1 DEF ClientType
    <3>3. client'.outcome \notin Refused
      BY <1>1, <3>2, StillOpen
    <3>. QED BY <1>1, <3>1, <3>3 DEF JobMove, Asking
  <2>. QED BY <2>2, <2>3
<1>3. CASE req.reply.status # 200
  <2>1. Exit(StatusError(req.reply.status)) /\ req' = req
    BY <1>3 DEF TakeGet
  <2>2. "get" \in Asking
    BY DEF Asking
  <2>. QED BY <1>1, <1>3, <2>1, <2>2, StatusMoves
<1>. QED BY <1>2, <1>3

\* The steps after the last answer, and those that give up.
LEMMA OwnMoves ==
  ASSUME Inv, GiveUp \/ Exec \/ RenderFails \/ WriteOut \/ Flush \/ Assign \/ Finish \/ Kill
  PROVE  JobMove
<1>1. Aside /\ req' = req /\ client.at # "done"
  BY DEF Aside, GiveUp, Exec, RenderFails, WriteOut, Flush, Assign, Finish, Kill
<1>2. ClientType(client)
  BY DEF Inv, Stage
<1>3. ASSUME NEW at, Goes(at) PROVE client'.outcome \notin Refused
  <2>1. client'.outcome = client.outcome
    BY <1>2, <1>3 DEF Goes, ClientType
  <2>. QED BY <1>1, <2>1, StillOpen
<1>4. ASSUME NEW o, Exit(o), o \notin Refused PROVE client'.outcome \notin Refused
  BY <1>2, <1>4, ExitOutcome
<1>5. ASSUME NEW sink, NEW lines, NEW o, Refuses(sink, lines, o), o \notin Refused
      PROVE  client'.outcome \notin Refused
  <2>1. client' = [client EXCEPT !.at = "done", !.outcome = o]
    BY <1>5 DEF Refuses
  <2>. QED BY <1>2, <1>5, <2>1 DEF ClientType
<1>6. {"transport", "render", "output", "environment-file", "delivered", "killed", "started",
       "exec-126", "exec-127"} \cap Refused = {}
  BY DEF Refused
<1>7. CASE Exec
  <2>. DEFINE o == CASE job.program = "missing"  -> "exec-127"
                     [] job.program = "unusable" -> "exec-126"
                     [] OTHER                    -> "started"
  <2>1. client' = [client EXCEPT !.at = "done", !.outcome = o]
    BY <1>7 DEF Exec
  <2>2. o \in {"exec-127", "exec-126", "started"}
    OBVIOUS
  <2>. HIDE DEF o
  <2>3. client'.outcome = o
    BY <1>2, <2>1 DEF ClientType
  <2>. QED BY <1>1, <1>6, <2>2, <2>3 DEF JobMove
<1>8. CASE Kill
  <2>1. client'.outcome = "killed"
    BY <1>2, <1>8 DEF Kill, ClientType
  <2>. QED BY <1>1, <1>6, <2>1 DEF JobMove
<1>9. CASE WriteOut
  <2>. DEFINE lines == IF job.format = "actions-env" THEN Masks ELSE Assignments
              at == IF job.format = "actions-env" THEN "masked" ELSE "written"
  <2>1. Goes(at) \/ Refuses("shown", lines, "output")
    BY <1>9 DEF WriteOut
  <2>. HIDE DEF lines, at
  <2>2. client'.outcome \notin Refused
    BY <1>3, <1>5, <1>6, <2>1
  <2>. QED BY <1>1, <2>2 DEF JobMove
<1>10. CASE Flush
  <2>1. Goes("flushed") \/ Refuses("shown", runner.out, "output")
    BY <1>10 DEF Flush
  <2>2. client'.outcome \notin Refused
    BY <1>3, <1>5, <1>6, <2>1
  <2>. QED BY <1>1, <2>2 DEF JobMove
<1>11. CASE Assign
  <2>1. \/ Exit("environment-file") \/ Goes("written")
        \/ Refuses("file", Assignments, "environment-file")
        \/ Refuses("shown", Assignments, "output")
    BY <1>11 DEF Assign
  <2>2. client'.outcome \notin Refused
    BY <1>3, <1>4, <1>5, <1>6, <2>1
  <2>. QED BY <1>1, <2>2 DEF JobMove
<1>12. GiveUp \/ RenderFails \/ Finish => JobMove
  <2>1. ASSUME GiveUp \/ RenderFails \/ Finish PROVE client'.outcome \notin Refused
    BY <1>4, <1>6, <2>1 DEF GiveUp, RenderFails, Finish
  <2>. QED BY <1>1, <2>1 DEF JobMove
<1>. QED BY <1>7, <1>8, <1>9, <1>10, <1>11, <1>12

LEMMA JobMoves == ASSUME Inv, JobStep \/ Kill PROVE JobMove
BY BeginMoves, TakeListingMoves, TakeExportMoves, TakeGetMoves, OwnMoves DEF JobStep

-----------------------------------------------------------------------------
(* The books of the trail.                                                 *)

\* What an export has read so far, and has not sent.
Pending(r, p) ==
  IF r.kind = "export" /\ r.reply = NoReply THEN Times(r.paths, Len(r.done), p) ELSE 0

\* What the trail says was read has left the server or is still in an export; when the
\* process or the trail failed it may say more.
Agrees(t, s, r, broken) ==
  \A p \in AllPaths :
    /\ Told(t, p) >= s[p] + Pending(r, p)
    /\ ~broken => Told(t, p) = s[p] + Pending(r, p)

Books == Agrees(trail, sent, req, server.broken)

LEMMA PendingIsNat == ASSUME ReqType(req), NEW p PROVE Pending(req, p) \in Nat
<1>1. Len(req.done) \in Nat
  BY DEF ReqType
<1>. QED BY <1>1, TimesIsNat DEF Pending

LEMMA NothingPending ==
  ASSUME NEW r, r.kind # "export" \/ r.reply # NoReply \/ r.done = <<>>, NEW p
  PROVE  Pending(r, p) = 0
BY TimesNone DEF Pending

\* A step that adds nothing to the trail, sends nothing and leaves what is pending.
LEMMA SameBooks ==
  ASSUME Books, trail' = trail, sent' = sent, server.broken => server'.broken,
         \A p \in AllPaths : Pending(req', p) = Pending(req, p)
  PROVE  Books'
<1>1. Agrees(trail', sent', req', server'.broken)
  BY DEF Books, Agrees
<1>. QED BY <1>1 DEF Books

LEMMA JobBooks == ASSUME Books, JobMove PROVE Books'
<1>1. trail' = trail /\ sent' = sent /\ server' = server
  BY DEF JobMove, Aside, world
<1>2. CASE req' = req
  BY <1>1, <1>2, SameBooks
<1>3. CASE Idle /\ \E kind \in Asking : \E paths : Send(kind, paths)
  <2>1. req'.done = <<>>
    BY <1>3 DEF Send, NoRequest
  <2>2. \A p \in AllPaths : Pending(req, p) = 0
    BY <1>3 DEF Idle, Pending
  <2>3. \A p \in AllPaths : Pending(req', p) = 0
    BY <2>1, NothingPending
  <2>. QED BY <1>1, <2>2, <2>3, SameBooks
<1>. QED BY <1>2, <1>3 DEF JobMove

\* A refusal before anything was recorded.
LEMMA AnswerBooks ==
  ASSUME Inv, Books, trail' = trail, sent' = sent, server' = server,
         req.kind = "export" => req.done = <<>>,
         NEW reply, reply # NoReply, req' = [req EXCEPT !.reply = reply]
  PROVE  Books'
<1>1. ReqType(req)
  BY DEF Inv, ReqInv
<1>2. req'.reply # NoReply
  BY <1>1 DEF ReqType
<1>3. \A p \in AllPaths : Pending(req, p) = 0 /\ Pending(req', p) = 0
  BY <1>2, NothingPending
<1>. QED BY <1>3, SameBooks

LEMMA ServeListBooks == ASSUME Inv, Books, ServeList PROVE Books'
<1>1. PICK body : req' = [req EXCEPT !.reply = IF server.token THEN Reply(200, body)
                                                               ELSE Reply(401, <<>>)]
  BY DEF ServeList
<1>. DEFINE reply == IF server.token THEN Reply(200, body) ELSE Reply(401, <<>>)
<1>2. reply # NoReply
  BY DEF Reply, NoReply
<1>3. trail' = trail /\ sent' = sent /\ server' = server /\ req.kind = "list"
  BY DEF ServeList, world
<1>. QED BY <1>1, <1>2, <1>3, AnswerBooks

LEMMA RefuseExportBooks == ASSUME Inv, Books, RefuseExport PROVE Books'
<1>. DEFINE n == CASE ~server.bulk -> 404 [] server.bulk /\ ~server.token -> 401 [] OTHER -> 400
            reply == Reply(n, <<>>)
<1>1. n # 0
  OBVIOUS
<1>2. reply # NoReply
  <2>. HIDE DEF n
  <2>. QED BY <1>1 DEF Reply, NoReply
<1>3. /\ trail' = trail /\ sent' = sent /\ server' = server /\ req.done = <<>>
      /\ req' = [req EXCEPT !.reply = reply]
  BY DEF RefuseExport, world
<1>. HIDE DEF reply
<1>. QED BY <1>2, <1>3, AnswerBooks

\* What an answered request leaves pending.
LEMMA Answers ==
  ASSUME ReqType(req), NEW reply, reply # NoReply, req' = [req EXCEPT !.reply = reply], NEW p
  PROVE  Pending(req', p) = 0
<1>1. req'.reply = reply
  BY DEF ReqType
<1>. QED BY <1>1, NothingPending

LEMMA IsReply == ASSUME NEW n, n # 0, NEW body PROVE Reply(n, body) # NoReply
BY DEF Reply, NoReply

LEMMA DecisionWorth ==
  ASSUME NEW p \in AllPaths, NEW q \in AllPaths
  PROVE  /\ Worth(Decision(q, 200), p) = IF q = p THEN 1 ELSE 0
         /\ Worth(Decision(q, 403), p) = 0
         /\ \A s : Worth(Correction(q, s), p) = IF q = p THEN -1 ELSE 0
BY DEF Worth, Decision, Correction

LEMMA ExportBooks == ASSUME Inv, Books, ExportPath PROVE Books'
<1>1. /\ req.kind = "export" /\ req.reply = NoReply /\ Outside
      /\ \E n \in 1..Len(req.paths), p \in AllPaths, status \in {200, 400, 404, 500} :
           /\ n = Len(req.done) + 1 /\ p = req.paths[n]
           /\ TurnDenied(n, p) \/ TurnFails(n, p, status) \/ TurnReads(n, p)
  BY ExportTurns
<1>2. PICK n \in 1..Len(req.paths), p \in AllPaths, status \in {200, 400, 404, 500} :
           /\ n = Len(req.done) + 1 /\ p = req.paths[n]
           /\ TurnDenied(n, p) \/ TurnFails(n, p, status) \/ TurnReads(n, p)
  BY <1>1
<1>3. /\ ReqType(req) /\ trail \in Seq(Entries) /\ sent \in [AllPaths -> Nat]
      /\ Len(req.done) \in Nat /\ req.done \in Seq(Secrets) /\ req.paths \in Seq(AllPaths)
  BY DEF Inv, ReqInv, ReqType, TrailInv
<1>4. server' = server
  BY <1>1 DEF Outside, world
<1>. DEFINE m == Len(req.done)
<1>5. n = m + 1 /\ m \in Nat /\ m \in 0..Len(req.paths) /\ n \in 0..Len(req.paths) /\ n \in Nat
  BY <1>2, <1>3
<1>6. \A q \in AllPaths : Pending(req, q) = Times(req.paths, m, q)
  BY <1>1 DEF Pending
<1>7. \A q \in AllPaths : Times(req.paths, m, q) \in Nat
  BY <1>5, TimesIsNat
<1>8. \A q \in AllPaths :
        Times(req.paths, n, q) = Times(req.paths, m, q) + (IF p = q THEN 1 ELSE 0)
  BY <1>2, <1>5, TimesOneMore
<1>9. Decision(p, 200) \in Entries /\ Decision(p, 403) \in Entries
  BY EntryTypes
<1>10. \A q \in AllPaths :
         /\ Told(trail, q) \in Int /\ sent[q] \in Nat
         /\ Told(trail, q) >= sent[q] + Times(req.paths, m, q)
         /\ ~server.broken => Told(trail, q) = sent[q] + Times(req.paths, m, q)
  BY <1>3, <1>6, ToldIsInt DEF Books, Agrees
<1>. HIDE DEF m
<1>11. CASE TurnDenied(n, p)
  <2>. DEFINE t == Append(trail, Decision(p, 403))
              s == 403
  <2>1. trail' = t \o Corrections(m, s) /\ sent' = sent
    BY <1>5, <1>11 DEF TurnDenied
  <2>2. t \in Seq(Entries) /\ s \in {200, 400, 403, 404, 500}
    BY <1>3, <1>9
  <2>. HIDE DEF t, s
  <2>3. ASSUME NEW q \in AllPaths
        PROVE  Told(trail', q) = Told(trail, q) - Times(req.paths, m, q) /\ Pending(req', q) = 0
    <3>1. Told(trail', q) = Told(t, q) - Times(req.paths, m, q)
      BY <1>3, <1>5, <2>1, <2>2, ToldCorrected
    <3>2. Told(t, q) = Told(trail, q) + Worth(Decision(p, 403), q)
      BY <1>3, <1>9, ToldAppend DEF t
    <3>3. Told(t, q) = Told(trail, q)
      BY <1>10, <3>2, DecisionWorth
    <3>4. req' = [req EXCEPT !.reply = Reply(403, <<>>)]
      BY <1>11 DEF TurnDenied
    <3>5. Pending(req', q) = 0
      <4>1. Reply(403, <<>>) # NoReply
        BY IsReply
      <4>. QED BY <1>3, <3>4, <4>1, Answers
    <3>. QED BY <3>1, <3>3, <3>5
  <2>4. ASSUME NEW q \in AllPaths
        PROVE  /\ Told(trail', q) >= sent'[q] + Pending(req', q)
               /\ ~server.broken => Told(trail', q) = sent'[q] + Pending(req', q)
    BY <1>7, <1>10, <2>1, <2>3
  <2>5. Agrees(trail', sent', req', server'.broken)
    BY <1>4, <2>4 DEF Agrees
  <2>. QED BY <2>5 DEF Books
<1>12. CASE TurnFails(n, p, status)
  <2>. DEFINE t == Append(trail, Decision(p, 200))
  <2>1. /\ trail' = t \o Corrections(n, status) /\ sent' = sent /\ status \in {400, 404, 500}
        /\ req' = [req EXCEPT !.reply = Reply(status, <<>>)]
    BY <1>12 DEF TurnFails
  <2>2. t \in Seq(Entries) /\ status \in {200, 400, 403, 404, 500} /\ status # 0
    BY <1>3, <1>9, <2>1
  <2>. HIDE DEF t
  <2>3. ASSUME NEW q \in AllPaths
        PROVE  Told(trail', q) = Told(trail, q) - Times(req.paths, m, q) /\ Pending(req', q) = 0
    <3>1. Told(trail', q) = Told(t, q) - Times(req.paths, n, q)
      BY <1>3, <1>5, <2>1, <2>2, ToldCorrected
    <3>2. Told(t, q) = Told(trail, q) + Worth(Decision(p, 200), q)
      BY <1>3, <1>9, ToldAppend DEF t
    <3>3. Worth(Decision(p, 200), q) = IF p = q THEN 1 ELSE 0
      BY DecisionWorth
    <3>4. Told(trail', q) = Told(trail, q) - Times(req.paths, m, q)
      BY <1>7, <1>8, <1>10, <3>1, <3>2, <3>3
    <3>5. Pending(req', q) = 0
      <4>1. Reply(status, <<>>) # NoReply
        BY <2>2, IsReply
      <4>. QED BY <1>3, <2>1, <4>1, Answers
    <3>. QED BY <3>4, <3>5
  <2>4. ASSUME NEW q \in AllPaths
        PROVE  /\ Told(trail', q) >= sent'[q] + Pending(req', q)
               /\ ~server.broken => Told(trail', q) = sent'[q] + Pending(req', q)
    <3>1. sent'[q] = sent[q]
      BY <2>1
    <3>2. Told(trail', q) = Told(trail, q) - Times(req.paths, m, q) /\ Pending(req', q) = 0
      BY <2>3
    <3>. QED BY <1>7, <1>10, <3>1, <3>2
  <2>5. Agrees(trail', sent', req', server'.broken)
    BY <1>4, <2>4 DEF Agrees
  <2>. QED BY <2>5 DEF Books
<1>13. CASE TurnReads(n, p)
  <2>1. ASSUME NEW q \in AllPaths
        PROVE  Told(trail', q) = Told(trail, q) + (IF p = q THEN 1 ELSE 0)
    <3>1. Told(trail', q) = Told(trail, q) + Worth(Decision(p, 200), q)
      BY <1>3, <1>9, <1>13, ToldAppend DEF TurnReads
    <3>. QED BY <3>1, DecisionWorth
  <2>2. /\ req'.kind = "export" /\ req'.paths = req.paths /\ Len(req'.done) = n
    <3>1. req'.done = Append(req.done, Secret(p))
      BY <1>13 DEF TurnReads
    <3>2. Len(Append(req.done, Secret(p))) = Len(req.done) + 1
      BY <1>3
    <3>. QED BY <1>2, <1>13, <3>1, <3>2 DEF TurnReads
  <2>3. ASSUME NEW q \in AllPaths
        PROVE  sent'[q] + Pending(req', q) = sent[q] + Times(req.paths, n, q)
    <3>1. CASE n = Len(req.paths)
      <4>1. req'.reply = Reply(200, Append(req.done, Secret(p)))
        BY <1>13, <3>1 DEF TurnReads
      <4>2. req'.reply # NoReply
        BY <4>1 DEF Reply, NoReply
      <4>3. Pending(req', q) = 0
        BY <4>2, NothingPending
      <4>4. sent' = [r \in AllPaths |-> sent[r] + Times(req.paths, n, r)]
        BY <1>13, <3>1 DEF TurnReads
      <4>5. sent'[q] = sent[q] + Times(req.paths, n, q)
        BY <4>4
      <4>6. Times(req.paths, n, q) \in Nat
        BY <1>7, <1>8
      <4>. QED BY <1>10, <4>3, <4>5, <4>6
    <3>2. CASE n # Len(req.paths)
      <4>1. req'.reply = NoReply /\ sent' = sent
        BY <1>13, <3>2 DEF TurnReads
      <4>. QED BY <2>2, <4>1 DEF Pending
    <3>. QED BY <3>1, <3>2
  <2>4. ASSUME NEW q \in AllPaths
        PROVE  /\ Told(trail', q) >= sent'[q] + Pending(req', q)
               /\ ~server.broken => Told(trail', q) = sent'[q] + Pending(req', q)
    BY <1>7, <1>8, <1>10, <2>1, <2>3
  <2>5. Agrees(trail', sent', req', server'.broken)
    BY <1>4, <2>4 DEF Agrees
  <2>. QED BY <2>5 DEF Books
<1>. QED BY <1>2, <1>11, <1>12, <1>13

LEMMA GetBooks == ASSUME Inv, Books, ServeGet PROVE Books'
<1>1. PICK p \in AllPaths, status \in {200, 404, 500} :
        GetUnknown \/ GetDenied(p) \/ GetFails(p, status) \/ GetReads(p)
  BY GetTurns
<1>2. req.kind = "get" /\ server' = server
  BY GetTurns DEF Outside, world
<1>3. ReqType(req) /\ trail \in Seq(Entries) /\ sent \in [AllPaths -> Nat]
  BY DEF Inv, ReqInv, TrailInv
<1>4. \A q \in AllPaths : Pending(req, q) = 0
  BY <1>2, NothingPending
<1>5. \A q \in AllPaths :
        /\ Told(trail, q) \in Int /\ sent[q] \in Nat /\ Told(trail, q) >= sent[q]
        /\ ~server.broken => Told(trail, q) = sent[q]
  BY <1>3, <1>4, ToldIsInt DEF Books, Agrees
<1>6. Decision(p, 200) \in Entries /\ Decision(p, 403) \in Entries
  BY EntryTypes
<1>7. CASE GetUnknown
  <2>1. Reply(401, <<>>) # NoReply
    BY DEF Reply, NoReply
  <2>. QED BY <1>2, <1>7, <2>1, AnswerBooks DEF GetUnknown
<1>8. CASE GetDenied(p)
  <2>1. ASSUME NEW q \in AllPaths
        PROVE  Told(trail', q) = Told(trail, q) /\ Pending(req', q) = 0 /\ sent'[q] = sent[q]
    <3>1. Told(trail', q) = Told(trail, q) + Worth(Decision(p, 403), q)
      BY <1>3, <1>6, <1>8, ToldAppend DEF GetDenied
    <3>2. Told(trail', q) = Told(trail, q)
      BY <1>5, <3>1, DecisionWorth
    <3>3. Pending(req', q) = 0
      <4>1. Reply(403, <<>>) # NoReply
        BY IsReply
      <4>. QED BY <1>3, <1>8, <4>1, Answers DEF GetDenied
    <3>. QED BY <1>8, <3>2, <3>3 DEF GetDenied
  <2>2. Agrees(trail', sent', req', server'.broken)
    BY <1>2, <1>5, <2>1 DEF Agrees
  <2>. QED BY <2>2 DEF Books
<1>9. CASE GetFails(p, status)
  <2>. DEFINE t == Append(trail, Decision(p, 200))
  <2>1. Correction(p, status) \in Entries /\ t \in Seq(Entries) /\ status # 0
    BY <1>3, <1>6, <1>9, EntryTypes DEF GetFails
  <2>2. trail' = Append(t, Correction(p, status))
    <3>1. trail' = trail \o <<Decision(p, 200), Correction(p, status)>>
      BY <1>9 DEF GetFails
    <3>2. \A a, b : trail \o <<a, b>> = Append(Append(trail, a), b)
      BY <1>3
    <3>. QED BY <3>1, <3>2
  <2>3. ASSUME NEW q \in AllPaths
        PROVE  Told(trail', q) = Told(trail, q) /\ Pending(req', q) = 0 /\ sent'[q] = sent[q]
    <3>1. Told(t, q) = Told(trail, q) + Worth(Decision(p, 200), q)
      BY <1>3, <1>6, ToldAppend
    <3>. HIDE DEF t
    <3>2. Told(trail', q) = Told(t, q) + Worth(Correction(p, status), q)
      BY <2>1, <2>2, ToldAppend
    <3>3. /\ Worth(Decision(p, 200), q) = IF p = q THEN 1 ELSE 0
          /\ Worth(Correction(p, status), q) = IF p = q THEN -1 ELSE 0
      BY DecisionWorth
    <3>4. Told(trail', q) = Told(trail, q)
      BY <1>5, <3>1, <3>2, <3>3
    <3>5. Pending(req', q) = 0
      <4>1. Reply(status, <<>>) # NoReply
        BY <2>1, IsReply
      <4>. QED BY <1>3, <1>9, <4>1, Answers DEF GetFails
    <3>. QED BY <1>9, <3>4, <3>5 DEF GetFails
  <2>4. Agrees(trail', sent', req', server'.broken)
    BY <1>2, <1>5, <2>3 DEF Agrees
  <2>. QED BY <2>4 DEF Books
<1>10. CASE GetReads(p)
  <2>1. ASSUME NEW q \in AllPaths
        PROVE  /\ Told(trail', q) = Told(trail, q) + (IF p = q THEN 1 ELSE 0)
               /\ sent'[q] = sent[q] + (IF p = q THEN 1 ELSE 0) /\ Pending(req', q) = 0
    <3>1. Told(trail', q) = Told(trail, q) + Worth(Decision(p, 200), q)
      BY <1>3, <1>6, <1>10, ToldAppend DEF GetReads
    <3>2. Told(trail', q) = Told(trail, q) + (IF p = q THEN 1 ELSE 0)
      BY <3>1, DecisionWorth
    <3>3. Pending(req', q) = 0
      <4>1. Reply(200, <<Secret(p)>>) # NoReply
        BY IsReply
      <4>. QED BY <1>3, <1>10, <4>1, Answers DEF GetReads
    <3>4. sent'[q] = sent[q] + (IF p = q THEN 1 ELSE 0)
      BY <1>3, <1>5, <1>10 DEF GetReads
    <3>. QED BY <3>2, <3>3, <3>4
  <2>2. Agrees(trail', sent', req', server'.broken)
    BY <1>2, <1>5, <2>1 DEF Agrees
  <2>. QED BY <2>2 DEF Books
<1>. QED BY <1>1, <1>7, <1>8, <1>9, <1>10

LEMMA AuditFailsBooks == ASSUME Inv, Books, AuditFails PROVE Books'
<1>. DEFINE p == req.paths[Len(req.done) + 1]
<1>1. /\ req.kind # "none" /\ req.reply = NoReply
      /\ req' = [req EXCEPT !.reply = Reply(503, <<>>)]
      /\ trail' = trail \/ (req.kind # "list" /\ trail' = Append(trail, Decision(p, 200)))
      /\ server' = [server EXCEPT !.broken = TRUE] /\ sent' = sent
  BY DEF AuditFails
<1>2. /\ ReqInv(req, had) /\ ReqType(req) /\ trail \in Seq(Entries) /\ sent \in [AllPaths -> Nat]
      /\ server \in [bulk : BOOLEAN, token : BOOLEAN, broken : BOOLEAN]
  BY DEF Inv, ReqInv, TrailInv, WorldInv
<1>3. server'.broken = TRUE
  BY <1>1, <1>2
<1>4. req.kind # "list" => p \in AllPaths
  <2>1. req.paths \in Seq(AllPaths) /\ req.done \in Seq(Secrets)
        /\ req.kind \in {"none", "list", "export", "get"}
    BY <1>2 DEF ReqType
  <2>2. req.kind = "export" => Len(req.done) < Len(req.paths)
    BY <1>1, <1>2 DEF ReqInv
  <2>3. req.kind = "get" => Len(req.paths) = 1 /\ Len(req.done) = 0
    BY <1>2 DEF ReqInv
  <2>4. req.kind # "list" => Len(req.done) + 1 \in 1..Len(req.paths)
    BY <1>1, <2>1, <2>2, <2>3
  <2>. QED BY <2>1, <2>4
<1>. HIDE DEF p
<1>5. ASSUME NEW q \in AllPaths PROVE Told(trail', q) >= sent'[q] + Pending(req', q)
  <2>1. Told(trail, q) \in Int /\ sent[q] \in Nat /\ Pending(req, q) \in Nat
        /\ Told(trail, q) >= sent[q] + Pending(req, q)
    BY <1>2, ToldIsInt, PendingIsNat DEF Books, Agrees
  <2>2. Pending(req', q) = 0
    <3>1. Reply(503, <<>>) # NoReply
      BY IsReply
    <3>. QED BY <1>1, <1>2, <3>1, Answers
  <2>3. CASE trail' = trail
    BY <1>1, <2>1, <2>2, <2>3
  <2>4. CASE req.kind # "list" /\ trail' = Append(trail, Decision(p, 200))
    <3>1. p \in AllPaths /\ Decision(p, 200) \in Entries
      BY <1>4, <2>4, EntryTypes
    <3>2. Told(trail', q) = Told(trail, q) + Worth(Decision(p, 200), q)
      BY <1>2, <2>4, <3>1, ToldAppend
    <3>3. Worth(Decision(p, 200), q) \in {0, 1}
      BY <3>1, DecisionWorth
    <3>. QED BY <1>1, <2>1, <2>2, <3>2, <3>3
  <2>. QED BY <1>1, <2>3, <2>4
<1>6. Agrees(trail', sent', req', server'.broken)
  BY <1>3, <1>5 DEF Agrees
<1>. QED BY <1>6 DEF Books

LEMMA OthersBooks ==
  ASSUME Inv, Books, Put \/ Delete \/ Revoke \/ Restart \/ Crash PROVE Books'
<1>1. trail' = trail /\ sent' = sent
  BY DEF Put, Delete, Revoke, Restart, Crash, Meanwhile
<1>2. server \in [bulk : BOOLEAN, token : BOOLEAN, broken : BOOLEAN]
  BY DEF Inv, WorldInv
<1>3. CASE Put \/ Delete \/ Revoke \/ Restart
  <2>1. req' = req
    BY <1>3 DEF Put, Delete, Revoke, Restart
  <2>2. server'.broken = server.broken
    <3>1. Put \/ Delete => server' = server
      BY DEF Put, Delete
    <3>2. Revoke => server' = [server EXCEPT !.token = FALSE]
      BY DEF Revoke
    <3>3. Restart => \E bulk \in BOOLEAN :
                       server' = [server EXCEPT !.bulk = bulk, !.broken = server.broken]
      BY DEF Restart, Restarted
    <3>. QED BY <1>2, <1>3, <3>1, <3>2, <3>3
  <2>. QED BY <1>1, <2>1, <2>2, SameBooks
<1>4. CASE Crash
  <2>1. req' = NoRequest /\ server'.broken = TRUE
    BY <1>2, <1>4 DEF Crash, Restarted
  <2>2. ReqType(req) /\ trail \in Seq(Entries) /\ sent \in [AllPaths -> Nat]
    BY DEF Inv, ReqInv, TrailInv
  <2>3. ASSUME NEW q \in AllPaths PROVE Told(trail', q) >= sent'[q] + Pending(req', q)
    <3>1. Told(trail, q) \in Int /\ sent[q] \in Nat /\ Pending(req, q) \in Nat
          /\ Told(trail, q) >= sent[q] + Pending(req, q)
      BY <2>2, ToldIsInt, PendingIsNat DEF Books, Agrees
    <3>2. Pending(req', q) = 0
      BY <2>1, NothingPending DEF NoRequest
    <3>. QED BY <1>1, <3>1, <3>2
  <2>4. Agrees(trail', sent', req', server'.broken)
    BY <2>1, <2>3 DEF Agrees
  <2>. QED BY <2>4 DEF Books
<1>. QED BY <1>3, <1>4

LEMMA InitBooks == ASSUME Init PROVE Books
<1>1. trail = <<>> /\ sent = [p \in AllPaths |-> 0] /\ req = NoRequest
  BY DEF Init
<1>2. ASSUME NEW p \in AllPaths PROVE Told(trail, p) = 0 /\ Pending(req, p) = 0 /\ sent[p] = 0
  <2>1. \A kind, status : Hits(trail, kind, status, p) = {}
    BY <1>1 DEF Hits
  <2>2. Told(trail, p) = 0
    BY <2>1, FS_EmptySet DEF Told
  <2>3. req.done = <<>>
    BY <1>1 DEF NoRequest
  <2>4. Pending(req, p) = 0
    BY <2>3, NothingPending
  <2>. QED BY <1>1, <2>2, <2>4
<1>. QED BY <1>2 DEF Books, Agrees

LEMMA NextBooks == ASSUME Inv, Books, [Next]_vars PROVE Books'
<1>1. CASE JobStep \/ Kill
  BY <1>1, JobMoves, JobBooks
<1>2. CASE ServerStep
  BY <1>2, ServeListBooks, RefuseExportBooks, ExportBooks, GetBooks, AuditFailsBooks DEF ServerStep
<1>3. CASE Put \/ Delete \/ Revoke \/ Restart \/ Crash
  BY <1>3, OthersBooks
<1>4. CASE Over \/ UNCHANGED vars
  <2>1. trail' = trail /\ sent' = sent /\ req' = req /\ server' = server
    BY <1>4 DEF Over, vars
  <2>. QED BY <2>1, SameBooks
<1>. QED BY <1>1, <1>2, <1>3, <1>4 DEF Next, Others

LEMMA BooksTrue == ASSUME Inv, Books PROVE TrailIsTrue
<1>1. ReqType(req) /\ trail \in Seq(Entries) /\ sent \in [AllPaths -> Nat]
  BY DEF Inv, ReqInv, TrailInv
<1>2. ASSUME NEW p \in AllPaths
      PROVE  /\ Told(trail, p) >= sent[p]
             /\ Idle /\ ~server.broken => Told(trail, p) = sent[p]
  <2>1. Told(trail, p) \in Int /\ sent[p] \in Nat /\ Pending(req, p) \in Nat
    BY <1>1, ToldIsInt, PendingIsNat
  <2>2. /\ Told(trail, p) >= sent[p] + Pending(req, p)
        /\ ~server.broken => Told(trail, p) = sent[p] + Pending(req, p)
    BY DEF Books, Agrees
  <2>3. Idle => Pending(req, p) = 0
    BY DEF Idle, Pending
  <2>. QED BY <2>1, <2>2, <2>3
<1>3. \A p : Told(trail, p) = Count("decision", 200, p) - Count("correction", 0, p)
  BY DEF Told, Count, Hits
<1>. QED BY <1>2, <1>3 DEF TrailIsTrue, Idle

\* The books of the trail are right at every moment of a job, whatever is written,
\* deleted, denied or revoked between two paths of an export, and wherever the process
\* dies: no value leaves that the trail does not tell of, and while nothing failed it
\* tells of nothing that did not leave.
THEOREM TrailIsTrueHolds == Spec => []TrailIsTrue
<1>1. Init => Inv /\ Books
  BY InitInv, InitBooks
<1>2. Inv /\ Books /\ [Next]_vars => (Inv /\ Books)'
  BY NextInv, NextBooks
<1>3. Inv /\ Books => TrailIsTrue
  BY BooksTrue
<1>. QED BY <1>1, <1>2, <1>3, PTL DEF Spec

-----------------------------------------------------------------------------
(* The size of an export.                                                  *)

ValuesOf(secrets) == [i \in 1..Len(secrets) |-> secrets[i].value]

LEMMA NoBytes == ValuesOf(<<>>) = <<>> /\ Bytes(<<>>) = {}
<1>1. Bytes(<<>>) = {}
  BY DEF Bytes
<1>2. ValuesOf(<<>>) = <<>>
  BY DEF ValuesOf
<1>. QED BY <1>1, <1>2

\* The bytes of one value more are bytes of their own.
LEMMA BytesAppend ==
  ASSUME NEW s \in Seq(Values), NEW v \in Values, IsFiniteSet(Bytes(s))
  PROVE  /\ IsFiniteSet(Bytes(Append(s, v)))
         /\ Cardinality(Bytes(Append(s, v))) = Cardinality(Bytes(s)) + Size[v]
<1>. DEFINE n == Len(s) + 1
            k == Size[v]
            t == Append(s, v)
            new == {n} \X (1..k)
<1>1. /\ n \in Nat /\ DOMAIN s = 1..Len(s) /\ DOMAIN t = 1..n /\ t[n] = v
      /\ \A i \in 1..Len(s) : t[i] = s[i]
  OBVIOUS
<1>2. k \in Nat
  BY DeliveryAssumption
<1>3. DOMAIN t = DOMAIN s \cup {n} /\ n \notin DOMAIN s
  BY <1>1
<1>. HIDE DEF n, k, t, new
<1>4. Bytes(t) = Bytes(s) \cup new
  <2>1. \A i \in DOMAIN s : t[i] = s[i]
    BY <1>1
  <2>. DEFINE f(i) == {i} \X (1..Size[t[i]])
              g(i) == {i} \X (1..Size[s[i]])
  <2>2. f(n) = new
    BY <1>1 DEF new, k
  <2>3. \A i \in DOMAIN s : f(i) = g(i)
    BY <2>1
  <2>4. Bytes(t) = UNION {f(i) : i \in DOMAIN t} /\ Bytes(s) = UNION {g(i) : i \in DOMAIN s}
    BY DEF Bytes
  <2>. HIDE DEF f, g
  <2>. QED BY <1>3, <2>2, <2>3, <2>4
<1>5. Bytes(s) \cap new = {}
  <2>1. ASSUME NEW x \in Bytes(s), x \in new PROVE FALSE
    <3>1. PICK i \in DOMAIN s : x \in {i} \X (1..Size[s[i]])
      BY <2>1 DEF Bytes
    <3>2. x[1] = i /\ x[1] = n
      BY <2>1, <3>1 DEF new
    <3>. QED BY <1>3, <3>2
  <2>. QED BY <2>1
<1>6. IsFiniteSet(new) /\ Cardinality(new) = k
  <2>1. IsFiniteSet({n}) /\ Cardinality({n}) = 1
    BY FS_Singleton
  <2>2. IsFiniteSet(1..k) /\ Cardinality(1..k) = IF 1 > k THEN 0 ELSE k - 1 + 1
    BY <1>2, FS_Interval
  <2>3. Cardinality(1..k) = k
    BY <1>2, <2>2
  <2>4. IsFiniteSet(new) /\ Cardinality(new) = Cardinality({n}) * Cardinality(1..k)
    BY <2>1, <2>2, FS_Product DEF new
  <2>. QED BY <1>2, <2>1, <2>3, <2>4
<1>7. Cardinality(Bytes(s)) \in Nat
  BY FS_CardinalityType
<1>8. /\ IsFiniteSet(Bytes(s) \cup new)
      /\ Cardinality(Bytes(s) \cup new) =
           Cardinality(Bytes(s)) + Cardinality(new) - Cardinality(Bytes(s) \cap new)
  BY <1>6, FS_Union
<1>9. Cardinality(Bytes(s) \cap new) = 0
  BY <1>5, FS_EmptySet
<1>10. IsFiniteSet(Bytes(t)) /\ Cardinality(Bytes(t)) = Cardinality(Bytes(s)) + k
  BY <1>2, <1>4, <1>6, <1>7, <1>8, <1>9
<1>. QED BY <1>10 DEF t, k

LEMMA ValuesAppend ==
  ASSUME NEW s \in Seq(Secrets), NEW x, x.value \in Values
  PROVE  /\ ValuesOf(s) \in Seq(Values) /\ Len(ValuesOf(s)) = Len(s)
         /\ ValuesOf(Append(s, x)) = Append(ValuesOf(s), x.value)
<1>. DEFINE f == ValuesOf(s)
            n == Len(s)
<1>1. n \in Nat /\ f = [i \in 1..n |-> s[i].value]
  BY DEF ValuesOf
<1>2. \A i \in 1..n : s[i].value \in Values
  <2>1. \A i \in 1..n : s[i] \in Secrets
    OBVIOUS
  <2>. QED BY <2>1 DEF Secrets
<1>3. f = [i \in 1..n |-> f[i]] /\ \A i \in 1..n : f[i] \in Values /\ f[i] = s[i].value
  BY <1>1, <1>2
<1>4. /\ Len(Append(s, x)) = n + 1 /\ Append(s, x)[n + 1] = x
      /\ \A i \in 1..n : Append(s, x)[i] = s[i]
  OBVIOUS
<1>. HIDE DEF f, n
<1>5. f \in Seq(Values) /\ Len(f) = n
  BY <1>1, <1>3, FunctionSeq
<1>6. /\ Append(f, x.value) = [i \in 1..(n + 1) |-> Append(f, x.value)[i]]
      /\ Append(f, x.value)[n + 1] = x.value
      /\ \A i \in 1..n : Append(f, x.value)[i] = f[i]
  BY <1>5
<1>7. \A i \in 1..(n + 1) : Append(f, x.value)[i] = Append(s, x)[i].value
  <2>1. \A i \in 1..(n + 1) : i \in 1..n \/ i = n + 1
    BY <1>1
  <2>. QED BY <1>3, <1>4, <1>6, <2>1
<1>8. ValuesOf(Append(s, x)) = [i \in 1..(n + 1) |-> Append(s, x)[i].value]
  BY <1>4 DEF ValuesOf
<1>9. ValuesOf(Append(s, x)) = Append(f, x.value)
  BY <1>6, <1>7, <1>8
<1>. QED BY <1>5, <1>9 DEF f, n

-----------------------------------------------------------------------------
(* Why the service refuses.                                                *)

\* One of the paths was once in one of the states.
Held(paths, h, states) == \E i \in DOMAIN paths : h[paths[i]] \cap states # {}

TooMuch(paths, h) == ~Exportable(paths) \/ TooLarge(paths, h)

\* Who may not read was denied, and a token that is not valid was revoked.
WorldTrue ==
  /\ \A p \in AllPaths : p \notin grants.read => "denied" \in had[p]
  /\ ~server.token => revoked

\* The running total of an export is the size of what it holds.
Weighs(r) ==
  r.kind = "export" =>
    /\ IsFiniteSet(Bytes(ValuesOf(r.done)))
    /\ r.bytes = Cardinality(Bytes(ValuesOf(r.done)))

\* An answer says what was so at some moment.
ReplyTrue(r, h, rev, broken) ==
  /\ r.reply.status \in {0, 200, 400, 401, 403, 404, 500, 503}
  /\ r.reply.status = 0 => r.reply = NoReply
  /\ r.kind = "list" => r.reply.status \notin {400, 403, 404, 500}
  /\ r.kind = "get" => r.reply.status # 400
  /\ r.reply.status = 401 => rev
  /\ r.reply.status = 503 => broken
  /\ r.reply.status = 403 => Held(r.paths, h, {"denied"})
  /\ r.reply.status = 500 => Held(r.paths, h, {"binary"})
  /\ r.reply.status = 404 /\ r.kind = "get" => Held(r.paths, h, {"absent", "deleted"})
  /\ r.reply.status = 400 => TooMuch(r.paths, h)

\* And so does what the job ends with.
OutcomeTrue(c, h, rev, broken) ==
  /\ c.outcome = "unauthenticated" => rev
  /\ c.outcome = "audit-unavailable" => broken
  /\ c.outcome = "forbidden" => Held(c.want, h, {"denied"})
  /\ c.outcome = "unexpected" => Held(c.want, h, {"binary"})
  /\ c.outcome = "not-found" => Held(c.want, h, {"absent", "deleted"})
  /\ c.outcome = "bad-request" => TooMuch(c.want, h)

Reasons ==
  /\ WorldTrue /\ Weighs(req) /\ ReplyTrue(req, had, revoked, server.broken)
  /\ OutcomeTrue(client, had, revoked, server.broken)

\* What was so once was so later.
LEMMA HeldGrows ==
  ASSUME NEW paths \in Seq(AllPaths), NEW h, NEW k, \A p \in AllPaths : h[p] \subseteq k[p],
         NEW states, Held(paths, h, states)
  PROVE  Held(paths, k, states)
BY DEF Held

LEMMA TooMuchGrows ==
  ASSUME NEW paths \in Seq(AllPaths), NEW h, NEW k, \A p \in AllPaths : h[p] \subseteq k[p],
         TooMuch(paths, h)
  PROVE  TooMuch(paths, k)
<1>1. ASSUME TooLarge(paths, h) PROVE TooLarge(paths, k)
  <2>1. PICK n \in DOMAIN paths : \E values \in [1..n -> Values] :
               /\ \A i \in 1..n : values[i] \in h[paths[i]]
               /\ Cardinality(Bytes(values)) > MaxBytes
    BY <1>1 DEF TooLarge
  <2>2. PICK values \in [1..n -> Values] :
               /\ \A i \in 1..n : values[i] \in h[paths[i]]
               /\ Cardinality(Bytes(values)) > MaxBytes
    BY <2>1
  <2>3. \A i \in 1..n : paths[i] \in AllPaths
    BY <2>1
  <2>4. \A i \in 1..n : values[i] \in k[paths[i]]
    BY <2>2, <2>3
  <2>. QED BY <2>1, <2>2, <2>4 DEF TooLarge
<1>. QED BY <1>1 DEF TooMuch

LEMMA ReplyTrueGrows ==
  ASSUME NEW r, r.paths \in Seq(AllPaths), NEW h, NEW k, \A p \in AllPaths : h[p] \subseteq k[p],
         NEW a, NEW b, NEW c, NEW d, a => b, c => d, ReplyTrue(r, h, a, c)
  PROVE  ReplyTrue(r, k, b, d)
<1>. DEFINE paths == r.paths
<1>1. \A states : Held(paths, h, states) => Held(paths, k, states)
  BY HeldGrows
<1>2. TooMuch(paths, h) => TooMuch(paths, k)
  BY TooMuchGrows
<1>. QED BY <1>1, <1>2 DEF ReplyTrue

LEMMA OutcomeTrueGrows ==
  ASSUME NEW r, r.want \in Seq(AllPaths), NEW h, NEW k, \A p \in AllPaths : h[p] \subseteq k[p],
         NEW a, NEW b, NEW c, NEW d, a => b, c => d, OutcomeTrue(r, h, a, c)
  PROVE  OutcomeTrue(r, k, b, d)
<1>. DEFINE paths == r.want
<1>1. \A states : Held(paths, h, states) => Held(paths, k, states)
  BY HeldGrows
<1>2. TooMuch(paths, h) => TooMuch(paths, k)
  BY TooMuchGrows
<1>. QED BY <1>1, <1>2 DEF OutcomeTrue

LEMMA Unanswered ==
  ASSUME NEW r, r.reply = NoReply, NEW h, NEW a, NEW b PROVE ReplyTrue(r, h, a, b)
<1>1. r.reply.status = 0
  BY DEF NoReply, Reply
<1>. QED BY <1>1 DEF ReplyTrue

LEMMA NothingWeighs ==
  ASSUME NEW r, r.done = <<>>, r.bytes = 0 PROVE Weighs(r)
<1>1. Bytes(ValuesOf(r.done)) = {}
  BY NoBytes
<1>2. IsFiniteSet({}) /\ Cardinality({}) = 0
  BY FS_EmptySet
<1>. QED BY <1>1, <1>2 DEF Weighs

LEMMA FreshRequest ==
  ASSUME NEW kind, NEW paths, Send(kind, paths), NEW h, NEW a, NEW b
  PROVE  Weighs(req') /\ ReplyTrue(req', h, a, b)
<1>1. req' = [kind |-> kind, paths |-> paths, done |-> <<>>, bytes |-> 0, reply |-> NoReply]
  BY DEF Send, NoRequest
<1>2. req'.done = <<>> /\ req'.bytes = 0 /\ req'.reply = NoReply
  BY <1>1
<1>. QED BY <1>2, NothingWeighs, Unanswered

LEMMA Unremarkable ==
  ASSUME NEW c, c.outcome \notin Refused, NEW h, NEW a, NEW b PROVE OutcomeTrue(c, h, a, b)
BY DEF OutcomeTrue, Refused

\* What one of the paths of a job was, the set it asked for held.
LEMMA AskedIsWanted ==
  ASSUME Inv, NEW kind \in Asking, Answered(kind), kind # "list", NEW h
  PROVE  /\ \A states : Held(req.paths, h, states) => Held(client.want, h, states)
         /\ kind = "export" => req.paths = client.want
<1>1. client.at = kind /\ req.kind = kind /\ Stage(job, client, req, trail, had)
  BY DEF Inv, Answered
<1>2. CASE kind = "export"
  <2>1. req.paths = client.want
    BY <1>1, <1>2 DEF Stage
  <2>. QED BY <2>1
<1>3. CASE kind = "get"
  <2>. DEFINE n == Len(client.got) + 1
  <2>1. /\ req.paths = <<client.want[n]>> /\ Len(client.got) < Len(client.want)
        /\ client.want \in Seq(AllPaths) /\ client.got \in Seq(Secrets)
    BY <1>1, <1>3 DEF Stage, ClientType
  <2>2. n \in DOMAIN client.want
    BY <2>1
  <2>3. DOMAIN req.paths = {1} /\ req.paths[1] = client.want[n]
    BY <2>1
  <2>. HIDE DEF n
  <2>. QED BY <1>3, <2>2, <2>3 DEF Held
<1>. QED BY <1>2, <1>3 DEF Asking

LEMMA EndsTrue ==
  ASSUME Inv, Reasons, NEW kind \in Asking, EndsWith(kind)
  PROVE  OutcomeTrue(client', had, revoked, server.broken)
<1>. DEFINE n == req.reply.status
<1>1. /\ Answered(kind) /\ n # 200 /\ (kind = "export" => n # 404)
      /\ client' = [client EXCEPT !.at = "done", !.outcome = StatusError(n)]
  BY DEF EndsWith
<1>2. ClientType(client)
  BY DEF Inv, Stage
<1>3. client'.outcome = StatusError(n) /\ client'.want = client.want
  BY <1>1, <1>2 DEF ClientType
<1>4. req.kind = kind /\ req.reply # NoReply
  BY <1>1 DEF Answered
<1>5. ReplyTrue(req, had, revoked, server.broken)
  BY DEF Reasons
<1>6. n \in {400, 401, 403, 404, 500, 503}
  BY <1>1, <1>4, <1>5 DEF ReplyTrue
<1>7. /\ StatusError(400) = "bad-request" /\ StatusError(401) = "unauthenticated"
      /\ StatusError(403) = "forbidden" /\ StatusError(404) = "not-found"
      /\ StatusError(503) = "audit-unavailable" /\ StatusError(500) = "unexpected"
  BY DEF StatusError
<1>. DEFINE want == client.want
<1>8. kind # "list" => \A states : Held(req.paths, had, states) => Held(want, had, states)
  BY <1>1, AskedIsWanted
<1>9. kind = "export" => req.paths = want
  BY <1>1, AskedIsWanted
<1>10. kind \in {"list", "export", "get"}
  BY DEF Asking
<1>. HIDE DEF n
<1>11. CASE n = 400
  <2>1. kind = "export" /\ TooMuch(want, had)
    BY <1>4, <1>5, <1>9, <1>10, <1>11 DEF ReplyTrue, n
  <2>. QED BY <1>3, <1>7, <1>11, <2>1 DEF OutcomeTrue
<1>12. CASE n = 401
  <2>1. revoked
    BY <1>5, <1>12 DEF ReplyTrue, n
  <2>. QED BY <1>3, <1>7, <1>12, <2>1 DEF OutcomeTrue
<1>13. CASE n = 403
  <2>1. Held(want, had, {"denied"})
    BY <1>4, <1>5, <1>8, <1>13 DEF ReplyTrue, n
  <2>. QED BY <1>3, <1>7, <1>13, <2>1 DEF OutcomeTrue
<1>14. CASE n = 404
  <2>1. Held(want, had, {"absent", "deleted"})
    BY <1>1, <1>4, <1>5, <1>8, <1>10, <1>14 DEF ReplyTrue, n
  <2>. QED BY <1>3, <1>7, <1>14, <2>1 DEF OutcomeTrue
<1>15. CASE n = 500
  <2>1. Held(want, had, {"binary"})
    BY <1>4, <1>5, <1>8, <1>15 DEF ReplyTrue, n
  <2>. QED BY <1>3, <1>7, <1>15, <2>1 DEF OutcomeTrue
<1>16. CASE n = 503
  <2>1. server.broken
    BY <1>5, <1>16 DEF ReplyTrue, n
  <2>. QED BY <1>3, <1>7, <1>16, <2>1 DEF OutcomeTrue
<1>. QED BY <1>6, <1>11, <1>12, <1>13, <1>14, <1>15, <1>16

LEMMA JobReasons == ASSUME Inv, Reasons, JobMove PROVE Reasons'
<1>1. grants' = grants /\ had' = had /\ server' = server /\ revoked' = revoked
  BY DEF JobMove, Aside, world
<1>2. WorldTrue'
  BY <1>1 DEF Reasons, WorldTrue
<1>3. Weighs(req') /\ ReplyTrue(req', had', revoked', server'.broken)
  <2>1. CASE req' = req
    BY <1>1, <2>1 DEF Reasons
  <2>2. CASE \E kind \in Asking : \E paths : Send(kind, paths)
    BY <2>2, FreshRequest
  <2>. QED BY <2>1, <2>2 DEF JobMove
<1>4. OutcomeTrue(client', had', revoked', server'.broken)
  <2>1. CASE client'.outcome \notin Refused
    BY <2>1, Unremarkable
  <2>2. CASE \E kind \in Asking : EndsWith(kind)
    BY <1>1, <2>2, EndsTrue
  <2>. QED BY <2>1, <2>2 DEF JobMove
<1>. QED BY <1>2, <1>3, <1>4 DEF Reasons

\* The server answers, and what is outside stays.
LEMMA ServerReasons ==
  ASSUME Reasons, Outside, Weighs(req'), ReplyTrue(req', had, revoked, server.broken)
  PROVE  Reasons'
<1>1. grants' = grants /\ had' = had /\ server' = server /\ revoked' = revoked /\ client' = client
  BY DEF Outside, world
<1>2. WorldTrue'
  BY <1>1 DEF Reasons, WorldTrue
<1>3. /\ Weighs(req') /\ ReplyTrue(req', had', revoked', server'.broken)
      /\ OutcomeTrue(client', had', revoked', server'.broken)
  BY <1>1 DEF Reasons
<1>. QED BY <1>2, <1>3 DEF Reasons

\* An answer to a request leaves the rest of it as it is.
LEMMA Replied ==
  ASSUME Inv, Reasons, NEW n, NEW body, req' = [req EXCEPT !.reply = Reply(n, body)]
  PROVE  /\ Weighs(req') /\ req'.kind = req.kind /\ req'.paths = req.paths
         /\ req'.reply.status = n
<1>1. ReqType(req)
  BY DEF Inv, ReqInv
<1>2. /\ req'.kind = req.kind /\ req'.paths = req.paths /\ req'.done = req.done
      /\ req'.bytes = req.bytes /\ req'.reply = Reply(n, body)
  BY <1>1 DEF ReqType
<1>3. Reply(n, body).status = n
  BY DEF Reply
<1>4. Weighs(req')
  BY <1>2 DEF Reasons, Weighs
<1>. QED BY <1>2, <1>3, <1>4

LEMMA ServeListReasons == ASSUME Inv, Reasons, ServeList PROVE Reasons'
<1>1. PICK body : req' = [req EXCEPT !.reply = IF server.token THEN Reply(200, body)
                                                               ELSE Reply(401, <<>>)]
  BY DEF ServeList
<1>2. Outside /\ req.kind = "list" /\ (~server.token => revoked)
  BY DEF ServeList, Outside, Reasons, WorldTrue
<1>3. CASE server.token
  <2>1. req' = [req EXCEPT !.reply = Reply(200, body)]
    BY <1>1, <1>3
  <2>2. Weighs(req') /\ req'.kind = "list" /\ req'.reply.status = 200
    BY <1>2, <2>1, Replied
  <2>3. ReplyTrue(req', had, revoked, server.broken)
    BY <2>2 DEF ReplyTrue
  <2>. QED BY <1>2, <2>2, <2>3, ServerReasons
<1>4. CASE ~server.token
  <2>1. req' = [req EXCEPT !.reply = Reply(401, <<>>)]
    BY <1>1, <1>4
  <2>2. Weighs(req') /\ req'.kind = "list" /\ req'.reply.status = 401
    BY <1>2, <2>1, Replied
  <2>3. ReplyTrue(req', had, revoked, server.broken)
    BY <1>2, <1>4, <2>2 DEF ReplyTrue
  <2>. QED BY <1>2, <2>2, <2>3, ServerReasons
<1>. QED BY <1>3, <1>4

LEMMA RefuseExportReasons == ASSUME Inv, Reasons, RefuseExport PROVE Reasons'
<1>. DEFINE n == CASE ~server.bulk -> 404 [] server.bulk /\ ~server.token -> 401 [] OTHER -> 400
<1>1. /\ Outside /\ req.kind = "export" /\ req' = [req EXCEPT !.reply = Reply(n, <<>>)]
      /\ ~server.bulk \/ ~server.token \/ ~Exportable(req.paths)
  BY DEF RefuseExport, Outside
<1>2. server.bulk \in BOOLEAN /\ server.token \in BOOLEAN /\ (~server.token => revoked)
  BY DEF Inv, WorldInv, Reasons, WorldTrue
<1>3. n = 404 \/ (n = 401 /\ revoked) \/ (n = 400 /\ ~Exportable(req.paths))
  BY <1>1, <1>2
<1>. HIDE DEF n
<1>4. /\ Weighs(req') /\ req'.kind = "export" /\ req'.paths = req.paths /\ req'.reply.status = n
  BY <1>1, Replied
<1>5. ReplyTrue(req', had, revoked, server.broken)
  BY <1>3, <1>4 DEF ReplyTrue, TooMuch
<1>. QED BY <1>1, <1>4, <1>5, ServerReasons

LEMMA ExportReasons == ASSUME Inv, Reasons, ExportPath PROVE Reasons'
<1>1. /\ req.kind = "export" /\ req.reply = NoReply /\ Outside
      /\ \E n \in 1..Len(req.paths), p \in AllPaths, status \in {200, 400, 404, 500} :
           /\ n = Len(req.done) + 1 /\ p = req.paths[n]
           /\ TurnDenied(n, p) \/ TurnFails(n, p, status) \/ TurnReads(n, p)
  BY ExportTurns
<1>2. PICK n \in 1..Len(req.paths), p \in AllPaths, status \in {200, 400, 404, 500} :
           /\ n = Len(req.done) + 1 /\ p = req.paths[n]
           /\ TurnDenied(n, p) \/ TurnFails(n, p, status) \/ TurnReads(n, p)
  BY <1>1
<1>3. /\ req.paths \in Seq(AllPaths) /\ req.done \in Seq(Secrets) /\ n \in DOMAIN req.paths
      /\ WorldTrue /\ WorldInv /\ store[p] \in had[p]
  BY DEF Inv, ReqInv, ReqType, Reasons, WorldInv
<1>4. /\ IsFiniteSet(Bytes(ValuesOf(req.done)))
      /\ req.bytes = Cardinality(Bytes(ValuesOf(req.done)))
  BY <1>1 DEF Reasons, Weighs
<1>. DEFINE v == store[p]
            old == ValuesOf(req.done)
            x == Secret(p)
<1>5. ASSUME v \in Values
      PROVE  /\ ValuesOf(Append(req.done, x)) = Append(old, v) /\ old \in Seq(Values)
             /\ Len(old) = Len(req.done) /\ IsFiniteSet(Bytes(Append(old, v)))
             /\ Cardinality(Bytes(Append(old, v))) = req.bytes + Size[v]
  <2>1. x.value = v
    BY DEF Secret
  <2>. HIDE DEF x, v
  <2>2. /\ old \in Seq(Values) /\ Len(old) = Len(req.done)
        /\ ValuesOf(Append(req.done, x)) = Append(old, v)
    BY <1>3, <1>5, <2>1, ValuesAppend
  <2>. HIDE DEF old
  <2>3. /\ IsFiniteSet(Bytes(Append(old, v)))
        /\ Cardinality(Bytes(Append(old, v))) = Cardinality(Bytes(old)) + Size[v]
    BY <1>4, <1>5, <2>2, BytesAppend DEF old
  <2>. QED BY <1>4, <2>2, <2>3 DEF old
<1>. HIDE DEF v, old, x
<1>6. CASE TurnDenied(n, p)
  <2>1. p \notin grants.read /\ req' = [req EXCEPT !.reply = Reply(403, <<>>)]
    BY <1>6 DEF TurnDenied
  <2>2. /\ Weighs(req') /\ req'.kind = "export" /\ req'.paths = req.paths
        /\ req'.reply.status = 403
    BY <1>1, <2>1, Replied
  <2>3. "denied" \in had[req.paths[n]]
    BY <1>2, <1>3, <2>1 DEF WorldTrue
  <2>4. Held(req.paths, had, {"denied"})
    BY <1>3, <2>3 DEF Held
  <2>5. ReplyTrue(req', had, revoked, server.broken)
    BY <2>2, <2>4 DEF ReplyTrue
  <2>. QED BY <1>1, <2>2, <2>5, ServerReasons
<1>7. CASE TurnFails(n, p, status)
  <2>1. /\ status \in {400, 404, 500} /\ ReadEnds(p, status)
        /\ status = 400 => v \in Values /\ req.bytes + Size[v] > MaxBytes
        /\ req' = [req EXCEPT !.reply = Reply(status, <<>>)]
    BY <1>7 DEF TurnFails, v
  <2>2. /\ Weighs(req') /\ req'.kind = "export" /\ req'.paths = req.paths
        /\ req'.reply.status = status
    BY <1>1, <2>1, Replied
  <2>3. status = 500 => Held(req.paths, had, {"binary"})
    <3>1. status = 500 => "binary" \in had[req.paths[n]]
      BY <1>2, <1>3, <2>1 DEF ReadEnds
    <3>. QED BY <1>3, <3>1 DEF Held
  <2>4. ASSUME status = 400 PROVE TooLarge(req.paths, had)
    <3>. DEFINE new == Append(old, v)
    <3>1. /\ old \in Seq(Values) /\ Len(old) = Len(req.done) /\ v \in Values
          /\ Cardinality(Bytes(new)) > MaxBytes
      BY <1>5, <2>1, <2>4
    <3>2. new \in [1..n -> Values] /\ new[n] = v /\ \A i \in 1..Len(req.done) : new[i] = old[i]
      <4>1. n = Len(old) + 1
        BY <1>2, <3>1
      <4>2. /\ new \in Seq(Values) /\ Len(new) = Len(old) + 1 /\ new[Len(old) + 1] = v
            /\ \A i \in 1..Len(old) : new[i] = old[i]
        BY <3>1
      <4>3. new \in [1..Len(new) -> Values]
        <5>. HIDE DEF new
        <5>. QED BY <4>2
      <4>. QED BY <3>1, <4>1, <4>2, <4>3
    <3>3. \A i \in 1..Len(req.done) : old[i] = req.done[i].value
      BY DEF old, ValuesOf
    <3>4. \A i \in 1..Len(req.done) : req.done[i].value \in had[req.paths[i]]
      BY <1>1 DEF Inv, ReqInv, PartOf
    <3>5. v \in had[req.paths[n]]
      BY <1>2, <1>3 DEF v
    <3>. HIDE DEF new
    <3>6. \A i \in 1..n : new[i] \in had[req.paths[i]]
      <4>1. \A i \in 1..n : i \in 1..Len(req.done) \/ i = n
        BY <1>2, <1>3
      <4>. QED BY <3>2, <3>3, <3>4, <3>5, <4>1
    <3>. QED BY <1>3, <3>1, <3>2, <3>6 DEF TooLarge
  <2>5. ReplyTrue(req', had, revoked, server.broken)
    BY <2>1, <2>2, <2>3, <2>4 DEF ReplyTrue, TooMuch
  <2>. QED BY <1>1, <2>2, <2>5, ServerReasons
<1>8. CASE TurnReads(n, p)
  <2>1. /\ v \in Values /\ req'.done = Append(req.done, x) /\ req'.bytes = req.bytes + Size[v]
        /\ req'.reply = NoReply \/ req'.reply = Reply(200, Append(req.done, x))
    BY <1>8 DEF TurnReads, v, x
  <2>2. Weighs(req')
    <3>1. ValuesOf(req'.done) = Append(old, v)
      BY <1>5, <2>1
    <3>2. /\ IsFiniteSet(Bytes(Append(old, v)))
          /\ Cardinality(Bytes(Append(old, v))) = req'.bytes
      BY <1>5, <2>1
    <3>. QED BY <3>1, <3>2 DEF Weighs
  <2>3. ReplyTrue(req', had, revoked, server.broken)
    <3>1. req'.reply.status \in {0, 200} /\ (req'.reply.status = 0 => req'.reply = NoReply)
      BY <2>1 DEF Reply, NoReply
    <3>. QED BY <3>1 DEF ReplyTrue
  <2>. QED BY <1>1, <2>2, <2>3, ServerReasons
<1>. QED BY <1>2, <1>6, <1>7, <1>8

LEMMA GetReasons == ASSUME Inv, Reasons, ServeGet PROVE Reasons'
<1>1. /\ req.kind = "get" /\ req.reply = NoReply /\ Outside /\ Len(req.paths) = 1
      /\ \E p \in AllPaths, status \in {200, 404, 500} :
           /\ p = req.paths[1]
           /\ GetUnknown \/ GetDenied(p) \/ GetFails(p, status) \/ GetReads(p)
  BY GetTurns
<1>2. PICK p \in AllPaths, status \in {200, 404, 500} :
           /\ p = req.paths[1]
           /\ GetUnknown \/ GetDenied(p) \/ GetFails(p, status) \/ GetReads(p)
  BY <1>1
<1>3. req.paths \in Seq(AllPaths) /\ 1 \in DOMAIN req.paths /\ WorldTrue /\ store[p] \in had[p]
  BY <1>1 DEF Inv, ReqInv, ReqType, Reasons, WorldInv
<1>4. CASE GetUnknown
  <2>1. Weighs(req') /\ req'.kind = "get" /\ req'.reply.status = 401
    BY <1>1, <1>4, Replied DEF GetUnknown
  <2>2. revoked
    BY <1>3, <1>4 DEF GetUnknown, WorldTrue
  <2>3. ReplyTrue(req', had, revoked, server.broken)
    BY <2>1, <2>2 DEF ReplyTrue
  <2>. QED BY <1>1, <2>1, <2>3, ServerReasons
<1>5. CASE GetDenied(p)
  <2>1. Weighs(req') /\ req'.kind = "get" /\ req'.paths = req.paths /\ req'.reply.status = 403
    BY <1>1, <1>5, Replied DEF GetDenied
  <2>2. "denied" \in had[req.paths[1]]
    BY <1>2, <1>3, <1>5 DEF GetDenied, WorldTrue
  <2>3. Held(req.paths, had, {"denied"})
    BY <1>3, <2>2 DEF Held
  <2>4. ReplyTrue(req', had, revoked, server.broken)
    BY <2>1, <2>3 DEF ReplyTrue
  <2>. QED BY <1>1, <2>1, <2>4, ServerReasons
<1>6. CASE GetFails(p, status)
  <2>1. Weighs(req') /\ req'.kind = "get" /\ req'.paths = req.paths /\ req'.reply.status = status
    <3>1. req' = [req EXCEPT !.reply = Reply(status, <<>>)]
      BY <1>6 DEF GetFails
    <3>. QED BY <1>1, <3>1, Replied
  <2>2. status \in {404, 500} /\ ReadEnds(p, status)
    BY <1>6 DEF GetFails
  <2>3. /\ status = 500 => "binary" \in had[req.paths[1]]
        /\ status = 404 => store[p] \in had[req.paths[1]] \cap {"absent", "deleted"}
    BY <1>2, <1>3, <2>2 DEF ReadEnds
  <2>4. /\ status = 500 => Held(req.paths, had, {"binary"})
        /\ status = 404 => Held(req.paths, had, {"absent", "deleted"})
    <3>1. \A states : had[req.paths[1]] \cap states # {} => Held(req.paths, had, states)
      BY <1>3 DEF Held
    <3>2. /\ status = 500 => had[req.paths[1]] \cap {"binary"} # {}
          /\ status = 404 => had[req.paths[1]] \cap {"absent", "deleted"} # {}
      BY <2>3
    <3>. QED BY <3>1, <3>2
  <2>5. ReplyTrue(req', had, revoked, server.broken)
    BY <2>1, <2>2, <2>4 DEF ReplyTrue
  <2>. QED BY <1>1, <2>1, <2>5, ServerReasons
<1>7. CASE GetReads(p)
  <2>1. Weighs(req') /\ req'.reply.status = 200
    BY <1>7, Replied DEF GetReads
  <2>2. ReplyTrue(req', had, revoked, server.broken)
    BY <2>1 DEF ReplyTrue
  <2>. QED BY <1>1, <2>1, <2>2, ServerReasons
<1>. QED BY <1>2, <1>4, <1>5, <1>6, <1>7

LEMMA AuditFailsReasons == ASSUME Inv, Reasons, AuditFails PROVE Reasons'
<1>1. /\ req' = [req EXCEPT !.reply = Reply(503, <<>>)]
      /\ server' = [server EXCEPT !.broken = TRUE]
      /\ UNCHANGED <<client, grants, had, revoked>>
  BY DEF AuditFails
<1>2. server \in [bulk : BOOLEAN, token : BOOLEAN, broken : BOOLEAN] /\ client.want \in Seq(AllPaths)
  BY DEF Inv, WorldInv, Stage, ClientType
<1>3. server'.broken = TRUE /\ server'.token = server.token
  BY <1>1, <1>2
<1>4. WorldTrue'
  BY <1>1, <1>3 DEF Reasons, WorldTrue
<1>5. Weighs(req') /\ req'.reply.status = 503
  BY <1>1, Replied
<1>6. ReplyTrue(req', had', revoked', server'.broken)
  BY <1>3, <1>5 DEF ReplyTrue
<1>7. OutcomeTrue(client', had', revoked', server'.broken)
  BY <1>1, <1>3 DEF Reasons, OutcomeTrue
<1>. QED BY <1>4, <1>5, <1>6, <1>7 DEF Reasons

\* Others make the past longer and nothing in it untrue.
LEMMA OthersReasons ==
  ASSUME Inv, Reasons, WorldTrue', client' = client, req' = req \/ req' = NoRequest,
         \A p \in AllPaths : had[p] \subseteq had'[p], revoked => revoked',
         server.broken => server'.broken
  PROVE  Reasons'
<1>1. req.paths \in Seq(AllPaths) /\ client.want \in Seq(AllPaths)
  BY DEF Inv, ReqInv, ReqType, Stage, ClientType
<1>2. ReplyTrue(req, had, revoked, server.broken) /\ OutcomeTrue(client, had, revoked, server.broken)
  BY DEF Reasons
<1>3. ReplyTrue(req, had', revoked', server'.broken)
  BY <1>1, <1>2, ReplyTrueGrows
<1>4. OutcomeTrue(client, had', revoked', server'.broken)
  BY <1>1, <1>2, OutcomeTrueGrows
<1>5. Weighs(NoRequest) /\ ReplyTrue(NoRequest, had', revoked', server'.broken)
  <2>1. NoRequest.reply = NoReply /\ NoRequest.done = <<>> /\ NoRequest.bytes = 0
    BY DEF NoRequest
  <2>. QED BY <2>1, NothingWeighs, Unanswered
<1>6. Weighs(req') /\ ReplyTrue(req', had', revoked', server'.broken)
  BY <1>3, <1>5 DEF Reasons
<1>7. OutcomeTrue(client', had', revoked', server'.broken)
  BY <1>4
<1>. QED BY <1>6, <1>7 DEF Reasons

LEMMA RestartedReasons ==
  ASSUME Inv, Reasons, NEW b \in BOOLEAN, server.broken => b, Restarted(b), client' = client,
         req' = req \/ req' = NoRequest
  PROVE  Reasons'
<1>1. PICK denied \in Denials :
        /\ grants' = [grants EXCEPT !.read = AllPaths \ denied]
        /\ had' = [p \in AllPaths |-> had[p] \cup IF p \in denied THEN {"denied"} ELSE {}]
  BY DEF Restarted
<1>2. PICK bulk \in BOOLEAN : server' = [server EXCEPT !.bulk = bulk, !.broken = b]
  BY DEF Restarted
<1>3. /\ server \in [bulk : BOOLEAN, token : BOOLEAN, broken : BOOLEAN] /\ revoked' = revoked
      /\ grants \in [list : SUBSET AllPaths, read : SUBSET AllPaths]
  BY DEF Inv, WorldInv, Restarted
<1>4. server'.broken = b /\ server'.token = server.token
  BY <1>2, <1>3
<1>5. grants'.read = AllPaths \ denied
  BY <1>1, <1>3
<1>6. \A p \in AllPaths : had[p] \subseteq had'[p] /\ (p \in denied => "denied" \in had'[p])
  BY <1>1
<1>7. WorldTrue'
  BY <1>3, <1>4, <1>5, <1>6 DEF Reasons, WorldTrue
<1>. QED BY <1>3, <1>4, <1>6, <1>7, OthersReasons

LEMMA WorldReasons ==
  ASSUME Inv, Reasons, Put \/ Delete \/ Revoke \/ Restart \/ Crash PROVE Reasons'
<1>1. client' = client
  BY DEF Put, Delete, Revoke, Restart, Crash, Meanwhile
<1>2. /\ server \in [bulk : BOOLEAN, token : BOOLEAN, broken : BOOLEAN]
      /\ had \in [AllPaths -> SUBSET (Values \cup {"absent", "deleted", "denied"})]
  BY DEF Inv, WorldInv
<1>3. CASE Put \/ Delete
  <2>1. req' = req /\ grants' = grants /\ server' = server /\ revoked' = revoked
    BY <1>3 DEF Put, Delete
  <2>2. \E p \in AllPaths : \E v : had' = [had EXCEPT ![p] = @ \cup {v}]
    BY <1>3 DEF Put, Delete
  <2>3. \A q \in AllPaths : had[q] \subseteq had'[q]
    BY <1>2, <2>2
  <2>4. WorldTrue'
    BY <2>1, <2>3 DEF Reasons, WorldTrue
  <2>. QED BY <1>1, <2>1, <2>3, <2>4, OthersReasons
<1>4. CASE Revoke
  <2>1. /\ server' = [server EXCEPT !.token = FALSE] /\ revoked' = TRUE
        /\ UNCHANGED <<req, store, grants, had>>
    BY <1>4 DEF Revoke
  <2>2. server'.broken = server.broken
    BY <1>2, <2>1
  <2>3. WorldTrue'
    BY <2>1 DEF Reasons, WorldTrue
  <2>. QED BY <1>1, <2>1, <2>2, <2>3, OthersReasons
<1>5. CASE Restart
  <2>1. server.broken \in BOOLEAN /\ Restarted(server.broken) /\ req' = req
    BY <1>2, <1>5 DEF Restart
  <2>. QED BY <1>1, <2>1, RestartedReasons
<1>6. CASE Crash
  <2>1. Restarted(TRUE) /\ req' = NoRequest
    BY <1>6 DEF Crash
  <2>. QED BY <1>1, <2>1, RestartedReasons
<1>. QED BY <1>3, <1>4, <1>5, <1>6

LEMMA InitReasons == ASSUME Init PROVE Reasons
<1>1. PICK denied \in Denials, hidden \in Hidings :
        /\ grants = [list |-> AllPaths \ hidden, read |-> AllPaths \ denied]
        /\ had = [p \in AllPaths |-> {store[p]} \cup IF p \in denied THEN {"denied"} ELSE {}]
  BY DEF Init
<1>2. PICK bulk \in BOOLEAN, token \in BOOLEAN :
        /\ server = [bulk |-> bulk, token |-> token, broken |-> FALSE]
        /\ revoked = ~token
  BY DEF Init
<1>3. WorldTrue
  BY <1>1, <1>2 DEF WorldTrue
<1>4. req.reply = NoReply /\ req.done = <<>> /\ req.bytes = 0 /\ client.outcome = None
  BY DEF Init, NoRequest
<1>5. Weighs(req) /\ ReplyTrue(req, had, revoked, server.broken)
  BY <1>4, NothingWeighs, Unanswered
<1>6. OutcomeTrue(client, had, revoked, server.broken)
  BY <1>4, Unrefused, Unremarkable
<1>. QED BY <1>3, <1>5, <1>6 DEF Reasons

LEMMA NextReasons == ASSUME Inv, Reasons, [Next]_vars PROVE Reasons'
<1>1. CASE JobStep \/ Kill
  BY <1>1, JobMoves, JobReasons
<1>2. CASE ServerStep
  BY <1>2, ServeListReasons, RefuseExportReasons, ExportReasons, GetReasons, AuditFailsReasons
     DEF ServerStep
<1>3. CASE Put \/ Delete \/ Revoke \/ Restart \/ Crash
  BY <1>3, WorldReasons
<1>4. CASE Over \/ UNCHANGED vars
  <2>1. UNCHANGED <<client, req, grants, had, server, revoked>>
    BY <1>4 DEF Over, vars
  <2>2. WorldTrue'
    BY <2>1 DEF Reasons, WorldTrue
  <2>. QED BY <2>1, <2>2, OthersReasons
<1>. QED BY <1>1, <1>2, <1>3, <1>4 DEF Next, Others

LEMMA ReasonsTrue == ASSUME Inv, Reasons PROVE RefusalIsTrue
<1>1. OutcomeTrue(client, had, revoked, server.broken)
  BY DEF Reasons
<1>2. ASSUME NEW states, Held(client.want, had, states)
      PROVE  \E p \in Wanted : had[p] \cap states # {}
  BY <1>2 DEF Held, Wanted
<1>3. \A x : Held(client.want, had, {x}) => \E p \in Wanted : x \in had[p]
  BY DEF Held, Wanted
<1>. QED BY <1>1, <1>2, <1>3 DEF OutcomeTrue, RefusalIsTrue, TooMuch

\* Whatever the client library makes of an answer, a job never ends with a refusal
\* that was not so: a 404 of a deployment without the bulk route is not taken for a
\* missing secret, and the running total of export_secrets is the size of what was read.
THEOREM RefusalIsTrueHolds == Spec => []RefusalIsTrue
<1>1. Init => Inv /\ Reasons
  BY InitInv, InitReasons
<1>2. Inv /\ Reasons /\ [Next]_vars => (Inv /\ Reasons)'
  BY NextInv, NextReasons
<1>3. Inv /\ Reasons => RefusalIsTrue
  BY ReasonsTrue
<1>. QED BY <1>1, <1>2, <1>3, PTL DEF Spec

-----------------------------------------------------------------------------
(* How far a job still has to go.                                          *)

Level(at) ==
  IF at = "start" THEN 8 ELSE IF at = "list" THEN 7 ELSE IF at = "export" THEN 6
  ELSE IF at = "get" THEN 5 ELSE IF at \in {"exec", "deliver"} THEN 4
  ELSE IF at = "masked" THEN 3 ELSE IF at = "flushed" THEN 2 ELSE IF at = "written" THEN 1
  ELSE 0

\* The paths still to be read one by one.
Left(c) == IF c.at = "get" THEN Len(c.want) - Len(c.got) ELSE 0

Shorter(c, d) == Level(d.at) < Level(c.at) \/ (Level(d.at) = Level(c.at) /\ Left(d) < Left(c))

\* A job goes on to a later stage, or has one path less to read; nobody else takes it
\* back. There is no way to ask twice, or for ever: neither a refusal nor a late answer
\* starts anything again.
JobAdvances == [][JobStep \/ client' # client => Shorter(client, client')]_vars

LEMMA Ended ==
  ASSUME ClientType(client), client.at # "done", NEW o,
         client' = [client EXCEPT !.at = "done", !.outcome = o]
  PROVE  Shorter(client, client')
<1>1. client.at \in Ats /\ client'.at = "done"
  BY DEF ClientType
<1>2. Level("done") = 0 /\ Level(client.at) > 0
  BY <1>1 DEF Level, Ats
<1>. QED BY <1>1, <1>2 DEF Shorter

LEMMA ExitEnded ==
  ASSUME ClientType(client), client.at # "done", NEW o, Exit(o) PROVE Shorter(client, client')
BY Ended DEF Exit

LEMMA FetchAdvances ==
  ASSUME ClientType(client), client.at \in {"start", "list"}, NEW paths, Fetch(paths)
  PROVE  Shorter(client, client')
<1>1. CASE NamesProblem(paths) # Fine
  <2>1. Exit(NamesProblem(paths))
    BY <1>1 DEF Fetch
  <2>. QED BY <2>1, ExitEnded
<1>2. CASE NamesProblem(paths) = Fine
  <2>1. client' = [client EXCEPT !.at = "export", !.want = paths]
    BY <1>2 DEF Fetch
  <2>2. client'.at = "export"
    BY <2>1 DEF ClientType
  <2>. QED BY <2>2 DEF Shorter, Level
<1>. QED BY <1>1, <1>2

LEMMA AssembleAdvances ==
  ASSUME ClientType(client), client.at \in {"export", "get"}, NEW secrets, Assemble(secrets)
  PROVE  Shorter(client, client')
<1>. DEFINE paths == [i \in DOMAIN secrets |-> secrets[i].path]
            o == IF Nameable(paths) THEN "control-name" ELSE "names"
            at == IF job.tool = "run" THEN "exec" ELSE "deliver"
<1>1. Exit(o) \/ client' = [client EXCEPT !.got = secrets, !.at = at]
  BY DEF Assemble
<1>2. at \in {"exec", "deliver"}
  OBVIOUS
<1>. HIDE DEF o, at
<1>3. CASE Exit(o)
  BY <1>3, ExitEnded
<1>4. CASE client' = [client EXCEPT !.got = secrets, !.at = at]
  <2>1. client'.at = at
    BY <1>4 DEF ClientType
  <2>. QED BY <1>2, <2>1 DEF Shorter, Level
<1>. QED BY <1>1, <1>3, <1>4

LEMMA BeginAdvances == ASSUME Inv, Begin PROVE Shorter(client, client')
<1>1. client.at = "start" /\ ClientType(client)
  BY DEF Begin, Inv, Stage
<1>. DEFINE problem == IF job.tool = "run" THEN RunProblem ELSE CiProblem
            bad == problem # Fine
<1>2. job.prefix \in BOOLEAN
  <2>. DEFINE j == [job |-> job, site |-> site]
  <2>1. j \in Jobs /\ j.job = job
    BY DEF Inv, WorldInv
  <2>. HIDE DEF j
  <2>. QED BY <2>1, JobsAssumption
<1>3. \/ Exit(problem) \/ client' = [client EXCEPT !.at = "list"] \/ Fetch(job.paths)
  <2>1. (CASE bad -> Exit(problem) /\ UNCHANGED req
          [] ~bad /\ job.prefix -> /\ Send("list", <<>>)
                                   /\ client' = [client EXCEPT !.at = "list"]
                                   /\ UNCHANGED runner
          [] ~bad /\ ~job.prefix -> Fetch(job.paths))
    BY DEF Begin
  <2>. HIDE DEF bad
  <2>. QED BY <2>1, <1>2
<1>. HIDE DEF problem, bad
<1>4. CASE Exit(problem)
  BY <1>1, <1>4, ExitEnded
<1>5. CASE client' = [client EXCEPT !.at = "list"]
  <2>1. client'.at = "list"
    BY <1>1, <1>5 DEF ClientType
  <2>. QED BY <1>1, <2>1 DEF Shorter, Level
<1>6. CASE Fetch(job.paths)
  BY <1>1, <1>6, FetchAdvances
<1>. QED BY <1>3, <1>4, <1>5, <1>6

LEMMA TakeListingAdvances == ASSUME Inv, TakeListing PROVE Shorter(client, client')
<1>1. ClientType(client) /\ client.at = "list"
  BY DEF TakeListing, Inv, Stage, Answered
<1>. DEFINE good == req.reply.status = 200
            empty == req.reply.body = <<>>
<1>2. \/ \E o : Exit(o)
      \/ Fetch(req.reply.body)
  <2>1. (CASE ~good -> Exit(StatusError(req.reply.status)) /\ UNCHANGED req
          [] good /\ empty -> Exit("nothing-under-prefix") /\ UNCHANGED req
          [] OTHER -> Fetch(req.reply.body))
    BY DEF TakeListing
  <2>. HIDE DEF good, empty
  <2>2. Exit(StatusError(req.reply.status)) \/ Exit("nothing-under-prefix") \/ Fetch(req.reply.body)
    BY <2>1
  <2>. QED BY <2>2
<1>. QED BY <1>1, <1>2, ExitEnded, FetchAdvances

LEMMA TakeExportAdvances == ASSUME Inv, TakeExport PROVE Shorter(client, client')
<1>1. ClientType(client) /\ client.at = "export"
  BY DEF TakeExport, Inv, Stage, Answered
<1>. DEFINE s == req.reply.status
            a == s = 200
            b == s = 404
<1>2. \/ Assemble(req.reply.body)
      \/ client' = [client EXCEPT !.at = "get"]
      \/ Exit(StatusError(s))
  <2>1. (CASE a -> Assemble(req.reply.body) /\ UNCHANGED req
          [] b -> /\ Send("get", SubSeq(client.want, 1, 1))
                  /\ client' = [client EXCEPT !.at = "get"]
                  /\ UNCHANGED runner
          [] OTHER -> Exit(StatusError(s)) /\ UNCHANGED req)
    BY DEF TakeExport
  <2>0. ~(a /\ b)
    OBVIOUS
  <2>. HIDE DEF a, b
  <2>. QED BY <2>0, <2>1
<1>3. CASE Assemble(req.reply.body)
  BY <1>1, <1>3, AssembleAdvances
<1>4. CASE client' = [client EXCEPT !.at = "get"]
  <2>1. client'.at = "get"
    BY <1>1, <1>4 DEF ClientType
  <2>. QED BY <1>1, <2>1 DEF Shorter, Level
<1>5. CASE Exit(StatusError(s))
  BY <1>1, <1>5, ExitEnded
<1>. QED BY <1>2, <1>3, <1>4, <1>5

LEMMA TakeGetAdvances == ASSUME Inv, TakeGet PROVE Shorter(client, client')
<1>1. /\ ClientType(client) /\ client.at = "get" /\ req.kind = "get" /\ Answered("get")
      /\ client.got \in Seq(Secrets) /\ client.want \in Seq(AllPaths)
  BY DEF TakeGet, Inv, Stage, Answered, ClientType
<1>. DEFINE body == req.reply.body
            got == client.got \o body
            n == Len(client.got) + 1
<1>2. CASE req.reply.status = 200
  <2>1. Continue(got, n)
    BY <1>2 DEF TakeGet
  <2>2. body \in Seq(Secrets) /\ Len(body) = 1
    <3>1. Len(req.paths) = 1 /\ Whole(body, req.paths, had) /\ body \in Seq(Secrets)
      BY <1>1, <1>2 DEF Inv, ReqInv
    <3>. QED BY <3>1 DEF Whole
  <2>. HIDE DEF body
  <2>3. got \in Seq(Secrets) /\ Len(got) = Len(client.got) + 1
    BY <1>1, <2>2, OneMore
  <2>. HIDE DEF got, n
  <2>4. CASE n = Len(client.want)
    <3>1. Assemble(got)
      BY <2>1, <2>4 DEF Continue
    <3>. QED BY <1>1, <3>1, AssembleAdvances
  <2>5. CASE n # Len(client.want)
    <3>1. client' = [client EXCEPT !.got = got]
      BY <2>1, <2>5 DEF Continue
    <3>2. client'.at = "get" /\ client'.want = client.want /\ client'.got = got
      BY <1>1, <3>1 DEF ClientType
    <3>3. Left(client') = Len(client.want) - Len(got) /\ Left(client) = Len(client.want) - Len(client.got)
      BY <1>1, <3>2 DEF Left
    <3>4. Len(client.want) \in Nat /\ Len(client.got) \in Nat
      BY <1>1
    <3>5. Left(client') < Left(client)
      <4>. DEFINE a == Len(client.want)
                  b == Len(client.got)
                  c == Len(got)
                  x == Left(client')
                  y == Left(client)
      <4>1. a \in Nat /\ b \in Nat /\ c = b + 1 /\ x = a - c /\ y = a - b
        BY <2>3, <3>3, <3>4
      <4>. HIDE DEF a, b, c, x, y
      <4>2. x < y
        BY <4>1
      <4>. QED BY <4>2 DEF x, y
    <3>. QED BY <1>1, <3>2, <3>5 DEF Shorter
  <2>. QED BY <2>4, <2>5
<1>3. CASE req.reply.status # 200
  <2>1. Exit(StatusError(req.reply.status))
    BY <1>3 DEF TakeGet
  <2>. QED BY <1>1, <2>1, ExitEnded
<1>. QED BY <1>2, <1>3

LEMMA OwnAdvances ==
  ASSUME Inv, GiveUp \/ Exec \/ RenderFails \/ WriteOut \/ Flush \/ Assign \/ Finish \/ Kill
  PROVE  Shorter(client, client')
<1>1. ClientType(client) /\ client.at # "done"
  BY DEF Inv, Stage, GiveUp, Exec, RenderFails, WriteOut, Flush, Assign, Finish, Kill
<1>2. ASSUME NEW sink, NEW lines, NEW o, Refuses(sink, lines, o) PROVE Shorter(client, client')
  BY <1>1, <1>2, Ended DEF Refuses
<1>3. ASSUME NEW o, Exit(o) PROVE Shorter(client, client')
  BY <1>1, <1>3, ExitEnded
<1>4. ASSUME NEW at, Goes(at) PROVE client'.at = at
  BY <1>1, <1>4 DEF Goes, ClientType
<1>5. CASE GiveUp \/ RenderFails \/ Finish
  BY <1>3, <1>5 DEF GiveUp, RenderFails, Finish
<1>6. CASE Exec
  BY <1>1, <1>6, Ended DEF Exec
<1>7. CASE Kill
  BY <1>1, <1>7, Ended DEF Kill
<1>8. CASE WriteOut
  <2>. DEFINE lines == IF job.format = "actions-env" THEN Masks ELSE Assignments
              at == IF job.format = "actions-env" THEN "masked" ELSE "written"
  <2>1. client.at = "deliver" /\ (Goes(at) \/ Refuses("shown", lines, "output"))
    BY <1>8 DEF WriteOut
  <2>2. at \in {"masked", "written"}
    OBVIOUS
  <2>. HIDE DEF lines, at
  <2>3. CASE Goes(at)
    <3>1. client'.at \in {"masked", "written"}
      BY <1>4, <2>2, <2>3
    <3>. QED BY <2>1, <3>1 DEF Shorter, Level
  <2>. QED BY <1>2, <2>1, <2>3
<1>9. CASE Flush
  <2>1. client.at = "masked" /\ (Goes("flushed") \/ Refuses("shown", runner.out, "output"))
    BY <1>9 DEF Flush
  <2>2. CASE Goes("flushed")
    <3>1. client'.at = "flushed"
      BY <1>4, <2>2
    <3>. QED BY <2>1, <3>1 DEF Shorter, Level
  <2>. QED BY <1>2, <2>1, <2>2
<1>10. CASE Assign
  <2>1. /\ client.at = "flushed"
        /\ \/ Exit("environment-file") \/ Goes("written")
           \/ Refuses("file", Assignments, "environment-file")
           \/ Refuses("shown", Assignments, "output")
    BY <1>10 DEF Assign
  <2>2. CASE Goes("written")
    <3>1. client'.at = "written"
      BY <1>4, <2>2
    <3>. QED BY <2>1, <3>1 DEF Shorter, Level
  <2>. QED BY <1>2, <1>3, <2>1, <2>2
<1>. QED BY <1>5, <1>6, <1>7, <1>8, <1>9, <1>10

LEMMA StepAdvances ==
  ASSUME Inv, [Next]_vars, JobStep \/ client' # client PROVE Shorter(client, client')
<1>1. CASE JobStep \/ Kill
  BY <1>1, BeginAdvances, TakeListingAdvances, TakeExportAdvances, TakeGetAdvances, OwnAdvances
     DEF JobStep
<1>2. CASE ServerStep \/ Put \/ Delete \/ Revoke \/ Restart \/ Crash \/ Over \/ UNCHANGED vars
  <2>1. client' = client
    BY <1>2 DEF ServerStep, ServeList, RefuseExport, ExportPath, ServeGet, AuditFails, Put, Delete,
                Revoke, Restart, Crash, Meanwhile, Over, vars
  <2>2. JobStep
    BY <2>1
  <2>. QED BY <1>1, <2>2
<1>. QED BY <1>1, <1>2 DEF Next, Others

\* The part of JobEnds that needs no fairness: at every stage a job has a number of paths
\* left, and each of its steps ends it, brings it to a later stage or leaves one path
\* less, whatever the server answers and others do. A job has only so many steps.
THEOREM JobAdvancesAlways == Spec => [](Left(client) \in Nat) /\ JobAdvances
<1>1. ASSUME Inv PROVE Left(client) \in Nat
  <2>1. /\ client.want \in Seq(AllPaths) /\ client.got \in Seq(Secrets)
        /\ client.at = "get" => Len(client.got) < Len(client.want)
    BY <1>1 DEF Inv, Stage, ClientType
  <2>. QED BY <2>1 DEF Left
<1>2. ASSUME Inv, [Next]_vars
      PROVE  [JobStep \/ client' # client => Shorter(client, client')]_vars
  BY <1>2, StepAdvances
<1>. QED BY <1>1, <1>2, SpecInv, PTL DEF Spec, JobAdvances
=============================================================================
