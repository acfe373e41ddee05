--------------------------- MODULE RequestsProofs ---------------------------
(***************************************************************************)
(* Proofs about Requests, for any number of requests, paths and tokens and *)
(* any policies.                                                           *)
(***************************************************************************)
EXTENDS Requests, TLAPS

\* What a job is made of.
LEMMA JobFacts ==
  ASSUME NEW j \in Jobs
  PROVE  /\ j.kind \in Kinds /\ j.ask \in Asks
         /\ j.token \in Tokens \cup {None} /\ j.target \in Tokens \cup {None}
         /\ j.paths \in Seq(Paths \cup {Sys}) /\ Len(j.paths) \in Nat \ {0}
         /\ Count(j) \in Nat \ {0}
         /\ j.kind \notin {"classify", "export"} => Count(j) = 1
         /\ j.kind = "classify" => Count(j) = 2
         /\ j.kind \in PathKinds => \A i \in 1..Count(j) : PathAt(j, i) \in Paths
         /\ j.kind \notin PathKinds => j.paths = <<Sys>>
         /\ j.kind \in {"revoke", "login"} => j.target \in Tokens
<1>1. j \in Job  BY JobAssumption
<1>2. /\ j.kind \in Kinds /\ j.ask \in Asks
      /\ j.token \in Tokens \cup {None} /\ j.target \in Tokens \cup {None}
      /\ j.paths \in Seq(Paths \cup {Sys})
  BY <1>1 DEF Job
<1>3. j.paths # <<>>  BY JobAssumption
<1>4. Len(j.paths) \in Nat \ {0}  BY <1>2, <1>3
<1>5. j.kind # "export" => Len(j.paths) = 1  BY JobAssumption
<1>6. /\ j.kind \in PathKinds => \A i \in 1..Len(j.paths) : j.paths[i] \in Paths
      /\ j.kind \notin PathKinds => j.paths = <<Sys>>
  BY JobAssumption
<1>7. j.kind \in {"revoke", "login"} => j.target \in Tokens  BY JobAssumption
<1> QED  BY <1>2, <1>4, <1>5, <1>6, <1>7 DEF Count, PathAt, PathKinds

\* Appending to a sequence and changing an element of it.
LEMMA SeqFacts ==
  ASSUME NEW V, NEW s \in Seq(V), NEW v \in V
  PROVE  /\ Append(s, v) \in Seq(V) /\ Len(Append(s, v)) = Len(s) + 1
         /\ Append(s, v)[Len(s) + 1] = v
         /\ \A n \in 1..Len(s) :
              /\ Append(s, v)[n] = s[n]
              /\ [s EXCEPT ![n] = v] \in Seq(V) /\ Len([s EXCEPT ![n] = v]) = Len(s)
OBVIOUS

\* An element of a sequence.
LEMMA ElementIn ==
  ASSUME NEW V, NEW s \in Seq(V), NEW n \in 1..Len(s)
  PROVE  s[n] \in V
OBVIOUS

\* A request about a secret names its path.
LEMMA TargetIsPath ==
  ASSUME NEW r \in Reqs, job[r] \in Jobs, job[r].kind \in PathKinds
  PROVE  Target(r) \in Paths
<1>1. 1 \in 1..Count(job[r])  BY JobFacts
<1>2. PathAt(job[r], 1) \in Paths  BY <1>1, JobFacts
<1> QED  BY <1>2 DEF Target, PathAt

\* A request step moves its own request, only adds to the trail, and leaves the
\* server running.
LEMMA RequestFrame ==
  ASSUME NEW r \in Reqs, Before(r) \/ Deciding(r) \/ Reading(r) \/ Changing(r), LocalTyped
  PROVE  /\ job' = job /\ trail \subseteq trail' /\ up' = up
         /\ \A q \in Reqs \ {r} :
              /\ at'[q] = at[q] /\ done'[q] = done[q] /\ fixed'[q] = fixed[q]
              /\ seen'[q] = seen[q] /\ answer'[q] = answer[q]
<1> USE DEF Goes, Answers, Fails, Records, LocalTyped
<1>1. CASE Before(r)
  BY <1>1 DEF Before, Arrive, Authenticate, Exchange, Reject, RejectBait, ClaimToken, Refuse,
              Lookup, Accepts, Rejects
<1>2. CASE Deciding(r)
  BY <1>2 DEF Deciding, Tier, Decide, ClaimSecret, Correct, Stops, Decided
<1>3. CASE Reading(r)
  BY <1>3 DEF Reading, BadQuery, Policies, Inspect, ReadTokens, Get,
     ListVersions, ListPaths, RecordListing
<1>4. CASE Changing(r)
  BY <1>4 DEF Changing, Put, FindCurrent, Delete, Revoke, Mint
<1> QED  BY <1>1, <1>2, <1>3, <1>4

\* The local state of the requests keeps its type.
LEMMA LocalTypeKept == LocalTyped /\ StoreTyped /\ [Next]_vars => LocalTyped'
<1> SUFFICES ASSUME LocalTyped, StoreTyped, [Next]_vars PROVE LocalTyped'
  OBVIOUS
<1> USE DEF Goes, Answers, Fails, LocalTyped, Steps, Successes, Errors
<1>1. ASSUME NEW r \in Reqs, Before(r) PROVE LocalTyped'
  <2>1. GateStep(job[r], 0) \in Steps  BY DEF GateStep
  <2>2. TokenState(job[r].target) \in Nat  BY DEF TokenState
  <2>3. CASE Arrive(r) \/ Exchange(r) \/ Reject(r) \/ RejectBait(r) \/ ClaimToken(r) \/ Refuse(r)
    BY <2>3 DEF Arrive, Exchange, Reject, RejectBait, ClaimToken, Refuse, Rejects
  <2>4. CASE Authenticate(r)
    BY <2>1, <2>4 DEF Authenticate, Accepts, Rejects
  <2>5. CASE Lookup(r)
    BY <2>2, <2>5 DEF Lookup
  <2> QED  BY <1>1, <2>3, <2>4, <2>5 DEF Before
<1>2. ASSUME NEW r \in Reqs, Deciding(r) PROVE LocalTyped'
  <2>1. \A n : AfterGate(job[r], n) \in Steps  BY DEF AfterGate
  <2>2. CASE Tier(r)
    BY <2>2 DEF Tier, Stops
  <2>3. CASE ClaimSecret(r)
    BY <2>1, <2>3 DEF ClaimSecret
  <2>4. CASE Decide(r)
    <3>0. done' = done \/ done' = [done EXCEPT ![r] = done[r] + 1]
      BY <2>4 DEF Decide, Decided
    <3>1. done' \in [Reqs -> Nat]  BY <3>0
    <3>2. at' \in [Reqs -> Steps] /\ answer' \in [Reqs -> Successes \cup Errors \cup {"none"}]
      BY <2>1, <2>4 DEF Decide, Decided, Stops
    <3> QED  BY <2>4, <3>1, <3>2 DEF Decide
  <2>5. CASE Correct(r)
    <3>0. fixed' = fixed \/ fixed' = [fixed EXCEPT ![r] = fixed[r] + 1]
      BY <2>5 DEF Correct
    <3>1. fixed' \in [Reqs -> Nat]  BY <3>0
    <3>2. at' \in [Reqs -> Steps] /\ answer' \in [Reqs -> Successes \cup Errors \cup {"none"}]
      BY <2>5 DEF Correct
    <3> QED  BY <2>5, <3>1, <3>2 DEF Correct
  <2> QED  BY <1>2, <2>2, <2>3, <2>4, <2>5 DEF Deciding
<1>3. ASSUME NEW r \in Reqs, Reading(r) PROVE LocalTyped'
  <2>1. GateStep(job[r], done[r]) \in Steps  BY DEF GateStep
  <2>2. CASE BadQuery(r) \/ Policies(r) \/ Inspect(r) \/ ReadTokens(r) \/ ListVersions(r)
    BY <2>2 DEF BadQuery, Policies, Inspect, ReadTokens, ListVersions
  <2>3. CASE ListPaths(r) \/ RecordListing(r)
    <3>0. done' = done \/ done' = [done EXCEPT ![r] = 1]
      BY <2>3 DEF ListPaths, RecordListing
    <3>1. done' \in [Reqs -> Nat]  BY <3>0
    <3>2. at' \in [Reqs -> Steps] /\ answer' \in [Reqs -> Successes \cup Errors \cup {"none"}]
      BY <2>3 DEF ListPaths, RecordListing
    <3> QED  BY <2>3, <3>1, <3>2 DEF ListPaths, RecordListing
  <2>4. CASE Get(r)
    BY <2>1, <2>4 DEF Get
  <2> QED  BY <1>3, <2>2, <2>3, <2>4 DEF Reading
<1>4. ASSUME NEW r \in Reqs, Put(r) \/ Delete(r) \/ Revoke(r) \/ Mint(r) PROVE LocalTyped'
  BY <1>4 DEF Put, Delete, Revoke, Mint
<1>5. ASSUME NEW r \in Reqs, FindCurrent(r) PROVE LocalTyped'
  <2>1. job[r] \in Jobs /\ job[r].kind \in PathKinds  BY <1>5 DEF FindCurrent, Acting, PathKinds
  <2>2. Target(r) \in Paths  BY <2>1, TargetIsPath
  <2>3. Wanted(r, Target(r)) \in Nat  BY <2>2 DEF Wanted, Newest, StoreTyped
  <2> QED  BY <1>5, <2>3 DEF FindCurrent
<1>6. CASE (\E b \in Bait : Latch(b) \/ LatchFails(b)) \/ Restart \/ ClearTrips \/ UNCHANGED vars
  BY <1>6 DEF Latch, LatchFails, Restart, ClearTrips, vars, local
<1>7. CASE Kill
  BY <1>7 DEF Kill
<1> QED  BY <1>1, <1>2, <1>3, <1>4, <1>5, <1>6, <1>7 DEF Next, Changing

\* So does the store. A version number stays within its type.
LEMMA StoreTypeKept == LocalTyped /\ StoreTyped /\ [Next]_vars => StoreTyped'
<1> SUFFICES ASSUME LocalTyped, StoreTyped, [Next]_vars PROVE StoreTyped'
  OBVIOUS
<1> USE DEF StoreTyped, LocalTyped
<1>1. CASE UNCHANGED store
  BY <1>1 DEF store
<1>2. ASSUME NEW r \in Reqs, Put(r) PROVE StoreTyped'
  <2>1. Target(r) \in Paths  BY <1>2, TargetIsPath DEF Put, Acting, PathKinds
  <2>2. NewVersion(r) \in [by : Author, gone : Author]  BY DEF NewVersion, Author
  <2>3. CASE UNCHANGED <<versions, class>>
    BY <1>2, <2>3 DEF Put
  <2>4. CASE /\ Newest(Target(r)) < MaxVersion
             /\ versions' = [versions EXCEPT ![Target(r)] = Append(@, NewVersion(r))]
             /\ class' = Classed(r)
    <3>1. \A p \in Paths : versions'[p] \in Seq([by : Author, gone : Author])
      <4> DEFINE V == [by : Author, gone : Author]
      <4>1. \A p \in Paths : versions[p] \in Seq(V)  OBVIOUS
      <4>2. NewVersion(r) \in V  BY <2>2
      <4>3. Append(versions[Target(r)], NewVersion(r)) \in Seq(V)
        BY <2>1, <4>1, <4>2, SeqFacts
      <4>4. \A p \in Paths : versions'[p] =
              IF p = Target(r) THEN Append(versions[p], NewVersion(r)) ELSE versions[p]
        BY <2>4
      <4>5. \A p \in Paths : versions'[p] \in Seq(V)
        <5> HIDE DEF V
        <5> QED  BY <4>1, <4>3, <4>4
      <4> QED  BY <4>5
    <3>2. \A p \in Paths : Len(versions'[p]) <= MaxVersion
      BY <2>1, <2>2, <2>4, StoreAssumption DEF Newest
    <3>3. class' \in [Paths -> Author]  BY <2>4 DEF Classed, Author
    <3>4. versions' \in [Paths -> Seq([by : Author, gone : Author])]
      BY <2>4, <3>1
    <3> QED  BY <1>2, <3>2, <3>3, <3>4 DEF Put
  <2> QED  BY <1>2, <2>3, <2>4 DEF Put
<1>3. ASSUME NEW r \in Reqs, Delete(r) PROVE StoreTyped'
  <2> DEFINE p == Target(r)
             n == seen[r]
  <2>1. CASE UNCHANGED versions
    BY <1>3, <2>1 DEF Delete
  <2>2. CASE /\ Readable(p, n)
             /\ versions' = [versions EXCEPT ![p][n] = [by |-> @.by, gone |-> r]]
    <3>1. CASE p \notin Paths
      BY <1>3, <2>2, <3>1 DEF Delete
    <3>2. CASE p \in Paths
      <4>1. versions[p] \in Seq([by : Author, gone : Author]) /\ n \in 1..Len(versions[p])
        BY <2>2, <3>2 DEF Readable, Newest
      <4>2. [by |-> versions[p][n].by, gone |-> r] \in [by : Author, gone : Author]
        <5>1. versions[p][n] \in [by : Author, gone : Author]  BY <4>1, ElementIn
        <5> QED  BY <5>1 DEF Author
      <4>3. /\ versions'[p] \in Seq([by : Author, gone : Author])
            /\ Len(versions'[p]) = Len(versions[p])
        BY <2>2, <3>2, <4>1, <4>2
      <4> QED  BY <1>3, <2>2, <3>2, <4>3 DEF Delete
    <3> QED  BY <3>1, <3>2
  <2> QED  BY <1>3, <2>1, <2>2 DEF Delete
<1>4. ASSUME NEW r \in Reqs, Revoke(r) PROVE StoreTyped'
  BY <1>4 DEF Revoke, Author
<1>5. ASSUME NEW r \in Reqs, Mint(r) PROVE StoreTyped'
  BY <1>5, JobFacts DEF Mint, Acting
<1>6. ASSUME NEW r \in Reqs, Before(r) PROVE UNCHANGED store
  BY <1>6 DEF Before, Arrive, Authenticate, Exchange, Reject, RejectBait, ClaimToken, Refuse,
              Lookup, store
<1>7. ASSUME NEW r \in Reqs, Deciding(r) PROVE UNCHANGED store
  BY <1>7 DEF Deciding, Tier, Decide, ClaimSecret, Correct, store
<1>8. ASSUME NEW r \in Reqs, Reading(r) \/ FindCurrent(r) PROVE UNCHANGED store
  BY <1>8 DEF Reading, BadQuery, Policies, Inspect, ReadTokens, Get, ListVersions, ListPaths,
              RecordListing, FindCurrent, store
<1>9. CASE (\E b \in Bait : Latch(b) \/ LatchFails(b)) \/ Kill \/ Restart \/ ClearTrips
             \/ UNCHANGED vars
  BY <1>1, <1>9 DEF Latch, LatchFails, Kill, Restart, ClearTrips, vars
<1> QED  BY <1>1, <1>2, <1>3, <1>4, <1>5, <1>6, <1>7, <1>8, <1>9 DEF Next, Changing

\* Entries are never taken back.
LEMMA TrailGrows ==
  ASSUME trail \subseteq trail'
  PROVE  /\ \A q, g, a : Has(q, g, a) => Has(q, g, a)'
         /\ \A b : TripRecorded(b) => TripRecorded(b)'
BY DEF Has, Recorded, TripRecorded

\* What an entry that is recorded says.
LEMMA EntryRecorded ==
  ASSUME NEW r \in Reqs, NEW g, NEW b, NEW a, Records(Entry(r, g, b, a))
  PROVE  /\ trail \subseteq trail'
         /\ Has(r, g, a)'
         /\ TripRecorded(b)'
<1> DEFINE e == [req |-> r, gate |-> g, bait |-> b, allowed |-> a]
<1>1. trail' = trail \cup {e}  BY DEF Records, Entry
<1>2. e \in trail' /\ e.req = r /\ e.gate = g /\ e.bait = b /\ e.allowed = a  BY <1>1
<1>3. r # None  BY StoreAssumption
<1> QED  BY <1>1, <1>2, <1>3 DEF Has, Recorded, TripRecorded

\* What a request has on the trail stays there while it records nothing.
LEMMA LoggedKept ==
  ASSUME NEW q \in Reqs, Logged(q), job' = job, trail \subseteq trail',
         done'[q] = done[q], fixed'[q] = fixed[q]
  PROVE  Logged(q)'
BY TrailGrows DEF Logged

\* A request is not moved by the steps of others.
LEMMA OthersKept ==
  ASSUME NEW q \in Reqs, RequestInv(q), job' = job, trail \subseteq trail',
         at'[q] = at[q], done'[q] = done[q], fixed'[q] = fixed[q],
         seen'[q] = seen[q], answer'[q] = answer[q]
  PROVE  RequestInv(q)'
<1>1. Logged(q)'  BY LoggedKept DEF RequestInv
<1>2. Placed(q)'  BY TrailGrows DEF RequestInv, Placed
<1>3. Answered(q)'  BY DEF RequestInv, Answered, LeftStanding
<1> QED  BY <1>1, <1>2, <1>3 DEF RequestInv

\* Steps before the decision.
LEMMA BeforeKeeps ==
  ASSUME LocalTyped, NEW r \in Reqs, RequestInv(r), Before(r)
  PROVE  RequestInv(r)'
<1> USE DEF RequestInv, LocalTyped
<1>1. job' = job /\ trail \subseteq trail'  BY RequestFrame
<1>2. done' = done /\ fixed' = fixed
  BY DEF Before, Arrive, Authenticate, Exchange, Reject, RejectBait, ClaimToken, Refuse, Lookup
<1>3. Logged(r)'  BY <1>1, <1>2, LoggedKept
<1>4. job[r] \in Jobs /\ Count(job[r]) \in Nat \ {0}  BY JobFacts
<1>5. done[r] = 0 /\ fixed[r] = 0
  BY DEF Before, Arrive, Authenticate, Exchange, Reject, RejectBait, ClaimToken, Refuse, Lookup,
         Placed, Answered, Undecided
<1>6. Placed(r)'
  <2> USE <1>1, <1>2, <1>4, <1>5 DEF Placed, Undecided, Goes, Answers
  <2>1. CASE Arrive(r) \/ Reject(r) \/ ClaimToken(r) \/ Refuse(r) \/ Lookup(r) \/ Exchange(r)
    <3>1. at'[r] \in {"auth", "reject", "gate", "done"}
      BY <2>1 DEF Arrive, Reject, ClaimToken, Refuse, Lookup, Exchange, Rejects
    <3> QED  BY <3>1
  <2>2. CASE RejectBait(r)
    <3>1. at'[r] = "baitlatch" => TripRecorded(job[r].token)'
      BY <2>2, EntryRecorded DEF RejectBait
    <3> QED  BY <2>2, <3>1 DEF RejectBait
  <2>3. CASE Authenticate(r)
    BY <2>3 DEF Authenticate, Accepts, Rejects, GateStep
  <2> QED  BY <2>1, <2>2, <2>3 DEF Before
<1>7. Answered(r)'
  <2> USE <1>1, <1>2, <1>5 DEF Answered, Goes, Answers, Successes, Errors
  <2>1. CASE Arrive(r) \/ Reject(r) \/ RejectBait(r) \/ ClaimToken(r) \/ Refuse(r) \/ Lookup(r)
               \/ Exchange(r)
    BY <2>1 DEF Arrive, Reject, RejectBait, ClaimToken, Refuse, Lookup, Exchange, Rejects
  <2>2. CASE Authenticate(r)
    BY <2>2 DEF Authenticate, Accepts, Rejects, GateStep
  <2> QED  BY <2>1, <2>2 DEF Before
<1> QED  BY <1>3, <1>6, <1>7

\* The decision, its entry and the corrections.
LEMMA DecidingKeeps ==
  ASSUME LocalTyped, NEW r \in Reqs, RequestInv(r), Deciding(r)
  PROVE  RequestInv(r)'
<1> USE DEF RequestInv, LocalTyped
<1>1. job' = job /\ trail \subseteq trail'  BY RequestFrame
<1>2. job[r] \in Jobs /\ Count(job[r]) \in Nat \ {0}  BY JobFacts
<1>3. /\ job[r].kind \notin {"classify", "export"} => Count(job[r]) = 1
      /\ job[r].kind = "classify" => Count(job[r]) = 2
  BY <1>2, JobFacts
<1>4. CASE Tier(r)
  <2> USE <1>1, <1>2, <1>3, <1>4 DEF Tier, Goes, Stops, Fails, Answers
  <2>1. Logged(r)'  BY LoggedKept
  <2>2. Placed(r)'  BY DEF Placed, Undecided
  <2>3. job[r].kind \in {"read", "export"}  BY DEF Placed, Capability
  <2>4. Answered(r)'  BY <2>3 DEF Answered, Successes, Errors, Placed, Logged
  <2> QED  BY <2>1, <2>2, <2>4
<1>5. CASE ClaimSecret(r)
  <2> USE <1>1, <1>2, <1>3, <1>5 DEF ClaimSecret, Goes
  <2>1. Logged(r)'  BY LoggedKept
  <2>2. job[r].kind \in {"read", "export"}  BY DEF Placed, Capability
  <2>3. Placed(r)'  BY <2>2 DEF Placed, Undecided, AfterGate, Logged
  <2>4. Answered(r)'  BY <2>2 DEF Answered, Successes, Errors, AfterGate
  <2> QED  BY <2>1, <2>3, <2>4
<1>6. CASE Correct(r)
  <2> USE <1>1, <1>2, <1>6 DEF Correct
  <2>1. CASE UNCHANGED <<trail, fixed>> /\ Answers(r, "unavailable")
    <3> USE <2>1 DEF Answers
    <3>1. Logged(r)'  BY LoggedKept
    <3>2. Placed(r)'  BY DEF Placed, Undecided
    <3>3. Answered(r)'  BY DEF Answered, Successes, Errors
    <3> QED  BY <3>1, <3>2, <3>3
  <2>2. CASE /\ Records(Entry(r, GateAt(job[r], fixed[r] + 1), None, FALSE))
             /\ fixed' = [fixed EXCEPT ![r] = fixed[r] + 1]
             /\ Goes(r, IF fixed[r] + 1 = done[r] THEN "done" ELSE "correct")
    <3> USE <2>2 DEF Goes
    <3>1. fixed'[r] = fixed[r] + 1 /\ fixed[r] < done[r] /\ done'[r] = done[r]
      BY DEF Answered
    <3>2. \A g : g = GateAt(job[r], fixed[r] + 1) => Has(r, g, FALSE)'  BY EntryRecorded
    <3>3. Logged(r)'
      <4>1. \A i \in 1..fixed'[r] : Has(r, GateAt(job[r], i), FALSE)'
        <5>1. \A i \in 1..fixed[r] : \E e \in trail' :
                e.req = r /\ e.gate = GateAt(job[r], i) /\ e.allowed = FALSE
          BY DEF Logged, Has, Recorded
        <5>2. \E e \in trail' :
                e.req = r /\ e.gate = GateAt(job[r], fixed[r] + 1) /\ e.allowed = FALSE
          BY <3>2 DEF Has, Recorded
        <5>3. \A i \in 1..fixed'[r] : i \in 1..fixed[r] \/ i = fixed[r] + 1  BY <3>1
        <5> QED  BY <5>1, <5>2, <5>3 DEF Has, Recorded
      <4>2. \A i \in 1..done[r] : Has(r, GateAt(job[r], i), TRUE)'
         BY TrailGrows DEF Logged, Has, Recorded
      <4>3. (done[r] <= Count(job[r]) /\ fixed[r] <= done[r])'
        BY <1>1, <3>1 DEF Logged
      <4>4. (job[r].kind = "classify" /\ done[r] # 0 => Allowed(job[r], job[r].paths[1]))'
        BY <1>1, <3>1 DEF Logged, Allowed
      <4>5. (\A i \in 1..done[r] : Has(r, GateAt(job[r], i), TRUE))'  BY <3>1, <4>2
      <4>6. (\A i \in 1..fixed[r] : Has(r, GateAt(job[r], i), FALSE))'  BY <4>1
      <4> QED  BY <4>3, <4>4, <4>5, <4>6 DEF Logged
    <3>4. Placed(r)'  BY <3>1 DEF Placed, Undecided
    <3>5. Answered(r)'  BY <3>1 DEF Answered, Successes, Errors
    <3> QED  BY <3>3, <3>4, <3>5
  <2> QED  BY <2>1, <2>2
<1>7. CASE Decide(r)
  <2> USE <1>1, <1>2, <1>3, <1>7 DEF Decide
  <2>1. done[r] < Count(job[r]) /\ fixed[r] = 0 /\ fixed' = fixed
    BY DEF Placed, Answered
  <2>2. CASE Allowed(job[r], GatePath(r)) /\ Decided(r)
    <3> USE <2>2 DEF Decided, Goes
    <3>1. done'[r] = done[r] + 1  OBVIOUS
    <3>2. \A g : g = GateAt(job[r], done[r] + 1) => Has(r, g, TRUE)'
      BY EntryRecorded DEF Gate
    <3>3. Logged(r)'
      <4>1. \A i \in 1..done'[r] : Has(r, GateAt(job[r], i), TRUE)'
        <5>1. \A i \in 1..done[r] : \E e \in trail' :
                e.req = r /\ e.gate = GateAt(job[r], i) /\ e.allowed = TRUE
          BY DEF Logged, Has, Recorded
        <5>2. \E e \in trail' :
                e.req = r /\ e.gate = GateAt(job[r], done[r] + 1) /\ e.allowed = TRUE
          BY <3>2 DEF Has, Recorded
        <5>3. \A i \in 1..done'[r] : i \in 1..done[r] \/ i = done[r] + 1  BY <3>1
        <5> QED  BY <5>1, <5>2, <5>3 DEF Has, Recorded
      <4>2. job[r].kind = "classify" => Allowed(job[r], job[r].paths[1])
        BY DEF GatePath, PathAt
      <4>3. 1..fixed'[r] = {}  BY <2>1
      <4>4. (done[r] <= Count(job[r]) /\ fixed[r] <= done[r])'
        BY <1>1, <2>1, <3>1 DEF Logged
      <4>5. (job[r].kind = "classify" /\ done[r] # 0 => Allowed(job[r], job[r].paths[1]))'
        BY <1>1, <4>2 DEF Allowed
      <4>6. (\A i \in 1..done[r] : Has(r, GateAt(job[r], i), TRUE))'  BY <4>1
      <4>7. (\A i \in 1..fixed[r] : Has(r, GateAt(job[r], i), FALSE))'  BY <4>3
      <4> QED  BY <4>4, <4>5, <4>6, <4>7 DEF Logged
    <3>4. CASE Tripped(r) = None
      <4>1. at'[r] = AfterGate(job[r], done[r] + 1)  BY <3>4
      <4>2. Placed(r)'  BY <2>1, <3>1, <4>1 DEF Placed, Undecided, AfterGate
      <4>3. Answered(r)'  BY <2>1, <3>1, <4>1 DEF Answered, Successes, Errors, AfterGate
      <4> QED  BY <3>3, <4>2, <4>3
    <3>5. CASE Tripped(r) # None
      <4>1. at'[r] = "latch"  BY <3>5
      <4>2. /\ Capability(job[r]) = "read" /\ GatePath(r) \in Bait /\ Tripped(r) = GatePath(r)
        BY <3>5 DEF Tripped
      <4>3. \A b : b = GatePath(r) => TripRecorded(b)'  BY <4>2, EntryRecorded
      <4>4. /\ PathAt(job[r], done'[r]) \in Bait
            /\ TripRecorded(PathAt(job[r], done[r]))'
        BY <3>1, <4>2, <4>3 DEF GatePath
      <4>6. Placed(r)'  BY <2>1, <3>1, <4>1, <4>2, <4>4 DEF Placed, Undecided
      <4>5. Answered(r)'  BY <2>1, <3>1, <4>1 DEF Answered, Successes, Errors
      <4> QED  BY <3>3, <4>5, <4>6
    <3> QED  BY <3>4, <3>5
  <2>3. CASE /\ done' = done
             /\ \/ ~Allowed(job[r], GatePath(r)) /\ Stops(r, "forbidden")
                \/ Stops(r, "unavailable")
    <3> USE <2>3 DEF Stops, Fails, Answers
    <3>1. Logged(r)'  BY <2>1, LoggedKept
    <3>2. Placed(r)'  BY <2>1 DEF Placed, Undecided
    <3>3. ~Allowed(job[r], GatePath(r)) /\ job[r].kind # "export" => done[r] = 0
      BY <2>1 DEF Logged, GatePath, PathAt
    <3>4. Answered(r)'  BY <2>1, <3>3 DEF Answered, Successes, Errors
    <3> QED  BY <3>1, <3>2, <3>4
  <2> QED  BY <2>2, <2>3
<1> QED  BY <1>4, <1>5, <1>6, <1>7 DEF Deciding

\* Steps of the routes that change nothing in the store.
LEMMA ReadingKeeps ==
  ASSUME LocalTyped, NEW r \in Reqs, RequestInv(r), Reading(r)
  PROVE  RequestInv(r)'
<1> USE DEF RequestInv, LocalTyped
<1>1. job' = job /\ trail \subseteq trail'  BY RequestFrame
<1>2. job[r] \in Jobs /\ Count(job[r]) \in Nat \ {0}  BY JobFacts
<1>3. job[r].kind \notin {"classify", "export"} => Count(job[r]) = 1  BY <1>2, JobFacts
<1>4. CASE BadQuery(r) \/ Policies(r) \/ Inspect(r) \/ ReadTokens(r) \/ Get(r) \/ ListVersions(r)
  <2>1. at[r] = "act" /\ done' = done /\ fixed' = fixed /\ seen' = seen
    BY <1>4 DEF BadQuery, Policies, Inspect, ReadTokens, Get, ListVersions, Acting
  <2>2. done[r] # 0 /\ fixed[r] = 0 /\ done[r] <= Count(job[r])
    BY <2>1 DEF Placed, Answered, Logged
  <2>3. job[r].kind # "export" => done[r] = Count(job[r])  BY <2>1 DEF Placed
  <2>4. Logged(r)'  BY <1>1, <2>1, LoggedKept
  <2> USE <1>1, <1>2, <2>1, <2>2, <2>3 DEF Goes, Answers, Fails
  <2>6. CASE BadQuery(r)
    <3>1. Placed(r)'  BY <2>6 DEF BadQuery, Placed, Undecided
    <3>2. Answered(r)'
      BY <2>6 DEF BadQuery, Answered, Successes, Errors, LeftStanding
    <3> QED  BY <2>4, <3>1, <3>2
  <2>7. CASE Policies(r) \/ Inspect(r) \/ ReadTokens(r) \/ ListVersions(r)
    <3>1. Placed(r)'  BY <2>7 DEF Policies, Inspect, ReadTokens, ListVersions, Placed, Undecided
    <3>2. Answered(r)'
      BY <2>7 DEF Policies, Inspect, ReadTokens, ListVersions, Acting, Answered, Successes, Errors,
                  LeftStanding
    <3> QED  BY <2>4, <3>1, <3>2
  <2>8. CASE Get(r)
    <3>1. done[r] # Count(job[r]) => Capability(job[r]) = "read" /\ done[r] < Count(job[r])
      BY <2>8 DEF Get, Acting, Capability
    <3>2. Placed(r)'  BY <2>8, <3>1 DEF Get, Placed, Undecided, GateStep
    <3>3. Answered(r)'  BY <2>8 DEF Get, Answered, Successes, Errors, GateStep
    <3> QED  BY <2>4, <3>2, <3>3
  <2> QED  BY <1>4, <2>6, <2>7, <2>8
<1>5. CASE ListPaths(r)
  <2> USE <1>1, <1>2, <1>5 DEF ListPaths, Goes, Answers
  <2>1. Logged(r)'  BY LoggedKept
  <2>2. Placed(r)'  BY DEF Placed, Undecided
  <2>3. Answered(r)'  BY DEF Answered, Placed, Undecided, Successes, Errors
  <2> QED  BY <2>1, <2>2, <2>3
<1>6. CASE RecordListing(r)
  <2>1. done[r] = 0 /\ fixed[r] = 0 /\ job[r].kind = "list" /\ Count(job[r]) = 1
    BY <1>3, <1>6 DEF RecordListing, Placed, Answered, Undecided
  <2>2. at'[r] = "done" /\ fixed' = fixed  BY <1>6 DEF RecordListing, Answers
  <2>3. Placed(r)'  BY <1>1, <2>1, <2>2 DEF Placed, Undecided
  <2>4. CASE answer'[r] = "unavailable" /\ done' = done
    <3>1. Logged(r)'  BY <1>1, <2>2, <2>4, LoggedKept
    <3>2. Answered(r)'  BY <2>1, <2>2, <2>4 DEF Answered, Successes, Errors
    <3> QED  BY <2>3, <3>1, <3>2
  <2>5. CASE /\ Records(Entry(r, Gate(r), None, TRUE))
             /\ done'[r] = 1 /\ answer'[r] = "served"
    <3>1. \A g : g = GateAt(job[r], 1) => Has(r, g, TRUE)'
      <4>1. Gate(r) = GateAt(job[r], 1)  BY <2>1 DEF Gate
      <4> QED  BY <2>5, <4>1, EntryRecorded
    <3>2. (\A i \in 1..done[r] : Has(r, GateAt(job[r], i), TRUE))'
      <4>1. \E e \in trail' : e.req = r /\ e.gate = GateAt(job[r], 1) /\ e.allowed = TRUE
        BY <3>1 DEF Has, Recorded
      <4>2. \A i \in 1..done'[r] : i = 1  BY <2>5
      <4> QED  BY <1>1, <4>1, <4>2 DEF Has, Recorded
    <3>3. (\A i \in 1..fixed[r] : Has(r, GateAt(job[r], i), FALSE))'
      BY <2>1, <2>2
    <3>4. Logged(r)'
      <4>1. (done[r] <= Count(job[r]) /\ fixed[r] <= done[r])'  BY <1>1, <2>1, <2>2, <2>5
      <4>2. (job[r].kind # "classify")'  BY <1>1, <2>1
      <4> QED  BY <3>2, <3>3, <4>1, <4>2 DEF Logged
    <3>5. Answered(r)'  BY <1>1, <2>1, <2>2, <2>5 DEF Answered, Successes, Errors
    <3> QED  BY <2>3, <3>4, <3>5
  <2> QED  BY <1>6, <2>4, <2>5 DEF RecordListing, Answers
<1> QED  BY <1>4, <1>5, <1>6 DEF Reading

\* Steps of the routes that change the store.
LEMMA ChangingKeeps ==
  ASSUME LocalTyped, NEW r \in Reqs, RequestInv(r), Changing(r)
  PROVE  RequestInv(r)'
<1> USE DEF RequestInv, LocalTyped
<1>1. job' = job /\ trail \subseteq trail'  BY RequestFrame
<1>2. job[r] \in Jobs /\ Count(job[r]) \in Nat \ {0}  BY JobFacts
<1>3. job[r].kind \notin {"classify", "export"} => Count(job[r]) = 1  BY <1>2, JobFacts
<1>4. done' = done /\ fixed' = fixed
  BY DEF Changing, Put, FindCurrent, Delete, Revoke, Mint
<1>5. at[r] \in {"act", "delete"} /\ (at[r] = "act" => job[r].kind # "export")
  BY DEF Changing, Put, FindCurrent, Delete, Revoke, Mint, Acting
<1>6. done[r] = Count(job[r]) /\ fixed[r] = 0
  BY <1>3, <1>5 DEF Placed, Answered
<1>7. Logged(r)'  BY <1>1, <1>4, LoggedKept
<1>8. \/ at'[r] = "done" /\ answer'[r] \in Successes
      \/ at'[r] = "correct" /\ answer'[r] \in Errors
      \/ at'[r] = "delete" /\ answer'[r] = answer[r] /\ job[r].kind = "delete"
      \/ at'[r] = "done" /\ answer'[r] = "missing" /\ job[r].kind = "revoke" /\ seen'[r] = 0
  BY <1>2, <1>6 DEF Changing, Put, FindCurrent, Delete, Revoke, Mint, Acting, Answers, Fails,
                    Goes, Successes, Errors
<1>9. Placed(r)'  BY <1>1, <1>2, <1>3, <1>4, <1>6, <1>8 DEF Placed, Undecided
<1>10. answer[r] \notin Successes  BY <1>5 DEF Answered
<1>11. answer'[r] = "revoked" => answer[r] = "revoked" \/ job[r].kind = "revoke"
  BY DEF Changing, Put, FindCurrent, Delete, Revoke, Mint, Acting, Answers, Fails, Goes
<1>12. Answered(r)'
  BY <1>1, <1>2, <1>4, <1>6, <1>8, <1>10, <1>11 DEF Answered, Successes, Errors, LeftStanding
<1> QED  BY <1>7, <1>9, <1>12

RequestStep(r) == Before(r) \/ Deciding(r) \/ Reading(r) \/ Changing(r)

\* What else may happen.
OtherStep ==
  (\E b \in Bait : Latch(b) \/ LatchFails(b)) \/ Kill \/ Restart \/ ClearTrips \/ UNCHANGED vars

\* Every step keeps what is known of every request.
LEMMA RequestsKept ==
  ASSUME LocalTyped, \A r \in Reqs : RequestInv(r), [Next]_vars
  PROVE  \A r \in Reqs : RequestInv(r)'
<1>1. ASSUME NEW r \in Reqs, RequestStep(r) PROVE \A q \in Reqs : RequestInv(q)'
  <2>1. RequestInv(r)'
    BY <1>1, BeforeKeeps, DecidingKeeps, ReadingKeeps, ChangingKeeps DEF RequestStep
  <2>2. ASSUME NEW q \in Reqs \ {r} PROVE RequestInv(q)'
    <3>1. /\ job' = job /\ trail \subseteq trail'
          /\ at'[q] = at[q] /\ done'[q] = done[q] /\ fixed'[q] = fixed[q]
          /\ seen'[q] = seen[q] /\ answer'[q] = answer[q]
      BY <1>1, RequestFrame DEF RequestStep
    <3>2. q \in Reqs /\ RequestInv(q)  OBVIOUS
    <3> QED  BY <3>1, <3>2, OthersKept
  <2> QED  BY <2>1, <2>2
<1>2. ASSUME NEW q \in Reqs, OtherStep, ~Kill PROVE RequestInv(q)'
  <2>1. UNCHANGED local /\ trail \subseteq trail'
    BY <1>2 DEF OtherStep, Latch, LatchFails, Restart, ClearTrips, vars, Records
  <2> QED  BY <2>1, OthersKept DEF local
<1>3. ASSUME NEW q \in Reqs, Kill PROVE RequestInv(q)'
  <2>1. /\ job' = job /\ trail' = trail /\ done' = done /\ fixed' = fixed
        /\ seen' = seen /\ answer' = answer
    BY <1>3 DEF Kill
  <2>2. at'[q] = at[q] \/ (at'[q] = "lost" /\ at[q] \notin {"new", "done"})
    BY <1>3 DEF Kill
  <2>3. CASE at'[q] = at[q]
    BY <2>1, <2>3, OthersKept
  <2>4. CASE at'[q] = "lost" /\ at[q] \notin {"new", "done"}
    <3>1. Logged(q)'  BY <2>1, LoggedKept DEF RequestInv
    <3>2. Placed(q)'  BY <2>4 DEF Placed, Undecided
    <3>3. Answered(q)'  BY <2>1, <2>4 DEF RequestInv, Answered
    <3> QED  BY <3>1, <3>2, <3>3 DEF RequestInv
  <2> QED  BY <2>2, <2>3, <2>4
<1> QED  BY <1>1, <1>2, <1>3 DEF Next, RequestStep, OtherStep

\* Only a request that the server runs takes a step.
LEMMA StepRuns ==
  ASSUME NEW r \in Reqs, RequestStep(r), LatchInv
  PROVE  up /\ at[r] # "done"
<1>1. CASE Before(r)
  BY <1>1 DEF Before, Arrive, Authenticate, Exchange, Reject, RejectBait, ClaimToken, Refuse,
              Lookup, LatchInv, Stopped
<1>2. CASE Deciding(r)
  BY <1>2 DEF Deciding, Tier, Decide, ClaimSecret, Correct, LatchInv, Stopped
<1>3. CASE Reading(r)
  BY <1>3 DEF Reading, BadQuery, Policies, Inspect, ReadTokens, Get,
     ListVersions, ListPaths, RecordListing,
              Acting, LatchInv, Stopped
<1>4. CASE Changing(r)
  BY <1>4 DEF Changing, Put, FindCurrent, Delete, Revoke, Mint, Acting, LatchInv, Stopped
<1> QED  BY <1>1, <1>2, <1>3, <1>4 DEF RequestStep

\* A claim is made for bait whose entry is stored.
LEMMA ClaimKeeps ==
  ASSUME LatchInv, NEW b \in Bait, Claims(b), TripRecorded(b), trail' = trail, up, up' = up
  PROVE  LatchInv'
<1>1. claims' = claims \cup {b} /\ trips' = trips /\ (tasks' = tasks \/ tasks' = tasks \cup {b})
  BY DEF Claims
<1>2. b \in claims \/ b \in tasks'  BY DEF Claims
<1>3. (claims \subseteq Bait /\ tasks \subseteq claims /\ trips \subseteq Bait)'
  BY <1>1 DEF LatchInv
<1>4. ClaimsAreBacked'  BY <1>1, <1>2 DEF LatchInv, ClaimsAreBacked
<1>5. (\A x \in trips \cup claims : TripRecorded(x))'
  BY <1>1 DEF LatchInv, TripRecorded
<1> QED  BY <1>3, <1>4, <1>5 DEF LatchInv

\* The claims, the tasks and the open trips.
LEMMA LatchKept ==
  ASSUME LocalTyped, \A r \in Reqs : RequestInv(r), LatchInv, [Next]_vars
  PROVE  LatchInv'
<1>1. ASSUME NEW r \in Reqs, RequestStep(r) PROVE LatchInv'
  <2>1. up /\ up' = up /\ trail \subseteq trail'
    BY <1>1, StepRuns, RequestFrame DEF RequestStep
  <2>2. CASE UNCHANGED latch
    <3>1. (\A b \in trips \cup claims : TripRecorded(b))'
      BY <2>1, <2>2 DEF LatchInv, latch, TripRecorded
    <3> QED  BY <2>1, <2>2, <3>1 DEF LatchInv, latch, ClaimsAreBacked
  <2>3. CASE ClaimToken(r)
    <3>1. job[r].token \in Bait /\ TripRecorded(job[r].token)
      BY <2>3 DEF ClaimToken, RequestInv, Placed
    <3> QED  BY <2>1, <2>3, <3>1, ClaimKeeps DEF ClaimToken
  <2>4. CASE ClaimSecret(r)
    <3>1. PathAt(job[r], done[r]) \in Bait /\ TripRecorded(PathAt(job[r], done[r]))
      BY <2>4 DEF ClaimSecret, RequestInv, Placed
    <3> QED  BY <2>1, <2>4, <3>1, ClaimKeeps DEF ClaimSecret
  <2>5. UNCHANGED latch \/ ClaimToken(r) \/ ClaimSecret(r)
    <3>1. CASE Before(r)
      BY <3>1 DEF Before, Arrive, Authenticate, Exchange, Reject, RejectBait, Refuse, Lookup
    <3>2. CASE Deciding(r)
      BY <3>2 DEF Deciding, Tier, Decide, Correct
    <3>3. CASE Reading(r)
      BY <3>3 DEF Reading, BadQuery, Policies, Inspect, ReadTokens, Get, ListVersions, ListPaths,
                  RecordListing
    <3>4. CASE Changing(r)
      BY <3>4 DEF Changing, Put, FindCurrent, Delete, Revoke, Mint
    <3> QED  BY <1>1, <3>1, <3>2, <3>3, <3>4 DEF RequestStep
  <2> QED  BY <2>2, <2>3, <2>4, <2>5
<1>2. ASSUME NEW b \in Bait, Latch(b) PROVE LatchInv'
  BY <1>2 DEF Latch, LatchInv, ClaimsAreBacked, TripRecorded, local
<1>3. ASSUME NEW b \in Bait, LatchFails(b) PROVE LatchInv'
  <2>1. trail \subseteq trail'  BY <1>3 DEF LatchFails, Records
  <2>2. (\A x \in trips \cup claims : TripRecorded(x))'
    BY <1>3, <2>1 DEF LatchFails, LatchInv, TripRecorded
  <2> QED  BY <1>3, <2>2 DEF LatchFails, LatchInv, ClaimsAreBacked, local
<1>4. CASE Kill
  BY <1>4 DEF Kill, LatchInv, ClaimsAreBacked, TripRecorded, Stopped
<1>5. CASE Restart \/ ClearTrips \/ UNCHANGED vars
  BY <1>5 DEF Restart, ClearTrips, LatchInv, ClaimsAreBacked, TripRecorded, vars, latch, local
<1> QED  BY <1>1, <1>2, <1>3, <1>4, <1>5 DEF Next, RequestStep

\* The request whose step changes the store has the entry of the change.
LEMMA ChangeDecided ==
  ASSUME LocalTyped, NEW r \in Reqs, RequestInv(r),
         at[r] \in {"act", "delete"}, job[r].kind # "export"
  PROVE  /\ job[r].kind \in {"write", "classify"} => Has(r, <<"write", Target(r)>>, TRUE)
         /\ job[r].kind = "classify" => Has(r, <<"classify", Target(r)>>, TRUE)
         /\ job[r].kind = "delete" => Has(r, <<"delete", Target(r)>>, TRUE)
         /\ job[r].kind = "revoke" => Has(r, <<"revoke-token", Sys>>, TRUE)
         /\ job[r].kind = "login" => Has(r, <<"federate-token", Sys>>, TRUE)
<1>1. job[r] \in Jobs  BY DEF LocalTyped
<1>2. /\ Count(job[r]) \in Nat \ {0}
      /\ job[r].kind \notin {"classify", "export"} => Count(job[r]) = 1
      /\ job[r].kind = "classify" => Count(job[r]) = 2
      /\ job[r].kind \notin PathKinds => job[r].paths = <<Sys>>
  BY <1>1, JobFacts
<1>3. done[r] = Count(job[r])  BY <1>2 DEF RequestInv, Placed
<1>4. \A i \in 1..Count(job[r]) : Has(r, GateAt(job[r], i), TRUE)
  BY <1>3 DEF RequestInv, Logged
<1>5. /\ Has(r, GateAt(job[r], 1), TRUE)
      /\ job[r].kind = "classify" => Has(r, GateAt(job[r], 2), TRUE)
  <2>1. 1 \in 1..Count(job[r]) /\ (job[r].kind = "classify" => 2 \in 1..Count(job[r]))
    BY <1>2
  <2> QED  BY <1>4, <2>1, Zenon
<1>6. GateAt(job[r], 1) = <<Action(job[r]), Target(r)>>
  BY DEF GateAt, PathAt, Target
<1>7. job[r].kind = "classify" => GateAt(job[r], 2) = <<"classify", Target(r)>>
  BY DEF GateAt, PathAt, Target
<1>8. /\ job[r].kind \in {"write", "classify"} => Action(job[r]) = "write"
      /\ job[r].kind = "delete" => Action(job[r]) = "delete"
      /\ job[r].kind = "revoke" => Action(job[r]) = "revoke-token"
      /\ job[r].kind = "login" => Action(job[r]) = "federate-token"
  BY DEF Action
<1>9. job[r].kind \in {"revoke", "login"} => Target(r) = Sys
  BY <1>2 DEF Target, PathKinds
<1> QED  BY <1>5, <1>6, <1>7, <1>8, <1>9

\* A step that leaves the store alone leaves its changes recorded.
LEMMA RecordedKept ==
  ASSUME job' = job, trail \subseteq trail'
  PROVE  /\ VersionsRecorded /\ versions' = versions => VersionsRecorded'
         /\ ClassesRecorded /\ class' = class => ClassesRecorded'
         /\ RevocationsRecorded /\ revoker' = revoker => RevocationsRecorded'
         /\ TokensRecorded /\ issued' = issued => TokensRecorded'
<1>1. \A q, g, a : Recorded(trail, q, g, a) => Recorded(trail', q, g, a)
  BY DEF Recorded
<1> QED  BY <1>1 DEF VersionsRecorded, ClassesRecorded, RevocationsRecorded, TokensRecorded, Has

\* Whatever changes in the store has its entry.
LEMMA ChangesKept ==
  ASSUME LocalTyped, StoreTyped, \A r \in Reqs : RequestInv(r), ChangesRecorded, [Next]_vars
  PROVE  ChangesRecorded'
<1> USE DEF StoreTyped
<1>1. ASSUME UNCHANGED store PROVE ChangesRecorded'
  <2>1. job' = job /\ trail \subseteq trail'
    BY RequestFrame DEF Next, Latch, LatchFails, Kill, Restart, ClearTrips, Records, vars, local
  <2> QED  BY <1>1, <2>1, RecordedKept DEF ChangesRecorded, store
<1>2. ASSUME NEW r \in Reqs, Put(r) PROVE ChangesRecorded'
  <2> DEFINE p == Target(r)
  <2>1. trail' = trail /\ job' = job /\ UNCHANGED <<issued, revoker>>  BY <1>2 DEF Put
  <2>2. CASE UNCHANGED <<versions, class>>
    BY <1>1, <1>2, <2>2 DEF Put, store
  <2>3. CASE /\ versions' = [versions EXCEPT ![p] = Append(@, NewVersion(r))]
             /\ class' = Classed(r)
    <3>1. at[r] = "act" /\ job[r].kind \in {"write", "classify"}  BY <1>2 DEF Put, Acting
    <3>2. p \in Paths
      BY <3>1, TargetIsPath DEF LocalTyped, PathKinds
    <3>3. Has(r, <<"write", p>>, TRUE)
            /\ (job[r].kind = "classify" => Has(r, <<"classify", p>>, TRUE))
      BY <3>1, ChangeDecided
    <3>4. ASSUME NEW x \in Paths, NEW n \in 1..Len(versions'[x])
          PROVE  \/ n \in 1..Len(versions[x]) /\ versions'[x][n] = versions[x][n]
                 \/ x = p /\ versions'[x][n] = NewVersion(r)
      <4>1. CASE x # p
        BY <2>3, <3>4, <4>1
      <4>2. CASE x = p
        <5>1. versions'[p] = Append(versions[p], NewVersion(r))  BY <2>3, <3>2
        <5>2. versions[p] \in Seq([by : Author, gone : Author])  BY <3>2
        <5>3. NewVersion(r) \in [by : Author, gone : Author]  BY DEF NewVersion, Author
        <5>4. /\ Len(versions'[p]) = Len(versions[p]) + 1
              /\ versions'[p][Len(versions[p]) + 1] = NewVersion(r)
              /\ \A m \in 1..Len(versions[p]) : versions'[p][m] = versions[p][m]
          BY <5>1, <5>2, <5>3, SeqFacts
        <5>5. Len(versions[p]) \in Nat  BY <5>2
        <5>6. n \in 1..Len(versions[p]) \/ n = Len(versions[p]) + 1
          BY <4>2, <5>4, <5>5
        <5> QED  BY <4>2, <5>4, <5>6
      <4> QED  BY <4>1, <4>2
    <3>5. VersionsRecorded'
      <4> SUFFICES ASSUME NEW x \in Paths, NEW n \in 1..Len(versions'[x])
                   PROVE  /\ versions'[x][n].by # None =>
                               Recorded(trail, versions'[x][n].by, <<"write", x>>, TRUE)
                          /\ versions'[x][n].gone # None =>
                               Recorded(trail, versions'[x][n].gone, <<"delete", x>>, TRUE)
        BY <2>1 DEF VersionsRecorded, Has
      <4>1. CASE n \in 1..Len(versions[x]) /\ versions'[x][n] = versions[x][n]
        BY <4>1 DEF ChangesRecorded, VersionsRecorded, Has
      <4>2. CASE x = p /\ versions'[x][n] = NewVersion(r)
        <5>1. versions'[x][n].by = r /\ versions'[x][n].gone = None  BY <4>2 DEF NewVersion
        <5> QED  BY <3>3, <4>2, <5>1 DEF Has
      <4> QED  BY <3>4, <4>1, <4>2
    <3>6. ClassesRecorded'
      BY <2>1, <2>3, <3>3 DEF Classed, ChangesRecorded, ClassesRecorded, Has
    <3> QED  BY <2>1, <3>5, <3>6, RecordedKept DEF ChangesRecorded
  <2> QED  BY <1>2, <2>2, <2>3 DEF Put
<1>3. ASSUME NEW r \in Reqs, Delete(r) PROVE ChangesRecorded'
  <2> DEFINE p == Target(r)
             k == seen[r]
  <2>1. trail' = trail /\ job' = job /\ UNCHANGED <<class, issued, revoker>>  BY <1>3 DEF Delete
  <2>2. CASE UNCHANGED versions
    BY <1>1, <2>1, <2>2 DEF store
  <2>3. CASE /\ Readable(p, k)
             /\ versions' = [versions EXCEPT ![p][k] = [by |-> @.by, gone |-> r]]
    <3>1. job[r].kind = "delete" /\ at[r] = "delete"
      BY <1>3 DEF Delete, RequestInv, Placed
    <3>2. p \in Paths /\ Has(r, <<"delete", p>>, TRUE)
      BY <3>1, TargetIsPath, ChangeDecided DEF LocalTyped, PathKinds
    <3>3. k \in 1..Len(versions[p])  BY <2>3 DEF Readable, Newest
    <3>4. ASSUME NEW x \in Paths, NEW n \in 1..Len(versions'[x])
          PROVE  /\ n \in 1..Len(versions[x])
                 /\ \/ versions'[x][n] = versions[x][n]
                    \/ x = p /\ versions'[x][n] = [by |-> versions[x][n].by, gone |-> r]
      <4>1. CASE x # p
        BY <2>3, <3>4, <4>1
      <4>2. CASE x = p
        <5>1. versions[p] \in Seq([by : Author, gone : Author])  BY <3>2
        <5>2. versions'[p] = [versions[p] EXCEPT ![k] = [by |-> versions[p][k].by, gone |-> r]]
          BY <2>3, <3>2
        <5>3. Len(versions'[p]) = Len(versions[p])  BY <3>3, <5>1, <5>2
        <5> QED  BY <3>3, <4>2, <5>1, <5>2, <5>3
      <4> QED  BY <4>1, <4>2
    <3>5. VersionsRecorded'
      <4> SUFFICES ASSUME NEW x \in Paths, NEW n \in 1..Len(versions'[x])
                   PROVE  /\ versions'[x][n].by # None =>
                               Recorded(trail, versions'[x][n].by, <<"write", x>>, TRUE)
                          /\ versions'[x][n].gone # None =>
                               Recorded(trail, versions'[x][n].gone, <<"delete", x>>, TRUE)
        BY <2>1 DEF VersionsRecorded, Has
      <4>1. n \in 1..Len(versions[x])  BY <3>4
      <4>2. CASE versions'[x][n] = versions[x][n]
        BY <4>1, <4>2 DEF ChangesRecorded, VersionsRecorded, Has
      <4>3. CASE x = p /\ versions'[x][n] = [by |-> versions[x][n].by, gone |-> r]
        <5>1. versions'[x][n].by = versions[x][n].by /\ versions'[x][n].gone = r  BY <4>3
        <5> QED  BY <3>2, <4>1, <4>3, <5>1 DEF ChangesRecorded, VersionsRecorded, Has
      <4> QED  BY <3>4, <4>2, <4>3
    <3> QED  BY <2>1, <3>5, RecordedKept DEF ChangesRecorded
  <2> QED  BY <1>3, <2>2, <2>3 DEF Delete
<1>4. ASSUME NEW r \in Reqs, Revoke(r) PROVE ChangesRecorded'
  <2>1. trail' = trail /\ job' = job /\ UNCHANGED <<versions, class, issued>>
    BY <1>4 DEF Revoke
  <2>2. Has(r, <<"revoke-token", Sys>>, TRUE)
    BY <1>4, ChangeDecided DEF Revoke, Acting
  <2>3. RevocationsRecorded'
    <3>1. revoker' = revoker \/ revoker' = [revoker EXCEPT ![job[r].target] = r]
      BY <1>4 DEF Revoke
    <3> QED  BY <2>1, <2>2, <3>1 DEF ChangesRecorded, RevocationsRecorded, Has
  <2> QED  BY <2>1, <2>3, RecordedKept DEF ChangesRecorded
<1>5. ASSUME NEW r \in Reqs, Mint(r) PROVE ChangesRecorded'
  <2>1. trail' = trail /\ job' = job /\ UNCHANGED <<versions, class, revoker>>
    BY <1>5 DEF Mint
  <2>2. Has(r, <<"federate-token", Sys>>, TRUE)
    BY <1>5, ChangeDecided DEF Mint, Acting
  <2>3. issued' \subseteq issued \cup {job[r].target}  BY <1>5 DEF Mint
  <2>4. TokensRecorded'
    BY <2>1, <2>2, <2>3 DEF ChangesRecorded, TokensRecorded, Has
  <2> QED  BY <2>1, <2>4, RecordedKept DEF ChangesRecorded
<1>6. ASSUME NEW r \in Reqs, Before(r) \/ Deciding(r) \/ Reading(r) \/ FindCurrent(r)
      PROVE  UNCHANGED store
  BY <1>6 DEF Before, Arrive, Authenticate, Exchange, Reject, RejectBait, ClaimToken, Refuse,
              Lookup, Deciding, Tier, Decide, ClaimSecret, Correct, Reading, BadQuery, Policies,
              Inspect, ReadTokens, Get, ListVersions, ListPaths, RecordListing, FindCurrent, store
<1>7. CASE OtherStep
  BY <1>1, <1>7 DEF OtherStep, Latch, LatchFails, Kill, Restart, ClearTrips, vars
<1> QED  BY <1>1, <1>2, <1>3, <1>4, <1>5, <1>6, <1>7 DEF Next, Changing, OtherStep

\* What a step of a request does to the revocations: at most the one it reports,
\* of a token nobody had revoked.
LEMMA RevokeFacts ==
  ASSUME LocalTyped, StoreTyped, NEW r \in Reqs, RequestStep(r), RequestInv(r)
  PROVE  /\ \A t \in Tokens : revoker'[t] # revoker[t] =>
              revoker[t] = None /\ revoker'[t] = r /\ answer'[r] = "revoked"
         /\ answer'[r] = "revoked" =>
              \/ answer[r] = "revoked"
              \/ revoker'[job[r].target] = r
<1>1. CASE Revoke(r)
  <2>1. job[r].target \in Tokens
    BY <1>1, JobFacts DEF Revoke, Acting, LocalTyped
  <2>2. \/ revoker' = revoker /\ answer'[r] # "revoked"
        \/ /\ revoker[job[r].target] = None
           /\ revoker' = [revoker EXCEPT ![job[r].target] = r]
           /\ answer'[r] = "revoked"
    BY <1>1 DEF Revoke, Answers, Fails, LocalTyped
  <2> QED  BY <2>1, <2>2 DEF StoreTyped
<1>2. CASE ~Revoke(r)
  <2>1. revoker' = revoker
    BY <1>2 DEF RequestStep, Before, Arrive, Authenticate, Exchange, Reject, RejectBait,
                ClaimToken, Refuse, Lookup, Deciding, Tier, Decide, ClaimSecret, Correct,
                Reading, BadQuery, Policies, Inspect, ReadTokens, Get, ListVersions, ListPaths,
                RecordListing, Changing, Put, FindCurrent, Delete, Mint, store
  <2>2. answer'[r] = answer[r] \/ answer'[r] # "revoked"
    <3> USE DEF Goes, Answers, Fails, LocalTyped
    <3>1. CASE Before(r)
      BY <3>1 DEF Before, Arrive, Authenticate, Exchange, Reject, RejectBait, ClaimToken,
                  Refuse, Lookup, Accepts, Rejects
    <3>2. CASE Deciding(r)
      BY <3>2 DEF Deciding, Tier, Decide, ClaimSecret, Correct, Stops, Decided
    <3>3. CASE Reading(r)
      BY <3>3 DEF Reading, BadQuery, Policies, Inspect, ReadTokens, Get, ListVersions, ListPaths,
                  RecordListing
    <3>4. CASE Put(r) \/ FindCurrent(r) \/ Delete(r) \/ Mint(r)
      BY <3>4 DEF Put, FindCurrent, Delete, Mint
    <3> QED  BY <1>2, <3>1, <3>2, <3>3, <3>4 DEF RequestStep, Changing
  <2> QED  BY <2>1, <2>2
<1> QED  BY <1>1, <1>2

\* At most one revocation is told that it stopped the credential.
LEMMA OneRevokerKept ==
  ASSUME LocalTyped, StoreTyped, LatchInv, \A r \in Reqs : RequestInv(r), OneRevoker,
         [Next]_vars
  PROVE  OneRevoker'
<1>1. ASSUME NEW r \in Reqs, RequestStep(r) PROVE OneRevoker'
  <2>1. job' = job /\ \A q \in Reqs \ {r} : answer'[q] = answer[q]
    BY <1>1, RequestFrame DEF RequestStep
  <2>2. answer[r] # "revoked"
    BY <1>1, StepRuns DEF RequestInv, Answered, Successes
  <2>3. ASSUME NEW q \in Reqs, answer'[q] = "revoked" PROVE revoker'[job[q].target] = q
    <3>1. CASE q = r
      BY <1>1, <2>2, <2>3, <3>1, RevokeFacts
    <3>2. CASE q # r
      <4>1. revoker[job[q].target] = q  BY <2>1, <2>3, <3>2 DEF OneRevoker
      <4>2. job[q].target \in Tokens
        BY <2>1, <2>3, <3>2, JobFacts DEF RequestInv, Answered, LocalTyped
      <4>3. q # None  BY StoreAssumption
      <4> QED  BY <1>1, <4>1, <4>2, <4>3, RevokeFacts
    <3> QED  BY <3>1, <3>2
  <2> QED  BY <2>1, <2>3 DEF OneRevoker
<1>2. CASE OtherStep
  BY <1>2 DEF OtherStep, Latch, LatchFails, Kill, Restart, ClearTrips, vars, local, store,
              OneRevoker
<1> QED  BY <1>1, <1>2 DEF Next, RequestStep, OtherStep

\* A step changes the store in the name of its own request only, and then the
\* request is served.
LEMMA ChangedFacts ==
  ASSUME LocalTyped, StoreTyped, NEW r \in Reqs, RequestStep(r), RequestInv(r)
  PROVE  \A q \in Reqs : Changed(q)' =>
           Changed(q) \/ (q = r /\ answer'[r] \in Successes)
<1> USE DEF StoreTyped
<1>1. CASE UNCHANGED store
  BY <1>1 DEF store, Changed
<1>2. CASE Put(r)
  <2> DEFINE p == Target(r)
  <2>1. CASE UNCHANGED <<versions, class>>
    BY <1>1, <1>2, <2>1 DEF Put, store
  <2>2. CASE /\ versions' = [versions EXCEPT ![p] = Append(@, NewVersion(r))]
             /\ class' = Classed(r) /\ Answers(r, "served")
    <3>1. p \in Paths  BY <1>2, TargetIsPath DEF Put, Acting, LocalTyped, PathKinds
    <3>2. answer'[r] \in Successes  BY <2>2 DEF Answers, LocalTyped, Successes
    <3>3. versions'[p] = Append(versions[p], NewVersion(r))  BY <2>2, <3>1
    <3>4. NewVersion(r) \in [by : Author, gone : Author]  BY DEF NewVersion, Author
    <3>5. versions[p] \in Seq([by : Author, gone : Author])  BY <3>1
    <3>6. /\ Len(versions'[p]) = Len(versions[p]) + 1 /\ Len(versions[p]) \in Nat
          /\ versions'[p][Len(versions[p]) + 1] = NewVersion(r)
          /\ \A m \in 1..Len(versions[p]) : versions'[p][m] = versions[p][m]
      BY <3>3, <3>4, <3>5, SeqFacts
    <3>7. NewVersion(r).by = r /\ NewVersion(r).gone = None  BY DEF NewVersion
    <3>8. ASSUME NEW q \in Reqs, q # r, Changed(q)' PROVE Changed(q)
      <4>1. q # None  BY StoreAssumption
      <4>2. CASE \E x \in Paths : class'[x] = q
        BY <2>2, <3>8, <4>2 DEF Classed, Changed
      <4>3. CASE \E t \in Tokens : revoker'[t] = q
        BY <1>2, <4>3 DEF Put, Changed
      <4>4. ASSUME NEW x \in Paths, NEW n \in 1..Len(versions'[x]),
                   versions'[x][n].by = q \/ versions'[x][n].gone = q
            PROVE  Changed(q)
        <5>1. CASE x # p
          <6>1. versions'[x] = versions[x]  BY <2>2, <5>1
          <6> QED  BY <4>4, <6>1 DEF Changed
        <5>2. CASE x = p
          <6>1. n \in 1..Len(versions[p]) \/ n = Len(versions[p]) + 1  BY <3>6, <5>2
          <6>2. n # Len(versions[p]) + 1  BY <3>6, <3>7, <3>8, <4>1, <4>4, <5>2
          <6>3. n \in 1..Len(versions[x]) /\ versions'[x][n] = versions[x][n]
            BY <3>6, <5>2, <6>1, <6>2
          <6> QED  BY <4>4, <6>3 DEF Changed
        <5> QED  BY <5>1, <5>2
      <4> QED  BY <3>8, <4>2, <4>3, <4>4 DEF Changed
    <3> QED  BY <3>2, <3>8
  <2> QED  BY <1>2, <2>1, <2>2 DEF Put
<1>3. CASE Delete(r)
  <2> DEFINE p == Target(r)
             k == seen[r]
  <2>1. CASE UNCHANGED versions
    BY <1>1, <1>3, <2>1 DEF Delete, store
  <2>2. CASE /\ Readable(p, k)
             /\ versions' = [versions EXCEPT ![p][k] = [by |-> @.by, gone |-> r]]
             /\ Answers(r, "served")
    <3>1. job[r].kind = "delete"  BY <1>3 DEF Delete, RequestInv, Placed
    <3>2. p \in Paths  BY <3>1, TargetIsPath DEF LocalTyped, PathKinds
    <3>3. answer'[r] \in Successes  BY <2>2 DEF Answers, LocalTyped, Successes
    <3>4. k \in 1..Len(versions[p])  BY <2>2 DEF Readable, Newest
    <3>5. versions'[p] = [versions[p] EXCEPT ![k] = [by |-> versions[p][k].by, gone |-> r]]
      BY <2>2, <3>2
    <3>6. versions[p] \in Seq([by : Author, gone : Author])  BY <3>2
    <3>7. Len(versions'[p]) = Len(versions[p])  BY <3>4, <3>5, <3>6
    <3>8. versions'[p][k].by = versions[p][k].by /\ versions'[p][k].gone = r
      BY <3>4, <3>5, <3>6
    <3>9. \A m \in 1..Len(versions[p]) : m # k => versions'[p][m] = versions[p][m]
      BY <3>5, <3>6
    <3>10. ASSUME NEW q \in Reqs, q # r, Changed(q)' PROVE Changed(q)
      <4>1. CASE (\E x \in Paths : class'[x] = q) \/ (\E t \in Tokens : revoker'[t] = q)
        BY <1>3, <4>1 DEF Delete, Changed
      <4>2. ASSUME NEW x \in Paths, NEW n \in 1..Len(versions'[x]),
                   versions'[x][n].by = q \/ versions'[x][n].gone = q
            PROVE  Changed(q)
        <5>1. CASE x # p
          <6>1. versions'[x] = versions[x]  BY <2>2, <5>1
          <6> QED  BY <4>2, <6>1 DEF Changed
        <5>2. CASE x = p
          <6>1. n \in 1..Len(versions[p])  BY <3>7, <5>2
          <6>2. versions[p][n].by = q \/ versions[p][n].gone = q
            BY <3>8, <3>9, <3>10, <4>2, <5>2, <6>1
          <6> QED  BY <5>2, <6>1, <6>2 DEF Changed
        <5> QED  BY <5>1, <5>2
      <4> QED  BY <3>10, <4>1, <4>2 DEF Changed
    <3> QED  BY <3>3, <3>10
  <2> QED  BY <1>3, <2>1, <2>2 DEF Delete
<1>4. CASE Revoke(r) \/ Mint(r)
  <2>1. versions' = versions /\ class' = class  BY <1>4 DEF Revoke, Mint
  <2>2. \A t \in Tokens : revoker'[t] # revoker[t] =>
          revoker'[t] = r /\ answer'[r] \in Successes
    BY RevokeFacts DEF Successes
  <2> QED  BY <2>1, <2>2 DEF Changed
<1>5. UNCHANGED store \/ Put(r) \/ Delete(r) \/ Revoke(r) \/ Mint(r)
  BY DEF RequestStep, Before, Arrive, Authenticate, Exchange, Reject, RejectBait, ClaimToken,
         Refuse, Lookup, Deciding, Tier, Decide, ClaimSecret, Correct, Reading, BadQuery,
         Policies, Inspect, ReadTokens, Get, ListVersions, ListPaths, RecordListing,
         Changing, FindCurrent
<1> QED  BY <1>1, <1>2, <1>3, <1>4, <1>5

\* Who has changed the store was served.
LEMMA ChangedKept ==
  ASSUME LocalTyped, StoreTyped, LatchInv, \A r \in Reqs : RequestInv(r),
         \A r \in Reqs : Changed(r) => answer[r] \in Successes, [Next]_vars
  PROVE  (\A r \in Reqs : Changed(r) => answer[r] \in Successes)'
<1>1. ASSUME NEW r \in Reqs, RequestStep(r), NEW q \in Reqs, Changed(q)'
      PROVE  answer'[q] \in Successes
  <2>1. ~Changed(r)  BY <1>1, StepRuns DEF RequestInv, Answered
  <2>2. Changed(q) \/ (q = r /\ answer'[r] \in Successes)  BY <1>1, ChangedFacts
  <2>3. q # r => answer'[q] = answer[q]  BY <1>1, RequestFrame DEF RequestStep
  <2> QED  BY <2>1, <2>2, <2>3
<1>2. ASSUME OtherStep, NEW q \in Reqs, Changed(q)' PROVE answer'[q] \in Successes
  <2>1. UNCHANGED store /\ answer' = answer
    BY <1>2 DEF OtherStep, Latch, LatchFails, Kill, Restart, ClearTrips, vars, local
  <2> QED  BY <1>2, <2>1 DEF store, Changed
<1> QED  BY <1>1, <1>2 DEF Next, RequestStep, OtherStep

\* A step that names no class leaves the newest one of every path where it is:
\* who wrote a version never changes.
LEMMA ClassStays ==
  ASSUME ClassIsNewest, job' = job, class' = class, NEW p \in Paths, Naming(p)' = Naming(p),
         \A n \in Naming(p) : versions'[p][n].by = versions[p][n].by
  PROVE  /\ class'[p] = None <=> Naming(p)' = {}
         /\ \A n \in Naming(p)' :
              (\A m \in Naming(p)' : m <= n) => class'[p] = versions'[p][n].by
BY DEF ClassIsNewest

\* The class and the newest version that names one change together.
LEMMA ClassKept ==
  ASSUME LocalTyped, StoreTyped, \A r \in Reqs : RequestInv(r), ClassIsNewest, [Next]_vars
  PROVE  ClassIsNewest'
<1> USE DEF StoreTyped
<1>1. ASSUME UNCHANGED <<versions, class, job>> PROVE ClassIsNewest'
  BY <1>1 DEF ClassIsNewest, Naming
<1>2. ASSUME NEW r \in Reqs, Put(r) PROVE ClassIsNewest'
  <2>0. Target(r) \in Paths  BY <1>2, TargetIsPath DEF Put, Acting, LocalTyped, PathKinds
  <2>p. PICK p \in Paths : p = Target(r)  BY <2>0
  <2>k. PICK k \in Nat : k = Len(versions[p]) + 1  OBVIOUS
  <2>1. CASE UNCHANGED <<versions, class>>
    BY <1>1, <1>2, <2>1 DEF Put
  <2>2. CASE /\ versions' = [versions EXCEPT ![p] = Append(@, NewVersion(r))]
             /\ class' = Classed(r)
    <3>0. job' = job /\ r # None  BY <1>2, StoreAssumption DEF Put
    <3>2. versions'[p] = Append(versions[p], NewVersion(r))  BY <2>2
    <3>3. NewVersion(r) \in [by : Author, gone : Author]  BY DEF NewVersion, Author
    <3>4. versions[p] \in Seq([by : Author, gone : Author])  OBVIOUS
    <3>5. /\ Len(versions'[p]) = k /\ Len(versions[p]) \in Nat
          /\ versions'[p][k] = NewVersion(r)
          /\ \A m \in 1..Len(versions[p]) : versions'[p][m] = versions[p][m]
      BY <2>k, <3>2, <3>3, <3>4, SeqFacts
    <3>6. versions'[p][k].by = r  BY <3>5 DEF NewVersion
    <3>7. Naming(p)' = IF job[r].kind = "classify" THEN Naming(p) \cup {k} ELSE Naming(p)
      BY <2>k, <3>0, <3>5, <3>6 DEF Naming
    <3>8. \A n \in Naming(p) : n \in 1..Len(versions[p]) /\ n < k /\ versions'[p][n] = versions[p][n]
      BY <2>k, <3>5 DEF Naming
    <3> SUFFICES ASSUME NEW x \in Paths
                 PROVE  /\ class'[x] = None <=> Naming(x)' = {}
                        /\ \A n \in Naming(x)' :
                             (\A m \in Naming(x)' : m <= n) => class'[x] = versions'[x][n].by
      BY DEF ClassIsNewest
    <3>9. CASE x # p
      <4>1. versions'[x] = versions[x] /\ class'[x] = class[x]  BY <2>p, <2>2, <3>9 DEF Classed
      <4>2. Naming(x)' = Naming(x)  BY <3>0, <4>1 DEF Naming
      <4> QED  BY <4>1, <4>2 DEF ClassIsNewest
    <3>10. CASE x = p /\ job[r].kind # "classify"
      <4>1. class' = class  BY <2>2, <3>10 DEF Classed
      <4> QED  BY <3>0, <3>7, <3>8, <3>10, <4>1, ClassStays
    <3>11. CASE x = p /\ job[r].kind = "classify"
      <4>1. class'[p] = r  BY <2>p, <2>2, <3>11 DEF Classed
      <4>2. Naming(p)' = Naming(p) \cup {k}  BY <3>7, <3>11
      <4>3. \A n \in Naming(p)' : (\A m \in Naming(p)' : m <= n) => n = k
        <5> SUFFICES ASSUME NEW n \in Naming(p)', \A m \in Naming(p)' : m <= n, n # k
                     PROVE  FALSE
          OBVIOUS
        <5>1. k <= n  BY <4>2
        <5>2. n \in Naming(p)  BY <4>2
        <5>3. n \in Nat /\ n < k  BY <3>5, <3>8, <5>2
        <5> QED  BY <5>1, <5>3
      <4> QED  BY <3>0, <3>6, <3>11, <4>1, <4>2, <4>3
    <3> QED  BY <3>9, <3>10, <3>11
  <2> QED  BY <1>2, <2>p, <2>1, <2>2 DEF Put
<1>3. ASSUME NEW r \in Reqs, Delete(r) PROVE ClassIsNewest'
  <2> DEFINE p == Target(r)
             k == seen[r]
  <2>1. CASE UNCHANGED versions
    BY <1>1, <1>3, <2>1 DEF Delete
  <2>2. CASE /\ Readable(p, k)
             /\ versions' = [versions EXCEPT ![p][k] = [by |-> @.by, gone |-> r]]
    <3>0. job' = job /\ class' = class  BY <1>3 DEF Delete
    <3>1. job[r].kind = "delete"  BY <1>3 DEF Delete, RequestInv, Placed
    <3>2. p \in Paths  BY <3>1, TargetIsPath DEF LocalTyped, PathKinds
    <3>3. k \in 1..Len(versions[p])  BY <2>2 DEF Readable, Newest
    <3>4. versions'[p] = [versions[p] EXCEPT ![k] = [by |-> versions[p][k].by, gone |-> r]]
      BY <2>2, <3>2
    <3>5. versions[p] \in Seq([by : Author, gone : Author])  BY <3>2
    <3>6. Len(versions'[p]) = Len(versions[p])  BY <3>3, <3>4, <3>5
    <3>7. versions'[p][k].by = versions[p][k].by  BY <3>3, <3>4, <3>5
    <3>8. \A m \in 1..Len(versions[p]) : m # k => versions'[p][m] = versions[p][m]
      BY <3>4, <3>5
    <3>9. \A x \in Paths : Len(versions'[x]) = Len(versions[x])  BY <2>2, <3>6
    <3>10. \A x \in Paths : \A n \in 1..Len(versions[x]) : versions'[x][n].by = versions[x][n].by
      BY <2>2, <3>7, <3>8
    <3>11. \A x \in Paths : Naming(x)' = Naming(x)  BY <3>0, <3>9, <3>10 DEF Naming
    <3>12. \A x \in Paths : \A n \in Naming(x) : versions'[x][n].by = versions[x][n].by
      BY <3>10 DEF Naming
    <3> QED  BY <3>0, <3>11, <3>12, ClassStays DEF ClassIsNewest
  <2> QED  BY <1>3, <2>1, <2>2 DEF Delete
<1>4. ASSUME NEW r \in Reqs, RequestStep(r), ~Put(r), ~Delete(r)
      PROVE  UNCHANGED <<versions, class, job>>
  BY <1>4 DEF RequestStep, Before, Arrive, Authenticate, Exchange, Reject, RejectBait, ClaimToken,
         Refuse, Lookup, Deciding, Tier, Decide, ClaimSecret, Correct, Reading, BadQuery,
         Policies, Inspect, ReadTokens, Get, ListVersions, ListPaths, RecordListing,
         Changing, FindCurrent, Revoke, Mint, store
<1>5. OtherStep => UNCHANGED <<versions, class, job>>
  BY DEF OtherStep, Latch, LatchFails, Kill, Restart, ClearTrips, vars, local, store
<1> QED  BY <1>1, <1>2, <1>3, <1>4, <1>5 DEF Next, RequestStep, OtherStep

\* When the server starts no version names a class.
LEMMA InitClass == Init => ClassIsNewest
<1> SUFFICES ASSUME Init, NEW p \in Paths PROVE class[p] = None /\ Naming(p) = {}
  BY DEF ClassIsNewest
<1>1. versions[p] = <<NewVersion(None)>> \/ versions[p] = <<>>  BY DEF Init
<1>2. \A n \in 1..Len(versions[p]) : versions[p][n].by = None  BY <1>1 DEF NewVersion
<1> QED  BY <1>2 DEF Naming, Init

\* The invariant holds when the server starts.
LEMMA InitInv == Init => ServerInv
<1> SUFFICES ASSUME Init PROVE ServerInv
  OBVIOUS
<1> USE DEF Init
<1>1. LocalTyped  BY DEF LocalTyped, Steps
<1>2. StoreTyped
  <2> DEFINE V == [by : Author, gone : Author]
  <2>1. NewVersion(None) \in V  BY DEF NewVersion, Author
  <2>2. <<NewVersion(None)>> \in Seq(V) /\ Len(<<NewVersion(None)>>) = 1
    <3> HIDE DEF V
    <3> QED  BY <2>1
  <2>3. <<>> \in Seq(V) /\ Len(<<>>) = 0  OBVIOUS
  <2>4. \A p \in Paths : versions[p] = <<NewVersion(None)>> \/ versions[p] = <<>>  OBVIOUS
  <2>5. \A p \in Paths : versions[p] \in Seq(V) /\ Len(versions[p]) <= MaxVersion
    <3> HIDE DEF V
    <3> QED  BY <2>2, <2>3, <2>4, StoreAssumption
  <2>6. versions \in [Paths -> Seq(V)]  BY <2>5
  <2> QED  BY <2>5, <2>6, StoreAssumption DEF StoreTyped, Author
<1>3. LatchInv  BY DEF LatchInv, ClaimsAreBacked
<1>4. ASSUME NEW p \in Paths, NEW n \in 1..Len(versions[p])
      PROVE  versions[p][n].by = None /\ versions[p][n].gone = None
  <2>1. versions[p] = <<NewVersion(None)>> \/ versions[p] = <<>>  OBVIOUS
  <2>2. versions[p] = <<NewVersion(None)>> /\ n = 1  BY <1>4, <2>1
  <2> QED  BY <2>2 DEF NewVersion
<1>5. ChangesRecorded
  BY <1>4 DEF ChangesRecorded, VersionsRecorded, ClassesRecorded, RevocationsRecorded,
              TokensRecorded
<1>6. OneRevoker  BY DEF OneRevoker
<1>7. \A r \in Reqs : ~Changed(r)
  <2> SUFFICES ASSUME NEW r \in Reqs PROVE ~Changed(r)
    OBVIOUS
  <2>1. r # None  BY StoreAssumption
  <2>2. \A p \in Paths : class[p] # r  BY <2>1
  <2>3. \A t \in Tokens : revoker[t] # r  BY <2>1
  <2>4. \A p \in Paths : \A n \in 1..Len(versions[p]) :
          versions[p][n].by # r /\ versions[p][n].gone # r
    <3> SUFFICES ASSUME NEW p \in Paths, NEW n \in 1..Len(versions[p])
                 PROVE  versions[p][n].by # r /\ versions[p][n].gone # r
      OBVIOUS
    <3>1. versions[p][n].by = None /\ versions[p][n].gone = None  BY <1>4
    <3> QED  BY <2>1, <3>1
  <2> QED  BY <2>2, <2>3, <2>4 DEF Changed
<1>8. ASSUME NEW r \in Reqs PROVE RequestInv(r)
  <2>1. job[r] \in Jobs /\ Count(job[r]) \in Nat \ {0}  BY JobFacts
  <2>2. Logged(r)  BY <2>1 DEF Logged
  <2>3. Placed(r)  BY DEF Placed
  <2>4. Answered(r)  BY DEF Answered, Successes, Errors
  <2> QED  BY <2>2, <2>3, <2>4 DEF RequestInv
<1> QED  BY <1>1, <1>2, <1>3, <1>5, <1>6, <1>7, <1>8 DEF ServerInv, ChangeInv

\* Every step keeps the invariant.
LEMMA NextInv == ServerInv /\ [Next]_vars => ServerInv'
<1> SUFFICES ASSUME ServerInv, [Next]_vars PROVE ServerInv'
  OBVIOUS
<1> USE DEF ServerInv, ChangeInv
<1>1. LocalTyped' /\ StoreTyped'  BY LocalTypeKept, StoreTypeKept
<1>2. (up \in BOOLEAN)'
  <2>1. up' = up \/ up' \in BOOLEAN
    BY RequestFrame DEF Next, Latch, LatchFails, Kill, Restart, ClearTrips, vars
  <2> QED  BY <2>1
<1>3. LatchInv'  BY LatchKept
<1>4. ChangesRecorded' /\ OneRevoker'  BY ChangesKept, OneRevokerKept
<1>5. (\A r \in Reqs : Changed(r) => answer[r] \in Successes)'  BY ChangedKept
<1>6. (\A r \in Reqs : RequestInv(r))'  BY RequestsKept
<1> QED  BY <1>1, <1>2, <1>3, <1>4, <1>5, <1>6

\* What the invariant says of the runs' properties.
LEMMA InvImplies ==
  ServerInv => /\ TypeOK /\ NothingUnrecorded /\ FailureChangesNothing /\ TrailIsHonest
               /\ OneRevoker /\ ClaimsAreBacked /\ TripsAreRecorded
<1> SUFFICES ASSUME ServerInv
             PROVE  /\ TypeOK /\ NothingUnrecorded /\ FailureChangesNothing /\ TrailIsHonest
                    /\ OneRevoker /\ ClaimsAreBacked /\ TripsAreRecorded
  OBVIOUS
<1> USE DEF ServerInv, ChangeInv
<1>1. TypeOK  BY DEF TypeOK, LatchInv
<1>2. ServedRecorded
  <2> SUFFICES ASSUME NEW r \in Reqs, answer[r] \in Successes,
                      NEW i \in 1..Count(job[r])
               PROVE  Has(r, GateAt(job[r], i), TRUE)
    BY DEF ServedRecorded
  <2>1. done[r] = Count(job[r])  BY DEF RequestInv, Answered
  <2> QED  BY <2>1 DEF RequestInv, Logged
<1>3. FailureChangesNothing  BY DEF FailureChangesNothing, Successes, Errors
<1>4. TrailIsHonest
  <2> SUFFICES ASSUME NEW r \in Reqs, at[r] = "done", answer[r] \in Errors \ {"unavailable"},
                      ~LeftStanding(r), NEW i \in 1..done[r]
               PROVE  Has(r, GateAt(job[r], i), FALSE)
    BY DEF TrailIsHonest
  <2>1. fixed[r] = done[r]  BY DEF RequestInv, Answered
  <2> QED  BY <2>1 DEF RequestInv, Logged
<1> QED  BY <1>1, <1>2, <1>3, <1>4 DEF NothingUnrecorded, LatchInv, TripsAreRecorded

\* The state keeps its type: a version number never passes its limit, and only
\* bait is claimed or latched.
THEOREM RequestsTyped == Spec => []TypeOK
<1>1. Spec => []ServerInv  BY InitInv, NextInv, PTL DEF Spec
<1> QED  BY <1>1, InvImplies, PTL

\* Fail-closed, for any number of concurrent requests and any policies: nothing
\* changes in the store and nothing is served without the request's own allowed
\* entry.
THEOREM FailClosed == Spec => []NothingUnrecorded
<1>1. Spec => []ServerInv  BY InitInv, NextInv, PTL DEF Spec
<1> QED  BY <1>1, InvImplies, PTL

\* A request that is answered with an error has changed nothing.
THEOREM FailureIsHarmless == Spec => []FailureChangesNothing
<1>1. Spec => []ServerInv  BY InitInv, NextInv, PTL DEF Spec
<1> QED  BY <1>1, InvImplies, PTL

\* An error of a handler is answered after each of its allowed entries has been
\* corrected, however many paths an export has.
THEOREM CorrectionsComplete == Spec => []TrailIsHonest
<1>1. Spec => []ServerInv  BY InitInv, NextInv, PTL DEF Spec
<1> QED  BY <1>1, InvImplies, PTL

\* However many revocations race, one is told that it stopped the credential.
THEOREM RevocationIsOnce == Spec => []OneRevoker
<1>1. Spec => []ServerInv  BY InitInv, NextInv, PTL DEF Spec
<1> QED  BY <1>1, InvImplies, PTL

\* A claim never suppresses a latch that is needed.
THEOREM LatchIsSound == Spec => []ClaimsAreBacked
<1>1. Spec => []ServerInv  BY InitInv, NextInv, PTL DEF Spec
<1> QED  BY <1>1, InvImplies, PTL

\* A trip is never open without its entry, through failed latches, kills and
\* cleared tripwires.
THEOREM TripsHaveEntries == Spec => []TripsAreRecorded
<1>1. Spec => []ServerInv  BY InitInv, NextInv, PTL DEF Spec
<1> QED  BY <1>1, InvImplies, PTL

\* The class of a path is that of the newest write that named one, however
\* writes, deletions and failures of other requests come in between.
THEOREM ClassFollowsWrites == Spec => []ClassIsNewest
<1>1. ServerInv /\ ClassIsNewest /\ [Next]_vars => ClassIsNewest'
  BY ClassKept DEF ServerInv
<1>2. Spec => []ServerInv  BY InitInv, NextInv, PTL DEF Spec
<1> QED  BY <1>1, <1>2, InitClass, PTL DEF Spec

=============================================================================
