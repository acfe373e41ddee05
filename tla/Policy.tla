------------------------------- MODULE Policy -------------------------------
(***************************************************************************)
(* Paths, patterns and the authorization decision of ciphr: parsing of     *)
(* both (crates/ciphr-core/src/path.rs, pattern.rs), the capabilities      *)
(* (capability.rs), the loading of a policy file (crates/ciphr-policy/src/ *)
(* model.rs) and PolicySet::evaluate (evaluate.rs).                        *)
(*                                                                         *)
(* These are functions without state, so this module has no variables.     *)
(* Module Deployment loads policy files with them and asks for decisions.  *)
(*                                                                         *)
(* A text is a sequence of segments, as '/' splits it. A segment is a      *)
(* literal, one of the two wildcards, or a token that stands for a class   *)
(* of malformed segments; MAX_PATH_LEN counts segments instead of bytes.   *)
(***************************************************************************)
EXTENDS Integers, Sequences, FiniteSets

CONSTANTS
  Nfc,          \* the NFC form of each segment a person may type
  Rank,         \* the byte order of names and segments
  MaxSegments   \* MAX_PATH_LEN

\* NFC is idempotent: "normalizing an already normalized path changes nothing".
ASSUME NfcAssumption ==
  \A s \in DOMAIN Nfc : Nfc[s] \in DOMAIN Nfc /\ Nfc[Nfc[s]] = Nfc[s]

-----------------------------------------------------------------------------
(* Results.                                                                *)

Fine == "fine"

Ok(v)  == [ok |-> TRUE, value |-> v]
Err(e) == [ok |-> FALSE, error |-> e]

\* The problem of the first of n items that has one: a loop with an early return.
FirstProblem(n, Problem(_)) ==
  LET bad == {i \in 1..n : Problem(i) # Fine}
  IN  IF bad = {} THEN Fine ELSE Problem(CHOOSE i \in bad : \A j \in bad : i <= j)

-----------------------------------------------------------------------------
(* Segments, paths and patterns.                                           *)

One  == "*"
Rest == "**"

\* What inspect_segment refuses. A token stands for its class.
Malformed == {"empty", "too-long", "relative", "control", "whitespace", "disallowed"}

\* A wildcard character among other characters. Both parsers refuse it, each in
\* its own words, and inspect_segment lets it through.
Partial == "partial"

Reserved == "sys"

Normalize(text) == [i \in DOMAIN text |-> Nfc[text[i]]]

InspectSegment(s) == IF s \in Malformed THEN s ELSE Fine

\* validate_segment: no '*' in a path at all.
PathSegment(s) ==
  IF InspectSegment(s) # Fine THEN InspectSegment(s)
  ELSE IF s \in {One, Rest, Partial} THEN "wildcard" ELSE Fine

\* One step of the loop of PathPattern::parse.
PatternSegment(s, last) ==
  CASE s = One  -> Fine
    [] s = Rest -> IF last THEN Fine ELSE "trailing-multi-wildcard-only"
    [] OTHER    -> IF InspectSegment(s) # Fine THEN InspectSegment(s)
                   ELSE IF s = Partial THEN "partial-wildcard" ELSE Fine

\* What the two parsers check before they look at a segment.
WholeText(text) ==
  IF text = <<"empty">> THEN "empty"
  ELSE IF Len(text) > MaxSegments THEN "too-long"
  ELSE Fine

\* SecretPath::parse.
ParsePath(input) ==
  LET text == Normalize(input)
      Problem(i) == PathSegment(text[i])
  IN  IF WholeText(text) # Fine THEN Err(WholeText(text))
      ELSE IF FirstProblem(Len(text), Problem) # Fine
        THEN Err(FirstProblem(Len(text), Problem)) ELSE Ok(text)

\* PathPattern::parse.
ParsePattern(input) ==
  LET text == Normalize(input)
      Problem(i) == PatternSegment(text[i], i = Len(text))
  IN  IF WholeText(text) # Fine THEN Err(WholeText(text))
      ELSE IF FirstProblem(Len(text), Problem) # Fine
        THEN Err(FirstProblem(Len(text), Problem)) ELSE Ok(text)

IsReserved(path) == path[1] = Reserved

NamesReservedPrefix(pattern) == pattern[1] = Reserved

\* SecretPath::starts_with, on a segment boundary.
StartsWith(path, prefix) ==
  Len(prefix) <= Len(path) /\ SubSeq(path, 1, Len(prefix)) = prefix

Specificity(pattern) == Cardinality({i \in DOMAIN pattern : pattern[i] \notin {One, Rest}})

\* Mutant of Matches: '**' also matches when nothing is left of the path.
MatchesNothingLeft(pattern, path) ==
  LET scan[i \in 1..Len(pattern) + 1] ==
        IF i > Len(pattern) THEN i > Len(path)
        ELSE IF pattern[i] = Rest THEN TRUE
        ELSE IF i > Len(path) THEN FALSE
        ELSE IF pattern[i] = One THEN scan[i + 1]
        ELSE pattern[i] = path[i] /\ scan[i + 1]
  IN  scan[1]

\* PathPattern::matches: one scan over both, no backtracking.
Matches(pattern, path) ==
  LET scan[i \in 1..Len(pattern) + 1] ==
        IF i > Len(pattern) THEN i > Len(path)
        ELSE IF i > Len(path) THEN FALSE
        ELSE IF pattern[i] = Rest THEN TRUE
        ELSE IF pattern[i] = One THEN scan[i + 1]
        ELSE pattern[i] = path[i] /\ scan[i + 1]
  IN  scan[1]

-----------------------------------------------------------------------------
(* The policy file.                                                        *)

Capabilities == {"read", "write", "delete", "list", "undelete", "inspect", "revoke"}

ControlPlane == {"inspect", "revoke"}

IdentityKinds == {"machine", "human"}

\* PolicyError.
PolicyErrors ==
  {"toml", "pattern", "capability", "duplicate-capability",
   "secret-capability-on-control-plane", "duplicate-pattern", "duplicate-policy",
   "duplicate-identity", "unknown-policy", "duplicate-policy-reference",
   "unknown-identity-kind"}

\* One name in the capabilities of a rule, after the names before it.
CapabilityProblem(pattern, names, i) ==
  IF names[i] \notin Capabilities THEN "capability"
  ELSE IF \E j \in 1..i - 1 : names[j] = names[i] THEN "duplicate-capability"
  ELSE IF NamesReservedPrefix(pattern) /\ names[i] \notin ControlPlane
    THEN "secret-capability-on-control-plane"
  ELSE Fine

\* One rule of build_policy, after the rules before it.
RuleProblem(rules, i) ==
  LET parsed == ParsePattern(rules[i].path)
      earlier == {ParsePattern(rules[j].path).value : j \in 1..i - 1}
      Problem(k) == CapabilityProblem(parsed.value, rules[i].capabilities, k)
  IN  IF ~parsed.ok THEN "pattern"
      ELSE IF parsed.value \in earlier THEN "duplicate-pattern"
      ELSE FirstProblem(Len(rules[i].capabilities), Problem)

\* build_policy, and the insertion of what it built.
PolicyProblem(policies, i) ==
  LET Problem(k) == RuleProblem(policies[i].rule, k)
      within == FirstProblem(Len(policies[i].rule), Problem)
  IN  IF within # Fine THEN within
      ELSE IF \E j \in 1..i - 1 : policies[j].name = policies[i].name
        THEN "duplicate-policy" ELSE Fine

\* build_identity, and the insertion of what it built.
IdentityProblem(file, i) ==
  LET identity == file.identity[i]
      known == {file.policy[k].name : k \in DOMAIN file.policy}
      Problem(k) ==
        IF identity.policies[k] \notin known THEN "unknown-policy"
        ELSE IF \E j \in 1..k - 1 : identity.policies[j] = identity.policies[k]
          THEN "duplicate-policy-reference" ELSE Fine
      within == FirstProblem(Len(identity.policies), Problem)
  IN  IF identity.kind \notin IdentityKinds THEN "unknown-identity-kind"
      ELSE IF within # Fine THEN within
      ELSE IF \E j \in 1..i - 1 : file.identity[j].name = identity.name
        THEN "duplicate-identity" ELSE Fine

\* The problem from_toml reports. A file that is no TOML of this shape, an
\* unknown key included, has syntax FALSE.
FileProblem(file) ==
  LET InPolicies(i) == PolicyProblem(file.policy, i)
      InIdentities(i) == IdentityProblem(file, i)
      first == FirstProblem(Len(file.policy), InPolicies)
  IN  IF ~file.syntax THEN "toml"
      ELSE IF first # Fine THEN first
      ELSE FirstProblem(Len(file.identity), InIdentities)

\* The one entry of a sequence of records with a name.
Named(s, name) == s[CHOOSE i \in DOMAIN s : s[i].name = name]

NamesOf(s) == {s[i].name : i \in DOMAIN s}

Rule(raw) ==
  [pattern |-> ParsePattern(raw.path).value,
   capabilities |-> {raw.capabilities[i] : i \in DOMAIN raw.capabilities}]

\* PolicySet::from_toml: the whole file or none of it.
FromToml(file) ==
  IF FileProblem(file) # Fine THEN Err(FileProblem(file)) ELSE
  Ok([identities |-> [n \in NamesOf(file.identity) |-> Named(file.identity, n).policies],
      policies |-> [n \in NamesOf(file.policy) |->
                      LET raw == Named(file.policy, n).rule
                      IN  [i \in DOMAIN raw |-> Rule(raw[i])]]])

-----------------------------------------------------------------------------
(* The decision.                                                           *)

\* The order of two texts: the first segment in which they differ.
Before(a, b) ==
  \E k \in 1..Len(b) :
    /\ k <= Len(a) + 1
    /\ \A i \in 1..k - 1 : a[i] = b[i]
    /\ k <= Len(a) => Rank[a[k]] < Rank[b[k]]

\* The order that winners are sorted in: by policy, then by pattern.
Earlier(m, n) ==
  \/ Rank[m.policy] < Rank[n.policy]
  \/ m.policy = n.policy /\ Before(m.pattern, n.pattern)

\* Every rule of every attached policy, as the decision sees it.
RulesOf(set, identity) ==
  UNION {{[policy |-> p, pattern |-> set.policies[p][i].pattern,
           capabilities |-> set.policies[p][i].capabilities] :
            i \in DOMAIN set.policies[p]} :
         p \in {set.identities[identity][k] : k \in DOMAIN set.identities[identity]}}

\* The matching rules that no matching rule is more specific than.
MostSpecific(matches) ==
  {m \in matches : \A n \in matches : Specificity(n.pattern) <= Specificity(m.pattern)}

\* The rule the decision names: the first in the sorted order.
NamedRule(winners) ==
  LET w == CHOOSE w \in winners : \A v \in winners : v = w \/ Earlier(w, v)
  IN  [policy |-> w.policy, pattern |-> w.pattern]

NoRule == [policy |-> "none", pattern |-> <<>>]

Allow(rule)        == [effect |-> "allow", reason |-> "none", rule |-> rule]
Deny(reason, rule) == [effect |-> "deny", reason |-> reason, rule |-> rule]

\* Mutant of Decide: on a tie, permission wins.
DecideTieAllows(matches, capability) ==
  LET winners  == MostSpecific(matches)
      granting == {w \in winners : capability \in w.capabilities}
  IN  IF matches = {} THEN Deny("no-matching-rule", NoRule)
      ELSE IF granting # {} THEN Allow(NamedRule(winners))
      ELSE Deny("not-granted", NamedRule(winners \ granting))

\* What the matching rules come to.
Decide(matches, capability) ==
  LET winners  == MostSpecific(matches)
      granting == {w \in winners : capability \in w.capabilities}
  IN  IF matches = {} THEN Deny("no-matching-rule", NoRule)
      ELSE IF granting = winners THEN Allow(NamedRule(winners))
      ELSE Deny(IF granting = {} THEN "not-granted" ELSE "tie", NamedRule(winners \ granting))

\* PolicySet::evaluate.
Evaluate(set, identity, path, capability) ==
  IF identity \notin DOMAIN set.identities THEN Deny("unknown-identity", NoRule)
  ELSE Decide({r \in RulesOf(set, identity) : Matches(r.pattern, path)}, capability)

Allowed(set, identity, path, capability) ==
  Evaluate(set, identity, path, capability).effect = "allow"

EffectiveCapabilities(set, identity, path) ==
  {c \in Capabilities : Allowed(set, identity, path, c)}

-----------------------------------------------------------------------------
(* Reference definitions, from the documentation of the pattern language    *)
(* and of the decision, written without the scan and without the winners.   *)

\* "* matches exactly one path segment; ** matches one or more segments."
Covers(pattern, path) ==
  LET open == pattern[Len(pattern)] = Rest
      n    == IF open THEN Len(pattern) - 1 ELSE Len(pattern)
  IN  /\ IF open THEN Len(path) > n ELSE Len(path) = n
      /\ \A i \in 1..n : pattern[i] \in {One, path[i]}

\* "Deny by default; most specific match wins; on a tie, denial wins": some
\* matching rule grants it, and so does every matching rule as specific.
Granted(rules, path, capability) ==
  LET matches == {r \in rules : Covers(r.pattern, path)}
  IN  \E r \in matches :
        \A s \in matches :
          Specificity(s.pattern) >= Specificity(r.pattern) => capability \in s.capabilities
=============================================================================
