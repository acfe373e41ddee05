----------------------------- MODULE Federation -----------------------------
(***************************************************************************)
(* Federated login of ciphr: the check of the [[auth.oidc]] stanzas at     *)
(* start-up and the examination of a presented ID token                    *)
(* (crates/ciphr-server/src/oidc.rs).                                      *)
(*                                                                         *)
(* A stanza is a record of what the file says, a presented token a record  *)
(* of its header, its payload and the pair of keys that signed it. Times   *)
(* are in seconds, as the claims are; the code multiplies by 1000, and a   *)
(* product that does not fit is a value above MaxTime.                     *)
(***************************************************************************)
EXTENDS Policy

CONSTANTS
  None,      \* a field that is absent
  NotWhole,  \* a time claim that is a float or a string
  MaxTime    \* the largest number of seconds whose milliseconds fit in i64

-----------------------------------------------------------------------------
(* Federation::resolve.                                                    *)

\* Claims a binding may not select on: exchange has checked them already.
VerifiedClaims == {"iss", "aud", "exp", "nbf", "iat"}

UnitSeconds == [d |-> 86400, h |-> 3600, m |-> 60, s |-> 1]

\* parse_duration_millis: a positive number with a unit, and no overflow.
ParseDuration(ttl) ==
  IF /\ ttl.unit \in DOMAIN UnitSeconds
     /\ ttl.digits > 0
     /\ ttl.digits <= MaxTime \div UnitSeconds[ttl.unit]
  THEN ttl.digits * UnitSeconds[ttl.unit]
  ELSE None

\* One key of resolve_keys, after the keys before it. form tells whether the
\* fields decode and have the length of their algorithm.
KeyProblem(keys, i) ==
  IF keys[i].form = "not-base64url" THEN "oidc-key-encoding"
  ELSE IF keys[i].form = "wrong-size" THEN "oidc-key-size"
  ELSE IF \E j \in 1..i - 1 : keys[j].kid = keys[i].kid THEN "oidc-duplicate-key"
  ELSE Fine

\* resolve_keys.
KeysProblem(keys) ==
  LET Problem(i) == KeyProblem(keys, i)
  IN  IF keys = <<>> THEN "oidc-no-keys" ELSE FirstProblem(Len(keys), Problem)

\* One binding of resolve_bindings, after the bindings before it.
BindingProblem(bindings, i) ==
  IF bindings[i].identity = "" THEN "oidc-binding-identity"
  ELSE IF DOMAIN bindings[i].claims = {} THEN "oidc-binding-no-claims"
  ELSE IF DOMAIN bindings[i].claims \cap VerifiedClaims # {} THEN "oidc-binding-verified-claim"
  ELSE IF \E j \in 1..i - 1 : bindings[j].claims = bindings[i].claims THEN "oidc-duplicate-binding"
  ELSE Fine

\* resolve_bindings.
BindingsProblem(bindings) ==
  LET Problem(i) == BindingProblem(bindings, i)
  IN  IF bindings = <<>> THEN "oidc-no-bindings"
      ELSE FirstProblem(Len(bindings), Problem)

\* One stanza of the loop. The comparison of issuer and audience is with every
\* stanza, the ones behind it included.
ProviderProblem(stanzas, i) ==
  LET s == stanzas[i]
  IN  IF s.name = "" THEN "oidc-name"
      ELSE IF s.issuer = "" THEN "oidc-issuer"
      ELSE IF s.audience = "" THEN "oidc-audience"
      ELSE IF \E j \in DOMAIN stanzas \ {i} :
                stanzas[j].issuer = s.issuer /\ stanzas[j].audience = s.audience
        THEN "oidc-duplicate-provider"
      ELSE IF ParseDuration(s.ttl) = None THEN "oidc-ttl"
      ELSE IF KeysProblem(s.keys) # Fine THEN KeysProblem(s.keys)
      ELSE BindingsProblem(s.bindings)

Provider(s) ==
  [name |-> s.name, issuer |-> s.issuer, audience |-> s.audience, skew |-> s.skew,
   ttl |-> ParseDuration(s.ttl), keys |-> s.keys, bindings |-> s.bindings]

\* Federation::resolve.
ResolveFederation(stanzas) ==
  LET Problem(i) == ProviderProblem(stanzas, i)
  IN  IF FirstProblem(Len(stanzas), Problem) # Fine
        THEN Err(FirstProblem(Len(stanzas), Problem))
        ELSE Ok([i \in DOMAIN stanzas |-> Provider(stanzas[i])])

BoundIdentities(providers) ==
  UNION {{providers[i].bindings[j].identity : j \in DOMAIN providers[i].bindings} :
           i \in DOMAIN providers}

-----------------------------------------------------------------------------
(* Federation::exchange.                                                   *)

\* The signature over the header and the payload as they were presented. The
\* cryptography of ring is taken as given: a key verifies what its pair signed.
Verifies(key, token) == key.pair = token.signer

\* The keys of a provider that the header selects.
CandidateKeys(provider, token) ==
  {i \in DOMAIN provider.keys : /\ token.kid \in {None, provider.keys[i].kid}
                                /\ provider.keys[i].alg = token.alg}

\* The providers with the issuer of the token, one of whose keys signed it.
Vouching(providers, token) ==
  {i \in DOMAIN providers :
     /\ providers[i].issuer = token.iss
     /\ \E k \in CandidateKeys(providers[i], token) :
          Verifies(providers[i].keys[k], token)}

\* Why nothing vouches for the token.
Unverifiable(providers, token) ==
  LET issuing == {i \in DOMAIN providers : providers[i].issuer = token.iss}
  IN  IF \E i \in issuing : CandidateKeys(providers[i], token) # {} THEN "signature"
      ELSE IF issuing # {} THEN "unknown-key"
      ELSE "unknown-issuer"

\* string_claim: None for a claim that is missing and for one that is no string.
StringClaim(token, c) == IF c \in DOMAIN token.claims THEN token.claims[c] ELSE None

\* seconds_claim: None for what is missing, not whole or does not fit.
SecondsClaim(c) == IF c \in {None, NotWhole} \/ c > MaxTime THEN None ELSE c

\* audience_matches. A string and an array of one mean the same.
AudienceMatches(token, expected) == expected \in token.aud

\* Binding::matches.
BindingMatches(binding, token) ==
  \A c \in DOMAIN binding.claims : StringClaim(token, c) = binding.claims[c]

\* Mutant of Refusal: the first of several bindings is taken.
RefusalFirstBinding(provider, token, now) ==
  LET matched == {i \in DOMAIN provider.bindings : BindingMatches(provider.bindings[i], token)}
      expiry  == SecondsClaim(token.exp)
      start   == SecondsClaim(token.nbf)
  IN  IF expiry = None THEN "missing-expiry"
      ELSE IF now > expiry + provider.skew THEN "expired"
      ELSE IF start # None /\ now < start - provider.skew THEN "not-yet-valid"
      ELSE IF ~AudienceMatches(token, provider.audience) THEN "audience-mismatch"
      ELSE IF StringClaim(token, "sub") = None THEN "missing-subject"
      ELSE IF matched = {} THEN "no-binding"
      ELSE Fine

\* What is wrong with a token that a provider signed, in the order of the code.
Refusal(provider, token, now) ==
  LET matched == {i \in DOMAIN provider.bindings : BindingMatches(provider.bindings[i], token)}
      expiry  == SecondsClaim(token.exp)
      start   == SecondsClaim(token.nbf)
  IN  IF expiry = None THEN "missing-expiry"
      ELSE IF now > expiry + provider.skew THEN "expired"
      ELSE IF start # None /\ now < start - provider.skew THEN "not-yet-valid"
      ELSE IF ~AudienceMatches(token, provider.audience) THEN "audience-mismatch"
      ELSE IF StringClaim(token, "sub") = None THEN "missing-subject"
      ELSE IF matched = {} THEN "no-binding"
      ELSE IF Cardinality(matched) > 1 THEN "ambiguous-binding"
      ELSE Fine

Bound(provider, token) ==
  provider.bindings[CHOOSE i \in DOMAIN provider.bindings :
                      BindingMatches(provider.bindings[i], token)].identity

\* A token that is no three parts of base64url and JSON, is too large, or lacks
\* the string it is selected by.
IsMalformed(token) == token.shape # "jws" \/ token.alg = None \/ token.iss = None

\* Federation::exchange: the first vouching provider decides.
Exchange(providers, token, now) ==
  LET vouching == Vouching(providers, token)
      first    == providers[CHOOSE i \in vouching : \A j \in vouching : i <= j]
      refusal  == Refusal(first, token, now)
  IN  IF IsMalformed(token) THEN [outcome |-> "unverifiable", why |-> "malformed"]
      ELSE IF vouching = {}
        THEN [outcome |-> "unverifiable", why |-> Unverifiable(providers, token)]
      ELSE IF refusal # Fine THEN [outcome |-> "refused", why |-> refusal, provider |-> first.name]
      ELSE [outcome |-> "accepted", provider |-> first.name, identity |-> Bound(first, token),
            ttl |-> first.ttl]
=============================================================================
