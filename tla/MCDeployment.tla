---------------------------- MODULE MCDeployment ----------------------------
(* A small deployment: two policies, two identities, one or two providers.   *)
EXTENDS Deployment, TLC

CONSTANTS none, notWhole

Segments == {"app", "db", "sys", "tokens", "*", "**", "partial", "empty", "relative"}

\* "cafe'" is the decomposed spelling of "cafe".
MCNfc == [s \in Segments \cup {"cafe'", "cafe"} |->
            IF s = "cafe'" THEN "cafe" ELSE s]

MCRank == [app |-> 1, db |-> 2, sys |-> 3, tokens |-> 4, base |-> 5, extra |-> 6]
          @@ ("cafe" :> 7) @@ ("*" :> 8) @@ ("**" :> 9)

\* ------------------------------------------------------------------- policies
R(path, capabilities) == [path |-> path, capabilities |-> capabilities]

Base == <<R(<<"app", "**">>, <<"read", "write">>), R(<<"sys", "tokens">>, <<"inspect">>)>>

File(identities, base, extra) ==
  [syntax |-> TRUE, identity |-> identities,
   policy |-> <<[name |-> "base", rule |-> base], [name |-> "extra", rule |-> extra]>>]

Person(name, policies) == [name |-> name, kind |-> "human", policies |-> policies]

Both == <<Person("alice", <<"base", "extra">>), Person("ci", <<"base">>)>>

MCRawRules ==
  {R(<<"app", "db">>, <<>>), R(<<"app", "*">>, <<"read">>), R(<<"*", "db">>, <<>>),
   R(<<"cafe'">>, <<"read">>), R(<<"app", "db", "**">>, <<"read">>)}

MCPolicyFiles ==
  {[syntax |-> FALSE],
   File(<<Person("alice", <<"base", "gone">>)>>, Base, <<>>),
   File(<<Person("alice", <<"base", "extra">>)>>, Base, <<R(<<"app", "*">>, <<"write">>)>>),
   File(Both, <<R(<<"app", "**", "db">>, <<"read">>)>>, <<>>),
   File(Both, Base, <<R(<<"sys", "*">>, <<"read">>)>>),
   File(Both, Base, <<R(<<"cafe'", "*">>, <<"read">>), R(<<"cafe", "*">>, <<>>)>>)}

MCRawPaths == {<<"app">>, <<"app", "db">>, <<"cafe'">>, <<"app", "*">>, <<"sys", "tokens">>,
               <<"app", "db", "db">>}

\* -------------------------------------------------------------- configuration
Key(pair) == [alg |-> "ES256", kid |-> "k1", pair |-> pair, form |-> "good"]

Stanza(name, audience, keys, bindings) ==
  [name |-> name, issuer |-> name, audience |-> audience, skew |-> 1,
   ttl |-> [digits |-> 2, unit |-> "s"], keys |-> keys, bindings |-> bindings]

Binding(identity, claims) == [identity |-> identity, claims |-> claims]

Main  == Binding("ci", [sub |-> "job", ref |-> "main"])
AnyRef == Binding("alice", [sub |-> "job"])

Forge  == Stanza("forge", "ciphr", <<Key("forge")>>, <<Main>>)
Forge2 == [Forge EXCEPT !.bindings = <<Main, AnyRef>>]
Other  == Stanza("other", "ciphr", <<Key("other")>>, <<Main>>)

MCOidcs ==
  {<<>>, <<Forge, Other>>, <<Forge2>>, <<Forge, Forge>>,
   <<[Forge EXCEPT !.ttl = [digits |-> 0, unit |-> "s"]]>>,
   <<[Forge EXCEPT !.keys = <<>>]>>,
   <<[Forge EXCEPT !.bindings = <<Binding("ci", [iss |-> "forge"])>>]>>}

On(entry) == [entry |-> entry, accepted |-> <<2026, 8, 1>>, reason |-> "agreed"]

MCSurfaces ==
  {<<>>, <<On("oidc_login"), On("honeypot_alert")>>, <<On("oidc_login"), On("token_revoke")>>,
   <<On("oidc_login"), On("oidc_login")>>, <<On("oidc_login"), On("viewer")>>,
   <<[On("oidc_login") EXCEPT !.accepted = <<2026, 13, 1>>]>>,
   <<[On("oidc_login") EXCEPT !.reason = ""]>>}

Sqlite == [type |-> "sqlite"]
FileOf(size) == [type |-> "file", size |-> size]

MCAudits == {<<>>, <<FileOf(none)>>, <<Sqlite>>,
             <<Sqlite, FileOf([digits |-> MaxBytes, unit |-> "KB"])>>}

Config(oidc, surface) ==
  [syntax |-> TRUE, audit |-> <<Sqlite, FileOf([digits |-> 10, unit |-> "MB"])>>,
   surface |-> surface, oidc |-> oidc, seal |-> "static_file"]

MCBaseFiles ==
  {[config |-> Config(<<Forge>>, <<On("oidc_login")>>), policies |-> File(Both, Base, <<>>)],
   [config |-> Config(<<Forge, Other>>, <<On("oidc_login"), On("honeypot_alert")>>),
    policies |-> File(Both, Base, <<R(<<"app", "*">>, <<"list">>)>>)],
   [config |-> Config(<<Forge2>>, <<On("oidc_login"), On("token_status")>>),
    policies |-> File(Both, Base, <<R(<<"cafe'">>, <<"list">>)>>)]}

\* ---------------------------------------------------------------------- hosts
Good == [exists |-> TRUE, schema |-> 6, seal |-> TRUE,
         master |-> [static_env |-> "wrong", static_file |-> "right"],
         dir |-> TRUE, file |-> TRUE, tls |-> [cert |-> "certificate", key |-> "private key"], hole |-> FALSE]

MCHosts ==
  {Good,
   [Good EXCEPT !.schema = 4, !.file = FALSE, 
                !.tls = [cert |-> "private key", key |-> "certificate"]],
   [Good EXCEPT !.exists = FALSE, !.schema = 0, !.seal = FALSE, !.file = FALSE],
   [Good EXCEPT !.schema = 1, !.hole = TRUE],
   [Good EXCEPT !.dir = FALSE]}

MCBuilds == {[schema |-> 6, bait |-> FALSE], [schema |-> 5, bait |-> TRUE]}

\* --------------------------------------------------------------------- tokens
Token == [shape |-> "jws", alg |-> "ES256", kid |-> "k1", iss |-> "forge", signer |-> "forge",
          exp |-> 1, nbf |-> none, aud |-> {"ciphr"}, claims |-> [sub |-> "job", ref |-> "main"]]

MCIdTokens ==
  {Token,
   [Token EXCEPT !.iss = "other"],
   [Token EXCEPT !.kid = none, !.iss = "other", !.signer = "other", !.exp = 0],
   [Token EXCEPT !.aud = {"else"}, !.nbf = 2],
   [Token EXCEPT !.exp = notWhole],
   [Token EXCEPT !.exp = MaxTime + 1],
   [Token EXCEPT !.claims = [ref |-> "main"]],
   [Token EXCEPT !.claims = [sub |-> "job", ref |-> "topic"]],
   [Token EXCEPT !.kid = "k2"],
   [Token EXCEPT !.iss = "nobody"],
   [Token EXCEPT !.shape = "garbage"]}

MCAsked == {none, 0, 1, 3}
=============================================================================
