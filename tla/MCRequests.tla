----------------------------- MODULE MCRequests -----------------------------
(***************************************************************************)
(* An instance of Requests for TLC: a path that is stored, one that is not *)
(* and a bait; a caller who may do everything, a caller with few           *)
(* rights, a token that is bait and one that a login mints.                *)
(***************************************************************************)
EXTENDS Requests, TLC

CONSTANTS secret, absent, trap, admin, guest, lure, minted

Ask(kind, ask, token, target, paths) ==
  [kind |-> kind, ask |-> ask, token |-> token, target |-> target, paths |-> paths]

Plain(kind, token, paths) == Ask(kind, "plain", token, None, paths)

\* One job per way through a handler that ends differently.
SmallJobs ==
  { Plain("read", admin, <<secret>>), Plain("read", guest, <<trap>>),
    Plain("read", lure, <<secret>>), Plain("read", minted, <<secret>>),
    Ask("read", "pinned", admin, None, <<secret>>),
    Ask("read", "query", admin, None, <<secret>>),
    Plain("write", admin, <<secret>>), Plain("classify", admin, <<secret>>),
    Plain("write", admin, <<absent>>), Plain("classify", admin, <<absent>>),
    Ask("write", "reserved", admin, None, <<secret>>),
    Ask("write", "unread", admin, None, <<secret>>),
    Plain("delete", admin, <<secret>>), Plain("delete", guest, <<secret>>),
    Ask("delete", "query", admin, None, <<secret>>),
    Plain("versions", admin, <<absent>>), Plain("list", admin, <<secret>>),
    Plain("export", admin, <<trap, secret>>), Plain("export", admin, <<secret, absent>>),
    Plain("export", guest, <<trap, secret>>),
    Ask("export", "path", admin, None, <<secret>>),
    Ask("revoke", "plain", admin, guest, <<Sys>>),
    Ask("revoke", "plain", admin, minted, <<Sys>>),
    Ask("login", "plain", None, minted, <<Sys>>),
    Ask("login", "query", None, minted, <<Sys>>),
    Plain("policies", admin, <<Sys>>), Plain("audit", admin, <<Sys>>),
    Plain("tokens", admin, <<Sys>>), Ask("nowhere", "unread", lure, None, <<Sys>>) }

SmallGrants ==
  {<<admin, c, p>> : c \in {"read", "write", "delete", "list"}, p \in Paths}
    \cup {<<admin, c, Sys>> : c \in {"inspect", "revoke"}}
    \cup {<<guest, "read", trap>>, <<minted, "read", secret>>}

\* The requests are alike.
Alike == Permutations(Reqs)
=============================================================================
