----------------------------- MODULE MCDelivery -----------------------------
(***************************************************************************)
(* Delivery with four paths, of which one names a control variable and one *)
(* has no usable name, an export of at most two paths, and values of which *)
(* two of several lines are too much for one export. A listing can be      *)
(* longer than an export may be, and hold a path that was deleted.         *)
(***************************************************************************)
EXTENDS Delivery

MCPaths  == <<"app/DB", "app/KEY", "app/PATH", "app/a.b">>
MCNameOf == [p \in {"app/DB", "app/KEY", "app/PATH", "app/a.b"} |->
               CASE p = "app/DB"   -> "DB"
                 [] p = "app/KEY"  -> "KEY"
                 [] p = "app/PATH" -> "PATH"
                 [] OTHER          -> NotAName]
MCSize   == [v \in Values |-> CASE v = "lines" -> 2 [] v = "blank" -> 0 [] OTHER -> 1]

Run(paths) == [tool |-> "run", format |-> "none", prefix |-> FALSE, paths |-> paths,
               parses |-> TRUE, program |-> "there", github |-> FALSE, force |-> FALSE]
Ci(format, paths) == [Run(paths) EXCEPT !.tool = "ci", !.format = format]
Prefix(j) == [j EXCEPT !.prefix = TRUE, !.paths = <<>>]

Two == <<"app/DB", "app/KEY">>

Site == [exec |-> TRUE, token |-> "private", authority |-> "certificates", url |-> "https",
         terminal |-> TRUE, github |-> "there"]

\* Every command line on a machine where nothing is missing,
Usual ==
  { Prefix(Run(<<>>)), Run(Two), Run(<<"app/a.b">>), Run(<<"app/DB", "app/DB">>),
    Run(<<"app/DB", "app/PATH">>),
    [Run(<<"app/DB">>) EXCEPT !.program = "missing"],
    [Run(<<"app/DB">>) EXCEPT !.program = "unusable"],
    [Run(Two) EXCEPT !.program = "none"], [Run(Two) EXCEPT !.parses = FALSE],
    Prefix(Ci("actions-env", <<>>)), Ci("actions-env", Two), Ci("yaml", Two),
    [Ci("actions-env", Two) EXCEPT !.github = TRUE], [Ci("json", Two) EXCEPT !.github = TRUE],
    Ci("dotenv", Two), Ci("json", <<"app/DB", "app/DB">>),
    [Ci("actions-env", Two) EXCEPT !.parses = FALSE] }

\* and a few where something is.
Unusual ==
  LET File == [Ci("actions-env", Two) EXCEPT !.github = TRUE]
  IN  {[job |-> Run(Two), site |-> s] :
         s \in { [Site EXCEPT !.exec = FALSE], [Site EXCEPT !.token = "missing"],
                 [Site EXCEPT !.token = "world"], [Site EXCEPT !.authority = "missing"],
                 [Site EXCEPT !.url = "http"] }}
      \cup {[job |-> File, site |-> s] :
         s \in { [Site EXCEPT !.token = "fifo"], [Site EXCEPT !.authority = "key"],
                 [Site EXCEPT !.github = "unset"], [Site EXCEPT !.github = "gone"] }}
      \cup {[job |-> [Ci("json", Two) EXCEPT !.force = f],
              site |-> [Site EXCEPT !.terminal = FALSE]] : f \in BOOLEAN}

MCJobs == {[job |-> j, site |-> Site] : j \in Usual} \cup Unusual

StoreOf(db, key, path, ab) ==
  [p \in AllPaths |-> CASE p = "app/DB" -> db [] p = "app/KEY" -> key
                        [] p = "app/PATH" -> path [] OTHER -> ab]

MCStores == { StoreOf("line", "lines", "absent", "absent"), StoreOf("lines", "blank", "line", "absent"),
              StoreOf("line", "binary", "deleted", "line") }
MCDenials == {{}, {"app/KEY"}}
MCHidings == {{}, {"app/PATH", "app/a.b"}, AllPaths}
=============================================================================
