----------------------------- MODULE MCRecipes -----------------------------
(***************************************************************************)
(* A user's project at /src/proj with a worktree of dabs's own, and the    *)
(* recipes somebody may write for it.                                      *)
(***************************************************************************)
EXTENDS RecipeBoot

MCHome == <<"/", "home">>
MCStore == <<"/", "home", ".dabs">>
MCCwd == <<"/", "src", "proj">>
MCEnv == ("$LOGIN" :> <<"/", "home", "login">>)
MCPathArgs == ("./box" :> <<".", "box">>)
Checkout == MCStore \o <<"nodes", "wt1", "held", "worktree">>
MCWorktrees == ("wt1" :> [data |-> Checkout, repo |-> MCCwd])
                 @@ ("wt2" :> [data |-> Append(Checkout, "2"), repo |-> MCCwd])
MCPrefixed == ("wt" :> {"wt1", "wt2"}) @@ ("wt1" :> {"wt1"})
Agent == <<"/", "run", "agent.sock">>
MCDisk == (MCCwd :> "repo") @@ (<<"/", "src", "bare">> :> "bare") @@ (Checkout :> "dir")
            @@ (GitDir(MCCwd) :> "dir") @@ (MCCwd \o <<"lib">> :> "dir")
            @@ (MCCwd \o <<"box">> :> "dir") @@ (MCCwd \o <<"box", "lib">> :> "dir")
            @@ (<<"/", "home", "login">> :> "dir") @@ (Agent :> "socket")
MCFickle == {Agent}
MCDrivers == ("" :> [server |-> FALSE, detaches |-> TRUE, images |-> {"shell"}])
               @@ ("far" :> [server |-> TRUE, detaches |-> FALSE, images |-> {}])

MCPlaceIds == <<"place1", "place2", "place3">>

----------------------------------------------------------------------------
Src(kind, from, path) == [origins |-> From(kind, from), at |-> NoPath, path |-> path, ro |-> FALSE]
PutAt(s, at) == [s EXCEPT !.at = at]
Named(n) == [scalar |-> TRUE, image |-> [NoImage EXCEPT !.name = n]]
Here == <<".">>
Work == <<"/", "work">>
Mode(m) == [scalar |-> TRUE, mode |-> m, keys |-> {}]
NoList == [form |-> "absent", items |-> << >>]
Hop(keys, tls, module) == [keys |-> keys, tls |-> tls, domains |-> << >>, fail_open |-> FALSE,
                           module |-> module]
Terminate == Hop({<<"tls">>}, "terminate", NoPath)
Originate == Hop({<<"tls">>}, "originate", NoPath)
Plain == Hop({<<"module">>}, "", <<".", "log.ts">>)
Tuned == Hop({<<"module">>, <<"level">>}, "", <<".", "log.ts">>)
Chain(c) == [scalar |-> FALSE, mode |-> "", keys |-> {"http_proxy"},
             allow |-> NoList, deny |-> NoList, chain |-> c]

Basic == [image |-> Named("shell"), command |-> TRUE, sources |-> <<Src("mount", Here, Work)>>,
          sockets |-> << >>, target |-> "", keep |-> FALSE, publish |-> FALSE,
          egress |-> Mode(""), user |-> "", control |-> FALSE]
With(s) == [Basic EXCEPT !.sources = s]
Sock(host, path) == [host |-> host, path |-> path]

OfSources ==
  { With(<<Src("worktree", Here, Work)>>),
    With(<<Src("copy", <<".", "lib">>, Work)>>),
    With(<<PutAt(Src("worktree", Here, Work), <<"$NODE_VOLUME", "wt">>)>>),
    With(<<PutAt(Src("copy", Here, Work), <<"$NODE_HELD", "..", "..", "x">>)>>),
    With(<<Src("mkmount", <<"$NODE_VOLUME", "c">>, Append(Work, "cache")),
           Src("mkmount", <<"$LOGIN">>, <<"/", "root">>),
           Src("mount", Here, Work)>>),
    With(<<Src("mkmount", <<"$NODE_TMP", "a", "..", "..", "b">>, Work)>>),
    With(<<Src("mkmount", <<"$NODE_VOLUME", "c">>, <<"/", "c">>),
           Src("mkmount", Append(Agent, "x"), <<"/", "x">>)>>),
    With(<<Src("mount", Here, Work), Src("mount", Here, <<"/", "again">>)>>),
    With(<<Src("mount", Here, Work), Src("mount", <<".", "lib">>, <<"/", "work", "..", "work">>)>>),
    With(<<Src("mount", <<".", "..", "x">>, Work)>>),
    With(<<Src("worktree", <<"/", "src", "bare">>, Work)>>),
    With(<<Src("worktree", Here, Work), Src("copy", <<".", "lib">>, <<"/", "lib">>)>>),
    [With(<<Src("worktree", Here, NoPath), Src("copy", <<".", "lib">>, NoPath)>>)
       EXCEPT !.image = Named("")],
    [With(<<Src("copy", <<".", "gone">>, NoPath)>>) EXCEPT !.image = Named("")],
    [With(<< >>) EXCEPT !.image = Named("")],
    With(<<[Src("mount", Here, Work) EXCEPT !.origins["copy"] = Here]>>),
    With(<<Src("mount", <<".", "gone">>, Work)>>),
    With(<<Src("mount", Here, Work), Src("mount", <<"$PARENT_VOLUME", "x">>, <<"/", "x">>)>>),
    With(<<Src("mount", <<"~", "login">>, <<"/", "root">>)>>) }

OfSockets ==
  { [Basic EXCEPT !.sockets = <<Sock(Agent, <<"/", "run", "agent">>)>>, !.publish = TRUE],
    [Basic EXCEPT !.sockets = <<Sock(Agent, <<"/", "run", "$NODE_ID", "door.sock">>)>>],
    [Basic EXCEPT !.sockets = <<Sock(Agent, <<"/", "run", "dabs">>)>>],
    [Basic EXCEPT !.sockets = <<Sock(<<"~", "login">>, <<"/", "run", "l">>)>>],
    [Basic EXCEPT !.sockets = <<Sock(Agent, <<"/", "run", "agent">>)>>, !.target = "far"] }

OfChains == {[Basic EXCEPT !.egress = Chain(c)] :
               c \in {<<Tuned>>} \cup UNION {[1..n -> {Terminate, Originate, Plain}] : n \in 1..3}}

OfTheRest ==
  { [Basic EXCEPT !.publish = TRUE, !.target = "far"],
    [Basic EXCEPT !.command = FALSE], [Basic EXCEPT !.user = "named"],
    [Basic EXCEPT !.target = "nowhere"], [Basic EXCEPT !.image = Named("lost")],
    [Basic EXCEPT !.control = TRUE], [Basic EXCEPT !.egress = Mode("half")] }

File(recs) == [recipes |-> recs, default |-> "", oddKeys |-> FALSE]
MCBundled == File("sh" :> Basic)
MCGlobals == {NoFile, [File(("dev" :> Basic) @@ ("sh" :> [Basic EXCEPT !.keep = TRUE]))
                         EXCEPT !.default = "dev"],
              [NoFile EXCEPT !.default = "gone"]}
MCProjects == {File("dev" :> rec) : rec \in OfSources \cup OfSockets \cup OfChains \cup OfTheRest}
                \cup {NoFile, [NoFile EXCEPT !.oddKeys = TRUE]}
MCAtPaths == {NoFile, [NoFile EXCEPT !.default = "gone"], File("one" :> With(<<Src("copy", <<".", "lib">>, Work)>>)),
              File(("one" :> Basic) @@ ("two" :> Basic))}

Ask0 == [form |-> "named", arg |-> "dev", extra |-> FALSE, worktree |-> "", node |-> "",
         detach |-> FALSE]
MCRequests ==
  { Ask0,
    [Ask0 EXCEPT !.node = "dabs"],
    [Ask0 EXCEPT !.form = "args", !.extra = TRUE, !.worktree = "wt1"],
    [Ask0 EXCEPT !.form = "args", !.arg = "./box"],
    [Ask0 EXCEPT !.form = "default", !.arg = ""],
    [Ask0 EXCEPT !.form = "boot", !.arg = "", !.worktree = "wt"],
    [Ask0 EXCEPT !.form = "boot", !.arg = "./box", !.worktree = "wt1"],
    [Ask0 EXCEPT !.form = "boot", !.detach = TRUE, !.node = "dabs"] }
    \cup {[Ask0 EXCEPT !.form = "go", !.arg = "caller", !.worktree = wt] @@ [rec |-> RecipeOf(doc).rec] :
             wt \in {"", "wt1"},
             doc \in {Basic, With(<<Src("copy", Append(MCCwd, "lib"), Work)>>),
                      [Basic EXCEPT !.command = FALSE, !.target = "far"],
                      [Basic EXCEPT !.sockets = <<Sock(Agent, NoPath)>>]}}
=============================================================================
