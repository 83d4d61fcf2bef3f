----------------------------- MODULE MCStartup -----------------------------
(***************************************************************************)
(* Small instances of Startup: a few global and project files, personas    *)
(* in three roots, three kinds of machine.  Worlds is a union, so that the *)
(* files vary with the flags, and personas and machines under one          *)
(* configuration each.                                                     *)
(***************************************************************************)
EXTENDS Startup

MCBuiltins == {"bash", "read_file"}

P(name, model, endpoint, window) ==
    [name |-> name, model |-> model, endpoint |-> endpoint, context_window |-> window]
Hook(event, command) == [event |-> event, command |-> command]

GlobalBoth == [Empty EXCEPT
    !.providers = <<P("local", "m1", "v1", 0), P("cloud", "m2", "v1", 8),
                    P("far", "m4", "v1", 0)>>,
    !.default = "cloud", !.backend = "auto", !.threshold = <<90>>, !.write_dirs = <<"cache">>,
    !.hooks = <<Hook("before_tool", "guard"), Hook("after_tool", "log")>>,
    !.mcp_servers = <<[name |-> "files", transport |-> "stdio", target |-> "cmd"]>>]
GlobalPlain == [Empty EXCEPT !.providers = <<P("local", "m1", "v1", 0)>>, !.backend = "landlock"]
GlobalBare == [Empty EXCEPT !.providers = <<P("local", "m1", "bare", 0)>>]
ProjectOver == [Empty EXCEPT
    !.providers = <<P("local", "m3", "v1", 4), P("spare", "m1", "v1", 0)>>,
    !.threshold = <<0>>, !.write_dirs = <<"data">>, !.hooks = <<Hook("before_tool", "mine")>>,
    !.mcp_servers = <<[name |-> "files", transport |-> "sse", target |-> "v1"]>>]
ProjectScalars == [Empty EXCEPT !.default = "local", !.backend = "none"]
ProjectTwice == [Empty EXCEPT
    !.providers = <<P("local", "m1", "v1", 0), P("local", "m2", "v1", 0)>>]
ProjectGhost == [Empty EXCEPT !.default = "ghost"]
ProjectOdd == [Empty EXCEPT !.hooks = <<Hook("on_sunday", "odd")>>]

Absent == [is |-> "absent", says |-> Empty]
Dir == [is |-> "dir", says |-> Empty]
Torn == [is |-> "broken", says |-> Empty]
File(c) == [is |-> "file", says |-> c]
Files(g, p, r, e) == ("global" :> g) @@ ("project" :> p) @@ ("root" :> r) @@ ("explicit" :> e)

Def(name, tools, model, disabled, agents) ==
    [name |-> name, tools |-> tools, model |-> model, disabled |-> disabled,
     agents |-> agents, parses |-> TRUE]
Only(names) == [any |-> FALSE, names |-> names]
Lead == Def("lead", <<"bash", "run_subagent", "Grep">>, "", FALSE, Only({"helper"}))
Helper == Def("helper", <<>>, "m1", FALSE, AnyAgent)
HelperRead == Def("helper", <<"read_file">>, "m2", FALSE, AnyAgent)
HelperOff == Def("helper", <<>>, "m3", TRUE, AnyAgent)
HelperTorn == [Helper EXCEPT !.parses = FALSE, !.model = "m4"]
Stranger == Def("stranger", <<"Read", "Grep">>, "", FALSE, AnyAgent)
MCRoots == {<<<<Helper, Lead>>, <<HelperRead>>, <<>>>>,
            <<<<Helper, Lead>>, <<HelperTorn>>, <<Stranger>>>>,
            <<<<Lead, Helper>>, <<>>, <<HelperOff>>>>,
            <<<<HelperOff>>, <<>>, <<>>>>}

Start == [home |-> TRUE, explicit |-> FALSE, provider |-> "", model |-> "",
          files |-> Files(File(GlobalBoth), File(ProjectOver), Absent, Absent),
          roots |-> <<<<>>, <<>>, <<>>>>, machine |-> "linux", env |-> ""]

Searched ==
    {[Start EXCEPT !.files = Files(g, p, r, Absent), !.provider = f, !.model = m] :
        g \in {Absent, Dir, Torn, File(GlobalBoth), File(GlobalPlain), File(GlobalBare)},
        p \in {Absent, Dir, Torn, File(ProjectOver), File(ProjectScalars), File(ProjectTwice),
               File(ProjectGhost), File(ProjectOdd)},
        r \in {Absent, File(ProjectTwice)},
        f \in {"", "local", "spare"}, m \in {"", "m2"}}
Explicit ==
    {[Start EXCEPT !.files["explicit"] = e, !.explicit = TRUE, !.home = h] :
        e \in {Absent, Dir, Torn, File(GlobalBoth), File(ProjectTwice)}, h \in BOOLEAN}
Homeless == {[Start EXCEPT !.home = FALSE, !.files["root"] = File(ProjectTwice)]}
Peopled == {[Start EXCEPT !.roots = roots] : roots \in MCRoots}
Machines ==
    {[Start EXCEPT !.files["global"] = File(g), !.machine = machine, !.env = env] :
        g \in {GlobalBoth, GlobalPlain}, machine \in {"linux", "old_linux", "other"},
        env \in {"", "none", "landlock", "jail"}}

MCWorlds == Searched \cup Explicit \cup Homeless \cup Peopled \cup Machines

\* Every size in them is stated by one listing only.
MCListings == {<<>>, <<[id |-> "m2", window |-> 5], [id |-> "m1", window |-> 6]>>,
               <<[id |-> "m1", window |-> 0], [id |-> "m4", window |-> 7]>>}
MCUnusables == {{}, {"garess", "data"}, {"workdir", "temp", "garess", "cache", "data"}}
=============================================================================
