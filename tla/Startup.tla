------------------------------ MODULE Startup ------------------------------
(***************************************************************************)
(* The start of the program (cmd/garess/main.go, runTUI): configuration,   *)
(* choice of provider, personas, agents, sandbox, context windows, and the *)
(* first use of the personas by the running program.                       *)
(*                                                                         *)
(* The context windows are found by one goroutine per provider that states *)
(* none; they and the loop that starts them write one Go map without a     *)
(* lock, so a write is a step that begins and a step that ends.            *)
(***************************************************************************)
EXTENDS Personas, FiniteSets

CONSTANTS
    Worlds,               \* what the program is started with, see World below
    Listings,             \* answers of an endpoint to GET /v1/models
    DefaultContextWindow, \* 128000 in the code
    Unusables,            \* sets of directories that cannot be created or opened
    MaxCalls              \* bound: pairs of a caller and a persona it runs

\* What the program is started with: the user's files, the flags, the operating
\* system, and GARESS_SANDBOX.
World ==
    [home     : BOOLEAN,
     explicit : BOOLEAN,
     files    : [{"global", "project", "root", "explicit"} ->
                    [is : {"absent", "dir", "broken", "file"}, says : Content]],
     provider : STRING,
     model    : STRING,
     roots    : Seq(Seq(Definitions)),
     machine  : {"linux", "old_linux", "other"},
     env      : STRING]

ASSUME BoundsAssumption == DefaultContextWindow \in Nat \ {0} /\ MaxCalls \in Nat
ASSUME InputsAssumption ==
    /\ Worlds \subseteq World
    /\ Listings \subseteq Seq([id : STRING, window : Int])

VARIABLES
    world,      \* what it was started with
    stage,      \* where runTUI is
    cfg,        \* the configuration, after --model
    current,    \* the provider in use
    personas,   \* Options.Personas
    providers,  \* the built agents: a record [model, tools] for each provider's name
    sandbox,    \* what was asked for and what sandbox.Apply did
    next,       \* the provider resolveContextWindows looks at
    probes,     \* for each provider: idle, asking, writing or done
    found,      \* for each provider the size its goroutine or the loop writes
    windows,    \* the map of sizes, 0 for no entry
    raced,      \* history: the writes that overlapped another
    shown,      \* for each provider [size, approx], once tui.New has run
    calls       \* history: who ran which persona, as [caller, name]

startVars == <<world, stage, cfg, current, personas, providers, sandbox, next, probes,
               found, windows, raced, shown, calls>>

Names == {cfg.providers[i].name : i \in DOMAIN cfg.providers}
Provider(name) == cfg.providers[CHOOSE i \in Named(cfg.providers, name) : TRUE]
NotApplied == [asked |-> Unset, active |-> FALSE, allowed |-> {}, unusable |-> {}]

StartInit ==
    /\ world \in Worlds
    /\ stage = "load" /\ cfg = Default /\ current = Unset /\ personas = <<>>
    /\ providers = <<>> /\ sandbox = NotApplied /\ next = 1
    /\ probes = <<>> /\ found = <<>> /\ windows = <<>> /\ raced = {}
    /\ shown = <<>> /\ calls = {}

-----------------------------------------------------------------------------
(* Up to the agents.                                                       *)

LoadConfig ==
    /\ stage = "load"
    /\ \E loaded \in {Load(world.files, world.home, world.explicit)} :
          /\ cfg' = loaded.cfg
          /\ stage' = IF loaded.err = "nil" THEN "select" ELSE "failed"
    /\ UNCHANGED <<world, current, personas, providers, sandbox, next, probes, found,
                   windows, raced, shown, calls>>

\* --model
WithModel(entries, at, model) ==
    [i \in DOMAIN entries |->
        IF i \in at THEN [entries[i] EXCEPT !.model = Overlaid(@, model, Unset)] ELSE entries[i]]

\* The program's own directory, then --provider, then --model.
Select ==
    /\ stage = "select"
    /\ LET chosen == Overlaid(cfg.default, world.provider, Unset)
           at     == Named(cfg.providers, chosen)
       IN  IF ~ world.home \/ at = {}
           THEN stage' = "failed" /\ UNCHANGED <<cfg, current>>
           ELSE /\ stage' = "discover" /\ current' = chosen
                /\ cfg' = [cfg EXCEPT !.providers = WithModel(@, at, world.model)]
    /\ UNCHANGED <<world, personas, providers, sandbox, next, probes, found, windows, raced,
                   shown, calls>>

\* A directory that cannot be walked costs all personas and a warning.
FindPersonas ==
    /\ stage = "discover" /\ stage' = "build"
    /\ personas' \in {Discover(world.roots), <<>>}
    /\ UNCHANGED <<world, cfg, current, providers, sandbox, next, probes, found, windows, raced,
                   shown, calls>>

ValidEvents == {"before_run", "before_tool", "after_tool"}   \* of the thirteen
CanBuild(p) ==
    /\ p.endpoint = "v1"
    /\ \A i \in DOMAIN cfg.hooks : cfg.hooks[i].event \in ValidEvents

Runtime == NewPersonaRuntime(personas)

BuildAgents ==
    /\ stage = "build"
    /\ IF \A n \in Names : CanBuild(Provider(n))
       THEN /\ stage' = "sandbox"
            /\ providers' = [n \in Names |-> [model |-> Provider(n).model,
                                              tools |-> MainTools(Runtime)]]
       ELSE stage' = "failed" /\ UNCHANGED providers
    /\ UNCHANGED <<world, cfg, current, personas, sandbox, next, probes, found, windows, raced,
                   shown, calls>>

-----------------------------------------------------------------------------
(* The sandbox.                                                            *)

DefaultWriteDirs == {"workdir", "temp", "garess"}

\* applyLandlock: [err, active, allowed].  A modern kernel has ABI 6, and still
\* may refuse one of the calls.
Landlock(unusable, refused) ==
    LET dirs   == (DefaultWriteDirs \cup ToSet(cfg.write_dirs)) \ unusable
        active == world.machine = "linux" /\ ~ refused /\ dirs # {}
    IN  [err |-> world.machine # "other" /\ ~ active, active |-> active,
         allowed |-> IF active THEN dirs ELSE {}]

\* Seeded fault: a landlock sandbox that cannot be applied is done without.
ApplyOpen(backend, unusable, refused) ==
    CASE backend = "none" -> [err |-> FALSE, active |-> FALSE, allowed |-> {}]
      [] backend \in {"auto", "landlock"} -> [Landlock(unusable, refused) EXCEPT !.err = FALSE]
      [] OTHER            -> [err |-> TRUE, active |-> FALSE, allowed |-> {}]

\* sandbox.Apply
Apply(backend, unusable, refused) ==
    CASE backend = "none"     -> [err |-> FALSE, active |-> FALSE, allowed |-> {}]
      [] backend = "auto"     -> [Landlock(unusable, refused) EXCEPT !.err = FALSE]
      [] backend = "landlock" -> Landlock(unusable, refused)
      [] OTHER                -> [err |-> TRUE, active |-> FALSE, allowed |-> {}]

Confine ==
    /\ stage = "sandbox"
    /\ \E unusable \in Unusables, refused \in BOOLEAN :
         LET backend == Overlaid(cfg.backend, world.env, Unset)
             res     == Apply(backend, unusable, refused)
         IN  /\ stage' = IF res.err THEN "failed" ELSE "windows"
             /\ sandbox' = [asked |-> backend, active |-> res.active,
                            allowed |-> res.allowed, unusable |-> unusable]
    /\ probes' = [n \in Names |-> "idle"]
    /\ found' = [n \in Names |-> 0] /\ windows' = [n \in Names |-> 0]
    /\ UNCHANGED <<world, cfg, current, personas, providers, next, raced, shown, calls>>

-----------------------------------------------------------------------------
(* The context windows.                                                    *)

Writers == {n \in DOMAIN probes : probes[n] = "writing"}

\* Two writes of a map at once end the program, or go on with the map in any state.
BeginWrite(n, size) ==
    /\ probes' = [probes EXCEPT ![n] = "writing"]
    /\ found' = [found EXCEPT ![n] = size]
    /\ IF Writers = {} THEN UNCHANGED <<stage, raced>>
       ELSE /\ raced' = raced \cup Writers \cup {n}
            /\ stage' \in {stage, "crashed"}

\* The loop is at one provider at a time, its own write included.
LoopAt ==
    /\ stage = "windows" /\ next <= Len(cfg.providers)
    /\ next > 1 => LET before == cfg.providers[next - 1]
                   IN  before.context_window > 0 => probes[before.name] = "done"

Configured ==
    /\ LoopAt
    /\ LET p == cfg.providers[next]
       IN  p.context_window > 0 /\ BeginWrite(p.name, p.context_window)
    /\ next' = next + 1
    /\ UNCHANGED <<world, cfg, current, personas, providers, sandbox, windows, shown, calls>>

Ask ==
    /\ LoopAt
    /\ LET p == cfg.providers[next]
       IN  p.context_window = 0 /\ probes' = [probes EXCEPT ![p.name] = "asking"]
    /\ next' = next + 1
    /\ UNCHANGED <<world, stage, cfg, current, personas, providers, sandbox, found, windows,
                   raced, shown, calls>>

\* Seeded fault: the first entry that states a size.
LookupContextWindowFirst(list, model) ==
    LET states == Those(list, {m \in ToSet(list) : m.window > 0})
    IN  IF states = <<>> THEN 0 ELSE states[1].window

\* The model's own entry if it states a size, else the first entry that does.
LookupContextWindow(list, model) ==
    LET states == Those(list, {m \in ToSet(list) : m.window > 0})
        own    == Those(states, {m \in ToSet(states) : m.id = model})
    IN  IF own # <<>> THEN own[1].window
        ELSE IF states # <<>> THEN states[1].window ELSE 0

ProbeAnswers(n) ==
    /\ stage = "windows" /\ probes[n] = "asking"
    /\ \E list \in Listings :
         LET size == LookupContextWindow(list, Provider(n).model)
         IN  IF size > 0 THEN BeginWrite(n, size)
             ELSE probes' = [probes EXCEPT ![n] = "done"] /\ UNCHANGED <<stage, found, raced>>
    /\ UNCHANGED <<world, cfg, current, personas, providers, sandbox, next, windows, shown, calls>>

\* No answer, a wrong one, or none within contextProbeTimeout.
NoAnswer(n) ==
    /\ stage = "windows" /\ probes[n] = "asking"
    /\ probes' = [probes EXCEPT ![n] = "done"]
    /\ UNCHANGED <<world, stage, cfg, current, personas, providers, sandbox, next, found, windows,
                   raced, shown, calls>>

EndWrite(n) ==
    /\ stage = "windows" /\ probes[n] = "writing"
    /\ probes' = [probes EXCEPT ![n] = "done"]
    /\ \/ windows' = [windows EXCEPT ![n] = found[n]]
       \/ n \in raced /\ UNCHANGED windows
    /\ UNCHANGED <<world, stage, cfg, current, personas, providers, sandbox, next, found, raced,
                   shown, calls>>

\* resolveWindows, in tui.New
Window(n) ==
    IF windows[n] > 0 THEN [size |-> windows[n], approx |-> FALSE]
    ELSE [size |-> DefaultContextWindow, approx |-> TRUE]

Show ==
    /\ stage = "windows" /\ next > Len(cfg.providers)
    /\ \A n \in Names : probes[n] = "done"
    /\ stage' = "running" /\ shown' = [n \in Names |-> Window(n)]
    /\ UNCHANGED <<world, cfg, current, personas, providers, sandbox, next, probes, found, windows,
                   raced, calls>>

-----------------------------------------------------------------------------
(* The running program's use of the personas.                              *)

Persona(name) == Runtime[CHOOSE i \in Named(Runtime, name) : TRUE]

\* A caller is the main agent or a persona that has been built; it needs the tool.
CallerTools(caller) ==
    IF caller = "main" THEN providers[current].tools ELSE PersonaTools(Persona(caller))
CallerAllows(caller) == IF caller = "main" THEN AnyAgent ELSE Persona(caller).agents

\* run_subagent, up to the nested run; agentFor builds a persona's agent once.
Delegate(caller, name) ==
    /\ stage = "running" /\ Cardinality(calls) < MaxCalls
    /\ caller = "main" \/ \E c \in calls : c.name = caller
    /\ RunSubagentTool \in CallerTools(caller)
    /\ Lookup(Runtime, CallerAllows(caller), name)
    /\ calls' = calls \cup {[caller |-> caller, name |-> name]}
    /\ UNCHANGED <<world, stage, cfg, current, personas, providers, sandbox, next, probes, found,
                   windows, raced, shown>>

PersonaNames == {personas[i].name : i \in DOMAIN personas}

StartNext ==
    \/ LoadConfig \/ Select \/ FindPersonas \/ BuildAgents \/ Confine
    \/ Configured \/ Ask \/ Show
    \/ \E n \in DOMAIN probes : ProbeAnswers(n) \/ NoAnswer(n) \/ EndWrite(n)
    \/ \E caller \in {"main"} \cup PersonaNames, name \in PersonaNames : Delegate(caller, name)

StartSpec == StartInit /\ [][StartNext]_startVars

-----------------------------------------------------------------------------
(* What the user's files and flags say, read without the program.          *)

\* The contents that count, the one that decides last.
Layers ==
    LET local == IF world.files["project"].is = "file" THEN "project" ELSE "root"
        used  == IF world.explicit THEN <<"explicit">> ELSE <<"global", local>>
        files == Those(used, {f \in DOMAIN world.files : world.files[f].is = "file"})
    IN  [i \in DOMAIN files |-> world.files[files[i]].says]

\* The last that is set, of what the layers say.
Highest(said, unset) ==
    LET at == {i \in DOMAIN said : said[i] # unset}
    IN  IF at = {} THEN unset ELSE said[CHOOSE i \in at : \A j \in at : j <= i]

\* What the highest layer that says anything says: Says(l) is what layer l says.
Decides(Says(_), unset) == Highest([i \in DOMAIN Layers |-> Says(Layers[i])], unset)

SaysProvider(l, name) == Those(l.providers, {p \in ToSet(l.providers) : p.name = name})
Said(name) == Last(Decides(LAMBDA l : SaysProvider(l, name), <<>>))
Commands(hooks, event) == Those(hooks, {h \in ToSet(hooks) : h.event = event})
SaidNames == UNION {{Layers[i].providers[j].name : j \in DOMAIN Layers[i].providers} :
                      i \in DOMAIN Layers}
FirstSaid == LET first == Those(Layers, {l \in ToSet(Layers) : l.providers # <<>>})
             IN  first[1].providers[1].name
Events == UNION {{Layers[i].hooks[j].event : j \in DOMAIN Layers[i].hooks} :
                   i \in DOMAIN Layers}

\* The definition of a persona that counts: the last that can be read.
Definition(name) == LET files == Parsed(world.roots)
                    IN  Last(Those(files, {f \in ToSet(files) : f.name = name}))

Chosen == {"discover", "build", "sandbox", "windows", "running", "crashed"}

-----------------------------------------------------------------------------
(* Properties.                                                             *)

\* Every variable has its type, and a provider in use is a configured one.
StartTypeOK ==
    /\ stage \in {"load", "select", "failed"} \cup Chosen
    /\ stage \in Chosen => current \in Names
    /\ DOMAIN providers \subseteq Names /\ DOMAIN shown \subseteq Names
    /\ \A n \in DOMAIN probes : probes[n] \in {"idle", "asking", "writing", "done"}
    /\ next \in 1 .. Len(cfg.providers) + 1
    /\ raced \subseteq Writers \cup {n \in DOMAIN probes : probes[n] = "done"}
    /\ \A n \in DOMAIN shown : shown[n] \in [size : Nat \ {0}, approx : BOOLEAN]

\* config.Load with runTUI's flags: what the program starts with is what the
\* highest file says of each provider, of each hook event and of each single
\* setting, whatever the other file says; only --model changes a record, and
\* only the record of the provider in use.
LayersReach ==
    stage \in Chosen =>
        /\ Names = SaidNames
        /\ \A n \in SaidNames :
              Provider(n) = [Said(n) EXCEPT !.model =
                                IF n = current THEN Overlaid(@, world.model, Unset) ELSE @]
        /\ \A e \in Events :
              Commands(cfg.hooks, e) = Decides(LAMBDA l : Commands(l.hooks, e), <<>>)
        /\ cfg.backend = Overlaid("none", Decides(LAMBDA l : l.backend, Unset), Unset)
        /\ AutoCompressEnabled(cfg) <=> Decides(LAMBDA l : l.threshold, <<>>) # <<0>>
        /\ current = Overlaid(Overlaid(FirstSaid, Decides(LAMBDA l : l.default, Unset), Unset),
                              world.provider, Unset)

\* The sandbox fails closed on Linux (sandbox.Apply, applyLandlock): asked for
\* landlock, the program goes on only confined; confined, it may write where it
\* keeps its state and where the files say, save for what cannot be opened; an
\* overridden backend counts like a configured one.
FailClosed ==
    stage \in {"windows", "running", "crashed"} =>
        /\ sandbox.asked = Overlaid(Overlaid("none", Decides(LAMBDA l : l.backend, Unset), Unset),
                                    world.env, Unset)
        /\ (sandbox.asked = "landlock" /\ world.machine # "other") => sandbox.active
        /\ sandbox.active =>
              sandbox.allowed =
                (DefaultWriteDirs \cup ToSet(Decides(LAMBDA l : l.write_dirs, <<>>)))
                                    \ sandbox.unusable

\* Personas (personas.Discover, newPersonaRuntime, lookup): whoever runs a
\* persona runs the definition that counts, which does not forbid it, and a
\* persona runs another only if its own definition lists run_subagent and
\* allows that one.  It gets exactly the tools its definition lists, or the
\* built-ins if it lists none (Validate, buildFor, buildAgent) - on condition
\* that a list names at least one tool the program knows.
InvitedOnly ==
    \A c \in calls :
        /\ Persona(c.name).model = Definition(c.name).model
        /\ ~ Definition(c.name).disabled
        /\ c.caller # "main" =>
              LET d == Definition(c.caller)
              IN  RunSubagentTool \in ToSet(d.tools) /\ (d.agents.any \/ c.name \in d.agents.names)
        /\ LET d == Definition(c.name)
               known == ToSet(d.tools) \cap KnownTools
           IN  (d.tools = <<>> \/ known # {}) =>
                   PersonaTools(Persona(c.name)) = IF d.tools = <<>> THEN Builtins ELSE known

\* Context windows (resolveContextWindows, LookupContextWindow, resolveWindows):
\* the first frame knows for each provider the size its record states, or one
\* its endpoint states - that of the model in use if the answer has it - and
\* says so when it guesses; on condition that its write met no other.
WindowsTold ==
    \A n \in DOMAIN shown \ raced :
        IF Said(n).context_window > 0
        THEN shown[n] = [size |-> Said(n).context_window, approx |-> FALSE]
        ELSE IF shown[n].approx THEN shown[n].size = DefaultContextWindow /\ found[n] = 0
        ELSE \E list \in Listings :
               LET own == {i \in DOMAIN list : list[i].id = Provider(n).model /\ list[i].window > 0}
               IN  /\ shown[n].size \in {list[i].window : i \in DOMAIN list}
                   /\ own # {} => shown[n].size \in {list[i].window : i \in own}

=============================================================================
