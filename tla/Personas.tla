------------------------------ MODULE Personas ------------------------------
(***************************************************************************)
(* Custom agents (internal/personas) and what a provider's agents are      *)
(* built with (internal/harness, internal/tools): which definition of a    *)
(* name counts, which tools it gets, whom it may run.  Operators only.     *)
(*                                                                         *)
(* A definition file is [name, tools, model, disabled, agents, parses];    *)
(* agents is [any] or the names a caller may run.                          *)
(***************************************************************************)
EXTENDS Config

CONSTANT Builtins   \* the names of the built-in tools

RunSubagentTool == "run_subagent"

ASSUME BuiltinsAssumption == RunSubagentTool \notin Builtins

\* What a definition file may say.
Definitions ==
    [name : STRING, tools : Seq(STRING), model : STRING, disabled : BOOLEAN,
     agents : [any : BOOLEAN, names : SUBSET STRING], parses : BOOLEAN]

KnownTools == Builtins \cup {RunSubagentTool}

\* The definition files that can be read.
Parsed(roots) == Those(FlattenSeq(roots), {f \in ToSet(FlattenSeq(roots)) : f.parses})

\* Seeded fault: the first definition of a name stays.
DiscoverFirst(roots) ==
    FoldLeft(LAMBDA ps, f : IF Named(ps, f.name) = {} THEN Append(ps, f) ELSE ps,
             <<>>, Parsed(roots))

\* roots: the user's directory, .garess/agents and agents; the files of each in
\* the order of their paths.
Discover(roots) == FoldLeft(Placed, <<>>, Parsed(roots))

ModelInvocable(p) == ~ p.disabled

ValidatePersona(p) == [p EXCEPT !.tools = Those(@, KnownTools)]

\* The first definition of a name is the one the runtime has.
Joined(rt, p) ==
    IF Named(rt, p.name) = {} THEN Append(rt, ValidatePersona(p)) ELSE rt

NewPersonaRuntime(defs) ==
    FoldLeft(Joined, <<>>, Those(defs, {p \in ToSet(defs) : ModelInvocable(p)}))

\* An empty list of tools asks for all of them.
BuildFor(names) == IF names = <<>> THEN Builtins ELSE Builtins \cap ToSet(names)

PersonaTools(p) ==
    BuildFor(p.tools) \cup (ToSet(p.tools) \cap {RunSubagentTool})

MainTools(rt) == Builtins \cup (IF rt = <<>> THEN {} ELSE {RunSubagentTool})

\* The main agent may run every persona of the runtime.
AnyAgent == [any |-> TRUE, names |-> {}]

Lookup(rt, allow, name) ==
    /\ Named(rt, name) # {}
    /\ allow.any \/ name \in allow.names
=============================================================================
