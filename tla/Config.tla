------------------------------- MODULE Config -------------------------------
(***************************************************************************)
(* The configuration (internal/config): which files are read, how they are *)
(* laid over each other, defaults and validation.  Operators only.         *)
(*                                                                         *)
(* A file is [is, says]: "absent", a "dir", "broken" (not TOML) or a       *)
(* "file" with a content.  An endpoint is "v1" (an http URL that ends in   *)
(* /v1), "bare" (another http URL) or "bad".  The theme and the history    *)
(* limit are laid over like backend, and are left out.                     *)
(***************************************************************************)
EXTENDS Filters

DefaultAutoCompressThreshold == 80
Backends == {"none", "auto", "landlock"}

\* A text of the program that nothing was written to.
Unset == ""

\* What a file that sets nothing says.  An optional number is a sequence of at
\* most one.
Empty == [providers |-> <<>>, default |-> Unset, backend |-> Unset, write_dirs |-> <<>>,
          hooks |-> <<>>, threshold |-> <<>>, mcp_servers |-> <<>>]

Default == [Empty EXCEPT !.backend = "none"]

\* What a file may say.
ProviderRecord == [name : STRING, model : STRING, endpoint : STRING, context_window : Int]
HookRecord == [event : STRING, command : STRING]
ServerRecord == [name : STRING, transport : STRING, target : STRING]
Content ==
    [providers  : Seq(ProviderRecord), default     : STRING,
     backend    : STRING,              write_dirs  : Seq(STRING),
     hooks      : Seq(HookRecord),     mcp_servers : Seq(ServerRecord),
     threshold  : {t \in Seq(Int) : Len(t) <= 1}]

-----------------------------------------------------------------------------
(* Laying one file over another.                                           *)

Named(entries, name) == {i \in DOMAIN entries : entries[i].name = name}

Placed(entries, e) ==
    LET at == Named(entries, e.name)
    IN  IF at = {} THEN Append(entries, e)
        ELSE [entries EXCEPT ![CHOOSE i \in at : \A j \in at : i <= j] = e]

\* Seeded fault: an entry the lower file has stays as it is.
MergeByNameKeep(base, over) ==
    base \o Those(over, {e \in ToSet(over) : Named(base, e.name) = {}})

MergeByName(base, over) == FoldLeft(Placed, base, over)

MergeHooks(base, over) ==
    Those(base, {h \in ToSet(base) : \A i \in DOMAIN over : over[i].event # h.event}) \o over

Overlaid(mine, theirs, unset) == IF theirs = unset THEN mine ELSE theirs

Merge(c, over) ==
    [providers   |-> MergeByName(c.providers, over.providers),
     default     |-> Overlaid(c.default, over.default, Unset),
     backend     |-> Overlaid(c.backend, over.backend, Unset),
     write_dirs  |-> Overlaid(c.write_dirs, over.write_dirs, <<>>),
     hooks       |-> MergeHooks(c.hooks, over.hooks),
     threshold   |-> Overlaid(c.threshold, over.threshold, <<>>),
     mcp_servers |-> MergeByName(c.mcp_servers, over.mcp_servers)]

ApplyDefaults(c) ==
    [c EXCEPT !.threshold = Overlaid(<<DefaultAutoCompressThreshold>>, @, <<>>),
              !.backend = Overlaid("none", @, Unset),
              !.default = IF @ = Unset /\ c.providers # <<>> THEN c.providers[1].name ELSE @]

-----------------------------------------------------------------------------
(* Validation and use.                                                     *)

UniqueNames(entries) ==
    \A i \in DOMAIN entries : entries[i].name # Unset /\ Named(entries, entries[i].name) = {i}

ValidProvider(p) == p.endpoint # "bad" /\ p.model # Unset /\ p.context_window >= 0

ValidServer(s) ==
    \/ s.transport = "stdio" /\ s.target # Unset
    \/ s.transport \in {"sse", "http"} /\ s.target \in {"v1", "bare"}

Validate(c) ==
    /\ c.providers # <<>> /\ UniqueNames(c.providers)
    /\ \A i \in DOMAIN c.providers : ValidProvider(c.providers[i])
    /\ \A i \in DOMAIN c.threshold : c.threshold[i] \in 0 .. 100
    /\ Named(c.providers, c.default) # {}
    /\ c.backend \in Backends
    /\ \A i \in DOMAIN c.write_dirs : c.write_dirs[i] \notin {Unset, "relative"}
    /\ UniqueNames(c.mcp_servers)
    /\ \A i \in DOMAIN c.mcp_servers : ValidServer(c.mcp_servers[i])

AutoCompressEnabled(c) == c.threshold = <<>> \/ c.threshold[1] > 0

AutoCompressThresholdPct(c) ==
    IF c.threshold \in {<<>>, <<0>>} THEN DefaultAutoCompressThreshold ELSE c.threshold[1]

-----------------------------------------------------------------------------
(* Which files are read.                                                   *)

\* The global path is unknown when the user has no home directory.
SearchPaths(home) == (IF home THEN <<"global">> ELSE <<>>) \o <<"project", "root">>

LoadFrom(files, paths) ==
    LET found == Those(paths, {p \in DOMAIN files : files[p].is # "absent"})
        bad   == Those(found, {p \in DOMAIN files : files[p].is # "file"})
        cfg   == ApplyDefaults(FoldLeft(Merge, Default,
                                        [i \in DOMAIN found |-> files[found[i]].says]))
    IN  CASE bad # <<>>   -> [err |-> "invalid", cfg |-> Default]
          [] found = <<>> -> [err |-> "not_found", cfg |-> Default]
          [] OTHER        -> [err |-> IF Validate(cfg) THEN "nil" ELSE "invalid",
                              cfg |-> cfg]

\* The first project file that exists, a directory of its name not counting.
LoadSearch(files, searched) ==
    LET exist == Those(Tail(searched), {p \in DOMAIN files : files[p].is \in {"file", "broken"}})
    IN  LoadFrom(files, <<Head(searched)>>
                        \o (IF exist = <<>> THEN <<>> ELSE <<Head(exist)>>))

Load(files, home, explicit) ==
    IF explicit
    THEN IF files["explicit"].is \in {"file", "broken"} THEN LoadFrom(files, <<"explicit">>)
         ELSE [err |-> "not_found", cfg |-> Default]
    ELSE LoadSearch(files, SearchPaths(home))
=============================================================================
