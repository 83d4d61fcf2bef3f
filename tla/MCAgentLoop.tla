---------------------------- MODULE MCAgentLoop ----------------------------
(***************************************************************************)
(* Small instances of AgentLoop: a shell command and another tool under    *)
(* every policy over the two.                                              *)
(***************************************************************************)
EXTENDS AgentLoop

CONSTANTS bash, edit

MCTools == {bash, edit}
MCBash == {bash}
MCRules == {r \in [deny : SUBSET MCTools, ask : SUBSET MCTools, allow : SUBSET MCTools,
                   any : BOOLEAN] : r.any \/ r.deny \cup r.ask \cup r.allow = {}}
=============================================================================
