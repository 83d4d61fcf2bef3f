---------------------------- MODULE MCSubAgents ----------------------------
(***************************************************************************)
(* Small instances of SubAgents: a lead that may run itself, a persona     *)
(* that cannot be built, and one that agents may not run.                  *)
(***************************************************************************)
EXTENDS SubAgents

CONSTANTS lead, broken, hidden

MCPersonas == {lead, broken, hidden}
MCInvocable == {lead, broken}
MCDelegates == {lead}
MCBroken == {broken}
MCAllows == [p \in MCPersonas |-> IF p = lead THEN {lead, hidden} ELSE {}]
=============================================================================
