------------------------------ MODULE ToolGate ------------------------------
(***************************************************************************)
(* What the rules for tools promise of one batch of calls that a model     *)
(* makes: a call runs at most once, and only a call the rules let through  *)
(* or, where they say so, one the user approved; a refusal is final.       *)
(***************************************************************************)
EXTENDS Sequences, Naturals

CONSTANT Tools

VARIABLES free,      \* tools that run without a question
          asks,      \* tools that run when the user approves
          batch      \* the calls the model waits for: [tool, status]

vars == <<free, asks, batch>>

Statuses == {"open", "asked", "approved", "ran", "refused"}

Init ==
    /\ free \in SUBSET Tools /\ asks \in SUBSET (Tools \ free)
    /\ batch = <<>>

Offer ==
    /\ \A i \in DOMAIN batch : batch[i].status \in {"ran", "refused"}
    /\ batch' \in Seq([tool : Tools, status : {"open"}])

Move(i, from, to) ==
    /\ batch[i].status \in from
    /\ batch' = [batch EXCEPT ![i].status = to]

Run(i) ==
    \/ batch[i].tool \in free /\ Move(i, {"open"}, "ran")
    \/ batch[i].tool \in asks /\ Move(i, {"approved"}, "ran")

Ask(i) == batch[i].tool \in asks /\ Move(i, {"open"}, "asked")

Refuse(i) == Move(i, {"open", "approved"}, "refused")

\* The user answers for every call that waits.
Answer(to) ==
    batch' = [i \in DOMAIN batch |-> IF batch[i].status = "asked"
                                     THEN [batch[i] EXCEPT !.status = to] ELSE batch[i]]

Next ==
    /\ \/ Offer
       \/ \E i \in DOMAIN batch : Run(i) \/ Ask(i) \/ Refuse(i)
       \/ Answer("approved") \/ Answer("refused")
    /\ UNCHANGED <<free, asks>>

Spec == Init /\ [][Next]_vars
=============================================================================
