----------------------------- MODULE AgentLoop -----------------------------
(***************************************************************************)
(* The loop of one agent through one turn: the model is asked, the tools   *)
(* it calls pass the gates and run, and the model is asked again, until it *)
(* answers, a gate ends the turn, or the iteration cap does.  The agent    *)
(* and its callbacks are internal/harness; the rules are internal/tools;   *)
(* the shell hooks are internal/hooks.  The runner in between is the ADK's.*)
(*                                                                         *)
(* A call that needs the user's approval ends the invocation; the answer   *)
(* starts another, in which the approved calls pass every gate again.      *)
(***************************************************************************)
EXTENDS Integers, Sequences, SequencesExt

CONSTANTS
    Tools,        \* calls told apart by the text the rules are matched with
    Bash,         \* those of them that run the shell
    Rules,        \* the policies to consider: [deny, ask, allow : SUBSET Tools, any : BOOLEAN]
    MaxIter,      \* max_tool_iterations, 8 unless configured
    MaxBatch,     \* bound: calls in one response
    MaxAnswers    \* bound: confirmations in one turn

ASSUME LoopAssumption ==
    /\ Bash \subseteq Tools /\ MaxIter \in Nat \ {0}
    /\ MaxBatch \in Nat \ {0} /\ MaxAnswers \in Nat
    /\ \A r \in Rules : /\ r.deny \cup r.ask \cup r.allow \subseteq Tools
                        /\ r.any \/ r.deny \cup r.ask \cup r.allow = {}

VARIABLES
    agent,      \* "main", or "sub": a persona run by run_subagent
    rules,      \* the policy; field "any": some list has an entry
    offered,    \* the tools the agent was built with
    phase,      \* "starting", "model", "tools", "waiting" for the user, or "ended"
    why,        \* how the turn ended, "" before
    batch,      \* the calls of the last response
    count,      \* temp:garessModelCalls of the invocation
    made,       \* history: requests this invocation sent to the model
    answers,    \* confirmations answered
    cancelled   \* the context of the turn is done: esc

vars == <<agent, rules, offered, phase, why, batch, count, made, answers, cancelled>>
setup == <<agent, rules, offered>>

Call == [tool : Tools, at : {"pending", "paused", "running", "held", "answered"},
         said : {"none", "yes", "no"}, ran : BOOLEAN]
EndReasons == {"answered", "capped", "blocked", "failed", "cancelled"}

-----------------------------------------------------------------------------
(* The gates.                                                              *)

\* Seeded fault: what is listed to be asked about is looked up last.
DecisionAskLast(t) ==
    IF t \in rules.deny THEN "deny"
    ELSE IF t \in rules.allow THEN "allow"
    ELSE IF t \in rules.ask THEN "ask"
    ELSE IF ~rules.any THEN "allow" ELSE "deny"

\* Policy.Decision.  A pattern that is not a regular expression matches nothing,
\* and yet its list is not empty.
Decision(t) ==
    IF t \in rules.deny THEN "deny"
    ELSE IF t \in rules.ask THEN "ask"
    ELSE IF t \in rules.allow THEN "allow"
    ELSE IF ~rules.any THEN "allow" ELSE "deny"

\* Seeded fault: a persona's calls pass what is to be asked about.
GateLetsAsk(t) == Decision(t) = "deny"

DenyCallback(t) == Decision(t) = "deny"

\* A persona cannot ask the user: what is to be asked about is refused.
subagentGateCallback(t) == Decision(t) \in {"deny", "ask"}

\* The confirmation provider of a tool; a persona's tools are built without.
askProvider(t) == agent = "main" /\ Decision(t) = "ask"

Gated(t) == IF agent = "main" THEN DenyCallback(t) ELSE subagentGateCallback(t)

blockingEvents == {"before_run", "on_user_message", "before_agent", "before_model", "before_tool"}

\* One command: it is killed with its process group when its time is up or the
\* turn is cancelled, so it always comes to one of these ends.
runOne == {"passed", "failed", "timed out"}

\* Whether the commands of an event let it pass: in order, the first failure of a
\* blocking event ends it, and a notification has no say.
RunHooks(event) == {event \notin blockingEvents \/ end = "passed" : end \in runOne}

\* The plugin with the hooks is part of the main agent's runner only.
fire(event) == IF agent = "main" THEN RunHooks(event) ELSE {TRUE}

\* An empty list of names picks every tool.
buildFor(names) == IF names = {} THEN Tools ELSE names

-----------------------------------------------------------------------------

Build == agent = "main" /\ offered = buildFor({})
buildAgent == agent = "sub" /\ \E names \in SUBSET Tools : offered = buildFor(names)

Init ==
    /\ rules \in Rules
    /\ Build \/ buildAgent
    /\ phase = "starting" /\ why = "" /\ batch = <<>>
    /\ count = 0 /\ made = 0 /\ answers = 0 /\ cancelled = FALSE

End(reason) == phase' = "ended" /\ why' = reason

\* before_run, on_user_message and before_agent at the head of an invocation,
\* the one that carries the user's answer included.
Start ==
    /\ phase = "starting"
    /\ \E pass \in fire("before_run") :
         IF pass
         THEN /\ phase' = IF batch = <<>> THEN "model" ELSE "tools"
              /\ UNCHANGED why
         ELSE End("blocked")
    /\ UNCHANGED <<setup, batch, count, made, answers, cancelled>>

\* before_model hooks, a dead context, or a model that cannot be reached.
ModelFails ==
    /\ phase = "model"
    /\ \/ FALSE \in fire("before_model") /\ End("blocked")
       \/ cancelled /\ End("cancelled")
       \/ End("failed")
    /\ UNCHANGED <<setup, batch, count, made, answers, cancelled>>

\* Seeded fault: the capped request is counted and made all the same.
AskModelUncapped ==
    /\ phase = "model" /\ ~cancelled
    /\ count' = IF count > MaxIter + 1 THEN count ELSE count + 1
    /\ made' = IF made > MaxIter + 1 THEN made ELSE made + 1
    /\ \/ End("answered") /\ UNCHANGED batch
       \/ /\ phase' = "tools" /\ UNCHANGED why
          /\ \E ts \in BoundedSeq(Tools, MaxBatch) \ {<<>>} :
               batch' = [i \in DOMAIN ts |->
                           [tool |-> ts[i], at |-> "pending", said |-> "none", ran |-> FALSE]]
    /\ UNCHANGED <<setup, answers, cancelled>>

\* iterationCapCallback with MaxIter + 1 calls, the request, and its response:
\* a final answer or a batch of calls, of any of the tools there are.
AskModel ==
    /\ phase = "model" /\ ~cancelled
    /\ count' = count + 1
    /\ IF count' > MaxIter + 1
       THEN End("capped") /\ UNCHANGED <<made, batch>>
       ELSE /\ made' = made + 1
            /\ \/ End("answered") /\ UNCHANGED batch
               \/ /\ phase' = "tools" /\ UNCHANGED why
                  /\ \E ts \in BoundedSeq(Tools, MaxBatch) \ {<<>>} :
                       batch' = [i \in DOMAIN ts |->
                                   [tool |-> ts[i], at |-> "pending",
                                    said |-> "none", ran |-> FALSE]]
    /\ UNCHANGED <<setup, answers, cancelled>>

\* A gate refuses the call, its tool is not among those offered, the user said
\* no, or it never got a context to run in: an error is its result.
Refuse(i) ==
    /\ phase = "tools" /\ batch[i].at = "pending"
    /\ \/ FALSE \in fire("before_tool")
       \/ Gated(batch[i].tool) \/ batch[i].tool \notin offered
       \/ batch[i].said = "no"
       \/ cancelled
    /\ batch' = [batch EXCEPT ![i].at = "answered"]
    /\ UNCHANGED <<setup, phase, why, count, made, answers, cancelled>>

Passes(c) == c.tool \in offered /\ ~Gated(c.tool)

\* The tool asks for confirmation instead of running.
Pause(i) ==
    /\ phase = "tools" /\ batch[i].at = "pending" /\ batch[i].said = "none"
    /\ Passes(batch[i]) /\ askProvider(batch[i].tool)
    /\ batch' = [batch EXCEPT ![i].at = "paused"]
    /\ UNCHANGED <<setup, phase, why, count, made, answers, cancelled>>

\* The tool runs.  Only the shell looks at the context first.
Run(i) ==
    /\ phase = "tools" /\ batch[i].at = "pending" /\ batch[i].said # "no"
    /\ Passes(batch[i])
    /\ askProvider(batch[i].tool) => batch[i].said = "yes"
    /\ batch[i].tool \in Bash => ~cancelled
    /\ batch' = [batch EXCEPT ![i].at = "running", ![i].ran = TRUE]
    /\ UNCHANGED <<setup, phase, why, count, made, answers, cancelled>>

\* Its handler returns: of itself, or for the shell after 15 seconds or at esc.
Return(i) ==
    /\ phase = "tools" /\ batch[i].at = "running"
    /\ batch' = [batch EXCEPT ![i].at = "answered"]
    /\ UNCHANGED <<setup, phase, why, count, made, answers, cancelled>>

\* The shell is gone, killed or not, and a process it left in the background has
\* the output pipe open: CombinedOutput waits for the end of the pipe.
ChildHolds(i) ==
    /\ phase = "tools" /\ batch[i].at = "running" /\ batch[i].tool \in Bash
    /\ batch' = [batch EXCEPT ![i].at = "held"]
    /\ UNCHANGED <<setup, phase, why, count, made, answers, cancelled>>

ChildGone(i) ==
    /\ phase = "tools" /\ batch[i].at = "held"
    /\ batch' = [batch EXCEPT ![i].at = "answered"]
    /\ UNCHANGED <<setup, phase, why, count, made, answers, cancelled>>

Paused == {i \in DOMAIN batch : batch[i].at = "paused"}

\* Every call of the batch has a result, or waits for approval and with it the
\* turn.
CloseBatch ==
    /\ phase = "tools"
    /\ \A i \in DOMAIN batch : batch[i].at \in {"answered", "paused"}
    /\ IF cancelled /\ Paused # {} THEN End("cancelled")
       ELSE /\ phase' = IF Paused = {} THEN "model" ELSE "waiting"
            /\ UNCHANGED why
    /\ UNCHANGED <<setup, batch, count, made, answers, cancelled>>

\* Seeded fault: the counter is stored with the session and comes back.
AnswerCounting(yes) ==
    /\ phase = "waiting" /\ answers < MaxAnswers
    /\ answers' = answers + 1
    /\ batch' = [i \in DOMAIN batch |->
                   IF i \in Paused
                   THEN [batch[i] EXCEPT !.at = "pending", !.said = IF yes THEN "yes" ELSE "no"]
                   ELSE batch[i]]
    /\ phase' = "starting" /\ made' = 0 /\ UNCHANGED count
    /\ UNCHANGED <<setup, why, cancelled>>

\* answerConfirmation: one key answers for every call that waits, and a new
\* invocation begins.  AppendEvent stores no temp: key, so its counter is fresh.
Answer(yes) ==
    /\ phase = "waiting" /\ answers < MaxAnswers
    /\ answers' = answers + 1
    /\ batch' = [i \in DOMAIN batch |->
                   IF i \in Paused
                   THEN [batch[i] EXCEPT !.at = "pending", !.said = IF yes THEN "yes" ELSE "no"]
                   ELSE batch[i]]
    /\ phase' = "starting" /\ made' = 0 /\ count' = 0
    /\ UNCHANGED <<setup, why, cancelled>>

\* esc while the turn is streaming.
Cancel ==
    /\ phase \in {"starting", "model", "tools"} /\ ~cancelled
    /\ cancelled' = TRUE
    /\ UNCHANGED <<setup, phase, why, batch, count, made, answers>>

Loop ==
    \/ Start \/ ModelFails \/ AskModel \/ CloseBatch
    \/ \E i \in DOMAIN batch : Refuse(i) \/ Pause(i) \/ Run(i) \/ Return(i)

Next ==
    \/ Loop
    \/ \E i \in DOMAIN batch : ChildHolds(i) \/ ChildGone(i)
    \/ \E yes \in BOOLEAN : Answer(yes)
    \/ Cancel

Spec == Init /\ [][Next]_vars

\* The loop goes on while it can: requests and tools come to an end.  Nothing is
\* assumed of the user, nor of what a command leaves in the background.
FairSpec == Spec /\ WF_vars(Loop)

-----------------------------------------------------------------------------
(* Correctness.                                                            *)

TypeOK ==
    /\ agent \in {"main", "sub"} /\ rules \in Rules /\ offered \subseteq Tools
    /\ phase \in {"starting", "model", "tools", "waiting", "ended"}
    /\ why \in EndReasons \cup {""} /\ (why = "" <=> phase # "ended")
    /\ batch \in BoundedSeq(Call, MaxBatch)
    /\ count \in 0 .. MaxIter + 2 /\ made \in 0 .. MaxIter + 1
    /\ answers \in 0 .. MaxAnswers /\ cancelled \in BOOLEAN

\* What the rules say of a tool, as the documentation puts it: deny wins over
\* ask and ask over allow, no rules allow everything, and where there are rules
\* what none of them names is denied.
FreeTools == {t \in offered : ~rules.any \/ t \in rules.allow \ (rules.ask \cup rules.deny)}
AskTools == IF agent = "sub" THEN {} ELSE (rules.ask \cap offered) \ rules.deny

StatusOf(c) ==
    CASE c.ran -> "ran"
      [] ~c.ran /\ (c.at = "answered" \/ c.said = "no") -> "refused"
      [] c.at = "paused" -> "asked"
      [] OTHER -> IF c.said = "yes" THEN "approved" ELSE "open"

Gate == INSTANCE ToolGate WITH free <- FreeTools, asks <- AskTools,
          batch <- [i \in DOMAIN batch |->
                      [tool |-> batch[i].tool, status |-> StatusOf(batch[i])]]

\* Through the retries of confirmed calls, hooks and esc, a call runs at most
\* once and only if the rules or the user let it, and a refusal is final.
\* About DenyCallback, askProvider and subagentGateCallback together.
GateKept == Gate!Spec

\* No invocation asks the model more often than the cap says, and the cap stops
\* no invocation early: a turn that was stopped by it had its whole budget since
\* the last answer of the user.  About iterationCapCallback and the temp: key.
BudgetExact ==
    /\ made =< MaxIter + 1
    /\ why = "capped" => made = MaxIter + 1

\* The turn ends or waits for the user, whatever the model asks for, at the
\* latest when no command's leftover process holds the output open.  About the
\* cap as the guarantee that a model cannot call tools for ever.
TurnEnds ==
    (phase \in {"starting", "model", "tools"})
       ~> \/ phase \in {"ended", "waiting"}
          \/ \E i \in DOMAIN batch : batch[i].at = "held"
=============================================================================
