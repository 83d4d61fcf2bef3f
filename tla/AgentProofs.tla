------------------------------- MODULE AgentProofs -------------------------------
(***************************************************************************)
(* How an agent is put together, and what bounds its turns.                *)
(*                                                                         *)
(* First the iteration cap and the gates of AgentLoop, for every set of    *)
(* tools, every set of policies, every cap and every number of             *)
(* confirmations.  That the loop keeps the promise of ToolGate needs what  *)
(* every call has gone through: the answer of the user is found only on    *)
(* calls the policy asks about, a call that waits has not run, and the     *)
(* model is asked only when every call has its result.                     *)
(*                                                                         *)
(* Then Startup, for every world: any files, personas and machine, any     *)
(* listing of models and any number of calls.  What the configuration is   *)
(* after the layers is computed file by file; the invariant says, stage by *)
(* stage, which of it each of the following steps has used, and what a     *)
(* probe that runs may still write.                                        *)
(***************************************************************************)
EXTENDS AgentLoop, Startup, OperatorProofs, FiniteSetTheorems

\* What a call has behind it agrees with where it is: before the gates it has
\* not run, after them it has, and only what the policy asks about waits for the
\* user or carries an answer.
CallsFollowRules ==
    \A i \in DOMAIN batch :
      /\ batch[i].at \in {"pending", "paused"} => ~batch[i].ran
      /\ batch[i].at \in {"running", "held"} => batch[i].ran
      /\ batch[i].at = "paused" => batch[i].said = "none" /\ askProvider(batch[i].tool)
      /\ batch[i].said # "none" => askProvider(batch[i].tool)

\* The model is asked when no call of the last response is open.
ModelWaitsForNone ==
    phase = "model" => \A i \in DOMAIN batch : batch[i].at = "answered"

\* The counter counts the requests, but for the one it stops.
CountFollowsRequests ==
    \/ count = made
    \/ why = "capped" /\ made = MaxIter + 1 /\ count = made + 1

CappedAtCap == why = "capped" => made = MaxIter + 1

IInv ==
    /\ TypeOK
    /\ CallsFollowRules /\ ModelWaitsForNone
    /\ CountFollowsRequests /\ CappedAtCap

-----------------------------------------------------------------------------
(* Sequences of bounded length.                                            *)

\* A sequence of at most n elements is one, and its domain is an initial
\* segment of the numbers.
LEMMA BoundedIsSeq ==
    ASSUME NEW S, NEW n \in Nat, NEW s \in BoundedSeq(S, n)
    PROVE  s \in Seq(S) /\ Len(s) \in 0 .. n /\ DOMAIN s = 1 .. Len(s)
             /\ \A i \in DOMAIN s : s[i] \in S
<1>1. PICK m \in 0 .. n : s \in [1 .. m -> S]
  BY DEF BoundedSeq, SeqOf
<1>2. QED
  BY <1>1

\* Mapping the positions of a bounded sequence leaves it bounded.
LEMMA MappedBounded ==
    ASSUME NEW S, NEW T, NEW n \in Nat, NEW s \in BoundedSeq(S, n),
           NEW t, t = [i \in DOMAIN s |-> t[i]], \A i \in DOMAIN s : t[i] \in T
    PROVE  t \in BoundedSeq(T, n)
<1>1. PICK m \in 0 .. n : s \in [1 .. m -> S]
  BY DEF BoundedSeq, SeqOf
<1>2. t \in [1 .. m -> T]
  BY <1>1
<1>3. QED
  BY <1>2 DEF BoundedSeq, SeqOf

-----------------------------------------------------------------------------
(* The invariant is inductive.                                             *)

\* The bounds are numbers.
LEMMA Bounds ==
    MaxIter \in Nat /\ MaxBatch \in Nat /\ MaxAnswers \in Nat
BY LoopAssumption DEF LoopAssumption

\* A fresh batch is a batch.
LEMMA FreshBatch ==
    ASSUME MaxBatch \in Nat, NEW ts \in BoundedSeq(Tools, MaxBatch) \ {<<>>}
    PROVE  LET b == [i \in DOMAIN ts |-> [tool |-> ts[i], at |-> "pending",
                                         said |-> "none", ran |-> FALSE]]
           IN  b \in BoundedSeq(Call, MaxBatch)
<1> DEFINE b == [i \in DOMAIN ts |-> [tool |-> ts[i], at |-> "pending",
                                     said |-> "none", ran |-> FALSE]]
<1>1. \A i \in DOMAIN ts : ts[i] \in Tools
  BY BoundedIsSeq
<1>2. \A i \in DOMAIN ts : b[i] \in Call
  BY <1>1 DEF Call
<1>3. b = [i \in DOMAIN ts |-> b[i]]
  OBVIOUS
<1> HIDE DEF b
<1>4. QED
  BY <1>2, <1>3, MappedBounded DEF b

LEMMA InitInv == Init => IInv
<1> SUFFICES ASSUME Init PROVE IInv
  OBVIOUS
<1>1. offered \subseteq Tools /\ agent \in {"main", "sub"}
  BY DEF Init, Build, buildAgent, buildFor
<1>2. batch \in BoundedSeq(Call, MaxBatch)
  <2>1. <<>> \in Seq(Call) /\ Len(<<>>) = 0
    OBVIOUS
  <2>2. <<>> \in [1 .. 0 -> Call]
    BY <2>1
  <2>3. 0 \in 0 .. MaxBatch
    BY Bounds
  <2>4. QED
    BY <2>2, <2>3 DEF Init, BoundedSeq, SeqOf
<1>3. TypeOK
  <2>1. 0 \in 0 .. MaxIter + 2 /\ 0 \in 0 .. MaxIter + 1 /\ 0 \in 0 .. MaxAnswers
    BY Bounds
  <2>2. QED
    BY <1>1, <1>2, <2>1 DEF Init, TypeOK
<1>4. \A i : i \notin DOMAIN batch
  <2>1. Len(batch) = 0
    BY DEF Init
  <2>2. DOMAIN batch = 1 .. Len(batch)
    BY <1>2, Bounds, BoundedIsSeq
  <2>3. DOMAIN batch = 1 .. 0
    BY <2>1, <2>2
  <2>4. QED
    BY <2>3
<1>5. CallsFollowRules /\ ModelWaitsForNone
  BY <1>4 DEF CallsFollowRules, ModelWaitsForNone
<1>6. CountFollowsRequests /\ CappedAtCap
  BY DEF Init, CountFollowsRequests, CappedAtCap
<1>7. QED
  BY <1>3, <1>5, <1>6 DEF IInv

\* One call of the batch becomes another, the rest stays.
LEMMA MovedCall ==
    ASSUME MaxBatch \in Nat, NEW b \in BoundedSeq(Call, MaxBatch), NEW i \in DOMAIN b,
           NEW c \in Call
    PROVE  LET moved == [b EXCEPT ![i] = c]
           IN  /\ moved \in BoundedSeq(Call, MaxBatch)
               /\ DOMAIN moved = DOMAIN b /\ moved[i] = c
               /\ \A j \in DOMAIN b : j # i => moved[j] = b[j]
<1> DEFINE moved == [b EXCEPT ![i] = c]
<1>1. PICK m \in 0 .. MaxBatch : b \in [1 .. m -> Call]
  BY DEF BoundedSeq, SeqOf
<1>2. moved \in [1 .. m -> Call]
  BY <1>1
<1>3. moved \in BoundedSeq(Call, MaxBatch)
  BY <1>2 DEF BoundedSeq, SeqOf
<1>4. QED
  BY <1>1, <1>3

\* The invariant survives a step that moves one call within the phase "tools", if
\* the call's new state agrees with the policy as its old one did.
LEMMA StepOfCall ==
    ASSUME IInv, phase = "tools", NEW i \in DOMAIN batch, NEW c \in Call,
           batch' = [batch EXCEPT ![i] = c],
           UNCHANGED <<setup, phase, why, count, made, answers, cancelled>>,
           c.tool = batch[i].tool, c.said = batch[i].said,
           c.at \in {"pending", "paused"} => ~c.ran,
           c.at \in {"running", "held"} => c.ran,
           c.at = "paused" => c.said = "none" /\ askProvider(c.tool)
    PROVE  IInv'
<1>1. MaxBatch \in Nat /\ batch \in BoundedSeq(Call, MaxBatch)
  BY Bounds DEF IInv, TypeOK
<1>2. /\ batch' \in BoundedSeq(Call, MaxBatch)
      /\ DOMAIN batch' = DOMAIN batch /\ batch'[i] = c
      /\ \A j \in DOMAIN batch : j # i => batch'[j] = batch[j]
  BY <1>1, MovedCall
<1>3. TypeOK'
  BY <1>2 DEF IInv, TypeOK, setup
<1>4. \A t : askProvider(t)' = askProvider(t)
  BY DEF setup, askProvider, Decision
<1>5. CallsFollowRules'
  BY <1>2, <1>4 DEF IInv, CallsFollowRules
<1>6. ModelWaitsForNone' /\ CountFollowsRequests' /\ CappedAtCap'
  BY DEF IInv, ModelWaitsForNone, CountFollowsRequests, CappedAtCap
<1>7. QED
  BY <1>3, <1>5, <1>6 DEF IInv

\* The invariant survives a step that leaves the batch alone, if what it does to
\* the phase and the counters is right.
LEMMA StepBesideBatch ==
    ASSUME IInv, UNCHANGED <<setup, batch, answers>>,
           TypeOK', ModelWaitsForNone', CountFollowsRequests', CappedAtCap'
    PROVE  IInv'
<1>1. \A t : askProvider(t)' = askProvider(t)
  BY DEF setup, askProvider, Decision
<1>2. CallsFollowRules'
  BY <1>1 DEF IInv, CallsFollowRules
<1>3. QED
  BY <1>2 DEF IInv

LEMMA StepInv == IInv /\ [Next]_vars => IInv'
<1> SUFFICES ASSUME IInv, [Next]_vars PROVE IInv'
  OBVIOUS
<1> USE Bounds
<1>1. CASE Start
  <2>1. DOMAIN batch = {} \/ phase' # "model"
    BY <1>1 DEF Start, End
  <2>2. TypeOK' /\ UNCHANGED <<setup, batch, answers>>
    BY <1>1 DEF IInv, TypeOK, Start, End, setup, EndReasons
  <2>3. ModelWaitsForNone' /\ CountFollowsRequests' /\ CappedAtCap'
    BY <1>1, <2>1 DEF IInv, Start, End, ModelWaitsForNone, CountFollowsRequests,
                      CappedAtCap, TypeOK
  <2>4. QED
    BY <2>2, <2>3, StepBesideBatch
<1>2. CASE ModelFails
  <2>1. TypeOK' /\ UNCHANGED <<setup, batch, answers>>
    BY <1>2 DEF IInv, TypeOK, ModelFails, End, setup, EndReasons
  <2>2. ModelWaitsForNone' /\ CountFollowsRequests' /\ CappedAtCap'
    BY <1>2 DEF IInv, ModelFails, End, ModelWaitsForNone, CountFollowsRequests,
                CappedAtCap, TypeOK
  <2>3. QED
    BY <2>1, <2>2, StepBesideBatch
<1>3. CASE AskModel
  <2>1. count = made /\ count' = count + 1 /\ made \in 0 .. MaxIter + 1
    BY <1>3 DEF IInv, TypeOK, AskModel, CountFollowsRequests
  <2>2. CASE phase' = "ended"
    <3>1. /\ why' \in {"capped", "answered"} /\ UNCHANGED <<setup, batch, answers, cancelled>>
          /\ IF count' > MaxIter + 1 THEN why' = "capped" /\ made' = made
             ELSE why' = "answered" /\ made' = made + 1
      BY <1>3, <2>2 DEF AskModel, End
    <3>2. TypeOK'
      <4>1. count' \in 0 .. MaxIter + 2 /\ made' \in 0 .. MaxIter + 1
        BY <2>1, <3>1
      <4>2. QED
        BY <2>2, <3>1, <4>1 DEF IInv, TypeOK, setup, EndReasons
    <3>3. ModelWaitsForNone' /\ CountFollowsRequests' /\ CappedAtCap'
      BY <2>1, <2>2, <3>1 DEF ModelWaitsForNone, CountFollowsRequests, CappedAtCap
    <3>4. QED
      BY <3>1, <3>2, <3>3, StepBesideBatch
  <2>3. CASE phase' # "ended"
    <3>1. PICK ts \in BoundedSeq(Tools, MaxBatch) \ {<<>>} :
            batch' = [i \in DOMAIN ts |-> [tool |-> ts[i], at |-> "pending",
                                           said |-> "none", ran |-> FALSE]]
      BY <1>3, <2>3 DEF AskModel, End
    <3>2. /\ ~(count' > MaxIter + 1) /\ made' = made + 1
          /\ phase' = "tools" /\ UNCHANGED <<setup, why, answers, cancelled>>
          /\ phase = "model"
      BY <1>3, <2>3 DEF AskModel, End
    <3>3. TypeOK'
      <4>1. batch' \in BoundedSeq(Call, MaxBatch)
        BY <3>1, FreshBatch
      <4>2. count' \in 0 .. MaxIter + 2 /\ made' \in 0 .. MaxIter + 1
        <5>1. MaxIter \in Nat /\ count' = made + 1 /\ made' = made + 1 /\ made \in Nat
          BY <2>1, <3>2
        <5>2. ~(made + 1 > MaxIter + 1)
          BY <3>2, <5>1
        <5>3. QED
          BY <5>1, <5>2
      <4>3. QED
        BY <3>2, <4>1, <4>2 DEF IInv, TypeOK, setup
    <3>4. CallsFollowRules'
      BY <3>1 DEF CallsFollowRules
    <3>5. ModelWaitsForNone' /\ CountFollowsRequests' /\ CappedAtCap'
      <4>1. count' = made' /\ why' = ""
        BY <2>1, <3>2 DEF IInv, TypeOK
      <4>2. QED
        BY <3>2, <4>1 DEF ModelWaitsForNone, CountFollowsRequests, CappedAtCap
    <3>6. QED
      BY <3>3, <3>4, <3>5 DEF IInv
  <2>4. QED
    BY <2>2, <2>3
<1>4. CASE CloseBatch
  <2>1. phase' = "model" => \A i \in DOMAIN batch : batch[i].at = "answered"
    BY <1>4 DEF CloseBatch, Paused, End
  <2>2. TypeOK' /\ UNCHANGED <<setup, batch, answers>>
    BY <1>4 DEF IInv, TypeOK, CloseBatch, End, setup, EndReasons
  <2>3. ModelWaitsForNone' /\ CountFollowsRequests' /\ CappedAtCap'
    BY <1>4, <2>1 DEF IInv, TypeOK, CloseBatch, End, ModelWaitsForNone,
                      CountFollowsRequests, CappedAtCap
  <2>4. QED
    BY <2>2, <2>3, StepBesideBatch
<1>5. ASSUME NEW i \in DOMAIN batch,
             Refuse(i) \/ Pause(i) \/ Run(i) \/ Return(i) \/ ChildHolds(i) \/ ChildGone(i)
      PROVE  IInv'
  <2>1. batch[i] \in Call /\ phase = "tools"
    BY <1>5, BoundedIsSeq
       DEF IInv, TypeOK, Refuse, Pause, Run, Return, ChildHolds, ChildGone
  <2>2. CASE Refuse(i) \/ Return(i) \/ ChildGone(i)
    <3> DEFINE c == [batch[i] EXCEPT !.at = "answered"]
    <3>1. c \in Call /\ c.tool = batch[i].tool /\ c.said = batch[i].said
            /\ c.at = "answered"
      BY <2>1 DEF Call
    <3>2. batch' = [batch EXCEPT ![i] = c]
            /\ UNCHANGED <<setup, phase, why, count, made, answers, cancelled>>
      BY <2>2 DEF Refuse, Return, ChildGone
    <3> HIDE DEF c
    <3>3. QED
      BY <2>1, <3>1, <3>2, StepOfCall
  <2>3. CASE Pause(i)
    <3> DEFINE c == [batch[i] EXCEPT !.at = "paused"]
    <3>1. c \in Call /\ c.tool = batch[i].tool /\ c.said = batch[i].said
            /\ c.at = "paused" /\ c.ran = batch[i].ran
      BY <2>1 DEF Call
    <3>2. batch' = [batch EXCEPT ![i] = c]
            /\ UNCHANGED <<setup, phase, why, count, made, answers, cancelled>>
      BY <2>3 DEF Pause
    <3>3. ~batch[i].ran /\ batch[i].said = "none" /\ askProvider(batch[i].tool)
      BY <2>3 DEF Pause, IInv, CallsFollowRules
    <3> HIDE DEF c
    <3>4. QED
      BY <2>1, <3>1, <3>2, <3>3, StepOfCall
  <2>4. CASE Run(i)
    <3> DEFINE c == [batch[i] EXCEPT !.at = "running", !.ran = TRUE]
    <3>1. c \in Call /\ c.tool = batch[i].tool /\ c.said = batch[i].said
            /\ c.at = "running" /\ c.ran
      BY <2>1 DEF Call
    <3>2. batch' = [batch EXCEPT ![i] = c]
            /\ UNCHANGED <<setup, phase, why, count, made, answers, cancelled>>
      BY <2>4 DEF Run
    <3> HIDE DEF c
    <3>3. QED
      BY <2>1, <3>1, <3>2, StepOfCall
  <2>5. CASE ChildHolds(i)
    <3> DEFINE c == [batch[i] EXCEPT !.at = "held"]
    <3>1. c \in Call /\ c.tool = batch[i].tool /\ c.said = batch[i].said
            /\ c.at = "held" /\ c.ran = batch[i].ran
      BY <2>1 DEF Call
    <3>2. batch' = [batch EXCEPT ![i] = c]
            /\ UNCHANGED <<setup, phase, why, count, made, answers, cancelled>>
      BY <2>5 DEF ChildHolds
    <3>3. batch[i].ran
      BY <2>5 DEF ChildHolds, IInv, CallsFollowRules
    <3> HIDE DEF c
    <3>4. QED
      BY <2>1, <3>1, <3>2, <3>3, StepOfCall
  <2>6. QED
    BY <1>5, <2>2, <2>3, <2>4, <2>5
<1>6. ASSUME NEW yes \in BOOLEAN, Answer(yes)
      PROVE  IInv'
  <2> DEFINE answered(c) == [c EXCEPT !.at = "pending", !.said = IF yes THEN "yes" ELSE "no"]
  <2>1. \A i \in DOMAIN batch : batch[i] \in Call
    BY BoundedIsSeq DEF IInv, TypeOK
  <2>2. batch' = [i \in DOMAIN batch |-> IF batch[i].at = "paused"
                                         THEN answered(batch[i]) ELSE batch[i]]
    BY <1>6 DEF Answer, Paused
  <2>3. \A c \in Call :
          /\ answered(c) \in Call /\ answered(c).tool = c.tool
          /\ answered(c).ran = c.ran /\ answered(c).at = "pending"
          /\ answered(c).said # "none"
    BY <1>6 DEF Call
  <2> HIDE DEF answered
  <2>4. \A i \in DOMAIN batch : batch'[i] \in Call
    BY <2>1, <2>2, <2>3
  <2>5. batch' \in BoundedSeq(Call, MaxBatch)
    <3>1. batch' = [i \in DOMAIN batch |-> batch'[i]]
      BY <2>2
    <3>2. batch \in BoundedSeq(Call, MaxBatch)
      BY DEF IInv, TypeOK
    <3>3. QED
      BY <2>4, <3>1, <3>2, MappedBounded
  <2>6. TypeOK'
    <3>1. /\ answers' \in 0 .. MaxAnswers
          /\ count' \in 0 .. MaxIter + 2 /\ made' \in 0 .. MaxIter + 1
      <4>1. answers \in 0 .. MaxAnswers /\ answers < MaxAnswers /\ answers' = answers + 1
        BY <1>6 DEF IInv, TypeOK, Answer
      <4>2. count' = 0 /\ made' = 0
        BY <1>6 DEF Answer
      <4>3. QED
        BY <4>1, <4>2
    <3>2. QED
      BY <1>6, <2>5, <3>1 DEF IInv, TypeOK, Answer, setup
  <2>7. \A t : askProvider(t)' = askProvider(t)
    BY <1>6 DEF Answer, setup, askProvider, Decision
  <2>8. CallsFollowRules'
    BY <2>1, <2>2, <2>3, <2>7 DEF IInv, CallsFollowRules
  <2>9. ModelWaitsForNone' /\ CountFollowsRequests' /\ CappedAtCap'
    BY <1>6 DEF IInv, TypeOK, Answer, ModelWaitsForNone, CountFollowsRequests, CappedAtCap
  <2>10. QED
    BY <2>6, <2>8, <2>9 DEF IInv
<1>7. CASE Cancel \/ UNCHANGED vars
  <2>1. TypeOK' /\ UNCHANGED <<setup, batch, answers>>
    BY <1>7 DEF IInv, TypeOK, Cancel, vars, setup
  <2>2. ModelWaitsForNone' /\ CountFollowsRequests' /\ CappedAtCap'
    BY <1>7 DEF IInv, Cancel, vars, ModelWaitsForNone, CountFollowsRequests, CappedAtCap
  <2>3. QED
    BY <2>1, <2>2, StepBesideBatch
<1>8. QED
  BY <1>1, <1>2, <1>3, <1>4, <1>5, <1>6, <1>7 DEF Next, Loop

THEOREM Invariance == Spec => []IInv
<1>1. Init => IInv
  BY InitInv
<1>2. IInv /\ [Next]_vars => IInv'
  BY StepInv
<1>3. QED
  BY <1>1, <1>2, PTL DEF Spec

\* Every part of the loop's state keeps its type.
THEOREM TypeCorrect == Spec => []TypeOK
BY Invariance, PTL DEF IInv

\* No invocation asks the model more often than the cap says, and a turn the cap
\* stopped has had its whole budget since the last answer of the user: the
\* counter is the number of requests, whatever the gates, the user and esc do.
\* About iterationCapCallback and its temp: key.
THEOREM BudgetIsExact == Spec => []BudgetExact
<1>1. IInv => BudgetExact
  <2>1. IInv => made \in 0 .. MaxIter + 1 /\ CappedAtCap
    BY DEF IInv, TypeOK
  <2>2. made \in 0 .. MaxIter + 1 => made =< MaxIter + 1
    BY Bounds
  <2>3. QED
    BY <2>1, <2>2 DEF CappedAtCap, BudgetExact
<1>2. QED
  BY <1>1, Invariance, PTL
-----------------------------------------------------------------------------
(* The loop keeps the promise of ToolGate.                                 *)

\* What a call that the policy and the user have treated as CallsFollowRules says
\* looks like to the promise.
LEMMA Statuses ==
    ASSUME NEW c \in Call, c.at = "paused" => ~c.ran /\ c.said = "none"
    PROVE  /\ c.ran => StatusOf(c) = "ran"
           /\ ~c.ran /\ (c.at = "answered" \/ c.said = "no") => StatusOf(c) = "refused"
           /\ StatusOf(c) = "asked" <=> c.at = "paused"
           /\ ~c.ran /\ c.at = "pending" /\ c.said = "yes" => StatusOf(c) = "approved"
           /\ ~c.ran /\ c.at = "pending" /\ c.said = "none" => StatusOf(c) = "open"
BY DEF StatusOf, Call

\* The calls as the promise sees them.
Seen == [i \in DOMAIN batch |-> [tool |-> batch[i].tool, status |-> StatusOf(batch[i])]]

\* A call that passes the gates and is not asked about is free, one that is asked
\* about can be approved, and never both.
LEMMA GateAgrees ==
    ASSUME IInv, NEW c \in Call, c.tool \in offered, ~Gated(c.tool)
    PROVE  IF askProvider(c.tool) THEN c.tool \in AskTools \ FreeTools
                                  ELSE c.tool \in FreeTools \ AskTools
<1>1. agent \in {"main", "sub"} /\ (rules.any \/ rules.ask = {})
  BY LoopAssumption DEF LoopAssumption, IInv, TypeOK
<1>2. CASE agent = "main"
  <2>1. Decision(c.tool) # "deny" /\ (askProvider(c.tool) <=> Decision(c.tool) = "ask")
    BY <1>2 DEF Gated, DenyCallback, askProvider
  <2>2. c.tool \notin rules.deny
    BY <2>1 DEF Decision
  <2>3. CASE c.tool \in rules.ask
    <3>1. askProvider(c.tool)
      BY <2>1, <2>2, <2>3 DEF Decision
    <3>2. c.tool \in AskTools \ FreeTools
      BY <1>1, <1>2, <2>2, <2>3 DEF AskTools, FreeTools
    <3>3. QED
      BY <3>1, <3>2
  <2>4. CASE c.tool \notin rules.ask
    <3>1. ~askProvider(c.tool) /\ (~rules.any \/ c.tool \in rules.allow)
      BY <2>1, <2>2, <2>4 DEF Decision
    <3>2. c.tool \in FreeTools \ AskTools
      BY <1>2, <2>2, <2>4, <3>1 DEF AskTools, FreeTools
    <3>3. QED
      BY <3>1, <3>2
  <2>5. QED
    BY <2>3, <2>4
<1>3. CASE agent = "sub"
  <2>1. ~askProvider(c.tool) /\ Decision(c.tool) \notin {"deny", "ask"}
    BY <1>3 DEF Gated, subagentGateCallback, askProvider
  <2>2. c.tool \notin rules.deny /\ c.tool \notin rules.ask
          /\ (~rules.any \/ c.tool \in rules.allow)
    BY <2>1 DEF Decision
  <2>3. c.tool \in FreeTools \ AskTools
    BY <1>3, <2>2 DEF AskTools, FreeTools
  <2>4. QED
    BY <2>1, <2>3
<1>4. QED
  BY <1>1, <1>2, <1>3

\* A step that moves one call moves it for the promise too, or not at all.
LEMMA SeenMoves ==
    ASSUME IInv, NEW i \in DOMAIN batch, NEW c, c.tool = batch[i].tool,
           batch' = [batch EXCEPT ![i] = c]
    PROVE  Seen' = [Seen EXCEPT ![i].status = StatusOf(c)]
<1>1. MaxBatch \in Nat /\ batch \in BoundedSeq(Call, MaxBatch)
  BY Bounds DEF IInv, TypeOK
<1>2. DOMAIN batch' = DOMAIN batch /\ batch'[i] = c
        /\ \A j \in DOMAIN batch : j # i => batch'[j] = batch[j]
  OBVIOUS
<1>3. Seen' = [j \in DOMAIN batch |-> [tool |-> batch'[j].tool, status |-> StatusOf(batch'[j])]]
  BY <1>2 DEF Seen
<1>4. QED
  BY <1>2, <1>3 DEF Seen

LEMMA InitGate == Init => Gate!Init
<1> SUFFICES ASSUME Init PROVE Gate!Init
  OBVIOUS
<1>1. offered \subseteq Tools /\ (rules.any \/ rules.ask = {})
  BY LoopAssumption DEF LoopAssumption, Init, Build, buildAgent, buildFor
<1>2. FreeTools \subseteq Tools /\ AskTools \subseteq Tools \ FreeTools
  BY <1>1 DEF FreeTools, AskTools
<1>3. Seen = <<>>
  <2>1. batch = <<>> /\ Len(batch) = 0
    BY DEF Init
  <2>2. DOMAIN batch = 1 .. 0
    BY <2>1, Bounds, InitInv, BoundedIsSeq DEF IInv, TypeOK
  <2>3. DOMAIN batch = {}
    BY <2>2
  <2>4. Seen = [i \in {} |-> {}]
    BY <2>3 DEF Seen
  <2>5. batch = [i \in {} |-> {}]
    BY <2>1, <2>3
  <2>6. QED
    BY <2>1, <2>4, <2>5
<1>4. QED
  BY <1>2, <1>3 DEF Gate!Init, Seen

LEMMA StepGate == IInv /\ [Next]_vars => [Gate!Next]_Gate!vars
<1> SUFFICES ASSUME IInv, [Next]_vars PROVE [Gate!Next]_Gate!vars
  OBVIOUS
<1>1. UNCHANGED <<FreeTools, AskTools>>
  <2>1. UNCHANGED <<agent, rules, offered>>
    BY DEF Next, Loop, Start, ModelFails, AskModel, CloseBatch, Refuse, Pause, Run, Return,
           ChildHolds, ChildGone, Answer, Cancel, vars, setup
  <2>2. QED
    BY <2>1 DEF FreeTools, AskTools
<1>2. \A i \in DOMAIN batch : batch[i] \in Call
  BY Bounds, BoundedIsSeq DEF IInv, TypeOK
<1>3. DOMAIN Seen = DOMAIN batch
        /\ \A i \in DOMAIN batch : /\ Seen[i].tool = batch[i].tool
                                   /\ Seen[i].status = StatusOf(batch[i])
  BY DEF Seen
<1>4. CASE UNCHANGED batch
  <2>1. UNCHANGED Seen
    BY <1>4 DEF Seen, StatusOf
  <2>2. QED
    BY <1>1, <2>1 DEF Gate!vars, Seen
<1>5. ASSUME AskModel, ~UNCHANGED batch
      PROVE  Gate!Next
  <2>1. PICK ts \in BoundedSeq(Tools, MaxBatch) \ {<<>>} :
          batch' = [i \in DOMAIN ts |-> [tool |-> ts[i], at |-> "pending",
                                         said |-> "none", ran |-> FALSE]]
    BY <1>5 DEF AskModel, End
  <2>2. Seen' \in Seq([tool : Tools, status : {"open"}])
    <3>1. PICK m \in 0 .. MaxBatch : ts \in [1 .. m -> Tools]
      BY DEF BoundedSeq, SeqOf
    <3> DEFINE fresh(t) == [tool |-> t, at |-> "pending", said |-> "none", ran |-> FALSE]
    <3>2. \A t \in Tools : fresh(t).tool = t /\ StatusOf(fresh(t)) = "open"
      <4>1. \A t \in Tools : fresh(t) \in Call
        BY DEF Call
      <4>2. \A t \in Tools : fresh(t).tool = t /\ ~fresh(t).ran /\ fresh(t).at = "pending"
                                /\ fresh(t).said = "none"
        OBVIOUS
      <4> HIDE DEF fresh
      <4>3. QED
        BY <4>1, <4>2, Statuses
    <3>3. \A i \in 1 .. m : ts[i] \in Tools /\ batch'[i] = fresh(ts[i])
      BY <2>1, <3>1
    <3>4. DOMAIN batch' = 1 .. m
      BY <2>1, <3>1
    <3>5. Seen' = [i \in DOMAIN batch' |-> [tool |-> batch'[i].tool, status |-> StatusOf(batch'[i])]]
      BY DEF Seen, StatusOf
    <3> HIDE DEF fresh
    <3>6. Seen' = [i \in 1 .. m |-> [tool |-> ts[i], status |-> "open"]]
      BY <3>2, <3>3, <3>4, <3>5
    <3>7. Seen' \in [1 .. m -> [tool : Tools, status : {"open"}]]
      BY <3>1, <3>6
    <3>8. Seen' \in BoundedSeq([tool : Tools, status : {"open"}], MaxBatch)
      BY <3>7 DEF BoundedSeq, SeqOf
    <3>9. QED
      BY <3>8, Bounds, BoundedIsSeq
  <2>3. \A i \in DOMAIN batch : Seen[i].status \in {"ran", "refused"}
    <3>1. \A i \in DOMAIN batch : batch[i].at = "answered"
      BY <1>5 DEF AskModel, IInv, ModelWaitsForNone
    <3>2. QED
      BY <1>2, <1>3, <3>1, Statuses DEF Call
  <2>4. Gate!Offer
    BY <1>3, <2>2, <2>3 DEF Gate!Offer, Seen
  <2>5. QED
    BY <1>1, <2>4 DEF Gate!Next
<1>6. ASSUME NEW i \in DOMAIN batch,
             Refuse(i) \/ Pause(i) \/ Run(i) \/ Return(i) \/ ChildHolds(i) \/ ChildGone(i)
      PROVE  Gate!Next \/ UNCHANGED Seen
  <2> DEFINE c == batch[i]
  <2>1. c \in Call /\ (c.at = "paused" => ~c.ran /\ c.said = "none")
          /\ (c.at = "pending" => ~c.ran) /\ (c.at \in {"running", "held"} => c.ran)
          /\ (c.said # "none" => askProvider(c.tool))
    BY <1>2 DEF IInv, CallsFollowRules
  <2>2. Seen[i].tool = c.tool /\ Seen[i].status = StatusOf(c)
    BY <1>3
  <2>3. CASE Refuse(i)
    <3> DEFINE d == [c EXCEPT !.at = "answered"]
    <3>1. d \in Call /\ ~d.ran /\ d.at = "answered" /\ d.tool = c.tool
            /\ batch' = [batch EXCEPT ![i] = d]
      BY <2>1, <2>3 DEF Refuse, Call
    <3>2. StatusOf(d) = "refused"
      BY <3>1, Statuses
    <3>3. Seen' = [Seen EXCEPT ![i].status = "refused"]
      BY <3>1, <3>2, SeenMoves
    <3>4. CASE c.said = "no"
      <4>1. Seen[i].status = "refused"
        BY <2>1, <2>2, <2>3, <3>4, Statuses DEF Refuse
      <4>2. QED
        BY <1>3, <3>3, <4>1 DEF Seen
    <3>5. CASE c.said # "no"
      <4>1. Seen[i].status \in {"open", "approved"}
        BY <2>1, <2>2, <2>3, <3>5, Statuses DEF Refuse, Call
      <4>2. Gate!Refuse(i)
        BY <3>3, <4>1 DEF Gate!Refuse, Gate!Move, Seen
      <4>3. QED
        BY <1>1, <1>3, <4>2 DEF Gate!Next, Seen
    <3>6. QED
      BY <3>4, <3>5
  <2>4. CASE Pause(i)
    <3> DEFINE d == [c EXCEPT !.at = "paused"]
    <3>1. d \in Call /\ ~d.ran /\ d.said = "none" /\ d.at = "paused" /\ d.tool = c.tool
            /\ batch' = [batch EXCEPT ![i] = d]
      BY <2>1, <2>4 DEF Pause, Call
    <3>2. StatusOf(d) = "asked"
      BY <3>1, Statuses
    <3>3. Seen' = [Seen EXCEPT ![i].status = "asked"]
      BY <3>1, <3>2, SeenMoves
    <3>4. Seen[i].status = "open" /\ Seen[i].tool \in AskTools
      <4>1. c.at = "pending" /\ ~c.ran /\ c.said = "none"
        BY <2>1, <2>4 DEF Pause
      <4>2. c.tool \in offered /\ ~Gated(c.tool) /\ askProvider(c.tool)
        BY <2>4 DEF Pause, Passes
      <4>3. QED
        BY <2>1, <2>2, <4>1, <4>2, Statuses, GateAgrees
    <3>5. Gate!Ask(i)
      BY <3>3, <3>4 DEF Gate!Ask, Gate!Move, Seen
    <3>6. QED
      BY <1>1, <1>3, <3>5 DEF Gate!Next, Seen
  <2>5. CASE Run(i)
    <3> DEFINE d == [c EXCEPT !.at = "running", !.ran = TRUE]
    <3>1. d \in Call /\ d.ran /\ d.at = "running" /\ d.tool = c.tool
            /\ batch' = [batch EXCEPT ![i] = d]
      BY <2>1, <2>5 DEF Run, Call
    <3>2. StatusOf(d) = "ran"
      BY <3>1, Statuses
    <3>3. Seen' = [Seen EXCEPT ![i].status = "ran"]
      BY <3>1, <3>2, SeenMoves
    <3>4. c.at = "pending" /\ ~c.ran /\ c.said \in {"none", "yes"}
            /\ c.tool \in offered /\ ~Gated(c.tool)
            /\ (askProvider(c.tool) <=> c.said = "yes")
      BY <2>1, <2>5 DEF Run, Passes, Call
    <3>5. CASE c.said = "yes"
      <4>1. Seen[i].status = "approved" /\ Seen[i].tool \in AskTools
        BY <2>1, <2>2, <3>4, <3>5, Statuses, GateAgrees
      <4>2. QED
        BY <1>1, <1>3, <3>3, <4>1 DEF Gate!Next, Gate!Run, Gate!Move, Seen
    <3>6. CASE c.said = "none"
      <4>1. Seen[i].status = "open" /\ Seen[i].tool \in FreeTools
        BY <2>1, <2>2, <3>4, <3>6, Statuses, GateAgrees
      <4>2. QED
        BY <1>1, <1>3, <3>3, <4>1 DEF Gate!Next, Gate!Run, Gate!Move, Seen
    <3>7. QED
      BY <3>4, <3>5, <3>6
  <2>6. CASE Return(i) \/ ChildHolds(i) \/ ChildGone(i)
    <3>1. PICK at \in {"answered", "held"} : batch' = [batch EXCEPT ![i] = [c EXCEPT !.at = at]]
      BY <2>6 DEF Return, ChildHolds, ChildGone
    <3>2. c.ran
      BY <2>1, <2>6 DEF Return, ChildHolds, ChildGone
    <3> DEFINE d == [c EXCEPT !.at = at]
    <3>3. d \in Call /\ d.ran /\ d.tool = c.tool /\ d.at # "paused"
      BY <2>1, <3>2 DEF Call
    <3>4. StatusOf(d) = "ran" /\ StatusOf(c) = "ran"
      BY <2>1, <3>2, <3>3, Statuses
    <3>5. Seen' = [Seen EXCEPT ![i].status = "ran"]
      BY <3>1, <3>3, <3>4, SeenMoves
    <3>6. QED
      BY <1>3, <2>2, <3>4, <3>5 DEF Seen
  <2>7. QED
    BY <1>6, <2>3, <2>4, <2>5, <2>6
<1>7. ASSUME NEW yes \in BOOLEAN, Answer(yes)
      PROVE  Gate!Next
  <2> DEFINE answered(c) == [c EXCEPT !.at = "pending", !.said = IF yes THEN "yes" ELSE "no"]
             to == IF yes THEN "approved" ELSE "refused"
  <2>1. batch' = [i \in DOMAIN batch |-> IF batch[i].at = "paused"
                                         THEN answered(batch[i]) ELSE batch[i]]
    BY <1>7 DEF Answer, Paused
  <2>2. \A i \in DOMAIN batch :
          /\ batch[i].at = "paused" => ~batch[i].ran /\ batch[i].said = "none"
          /\ StatusOf(batch[i]) = "asked" <=> batch[i].at = "paused"
    BY <1>2, Statuses DEF IInv, CallsFollowRules
  <2>3. \A i \in DOMAIN batch : batch[i].at = "paused" =>
          StatusOf(answered(batch[i])) = to /\ answered(batch[i]).tool = batch[i].tool
    <3> SUFFICES ASSUME NEW i \in DOMAIN batch, batch[i].at = "paused"
                 PROVE  StatusOf(answered(batch[i])) = to
                          /\ answered(batch[i]).tool = batch[i].tool
      OBVIOUS
    <3>1. answered(batch[i]) \in Call /\ ~answered(batch[i]).ran
            /\ answered(batch[i]).at = "pending" /\ answered(batch[i]).tool = batch[i].tool
            /\ answered(batch[i]).said = IF yes THEN "yes" ELSE "no"
      BY <1>2, <2>2 DEF Call
    <3> HIDE DEF answered
    <3>2. QED
      BY <1>7, <3>1, Statuses
  <2> HIDE DEF answered
  <2>4. Seen' = [i \in DOMAIN batch |-> IF Seen[i].status = "asked"
                                        THEN [Seen[i] EXCEPT !.status = to] ELSE Seen[i]]
    <3>1. Seen' = [i \in DOMAIN batch |-> [tool |-> batch'[i].tool,
                                           status |-> StatusOf(batch'[i])]]
      BY <2>1 DEF Seen, StatusOf
    <3>2. \A i \in DOMAIN batch :
            [tool |-> batch'[i].tool, status |-> StatusOf(batch'[i])]
              = IF Seen[i].status = "asked" THEN [Seen[i] EXCEPT !.status = to] ELSE Seen[i]
      BY <2>1, <2>2, <2>3 DEF Seen
    <3>3. QED
      BY <3>1, <3>2
  <2>5. Gate!Answer(to)
    BY <1>3, <2>4 DEF Gate!Answer, Seen
  <2>6. QED
    BY <1>1, <1>7, <2>5 DEF Gate!Next
<1>8. UNCHANGED Seen => UNCHANGED Gate!vars
  BY <1>1 DEF Gate!vars, Seen
<1>9. QED
  BY <1>4, <1>5, <1>6, <1>7, <1>8
     DEF Next, Loop, Start, ModelFails, CloseBatch, Cancel, vars

\* Through the retries of confirmed calls, hooks and esc, a call runs at most
\* once and only if the rules or the user let it, and a refusal is final: every
\* step of the loop is a step of ToolGate or none.  About DenyCallback,
\* askProvider and subagentGateCallback together.
THEOREM GateIsKept == Spec => GateKept
<1>1. Init => Gate!Init
  BY InitGate
<1>2. IInv /\ [Next]_vars => [Gate!Next]_Gate!vars
  BY StepGate
<1>3. QED
  BY <1>1, <1>2, Invariance, PTL DEF Spec, GateKept, Gate!Spec

-----------------------------------------------------------------------------
(***************************************************************************)
(* Records by their names.                                                 *)
(***************************************************************************)
Distinct(entries) ==
  \A i, j \in DOMAIN entries : entries[i].name = entries[j].name => i = j

NamesOf(entries) == { x.name : x \in ToSet(entries) }

OfName(entries, name) == Those(entries, { x \in ToSet(entries) : x.name = name })

\* The entry a new one takes the place of.
LEMMA LeastNamed ==
  ASSUME NEW S, NEW entries \in Seq(S), NEW name, Named(entries, name) # {}
  PROVE  LET at == Named(entries, name)
             i  == CHOOSE k \in at : \A j \in at : k <= j
         IN  i \in 1 .. Len(entries) /\ i \in at
<1> DEFINE at == Named(entries, name)
<1>1. at \subseteq 1 .. Len(entries) /\ at \subseteq Nat
  BY LenProperties DEF Named
<1>2. at # {}
  OBVIOUS
<1> HIDE DEF at
<1>3. \E k \in at : \A j \in at : k <= j
  BY <1>1, <1>2, LeastNumber
<1>4. QED
  BY <1>1, <1>3 DEF at

\* In a list without two of a name, the entry of a name is found.
LEMMA NamedOnce ==
  ASSUME NEW S, NEW entries \in Seq(S), Distinct(entries), NEW i \in DOMAIN entries
  PROVE  Named(entries, entries[i].name) = {i}
BY LenProperties DEF Named, Distinct

LEMMA NamedNone ==
  ASSUME NEW S, NEW entries \in Seq(S), NEW name
  PROVE  Named(entries, name) = {} <=> name \notin NamesOf(entries)
BY LenProperties DEF Named, NamesOf, ToSet

Replaced(entries, e) == { x \in ToSet(entries) : x.name # e.name } \cup {e}

PlacedAs(E, entries, e, r) ==
  /\ r \in Seq(E) /\ r # << >>
  /\ Distinct(entries) => Distinct(r) /\ ToSet(r) = Replaced(entries, e)
  /\ r[1].name = IF entries = << >> THEN e.name ELSE entries[1].name

\* Placed: an entry takes the place of the one with its name, or goes to the end.
LEMMA PlacedRight ==
  ASSUME NEW E, NEW entries \in Seq(E), NEW e \in E
  PROVE  PlacedAs(E, entries, e, Placed(entries, e))
<1>1. PICK r : r = Placed(entries, e)
  OBVIOUS
<1>2. PICK n : n = Len(entries)
  OBVIOUS
<1>3. n \in Nat /\ DOMAIN entries = 1 .. n /\ (entries = << >> <=> n = 0)
  BY <1>2, LenProperties, EmptySeq
<1>4. CASE Named(entries, e.name) = {}
  <2>1. /\ r \in Seq(E) /\ Len(r) = n + 1 /\ r[n + 1] = e /\ DOMAIN r = 1 .. n + 1
        /\ \A k \in 1 .. n : r[k] = entries[k]
    <3>1. r = Append(entries, e)
      BY <1>1, <1>4 DEF Placed
    <3>2. QED
      BY <1>2, <3>1, AppendProperties, LenProperties
  <2>2. \A k \in 1 .. n : entries[k].name # e.name
    BY <1>3, <1>4 DEF Named
  <2>3. r # << >>
    BY <1>3, <2>1, EmptySeq
  <2>4. ToSet(r) = ToSet(entries) \cup {e}
    <3>1. r = Append(entries, e)
      BY <1>1, <1>4 DEF Placed
    <3>2. QED
      BY <3>1, SetOfAppend
  <2>5. ToSet(r) = Replaced(entries, e)
    BY <1>3, <2>2, <2>4 DEF Replaced, ToSet
  <2>6. ASSUME Distinct(entries) PROVE Distinct(r)
    BY <1>3, <2>1, <2>2, <2>6 DEF Distinct
  <2>7. r[1].name = IF n = 0 THEN e.name ELSE entries[1].name
    BY <1>3, <2>1
  <2>8. QED
    BY <1>1, <1>3, <2>1, <2>3, <2>5, <2>6, <2>7 DEF PlacedAs
<1>5. CASE Named(entries, e.name) # {}
  <2>1. PICK m : m = CHOOSE i \in Named(entries, e.name) : \A j \in Named(entries, e.name) : i <= j
    OBVIOUS
  <2>2. m \in 1 .. n /\ m \in Named(entries, e.name)
    BY <1>2, <1>5, <2>1, LeastNamed
  <2>3. r = [entries EXCEPT ![m] = e]
    BY <1>1, <1>5, <2>1 DEF Placed
  <2>4. /\ r \in Seq(E) /\ Len(r) = n /\ DOMAIN r = 1 .. n
        /\ \A k \in 1 .. n : r[k] = IF k = m THEN e ELSE entries[k]
    BY <1>2, <2>2, <2>3, ExceptSeq, LenProperties
  <2>5. entries[m].name = e.name
    BY <2>2 DEF Named
  <2>6. r # << >> /\ n # 0
    BY <1>3, <2>2, <2>4, EmptySeq
  <2>7. ASSUME Distinct(entries) PROVE Distinct(r) /\ ToSet(r) = Replaced(entries, e)
    <3>1. \A k \in 1 .. n : r[k].name = entries[k].name
      BY <2>4, <2>5
    <3>2. Distinct(r)
      BY <1>3, <2>4, <2>7, <3>1 DEF Distinct
    <3>3. \A k \in 1 .. n : entries[k].name = e.name => k = m
      BY <1>3, <2>2, <2>5, <2>7 DEF Distinct
    <3>4. \A x \in ToSet(r) : x \in Replaced(entries, e)
      BY <1>3, <2>4, <3>3 DEF Replaced, ToSet
    <3>5. \A x \in Replaced(entries, e) : x \in ToSet(r)
      <4>1. r[m] = e /\ m \in DOMAIN r
        BY <2>2, <2>4
      <4>2. ASSUME NEW k \in 1 .. n, entries[k].name # e.name PROVE r[k] = entries[k]
        BY <2>4, <2>5, <4>2
      <4>3. QED
        BY <1>3, <2>4, <4>1, <4>2 DEF Replaced, ToSet
    <3>6. QED
      BY <3>2, <3>4, <3>5
  <2>8. r[1].name = entries[1].name
    BY <1>3, <2>4, <2>5, <2>6
  <2>9. QED
    BY <1>1, <1>3, <2>4, <2>6, <2>7, <2>8 DEF PlacedAs
<1>6. QED
  BY <1>4, <1>5

-----------------------------------------------------------------------------
(***************************************************************************)
(* Laying lists of records over each other: a list's entries replace the   *)
(* ones of their names, the last of a name replacing the ones before it.   *)
(***************************************************************************)
\* Placed, along a sequence.
PlacedFold(base, E) == [s \in Seq(E) |-> FoldLeft(Placed, base, s)]

PlacedDoes(V, E) == [q \in V \X E |-> Placed(q[1], q[2])]

LEMMA PlacedFolds ==
  ASSUME NEW V, NEW E, NEW base \in V,
         \A v \in V : \A e \in E : Placed(v, e) \in V
  PROVE  FoldLaws(PlacedFold(base, E), PlacedDoes(V, E), base, V, E)
<1>1. ASSUME NEW s \in Seq(E)
      PROVE  \E g : /\ Traced(g, V, base, Along(PlacedDoes(V, E), V, s, Len(s)), Len(s))
                    /\ FoldLeft(Placed, base, s) = g[Len(s)]
  <2>1. PICK n : n = Len(s)
    OBVIOUS
  <2>2. n \in Nat /\ DOMAIN s = 1 .. n /\ \A i \in 1 .. n : s[i] \in E
    BY <2>1, LenProperties, ElementOfSeq
  <2> DEFINE step == Along(PlacedDoes(V, E), V, s, n)
             It(f) == f = [t \in SUBSET (1 .. n) |->
                             IF t = {} THEN base ELSE Placed(f[t \ {Max(t)}], s[Max(t)])]
  <2>3. \A v \in V : \A k \in 1 .. n : step[<< v, k >>] = Placed(v, s[k])
    BY <2>2 DEF Along, PlacedDoes
  <2>4. step \in [V \X (1 .. n) -> V]
    BY <2>2 DEF Along, PlacedDoes
  <2> HIDE DEF step
  <2>5. \E f : It(f)
    <3>1. PICK f \in [SUBSET (1 .. n) -> V] : Iterates(f, base, step, n)
      BY <2>2, <2>4, IteratesExists
    <3>2. ASSUME NEW t \in SUBSET (1 .. n), t # {}
          PROVE  step[<< f[t \ {Max(t)}], Max(t) >>] = Placed(f[t \ {Max(t)}], s[Max(t)])
      <4>1. Max(t) \in 1 .. n
        BY <2>2, <3>2, MaxFound
      <4>2. f[t \ {Max(t)}] \in V
        OBVIOUS
      <4>3. QED
        BY <2>3, <4>1, <4>2
    <3>3. It(f)
      BY <3>1, <3>2 DEF Iterates
    <3>4. QED
      BY <3>3
  <2>6. \E f : It(f) /\ FoldLeft(Placed, base, s) = f[1 .. n]
    BY <2>2, <2>5 DEF FoldLeft, MapThenFoldSet
  <2>7. PICK f : It(f) /\ FoldLeft(Placed, base, s) = f[1 .. n]
    BY <2>6
  <2>8. f[{}] = base
    BY <2>7
  <2>9. ASSUME NEW k \in 1 .. n, f[1 .. k - 1] \in V
        PROVE  f[1 .. k] = step[<< f[1 .. k - 1], k >>]
    <3>1. 1 .. k \in SUBSET (1 .. n) /\ 1 .. k # {} /\ k \in Nat /\ k # 0
      BY <2>2, UpTo
    <3>2. Max(1 .. k) = k /\ (1 .. k) \ {k} = 1 .. k - 1
      BY <3>1, MaxUpTo
    <3>3. f[1 .. k] = Placed(f[1 .. k - 1], s[k])
      BY <2>7, <3>1, <3>2
    <3>4. QED
      BY <2>3, <2>9, <3>3
  <2> DEFINE g == [k \in 0 .. n |-> f[1 .. k]]
  <2> HIDE DEF It
  <2>10. Traced(g, V, base, step, n)
    BY <2>2, <2>4, <2>8, <2>9, TracedBy
  <2>11. g[n] = f[1 .. n]
    BY <2>2
  <2> HIDE DEF g
  <2>12. QED
    BY <2>1, <2>7, <2>10, <2>11 DEF step
<1>2. FoldsAs(PlacedFold(base, E), PlacedDoes(V, E), base, V, E)
  BY <1>1 DEF FoldsAs, PlacedFold
<1>3. QED
  BY <1>2, FoldObeys

Lists(E) == { s \in Seq(E) : Distinct(s) }

\* r is base with over laid over it.
LaidOver(E, base, over, r) ==
  /\ r \in Lists(E)
  /\ NamesOf(r) = NamesOf(base) \cup NamesOf(over)
  /\ \A x \in ToSet(r) : IF OfName(over, x.name) = << >> THEN x \in ToSet(base)
                         ELSE x = Last(OfName(over, x.name))
  /\ r = << >> <=> base = << >> /\ over = << >>
  /\ r # << >> => r[1].name = IF base = << >> THEN over[1].name ELSE base[1].name

LEMMA OfNameNothing == ASSUME NEW name PROVE OfName(<< >>, name) = << >>
BY ThoseNothing DEF OfName

LEMMA OfNameAppend ==
  ASSUME NEW S, NEW s \in Seq(S), NEW x \in S, NEW name
  PROVE  OfName(Append(s, x), name)
           = IF x.name = name THEN Append(OfName(s, name), x) ELSE OfName(s, name)
<1> DEFINE T == { y \in ToSet(Append(s, x)) : y.name = name }
           U == { y \in ToSet(s) : y.name = name }
<1>1. ToSet(Append(s, x)) = ToSet(s) \cup {x}
  BY SetOfAppend
<1>2. Those(s, T) = Those(s, U)
  <2>1. \A y \in ToSet(s) : y \in T <=> y \in U
    BY <1>1
  <2> HIDE DEF T, U
  <2>2. QED
    BY <2>1, ThoseAgree
<1>3. x \in T <=> x.name = name
  BY <1>1
<1>4. OfName(Append(s, x), name) = Those(Append(s, x), T) /\ OfName(s, name) = Those(s, U)
  BY DEF OfName
<1> HIDE DEF T, U
<1>5. Those(Append(s, x), T) = IF x \in T THEN Append(Those(s, T), x) ELSE Those(s, T)
  BY ThoseAppend
<1>6. QED
  BY <1>2, <1>3, <1>4, <1>5

LEMMA OfNameType ==
  ASSUME NEW S, NEW s \in Seq(S), NEW name
  PROVE  /\ OfName(s, name) \in Seq(S)
         /\ ToSet(OfName(s, name)) = { x \in ToSet(s) : x.name = name }
         /\ OfName(s, name) = << >> <=> name \notin NamesOf(s)
<1> DEFINE T == { x \in ToSet(s) : x.name = name }
<1>1. OfName(s, name) = Those(s, T)
  BY DEF OfName
<1>2. ToSet(s) \cap T = T
  OBVIOUS
<1>3. T = {} <=> name \notin NamesOf(s)
  BY DEF NamesOf
<1> HIDE DEF T
<1>4. Those(s, T) \in Seq(S)
  BY ThoseType
<1>5. ToSet(Those(s, T)) = T
  BY <1>2, ThoseSet
<1>6. Those(s, T) = << >> <=> T = {}
  BY <1>2, ThoseNone
<1>7. QED
  BY <1>1, <1>3, <1>4, <1>5, <1>6 DEF T

LEMMA LastOf ==
  ASSUME NEW S, NEW s \in Seq(S), NEW x \in S
  PROVE  Last(Append(s, x)) = x
<1>1. PICK t : t = Append(s, x)
  OBVIOUS
<1>2. t[Len(t)] = x
  BY <1>1, AppendProperties, LenProperties
<1>3. QED
  BY <1>1, <1>2 DEF Last

LEMMA LastIn ==
  ASSUME NEW S, NEW s \in Seq(S), s # << >>
  PROVE  Last(s) \in ToSet(s)
<1>1. Len(s) \in 1 .. Len(s)
  BY LenProperties, EmptySeq
<1>2. QED
  BY <1>1, SetOfSeq DEF Last

\* One more entry.
LEMMA LaidOverAppend ==
  ASSUME NEW E, NEW base \in Lists(E), NEW over \in Seq(E), NEW e \in E,
         NEW r, LaidOver(E, base, over, r)
  PROVE  LaidOver(E, base, Append(over, e), Placed(r, e))
<1>1. PICK p : p = Placed(r, e)
  OBVIOUS
<1>2. PICK more : more = Append(over, e)
  OBVIOUS
<1>3. r \in Seq(E) /\ Distinct(r)
  BY DEF LaidOver, Lists
<1>4. PlacedAs(E, r, e, p)
  BY <1>1, <1>3, PlacedRight
<1>5. p \in Seq(E) /\ Distinct(p) /\ ToSet(p) = Replaced(r, e) /\ p # << >>
  BY <1>3, <1>4 DEF PlacedAs
<1>6. ToSet(more) = ToSet(over) \cup {e} /\ more # << >>
  BY <1>2, SetOfAppend, AppendProperties
<1>7. NamesOf(p) = NamesOf(base) \cup NamesOf(more)
  <2>1. NamesOf(p) = NamesOf(r) \cup {e.name}
    BY <1>5 DEF NamesOf, Replaced
  <2>2. NamesOf(more) = NamesOf(over) \cup {e.name}
    BY <1>6 DEF NamesOf
  <2>3. QED
    BY <2>1, <2>2 DEF LaidOver
<1>8. ASSUME NEW x \in ToSet(p)
      PROVE  IF OfName(more, x.name) = << >> THEN x \in ToSet(base)
             ELSE x = Last(OfName(more, x.name))
  <2>1. CASE x = e
    <3>1. OfName(more, e.name) = Append(OfName(over, e.name), e)
      BY <1>2, OfNameAppend
    <3>2. OfName(over, e.name) \in Seq(E)
      BY OfNameType
    <3>3. Append(OfName(over, e.name), e) # << >> /\ Last(Append(OfName(over, e.name), e)) = e
      BY <3>2, LastOf, AppendProperties
    <3>4. QED
      BY <2>1, <3>1, <3>3
  <2>2. CASE x \in ToSet(r) /\ x.name # e.name
    <3>1. OfName(more, x.name) = OfName(over, x.name)
      BY <1>2, <2>2, OfNameAppend
    <3>2. QED
      BY <2>2, <3>1 DEF LaidOver
  <2>3. QED
    BY <1>5, <2>1, <2>2 DEF Replaced
<1>9. p[1].name = IF base = << >> THEN more[1].name ELSE base[1].name
  <2>1. p[1].name = IF r = << >> THEN e.name ELSE r[1].name
    BY <1>4 DEF PlacedAs
  <2>2. CASE over = << >>
    <3>1. more[1] = e
      <4>1. Len(over) = 0
        BY <2>2, EmptySeq
      <4>2. QED
        BY <1>2, <4>1, AppendProperties
    <3>2. QED
      BY <2>1, <2>2, <3>1 DEF LaidOver
  <2>3. CASE over # << >>
    <3>1. more[1] = over[1]
      <4>1. 1 \in 1 .. Len(over)
        BY <2>3, LenProperties, EmptySeq
      <4>2. QED
        BY <1>2, <4>1, AppendProperties
    <3>2. QED
      BY <2>1, <2>3, <3>1 DEF LaidOver
  <2>4. QED
    BY <2>2, <2>3
<1>10. QED
  BY <1>1, <1>2, <1>5, <1>6, <1>7, <1>8, <1>9 DEF LaidOver, Lists

LEMMA PlacedIn ==
  ASSUME NEW E
  PROVE  \A v \in Lists(E) : \A e \in E : Placed(v, e) \in Lists(E)
<1>1. ASSUME NEW v \in Lists(E), NEW e \in E PROVE Placed(v, e) \in Lists(E)
  <2>1. v \in Seq(E) /\ Distinct(v)
    BY DEF Lists
  <2>2. PlacedAs(E, v, e, Placed(v, e))
    BY <2>1, PlacedRight
  <2>3. QED
    BY <2>1, <2>2 DEF PlacedAs, Lists
<1>2. QED
  BY <1>1

LEMMA NothingListed == ASSUME NEW E PROVE << >> \in Lists(E) /\ NamesOf(<< >>) = {}
<1>1. << >> \in Seq(E) /\ Len(<< >>) = 0
  BY EmptySeq
<1>2. ToSet(<< >>) = {}
  BY SetOfNothing
<1>3. PICK none : none = << >>
  OBVIOUS
<1>4. none \in Seq(E) /\ Len(none) = 0 /\ DOMAIN none = {}
  BY <1>1, <1>3, LenProperties
<1>5. Distinct(none)
  BY <1>4 DEF Distinct
<1>6. QED
  BY <1>1, <1>2, <1>3, <1>5 DEF Lists, NamesOf

\* MergeByName: over is laid over base.
LEMMA MergeRight ==
  ASSUME NEW E, NEW base \in Lists(E), NEW over \in Seq(E)
  PROVE  LaidOver(E, base, over, MergeByName(base, over))
<1> DEFINE F == PlacedFold(base, E)
           op == PlacedDoes(Lists(E), E)
<1>1. FoldLaws(F, op, base, Lists(E), E)
  BY PlacedIn, PlacedFolds
<1>2. \A s \in Seq(E) : F[s] = MergeByName(base, s)
  BY DEF PlacedFold, MergeByName
<1>3. \A v \in Lists(E) : \A e \in E : op[<< v, e >>] = Placed(v, e)
  BY DEF PlacedDoes
<1> HIDE DEF F, op
<1> DEFINE T == { s \in Seq(E) : LaidOver(E, base, s, F[s]) }
<1>4. << >> \in T
  <2>1. << >> \in Seq(E) /\ NamesOf(<< >>) = {}
    BY EmptySeq, NothingListed
  <2>2. F[<< >>] = base
    BY <1>1 DEF FoldLaws
  <2>3. LaidOver(E, base, << >>, base)
    BY <2>1, OfNameNothing DEF LaidOver
  <2>4. QED
    BY <2>1, <2>2, <2>3
<1>5. ASSUME NEW s \in Seq(E), NEW e \in E, s \in T PROVE Append(s, e) \in T
  <2>1. F[s] \in Lists(E) /\ F[Append(s, e)] = op[<< F[s], e >>]
    BY <1>1 DEF FoldLaws
  <2>2. F[Append(s, e)] = Placed(F[s], e)
    BY <1>3, <2>1
  <2>3. LaidOver(E, base, s, F[s])
    BY <1>5
  <2>4. LaidOver(E, base, Append(s, e), Placed(F[s], e))
    BY <2>3, LaidOverAppend
  <2>5. Append(s, e) \in Seq(E)
    BY AppendProperties
  <2>6. QED
    BY <2>2, <2>4, <2>5
<1> HIDE DEF T
<1>6. \A s \in Seq(E) : s \in T
  BY <1>4, <1>5, SeqInductive
<1>7. QED
  BY <1>2, <1>6 DEF T

-----------------------------------------------------------------------------
(***************************************************************************)
(* What the highest layer that says anything says, one layer at a time.    *)
(***************************************************************************)
LEMMA HighestNothing ==
  ASSUME NEW v, NEW unset, DOMAIN v = {}
  PROVE  Highest(v, unset) = unset
BY DEF Highest

LEMMA HighestOneMore ==
  ASSUME NEW n \in Nat, NEW v, NEW w, DOMAIN v = 1 .. n, DOMAIN w = 1 .. n + 1,
         \A i \in 1 .. n : w[i] = v[i], NEW unset
  PROVE  Highest(w, unset) = IF w[n + 1] = unset THEN Highest(v, unset) ELSE w[n + 1]
<1> DEFINE at == { i \in DOMAIN v : v[i] # unset }
           more == { i \in DOMAIN w : w[i] # unset }
<1>1. CASE w[n + 1] = unset
  <2>1. more = at
    BY <1>1
  <2>2. CASE at = {}
    BY <1>1, <2>1, <2>2 DEF Highest
  <2>3. CASE at # {}
    <3>1. PICK i : i = CHOOSE k \in at : \A j \in at : j <= k
      OBVIOUS
    <3>2. at \in SUBSET (1 .. n)
      OBVIOUS
    <3>3. Highest(v, unset) = v[i] /\ Highest(w, unset) = w[i]
      BY <2>1, <2>3, <3>1 DEF Highest
    <3> HIDE DEF at, more
    <3>4. Max(at) \in at /\ \A y \in at : Max(at) >= y
      BY <2>3, <3>2, MaxFound
    <3>5. \A y \in at : y \in Int
      <4>1. \A y \in 1 .. n : y \in Int
        OBVIOUS
      <4>2. QED
        BY <3>2, <4>1, Zenon
    <3>6. i \in at
      BY <3>1, <3>4, <3>5
    <3>7. QED
      BY <1>1, <3>2, <3>3, <3>6
  <2>4. QED
    BY <2>2, <2>3
<1>2. CASE w[n + 1] # unset
  <2>1. n + 1 \in more /\ \A j \in more : j <= n + 1 /\ j \in Int
    BY <1>2
  <2>2. PICK i : i = CHOOSE k \in more : \A j \in more : j <= k
    OBVIOUS
  <2>3. Highest(w, unset) = w[i]
    BY <2>1, <2>2 DEF Highest
  <2> HIDE DEF more
  <2>4. i \in more /\ \A j \in more : j <= i
    BY <2>1, <2>2
  <2>5. i = n + 1
    BY <2>1, <2>4
  <2>6. QED
    BY <1>2, <2>3, <2>5
<1>3. QED
  BY <1>1, <1>2

-----------------------------------------------------------------------------
(***************************************************************************)
(* What layers say, for any sequence of them.                              *)
(***************************************************************************)
ProvidersSaid(ls, name) == [i \in DOMAIN ls |-> OfName(ls[i].providers, name)]
CommandsSaid(ls, event) == [i \in DOMAIN ls |-> Commands(ls[i].hooks, event)]
BackendsSaid(ls) == [i \in DOMAIN ls |-> ls[i].backend]
DefaultsSaid(ls) == [i \in DOMAIN ls |-> ls[i].default]
ThresholdsSaid(ls) == [i \in DOMAIN ls |-> ls[i].threshold]
DirsSaid(ls) == [i \in DOMAIN ls |-> ls[i].write_dirs]
NamesSaid(ls) == UNION { NamesOf(l.providers) : l \in ToSet(ls) }
WithProviders(ls) == Those(ls, { l \in ToSet(ls) : l.providers # << >> })

\* What has been read: the provers do not find that a text is in STRING.
Text == STRING \cup {Unset, "none"}
Reading ==
  [providers  : Seq(ProviderRecord), default     : Text,
   backend    : Text,                write_dirs  : Seq(STRING),
   hooks      : Seq(HookRecord),     mcp_servers : Seq(ServerRecord),
   threshold  : {t \in Seq(Int) : Len(t) <= 1}]

\* c is what the layers say, save for what none says.
ReadFrom(ls, c) ==
  /\ c \in Reading /\ Distinct(c.providers) /\ Distinct(c.mcp_servers)
  /\ NamesOf(c.providers) = NamesSaid(ls)
  /\ \A x \in ToSet(c.providers) : x = Last(Highest(ProvidersSaid(ls, x.name), << >>))
  /\ c.providers = << >> <=> WithProviders(ls) = << >>
  /\ c.providers # << >> => c.providers[1].name = WithProviders(ls)[1].providers[1].name
  /\ \A e \in STRING : Commands(c.hooks, e) = Highest(CommandsSaid(ls, e), << >>)
  /\ c.backend = Overlaid("none", Highest(BackendsSaid(ls), Unset), Unset)
  /\ c.default = Highest(DefaultsSaid(ls), Unset)
  /\ c.threshold = Highest(ThresholdsSaid(ls), << >>)
  /\ c.write_dirs = Highest(DirsSaid(ls), << >>)

LEMMA CommandsConcat ==
  ASSUME NEW S, NEW s \in Seq(S), NEW t \in Seq(S), NEW e
  PROVE  Commands(s \o t, e) = Commands(s, e) \o Commands(t, e)
<1> DEFINE T == { h \in ToSet(s \o t) : h.event = e }
           A == { h \in ToSet(s) : h.event = e }
           B == { h \in ToSet(t) : h.event = e }
<1>1. ToSet(s \o t) = ToSet(s) \cup ToSet(t)
  BY SetOfConcat
<1>2. (\A x \in ToSet(s) : x \in T <=> x \in A) /\ (\A x \in ToSet(t) : x \in T <=> x \in B)
  BY <1>1
<1>3. /\ Commands(s \o t, e) = Those(s \o t, T)
      /\ Commands(s, e) = Those(s, A) /\ Commands(t, e) = Those(t, B)
  BY DEF Commands
<1> HIDE DEF T, A, B
<1>4. Those(s, T) = Those(s, A)
  BY <1>2, ThoseAgree
<1>5. Those(t, T) = Those(t, B)
  BY <1>2, ThoseAgree
<1>6. Those(s \o t, T) = Those(s, T) \o Those(t, T)
  BY ThoseConcat
<1>7. QED
  BY <1>3, <1>4, <1>5, <1>6

\* MergeHooks: the commands of an event are those of the list that is laid over,
\* if it has any.
LEMMA HooksRight ==
  ASSUME NEW H, NEW base \in Seq(H), NEW over \in Seq(H), NEW e
  PROVE  /\ MergeHooks(base, over) \in Seq(H)
         /\ Commands(MergeHooks(base, over), e)
              = IF Commands(over, e) = << >> THEN Commands(base, e) ELSE Commands(over, e)
<1> DEFINE K == { h \in ToSet(base) : \A i \in DOMAIN over : over[i].event # h.event }
           kept == Those(base, K)
<1>1. MergeHooks(base, over) = kept \o over
  BY DEF MergeHooks
<1>2. kept \in Seq(H)
  BY ThoseType
<1>3. MergeHooks(base, over) \in Seq(H)
  <2> HIDE DEF kept
  <2>1. QED
    BY <1>1, <1>2, ConcatProperties
<1>4. Commands(MergeHooks(base, over), e) = Commands(kept, e) \o Commands(over, e)
  <2> HIDE DEF kept
  <2>1. QED
    BY <1>1, <1>2, CommandsConcat
<1> DEFINE A == { h \in ToSet(kept) : h.event = e }
           B == { h \in ToSet(base) : h.event = e }
           C == { h \in ToSet(over) : h.event = e }
<1>5. Commands(kept, e) = Those(kept, A) /\ Commands(base, e) = Those(base, B)
      /\ Commands(over, e) = Those(over, C)
  BY DEF Commands
<1>6. ToSet(kept) = ToSet(base) \cap K
  <2> HIDE DEF K
  <2>1. QED
    BY ThoseSet
<1>7. Commands(over, e) = << >> <=> C = {}
  <2>1. ToSet(over) \cap C = C
    OBVIOUS
  <2> HIDE DEF A, B, C, K, kept
  <2>2. QED
    BY <1>5, <2>1, ThoseNone
<1>8. C = {} <=> \A i \in DOMAIN over : over[i].event # e
  BY DEF ToSet
<1>9. CASE C # {}
  <2>1. ToSet(kept) \cap A = {}
    BY <1>6, <1>8, <1>9
  <2> HIDE DEF A, B, C, K, kept
  <2>2. Those(kept, A) = << >>
    BY <1>2, <2>1, ThoseNone
  <2>3. Commands(over, e) \in Seq(H)
    BY <1>5, ThoseType
  <2>4. << >> \o Commands(over, e) = Commands(over, e)
    BY <2>3, ConcatEmptySeq
  <2>5. QED
    BY <1>3, <1>4, <1>5, <1>7, <1>9, <2>2, <2>4
<1>10. CASE C = {}
  <2>1. \A x \in ToSet(kept) : x \in A <=> x \in B
    BY <1>6
  <2>2. \A x \in ToSet(base) : x \in K \cap B <=> x \in B
    BY <1>8, <1>10
  <2>3. kept = Those(base, K)
    OBVIOUS
  <2> HIDE DEF A, B, C, K, kept
  <2>4. Those(kept, A) = Those(kept, B)
    BY <2>1, ThoseAgree
  <2>5. Those(kept, B) = Those(base, K \cap B)
    BY <2>3, ThoseTwice
  <2>6. Those(base, K \cap B) = Those(base, B)
    BY <2>2, ThoseAgree
  <2>7. Commands(base, e) \in Seq(H)
    BY <1>5, ThoseType
  <2>8. Commands(base, e) \o << >> = Commands(base, e)
    BY <2>7, ConcatEmptySeq
  <2>9. QED
    BY <1>3, <1>4, <1>5, <1>7, <1>10, <2>4, <2>5, <2>6, <2>8
<1>11. QED
  BY <1>9, <1>10

-----------------------------------------------------------------------------
(***************************************************************************)
(* Load: what the layers say is what the program reads.                    *)
(***************************************************************************)
HighestMore(ls, l, more) ==
  /\ \A n \in STRING : Highest(ProvidersSaid(more, n), << >>)
       = IF OfName(l.providers, n) = << >> THEN Highest(ProvidersSaid(ls, n), << >>)
         ELSE OfName(l.providers, n)
  /\ \A e \in STRING : Highest(CommandsSaid(more, e), << >>)
       = IF Commands(l.hooks, e) = << >> THEN Highest(CommandsSaid(ls, e), << >>)
         ELSE Commands(l.hooks, e)
  /\ Highest(BackendsSaid(more), Unset)
       = IF l.backend = Unset THEN Highest(BackendsSaid(ls), Unset) ELSE l.backend
  /\ Highest(DefaultsSaid(more), Unset)
       = IF l.default = Unset THEN Highest(DefaultsSaid(ls), Unset) ELSE l.default
  /\ Highest(ThresholdsSaid(more), << >>)
       = IF l.threshold = << >> THEN Highest(ThresholdsSaid(ls), << >>) ELSE l.threshold
  /\ Highest(DirsSaid(more), << >>)
       = IF l.write_dirs = << >> THEN Highest(DirsSaid(ls), << >>) ELSE l.write_dirs

LEMMA HighestOfMore ==
  ASSUME NEW C, NEW ls \in Seq(C), NEW l \in C
  PROVE  HighestMore(ls, l, Append(ls, l))
<1>1. PICK more : more = Append(ls, l)
  OBVIOUS
<1>2. PICK n : n = Len(ls)
  OBVIOUS
<1>3. /\ n \in Nat /\ DOMAIN ls = 1 .. n /\ DOMAIN more = 1 .. n + 1
      /\ more[n + 1] = l /\ \A i \in 1 .. n : more[i] = ls[i]
  BY <1>1, <1>2, AppendProperties, LenProperties
<1>4. n + 1 \in 1 .. n + 1 /\ \A i \in 1 .. n : i \in 1 .. n + 1
  BY <1>3
<1>5. ASSUME NEW v, NEW w, DOMAIN v = DOMAIN ls, DOMAIN w = DOMAIN more,
             \A i \in 1 .. n : w[i] = v[i], NEW unset
      PROVE  Highest(w, unset) = IF w[n + 1] = unset THEN Highest(v, unset) ELSE w[n + 1]
  BY <1>3, <1>5, HighestOneMore
<1>6. ASSUME NEW x \in STRING
      PROVE  Highest(ProvidersSaid(more, x), << >>)
               = IF OfName(l.providers, x) = << >> THEN Highest(ProvidersSaid(ls, x), << >>)
                 ELSE OfName(l.providers, x)
  <2> DEFINE v == ProvidersSaid(ls, x)
             w == ProvidersSaid(more, x)
  <2>1. DOMAIN v = DOMAIN ls /\ DOMAIN w = DOMAIN more /\ \A i \in 1 .. n : w[i] = v[i]
    BY <1>3, <1>4 DEF ProvidersSaid
  <2>2. w[n + 1] = OfName(l.providers, x)
    BY <1>3, <1>4 DEF ProvidersSaid
  <2> HIDE DEF v, w
  <2>3. QED
    BY <1>5, <2>1, <2>2 DEF v, w
<1>7. ASSUME NEW x \in STRING
      PROVE  Highest(CommandsSaid(more, x), << >>)
               = IF Commands(l.hooks, x) = << >> THEN Highest(CommandsSaid(ls, x), << >>)
                 ELSE Commands(l.hooks, x)
  <2> DEFINE v == CommandsSaid(ls, x)
             w == CommandsSaid(more, x)
  <2>1. DOMAIN v = DOMAIN ls /\ DOMAIN w = DOMAIN more /\ \A i \in 1 .. n : w[i] = v[i]
    BY <1>3, <1>4 DEF CommandsSaid
  <2>2. w[n + 1] = Commands(l.hooks, x)
    BY <1>3, <1>4 DEF CommandsSaid
  <2> HIDE DEF v, w
  <2>3. QED
    BY <1>5, <2>1, <2>2 DEF v, w
<1>8. Highest(BackendsSaid(more), Unset)
        = IF l.backend = Unset THEN Highest(BackendsSaid(ls), Unset) ELSE l.backend
  <2> DEFINE v == BackendsSaid(ls)
             w == BackendsSaid(more)
  <2>1. DOMAIN v = DOMAIN ls /\ DOMAIN w = DOMAIN more /\ \A i \in 1 .. n : w[i] = v[i]
    BY <1>3, <1>4 DEF BackendsSaid
  <2>2. w[n + 1] = l.backend
    BY <1>3, <1>4 DEF BackendsSaid
  <2> HIDE DEF v, w
  <2>3. PICK unset : unset = Unset
    OBVIOUS
  <2>4. Highest(w, unset) = IF w[n + 1] = unset THEN Highest(v, unset) ELSE w[n + 1]
    BY <1>5, <2>1
  <2>5. QED
    BY <2>2, <2>3, <2>4 DEF v, w
<1>9. Highest(DefaultsSaid(more), Unset)
        = IF l.default = Unset THEN Highest(DefaultsSaid(ls), Unset) ELSE l.default
  <2> DEFINE v == DefaultsSaid(ls)
             w == DefaultsSaid(more)
  <2>1. DOMAIN v = DOMAIN ls /\ DOMAIN w = DOMAIN more /\ \A i \in 1 .. n : w[i] = v[i]
    BY <1>3, <1>4 DEF DefaultsSaid
  <2>2. w[n + 1] = l.default
    BY <1>3, <1>4 DEF DefaultsSaid
  <2> HIDE DEF v, w
  <2>3. PICK unset : unset = Unset
    OBVIOUS
  <2>4. Highest(w, unset) = IF w[n + 1] = unset THEN Highest(v, unset) ELSE w[n + 1]
    BY <1>5, <2>1
  <2>5. QED
    BY <2>2, <2>3, <2>4 DEF v, w
<1>10. Highest(ThresholdsSaid(more), << >>)
         = IF l.threshold = << >> THEN Highest(ThresholdsSaid(ls), << >>) ELSE l.threshold
  <2> DEFINE v == ThresholdsSaid(ls)
             w == ThresholdsSaid(more)
  <2>1. DOMAIN v = DOMAIN ls /\ DOMAIN w = DOMAIN more /\ \A i \in 1 .. n : w[i] = v[i]
    BY <1>3, <1>4 DEF ThresholdsSaid
  <2>2. w[n + 1] = l.threshold
    BY <1>3, <1>4 DEF ThresholdsSaid
  <2> HIDE DEF v, w
  <2>3. QED
    BY <1>5, <2>1, <2>2 DEF v, w
<1>11. Highest(DirsSaid(more), << >>)
         = IF l.write_dirs = << >> THEN Highest(DirsSaid(ls), << >>) ELSE l.write_dirs
  <2> DEFINE v == DirsSaid(ls)
             w == DirsSaid(more)
  <2>1. DOMAIN v = DOMAIN ls /\ DOMAIN w = DOMAIN more /\ \A i \in 1 .. n : w[i] = v[i]
    BY <1>3, <1>4 DEF DirsSaid
  <2>2. w[n + 1] = l.write_dirs
    BY <1>3, <1>4 DEF DirsSaid
  <2> HIDE DEF v, w
  <2>3. QED
    BY <1>5, <2>1, <2>2 DEF v, w
<1>12. QED
  BY <1>1, <1>6, <1>7, <1>8, <1>9, <1>10, <1>11 DEF HighestMore

LEMMA MergeType ==
  ASSUME NEW c \in Reading, Distinct(c.providers), Distinct(c.mcp_servers), NEW l \in Content
  PROVE  /\ Merge(c, l) \in Reading
         /\ LaidOver(ProviderRecord, c.providers, l.providers, Merge(c, l).providers)
         /\ Distinct(Merge(c, l).providers) /\ Distinct(Merge(c, l).mcp_servers)
<1>1. LaidOver(ProviderRecord, c.providers, l.providers, MergeByName(c.providers, l.providers))
  <2>1. c.providers \in Lists(ProviderRecord) /\ l.providers \in Seq(ProviderRecord)
    BY DEF Content, Reading, Lists
  <2>2. QED
    BY <2>1, MergeRight
<1>2. LaidOver(ServerRecord, c.mcp_servers, l.mcp_servers,
               MergeByName(c.mcp_servers, l.mcp_servers))
  <2>1. c.mcp_servers \in Lists(ServerRecord) /\ l.mcp_servers \in Seq(ServerRecord)
    BY DEF Content, Reading, Lists
  <2>2. QED
    BY <2>1, MergeRight
<1>3. MergeHooks(c.hooks, l.hooks) \in Seq(HookRecord)
  <2>1. c.hooks \in Seq(HookRecord) /\ l.hooks \in Seq(HookRecord)
    BY DEF Content, Reading
  <2>2. QED
    BY <2>1, HooksRight
<1>4. /\ MergeByName(c.providers, l.providers) \in Lists(ProviderRecord)
      /\ MergeByName(c.mcp_servers, l.mcp_servers) \in Lists(ServerRecord)
  BY <1>1, <1>2 DEF LaidOver
<1>5. PICK m : m = Merge(c, l)
  OBVIOUS
<1>6. /\ m.providers = MergeByName(c.providers, l.providers)
      /\ m.mcp_servers = MergeByName(c.mcp_servers, l.mcp_servers)
  BY <1>5 DEF Merge
<1>7. m \in Reading
  <2>1. /\ Overlaid(c.default, l.default, Unset) \in Text
        /\ Overlaid(c.backend, l.backend, Unset) \in Text
    <3>1. c.default \in Text /\ c.backend \in Text /\ l.default \in STRING /\ l.backend \in STRING
      BY DEF Reading, Content
    <3>2. QED
      BY <3>1 DEF Overlaid, Text
  <2>2. /\ Overlaid(c.threshold, l.threshold, << >>) \in {t \in Seq(Int) : Len(t) <= 1}
        /\ Overlaid(c.write_dirs, l.write_dirs, << >>) \in Seq(STRING)
    BY DEF Overlaid, Reading, Content
  <2>3. QED
    BY <1>3, <1>4, <1>5, <2>1, <2>2 DEF Merge, Reading, Lists
<1>8. QED
  BY <1>1, <1>4, <1>5, <1>6, <1>7 DEF Lists

\* The names and the first provider of one more layer.
LEMMA LayersMore ==
  ASSUME NEW ls \in Seq(Content), NEW l \in Content
  PROVE  /\ NamesSaid(Append(ls, l)) = NamesSaid(ls) \cup NamesOf(l.providers)
         /\ WithProviders(Append(ls, l))
              = IF l.providers = << >> THEN WithProviders(ls) ELSE Append(WithProviders(ls), l)
         /\ WithProviders(ls) \in Seq(Content)
<1>1. ToSet(Append(ls, l)) = ToSet(ls) \cup {l}
  BY SetOfAppend
<1>2. NamesSaid(Append(ls, l)) = NamesSaid(ls) \cup NamesOf(l.providers)
  BY <1>1 DEF NamesSaid
<1> DEFINE T == { k \in ToSet(Append(ls, l)) : k.providers # << >> }
           U == { k \in ToSet(ls) : k.providers # << >> }
<1>3. \A k \in ToSet(ls) : k \in T <=> k \in U
  BY <1>1
<1>4. l \in T <=> l.providers # << >>
  BY <1>1
<1>5. WithProviders(Append(ls, l)) = Those(Append(ls, l), T) /\ WithProviders(ls) = Those(ls, U)
  BY DEF WithProviders
<1> HIDE DEF T, U
<1>6. Those(ls, T) = Those(ls, U)
  BY <1>3, ThoseAgree
<1>7. Those(Append(ls, l), T) = IF l \in T THEN Append(Those(ls, T), l) ELSE Those(ls, T)
  BY ThoseAppend
<1>8. Those(ls, U) \in Seq(Content)
  BY ThoseType
<1>9. QED
  BY <1>2, <1>4, <1>5, <1>6, <1>7, <1>8

\* Every layer is laid over what the ones before it say.
LEMMA MergeReads ==
  ASSUME NEW ls \in Seq(Content), NEW l \in Content, NEW c, ReadFrom(ls, c)
  PROVE  ReadFrom(Append(ls, l), Merge(c, l))
<1>1. PICK more : more = Append(ls, l)
  OBVIOUS
<1>2. PICK m : m = Merge(c, l)
  OBVIOUS
<1>3. c \in Reading /\ Distinct(c.providers) /\ Distinct(c.mcp_servers)
  BY DEF ReadFrom
<1>4. /\ m \in Reading /\ Distinct(m.providers) /\ Distinct(m.mcp_servers)
      /\ LaidOver(ProviderRecord, c.providers, l.providers, m.providers)
  BY <1>2, <1>3, MergeType
<1>5. HighestMore(ls, l, more)
  BY <1>1, HighestOfMore
<1>6. /\ NamesSaid(more) = NamesSaid(ls) \cup NamesOf(l.providers)
      /\ WithProviders(more)
           = IF l.providers = << >> THEN WithProviders(ls) ELSE Append(WithProviders(ls), l)
      /\ WithProviders(ls) \in Seq(Content)
  BY <1>1, LayersMore
<1>7. NamesOf(m.providers) = NamesSaid(more)
  BY <1>4, <1>6 DEF LaidOver, ReadFrom
<1>8. l.providers \in Seq(ProviderRecord) /\ c.providers \in Seq(ProviderRecord)
      /\ m.providers \in Seq(ProviderRecord) /\ c.hooks \in Seq(HookRecord)
      /\ l.hooks \in Seq(HookRecord)
  BY <1>3, <1>4 DEF Content, Reading
<1>9. ASSUME NEW x \in ToSet(m.providers)
      PROVE  x = Last(Highest(ProvidersSaid(more, x.name), << >>))
  <2>1. x.name \in STRING
    <3>1. x \in ProviderRecord
      BY <1>8, SetOfSeq
    <3>2. QED
      BY <3>1 DEF ProviderRecord
  <2>2. Highest(ProvidersSaid(more, x.name), << >>)
          = IF OfName(l.providers, x.name) = << >> THEN Highest(ProvidersSaid(ls, x.name), << >>)
            ELSE OfName(l.providers, x.name)
    BY <1>5, <2>1 DEF HighestMore
  <2>3. IF OfName(l.providers, x.name) = << >> THEN x \in ToSet(c.providers)
        ELSE x = Last(OfName(l.providers, x.name))
    BY <1>4 DEF LaidOver
  <2>4. x \in ToSet(c.providers) => x = Last(Highest(ProvidersSaid(ls, x.name), << >>))
    BY DEF ReadFrom
  <2>5. QED
    BY <2>2, <2>3, <2>4
<1>10. /\ m.providers = << >> <=> WithProviders(more) = << >>
       /\ m.providers # << >> => m.providers[1].name = WithProviders(more)[1].providers[1].name
  <2>1. PICK w : w = WithProviders(ls)
    OBVIOUS
  <2>2. /\ w \in Seq(Content) /\ (c.providers = << >> <=> w = << >>)
        /\ c.providers # << >> => c.providers[1].name = w[1].providers[1].name
    BY <1>6, <2>1 DEF ReadFrom
  <2>3. /\ m.providers = << >> <=> c.providers = << >> /\ l.providers = << >>
        /\ m.providers # << >> =>
             m.providers[1].name = IF c.providers = << >> THEN l.providers[1].name
                                   ELSE c.providers[1].name
    BY <1>4 DEF LaidOver
  <2>4. CASE l.providers = << >>
    BY <1>6, <2>1, <2>2, <2>3, <2>4
  <2>5. CASE l.providers # << >>
    <3>1. PICK u : u = Append(w, l)
      OBVIOUS
    <3>2. WithProviders(more) = u
      BY <1>6, <2>1, <2>5, <3>1
    <3>3. u # << >> /\ (\A i \in 1 .. Len(w) : u[i] = w[i]) /\ u[Len(w) + 1] = l
      BY <2>2, <3>1, AppendProperties
    <3>4. CASE w = << >>
      <4>1. Len(w) = 0
        BY <3>4, EmptySeq
      <4>2. u[1] = l
        BY <3>3, <4>1
      <4>3. QED
        BY <2>2, <2>3, <2>5, <3>2, <3>3, <3>4, <4>2
    <3>5. CASE w # << >>
      <4>1. 1 \in 1 .. Len(w)
        BY <2>2, <3>5, LenProperties, EmptySeq
      <4>2. u[1] = w[1]
        BY <3>3, <4>1
      <4>3. QED
        BY <2>2, <2>3, <2>5, <3>2, <3>3, <3>5, <4>2
    <3>6. QED
      BY <3>4, <3>5
  <2>6. QED
    BY <2>4, <2>5
<1>11. ASSUME NEW e \in STRING PROVE Commands(m.hooks, e) = Highest(CommandsSaid(more, e), << >>)
  <2>1. m.hooks = MergeHooks(c.hooks, l.hooks)
    BY <1>2 DEF Merge
  <2>2. Commands(m.hooks, e)
          = IF Commands(l.hooks, e) = << >> THEN Commands(c.hooks, e) ELSE Commands(l.hooks, e)
    BY <1>8, <2>1, HooksRight
  <2>3. Commands(c.hooks, e) = Highest(CommandsSaid(ls, e), << >>)
    BY DEF ReadFrom
  <2>4. QED
    BY <1>5, <2>2, <2>3 DEF HighestMore
<1>12. m.backend = Overlaid("none", Highest(BackendsSaid(more), Unset), Unset)
  BY <1>2, <1>5 DEF Merge, Overlaid, HighestMore, ReadFrom
<1>13. m.default = Highest(DefaultsSaid(more), Unset)
  BY <1>2, <1>5 DEF Merge, Overlaid, HighestMore, ReadFrom
<1>14. m.threshold = Highest(ThresholdsSaid(more), << >>)
  BY <1>2, <1>5 DEF Merge, Overlaid, HighestMore, ReadFrom
<1>15. m.write_dirs = Highest(DirsSaid(more), << >>)
  BY <1>2, <1>5 DEF Merge, Overlaid, HighestMore, ReadFrom
<1>16. QED
  BY <1>1, <1>2, <1>4, <1>7, <1>9, <1>10, <1>11, <1>12, <1>13, <1>14, <1>15 DEF ReadFrom

\* Before the first file.
LEMMA DefaultReads == ReadFrom(<< >>, Default)
<1>1. PICK none : none = << >>
  OBVIOUS
<1>2. DOMAIN none = {} /\ Len(none) = 0
  BY <1>1, EmptySeq, LenProperties
<1>3. /\ Default.providers = none /\ Default.default = Unset /\ Default.backend = "none"
      /\ Default.write_dirs = none /\ Default.hooks = none /\ Default.threshold = none
      /\ Default.mcp_servers = none
  BY <1>1 DEF Default, Empty
<1>4. Default \in Reading
  <2>1. /\ none \in Seq(ProviderRecord) /\ none \in Seq(HookRecord) /\ none \in Seq(ServerRecord)
        /\ none \in Seq(STRING) /\ none \in Seq(Int)
    BY <1>1, EmptySeq
  <2>2. none \in {t \in Seq(Int) : Len(t) <= 1}
    <3>1. none \in Seq(Int) /\ Len(none) <= 1
      BY <1>2, <2>1
    <3>2. QED
      BY <3>1
  <2>3. PICK a, b : a = Unset /\ b = "none"
    OBVIOUS
  <2>4. a \in Text /\ b \in Text
    BY <2>3 DEF Text
  <2>5. Default = [providers |-> none, default |-> a, backend |-> b, write_dirs |-> none,
                   hooks |-> none, threshold |-> none, mcp_servers |-> none]
    <3>1. Empty = [providers |-> none, default |-> a, backend |-> a, write_dirs |-> none,
                   hooks |-> none, threshold |-> none, mcp_servers |-> none]
      BY <1>1, <2>3 DEF Empty
    <3>2. Default = [Empty EXCEPT !.backend = b]
      BY <2>3 DEF Default
    <3>3. QED
      BY <3>1, <3>2
  <2>6. QED
    BY <2>1, <2>2, <2>4, <2>5 DEF Reading
<1>5. Distinct(none)
  BY <1>2 DEF Distinct
<1>6. ToSet(none) = {}
  BY <1>1, SetOfNothing
<1>7. NamesOf(none) = {} /\ NamesSaid(none) = {}
  BY <1>6 DEF NamesOf, NamesSaid
<1>8. WithProviders(none) = none
  BY <1>1, ThoseNothing DEF WithProviders
<1>9. \A e \in STRING : Commands(none, e) = none /\ Highest(CommandsSaid(none, e), << >>) = none
  <2>1. ASSUME NEW e \in STRING
        PROVE Commands(none, e) = none /\ Highest(CommandsSaid(none, e), << >>) = none
    <3>1. Commands(none, e) = none
      BY <1>1, ThoseNothing DEF Commands
    <3>2. DOMAIN CommandsSaid(none, e) = {}
      BY <1>2 DEF CommandsSaid
    <3>3. Highest(CommandsSaid(none, e), << >>) = << >>
      BY <3>2, HighestNothing
    <3>4. QED
      BY <1>1, <3>1, <3>3
  <2>2. QED
    BY <2>1
<1>10. /\ DOMAIN BackendsSaid(none) = {} /\ DOMAIN DefaultsSaid(none) = {}
       /\ DOMAIN ThresholdsSaid(none) = {} /\ DOMAIN DirsSaid(none) = {}
  BY <1>2 DEF BackendsSaid, DefaultsSaid, ThresholdsSaid, DirsSaid
<1>11. Highest(BackendsSaid(none), Unset) = Unset /\ Highest(DefaultsSaid(none), Unset) = Unset
  BY <1>10 DEF Highest
<1>12. Highest(ThresholdsSaid(none), << >>) = none /\ Highest(DirsSaid(none), << >>) = none
  BY <1>1, <1>10 DEF Highest
<1>13. ReadFrom(none, Default)
  BY <1>1, <1>3, <1>4, <1>5, <1>6, <1>7, <1>8, <1>9, <1>11, <1>12 DEF ReadFrom, Overlaid
<1>14. QED
  BY <1>1, <1>13

\* Merge, along a sequence.
MergeFold(base, E) == [s \in Seq(E) |-> FoldLeft(Merge, base, s)]

MergeDoes(V, E) == [q \in V \X E |-> Merge(q[1], q[2])]

LEMMA MergeFolds ==
  ASSUME NEW V, NEW E, NEW base \in V,
         \A v \in V : \A e \in E : Merge(v, e) \in V
  PROVE  FoldLaws(MergeFold(base, E), MergeDoes(V, E), base, V, E)
<1>1. ASSUME NEW s \in Seq(E)
      PROVE  \E g : /\ Traced(g, V, base, Along(MergeDoes(V, E), V, s, Len(s)), Len(s))
                    /\ FoldLeft(Merge, base, s) = g[Len(s)]
  <2>1. PICK n : n = Len(s)
    OBVIOUS
  <2>2. n \in Nat /\ DOMAIN s = 1 .. n /\ \A i \in 1 .. n : s[i] \in E
    BY <2>1, LenProperties, ElementOfSeq
  <2> DEFINE step == Along(MergeDoes(V, E), V, s, n)
             It(f) == f = [t \in SUBSET (1 .. n) |->
                             IF t = {} THEN base ELSE Merge(f[t \ {Max(t)}], s[Max(t)])]
  <2>3. \A v \in V : \A k \in 1 .. n : step[<< v, k >>] = Merge(v, s[k])
    BY <2>2 DEF Along, MergeDoes
  <2>4. step \in [V \X (1 .. n) -> V]
    BY <2>2 DEF Along, MergeDoes
  <2> HIDE DEF step
  <2>5. \E f : It(f)
    <3>1. PICK f \in [SUBSET (1 .. n) -> V] : Iterates(f, base, step, n)
      BY <2>2, <2>4, IteratesExists
    <3>2. ASSUME NEW t \in SUBSET (1 .. n), t # {}
          PROVE  step[<< f[t \ {Max(t)}], Max(t) >>] = Merge(f[t \ {Max(t)}], s[Max(t)])
      <4>1. Max(t) \in 1 .. n
        BY <2>2, <3>2, MaxFound
      <4>2. f[t \ {Max(t)}] \in V
        OBVIOUS
      <4>3. QED
        BY <2>3, <4>1, <4>2
    <3>3. It(f)
      BY <3>1, <3>2 DEF Iterates
    <3>4. QED
      BY <3>3
  <2>6. \E f : It(f) /\ FoldLeft(Merge, base, s) = f[1 .. n]
    BY <2>2, <2>5 DEF FoldLeft, MapThenFoldSet
  <2>7. PICK f : It(f) /\ FoldLeft(Merge, base, s) = f[1 .. n]
    BY <2>6
  <2>8. f[{}] = base
    BY <2>7
  <2>9. ASSUME NEW k \in 1 .. n, f[1 .. k - 1] \in V
        PROVE  f[1 .. k] = step[<< f[1 .. k - 1], k >>]
    <3>1. 1 .. k \in SUBSET (1 .. n) /\ 1 .. k # {} /\ k \in Nat /\ k # 0
      BY <2>2, UpTo
    <3>2. Max(1 .. k) = k /\ (1 .. k) \ {k} = 1 .. k - 1
      BY <3>1, MaxUpTo
    <3>3. f[1 .. k] = Merge(f[1 .. k - 1], s[k])
      BY <2>7, <3>1, <3>2
    <3>4. QED
      BY <2>3, <2>9, <3>3
  <2> DEFINE g == [k \in 0 .. n |-> f[1 .. k]]
  <2> HIDE DEF It
  <2>10. Traced(g, V, base, step, n)
    BY <2>2, <2>4, <2>8, <2>9, TracedBy
  <2>11. g[n] = f[1 .. n]
    BY <2>2
  <2> HIDE DEF g
  <2>12. QED
    BY <2>1, <2>7, <2>10, <2>11 DEF step
<1>2. FoldsAs(MergeFold(base, E), MergeDoes(V, E), base, V, E)
  BY <1>1 DEF FoldsAs, MergeFold
<1>3. QED
  BY <1>2, FoldObeys

Bases == { c \in Reading : Distinct(c.providers) /\ Distinct(c.mcp_servers) }

\* The files that are read, laid over each other.
LEMMA FilesRead ==
  ASSUME NEW ls \in Seq(Content)
  PROVE  ReadFrom(ls, FoldLeft(Merge, Default, ls))
<1> DEFINE F == MergeFold(Default, Content)
           op == MergeDoes(Bases, Content)
<1>1. Default \in Bases
  BY DefaultReads DEF ReadFrom, Bases
<1>2. \A v \in Bases : \A l \in Content : Merge(v, l) \in Bases
  BY MergeType DEF Bases
<1>3. FoldLaws(F, op, Default, Bases, Content)
  BY <1>1, <1>2, MergeFolds
<1>4. \A s \in Seq(Content) : F[s] = FoldLeft(Merge, Default, s)
  BY DEF MergeFold
<1>5. \A v \in Bases : \A l \in Content : op[<< v, l >>] = Merge(v, l)
  BY DEF MergeDoes
<1> HIDE DEF F, op
<1> DEFINE T == { s \in Seq(Content) : ReadFrom(s, F[s]) }
<1>6. << >> \in T
  BY <1>3, DefaultReads, EmptySeq DEF FoldLaws
<1>7. ASSUME NEW s \in Seq(Content), NEW l \in Content, s \in T PROVE Append(s, l) \in T
  <2>1. F[s] \in Bases /\ F[Append(s, l)] = op[<< F[s], l >>]
    BY <1>3 DEF FoldLaws
  <2>2. F[Append(s, l)] = Merge(F[s], l)
    BY <1>5, <2>1
  <2>3. ReadFrom(s, F[s])
    BY <1>7
  <2>4. ReadFrom(Append(s, l), Merge(F[s], l))
    BY <2>3, MergeReads
  <2>5. Append(s, l) \in Seq(Content)
    BY AppendProperties
  <2>6. QED
    BY <2>2, <2>4, <2>5
<1> HIDE DEF T
<1>8. \A s \in Seq(Content) : s \in T
  BY <1>6, <1>7, SeqInductive
<1>9. QED
  BY <1>4, <1>8 DEF T

Paths == {"global", "project", "root", "explicit"}
FileRecord == [is : {"absent", "dir", "broken", "file"}, says : Content]
FilesOf(files) == { p \in DOMAIN files : files[p].is = "file" }
Contents(files, hits) == [i \in DOMAIN hits |-> files[hits[i]].says]

LEMMA NoneSet == "none" # Unset
BY DEF Unset

\* What is known of a configuration that was laid and given its defaults.
LEMMA DefaultsApplied ==
  ASSUME NEW ls \in Seq(Content), NEW c, ReadFrom(ls, c), NEW d, d = ApplyDefaults(c)
  PROVE  /\ d \in Reading
         /\ d.providers = c.providers /\ d.hooks = c.hooks /\ d.write_dirs = c.write_dirs
         /\ d.backend = c.backend
         /\ d.threshold = IF c.threshold = << >> THEN << DefaultAutoCompressThreshold >>
                          ELSE c.threshold
         /\ d.default = IF c.default = Unset /\ c.providers # << >> THEN c.providers[1].name
                        ELSE c.default
<1>1. c \in Reading
  BY DEF ReadFrom
<1>2. PICK u : u = Unset
  OBVIOUS
<1>3. PICK t, b, f :
         /\ t = Overlaid(<< DefaultAutoCompressThreshold >>, c.threshold, << >>)
         /\ b = Overlaid("none", c.backend, Unset)
         /\ f = IF c.default = Unset /\ c.providers # << >> THEN c.providers[1].name ELSE c.default
  OBVIOUS
<1>4. d = [c EXCEPT !.threshold = t, !.backend = b, !.default = f]
  BY <1>3 DEF ApplyDefaults
<1>5. b = c.backend
  <2>1. c.backend # Unset
    BY NoneSet DEF ReadFrom, Overlaid
  <2>2. QED
    BY <1>3, <2>1 DEF Overlaid
<1>6. t = IF c.threshold = << >> THEN << DefaultAutoCompressThreshold >> ELSE c.threshold
  BY <1>3 DEF Overlaid
<1>7. t \in {s \in Seq(Int) : Len(s) <= 1}
  <2>1. << DefaultAutoCompressThreshold >> \in {s \in Seq(Int) : Len(s) <= 1}
    BY DEF DefaultAutoCompressThreshold
  <2>2. QED
    BY <1>1, <1>6, <2>1 DEF Reading
<1>8. f \in Text
  <2>1. CASE c.default = u /\ c.providers # << >>
    <3>1. f = c.providers[1].name
      BY <1>2, <1>3, <2>1
    <3>2. c.providers \in Seq(ProviderRecord) /\ 1 \in 1 .. Len(c.providers)
      BY <1>1, <2>1, LenProperties, EmptySeq DEF Reading
    <3>3. c.providers[1] \in ProviderRecord
      BY <3>2, ElementOfSeq
    <3>4. f \in STRING
      BY <3>1, <3>3 DEF ProviderRecord
    <3>5. QED
      BY <3>4 DEF Text
  <2>2. CASE ~ (c.default = u /\ c.providers # << >>)
    <3>1. f = c.default
      BY <1>2, <1>3, <2>2
    <3>2. QED
      BY <1>1, <3>1 DEF Reading
  <2>3. QED
    BY <2>1, <2>2
<1>9. /\ d \in Reading
      /\ d.providers = c.providers /\ d.hooks = c.hooks /\ d.write_dirs = c.write_dirs
      /\ d.backend = b /\ d.threshold = t /\ d.default = f
  BY <1>1, <1>4, <1>5, <1>7, <1>8 DEF Reading
<1>10. QED
  BY <1>3, <1>5, <1>6, <1>9

\* The contents of the files that are found.
LEMMA ContentsType ==
  ASSUME NEW files \in [Paths -> FileRecord], NEW hits \in Seq(Paths)
  PROVE  Contents(files, hits) \in Seq(Content)
<1>1. PICK n : n = Len(hits)
  OBVIOUS
<1>2. n \in Nat /\ DOMAIN hits = 1 .. n /\ \A i \in 1 .. n : hits[i] \in Paths
  BY <1>1, LenProperties, ElementOfSeq
<1>3. Contents(files, hits) = [i \in 1 .. n |-> files[hits[i]].says]
  BY <1>2 DEF Contents
<1>4. \A i \in 1 .. n : files[hits[i]].says \in Content
  BY <1>2 DEF FileRecord
<1>5. Contents(files, hits) \in [1 .. n -> Content]
  BY <1>3, <1>4
<1>6. QED
  BY <1>2, <1>5

\* Loaded without an error, a configuration is what the files say that are found.
LEMMA LoadFromRight ==
  ASSUME NEW files \in [Paths -> FileRecord], NEW paths \in Seq(Paths),
         NEW l, l = LoadFrom(files, paths)
  PROVE  LET hits == Those(paths, FilesOf(files))
             c     == FoldLeft(Merge, Default, Contents(files, hits))
         IN  /\ l.cfg.providers \in Seq(ProviderRecord)
             /\ l.err = "nil" =>
                  /\ l.cfg = ApplyDefaults(c) /\ Validate(l.cfg)
                  /\ \A p \in ToSet(paths) : files[p].is \in {"absent", "file"}
<1> DEFINE there == {p \in DOMAIN files : files[p].is # "absent"}
           other == {p \in DOMAIN files : files[p].is # "file"}
           hits == Those(paths, there)
           bad   == Those(hits, other)
           cfgd  == ApplyDefaults(FoldLeft(Merge, Default, Contents(files, hits)))
<1>0. PICK e : e = IF Validate(cfgd) THEN "nil" ELSE "invalid"
  OBVIOUS
<1>1. /\ bad # << >> => l = [err |-> "invalid", cfg |-> Default]
      /\ bad = << >> /\ hits = << >> => l = [err |-> "not_found", cfg |-> Default]
      /\ bad = << >> /\ hits # << >> => l = [err |-> e, cfg |-> cfgd]
  <2>1. l = CASE bad # << >>   -> [err |-> "invalid", cfg |-> Default]
              [] hits = << >> -> [err |-> "not_found", cfg |-> Default]
              [] OTHER         -> [err |-> e, cfg |-> cfgd]
    BY <1>0 DEF LoadFrom, Contents
  <2>2. hits = << >> => bad = << >>
    <3> HIDE DEF there, other, hits
    <3>1. QED
      BY ThoseNothing
  <2> HIDE DEF bad, hits, cfgd
  <2>3. QED
    BY <2>1, <2>2
<1>2. hits \in Seq(Paths)
  <2> HIDE DEF there
  <2>1. QED
    BY ThoseType
<1>3. Contents(files, hits) \in Seq(Content)
  <2> HIDE DEF hits
  <2>1. QED
    BY <1>2, ContentsType
<1>4. ReadFrom(Contents(files, hits), FoldLeft(Merge, Default, Contents(files, hits)))
  BY <1>3, FilesRead
<1> HIDE DEF hits
<1>5. cfgd.providers \in Seq(ProviderRecord)
  <2>1. cfgd \in Reading
    BY <1>3, <1>4, DefaultsApplied
  <2> HIDE DEF cfgd
  <2>2. QED
    BY <2>1 DEF Reading
<1>6. Default.providers \in Seq(ProviderRecord)
  <2>1. Default \in Reading
    BY DefaultReads DEF ReadFrom
  <2>2. QED
    BY <2>1 DEF Reading
<1> HIDE DEF cfgd, bad
<1>7. l.cfg = Default \/ l.cfg = cfgd
  <2>1. CASE bad # << >>
    <3>1. l = [err |-> "invalid", cfg |-> Default]
      BY <1>1, <2>1
    <3>2. QED
      BY <3>1
  <2>2. CASE bad = << >> /\ hits = << >>
    <3>1. l = [err |-> "not_found", cfg |-> Default]
      BY <1>1, <2>2
    <3>2. QED
      BY <3>1
  <2>3. CASE bad = << >> /\ hits # << >>
    <3>1. l = [err |-> e, cfg |-> cfgd]
      BY <1>1, <2>3
    <3>2. QED
      BY <3>1
  <2>4. QED
    BY <2>1, <2>2, <2>3
<1>8. ASSUME l.err = "nil" PROVE bad = << >> /\ l.cfg = cfgd /\ Validate(cfgd)
  <2>1. bad = << >>
    <3>1. ASSUME bad # << >> PROVE FALSE
      <4>1. l = [err |-> "invalid", cfg |-> Default]
        BY <1>1, <3>1
      <4>2. QED
        BY <1>8, <4>1
    <3>2. QED
      BY <3>1
  <2>2. l.err = e /\ l.cfg = cfgd
    <3>1. ASSUME hits = << >> PROVE FALSE
      <4>1. l = [err |-> "not_found", cfg |-> Default]
        BY <1>1, <2>1, <3>1
      <4>2. QED
        BY <1>8, <4>1
    <3>2. l = [err |-> e, cfg |-> cfgd]
      BY <1>1, <2>1, <3>1
    <3>3. QED
      BY <3>2
  <2>3. Validate(cfgd)
    BY <1>0, <1>8, <2>2
  <2>4. QED
    BY <2>1, <2>2, <2>3
<1>9. ASSUME bad = << >>
      PROVE  /\ hits = Those(paths, FilesOf(files))
             /\ \A p \in ToSet(paths) : files[p].is \in {"absent", "file"}
  <2>1. ToSet(hits) = ToSet(paths) \cap there
    <3> HIDE DEF there
    <3>1. QED
      BY ThoseSet DEF hits
  <2>2. ToSet(hits) \cap other = {}
    <3> HIDE DEF there, other
    <3>1. QED
      BY <1>2, <1>9, ThoseNone DEF bad
  <2>3. ToSet(paths) \subseteq Paths
    BY SetOfSeq
  <2>4. DOMAIN files = Paths
    OBVIOUS
  <2>5. \A p \in ToSet(paths) : files[p].is \in {"absent", "file"}
    BY <2>1, <2>2, <2>3, <2>4
  <2>6. \A p \in ToSet(paths) : p \in there <=> p \in FilesOf(files)
    BY <2>3, <2>4, <2>5 DEF FilesOf
  <2> HIDE DEF there, other
  <2>7. Those(paths, there) = Those(paths, FilesOf(files))
    BY <2>6, ThoseAgree
  <2>8. QED
    BY <2>5, <2>7 DEF hits
<1>10. QED
  BY <1>5, <1>6, <1>7, <1>8, <1>9 DEF cfgd

LEMMA ThoseOne ==
  ASSUME NEW S, NEW x \in S, NEW T
  PROVE  Those(<< x >>, T) = IF x \in T THEN << x >> ELSE << >>
<1>1. PICK none : none = << >>
  OBVIOUS
<1>2. none \in Seq(S) /\ Those(none, T) = none
  BY <1>1, EmptySeq, ThoseNothing
<1>3. Append(none, x) = << x >>
  BY <1>1
<1>4. Those(Append(none, x), T) = IF x \in T THEN Append(Those(none, T), x) ELSE Those(none, T)
  BY <1>2, ThoseAppend
<1>5. QED
  BY <1>1, <1>2, <1>3, <1>4

LEMMA ThosePair ==
  ASSUME NEW S, NEW x \in S, NEW y \in S, NEW T
  PROVE  Those(<< x, y >>, T)
           = (IF x \in T THEN << x >> ELSE << >>) \o (IF y \in T THEN << y >> ELSE << >>)
<1>1. PICK s, t : s = << x >> /\ t = << y >>
  OBVIOUS
<1>2. s \in Seq(S) /\ t \in Seq(S)
  BY <1>1
<1>3. << x, y >> = s \o t
  <2>1. << x, y >> = Append(s, y)
    BY <1>1
  <2>2. Append(s, y) = s \o << y >>
    BY <1>2, AppendIsConcat
  <2>3. QED
    BY <1>1, <2>1, <2>2
<1>4. Those(s \o t, T) = Those(s, T) \o Those(t, T)
  BY <1>2, ThoseConcat
<1>5. Those(s, T) = IF x \in T THEN << x >> ELSE << >>
  BY <1>1, ThoseOne
<1>6. Those(t, T) = IF y \in T THEN << y >> ELSE << >>
  BY <1>1, ThoseOne
<1>7. QED
  BY <1>3, <1>4, <1>5, <1>6

\* Sequences of a few.
LEMMA Few ==
  ASSUME NEW S, NEW x \in S, NEW y \in S
  PROVE  /\ << x >> \in Seq(S) /\ << x, y >> \in Seq(S)
         /\ << x >> \o << y >> = << x, y >>
<1>1. << x >> \in Seq(S) /\ << x, y >> \in Seq(S)
  OBVIOUS
<1>2. << x, y >> = Append(<< x >>, y)
  OBVIOUS
<1>3. QED
  BY <1>1, <1>2, AppendIsConcat

LEMMA FewMore ==
  ASSUME NEW S, NEW x \in S, NEW y \in S, NEW z \in S
  PROVE  << x >> \o << y, z >> = << x, y, z >>
<1>1. PICK s, t, u : s = << x >> /\ t = << y, z >> /\ u = << x, y, z >>
  OBVIOUS
<1>2. /\ s \in Seq(S) /\ t \in Seq(S) /\ u \in Seq(S) /\ Len(s) = 1 /\ Len(t) = 2 /\ Len(u) = 3
      /\ s[1] = x /\ t[1] = y /\ t[2] = z /\ u[1] = x /\ u[2] = y /\ u[3] = z
  BY <1>1
<1>3. PICK r : r = s \o t
  OBVIOUS
<1>4. r \in Seq(S) /\ Len(r) = 3 /\ r[1] = x /\ r[2] = y /\ r[3] = z
  BY <1>2, <1>3, ConcatProperties
<1>5. \A i \in 1 .. 3 : i = 1 \/ i = 2 \/ i = 3
  OBVIOUS
<1>6. r = u
  BY <1>2, <1>4, <1>5, SeqEqual
<1>7. QED
  BY <1>1, <1>3, <1>6

LEMMA FewPaths ==
  /\ << "global" >> \in Seq(Paths) /\ << "project" >> \in Seq(Paths) /\ << "root" >> \in Seq(Paths)
  /\ << "explicit" >> \in Seq(Paths) /\ << "project", "root" >> \in Seq(Paths)
  /\ << "global", "project" >> \in Seq(Paths) /\ << "global", "root" >> \in Seq(Paths)
  /\ << "global" >> \o << "project" >> = << "global", "project" >>
  /\ << "global" >> \o << "root" >> = << "global", "root" >>
  /\ << "project" >> \o << "root" >> = << "project", "root" >>
  /\ << "global" >> \o << "project", "root" >> = << "global", "project", "root" >>
<1>1. /\ "global" \in Paths /\ "project" \in Paths /\ "root" \in Paths /\ "explicit" \in Paths
  BY DEF Paths
<1>2. /\ << "global" >> \in Seq(Paths) /\ << "global", "project" >> \in Seq(Paths)
      /\ << "global" >> \o << "project" >> = << "global", "project" >>
  BY <1>1, Few
<1>3. /\ << "project" >> \in Seq(Paths) /\ << "project", "root" >> \in Seq(Paths)
      /\ << "project" >> \o << "root" >> = << "project", "root" >>
  BY <1>1, Few
<1>4. /\ << "root" >> \in Seq(Paths) /\ << "global", "root" >> \in Seq(Paths)
      /\ << "global" >> \o << "root" >> = << "global", "root" >>
  BY <1>1, Few
<1>5. << "explicit" >> \in Seq(Paths)
  BY <1>1, Few
<1>6. << "global" >> \o << "project", "root" >> = << "global", "project", "root" >>
  BY <1>1, FewMore
<1>7. QED
  BY <1>2, <1>3, <1>4, <1>5, <1>6

\* The files that can decide, the lower one first.
Used ==
  LET local == IF world.files["project"].is = "file" THEN "project" ELSE "root"
  IN  IF world.explicit THEN << "explicit" >> ELSE << "global", local >>

LEMMA LayersAre == Layers = Contents(world.files, Those(Used, FilesOf(world.files)))
BY DEF Layers, Contents, Used, FilesOf

\* The file of the project that is read, if there is one.
Searches(searched, readable) ==
  << Head(searched) >> \o (IF Those(Tail(searched), readable) = << >> THEN << >>
                           ELSE << Head(Those(Tail(searched), readable)) >>)

LEMMA SearchFinds ==
  ASSUME NEW searched, searched = << "global", "project", "root" >>, NEW readable,
         NEW at, at = Searches(searched, readable)
  PROVE  at = IF "project" \in readable THEN << "global", "project" >>
              ELSE IF "root" \in readable THEN << "global", "root" >> ELSE << "global" >>
<1>1. Head(searched) = "global" /\ Tail(searched) = << "project", "root" >>
  OBVIOUS
<1>2. PICK e : e = Those(Tail(searched), readable)
  OBVIOUS
<1>3. e = (IF "project" \in readable THEN << "project" >> ELSE << >>)
            \o (IF "root" \in readable THEN << "root" >> ELSE << >>)
  <2>1. "project" \in Paths /\ "root" \in Paths
    BY DEF Paths
  <2>2. Those(<< "project", "root" >>, readable)
          = (IF "project" \in readable THEN << "project" >> ELSE << >>)
              \o (IF "root" \in readable THEN << "root" >> ELSE << >>)
    BY <2>1, ThosePair
  <2>3. QED
    BY <1>1, <1>2, <2>2
<1>4. at = << "global" >> \o (IF e = << >> THEN << >> ELSE << Head(e) >>)
  BY <1>1, <1>2 DEF Searches
<1>5. CASE "project" \in readable
  <2>1. PICK rest : rest = IF "root" \in readable THEN << "root" >> ELSE << >>
    OBVIOUS
  <2>2. rest \in Seq(Paths) /\ << "project" >> \in Seq(Paths)
    <3>1. << >> \in Seq(Paths)
      BY EmptySeq
    <3>2. << "root" >> \in Seq(Paths) /\ << "project" >> \in Seq(Paths)
      BY FewPaths
    <3>3. QED
      BY <2>1, <3>1, <3>2
  <2>3. e = << "project" >> \o rest
    BY <1>3, <1>5, <2>1
  <2>4. e # << >> /\ Head(e) = "project"
    BY <2>2, <2>3
  <2>5. << "global" >> \o << "project" >> = << "global", "project" >>
    BY FewPaths
  <2>6. QED
    BY <1>4, <1>5, <2>4, <2>5
<1>6. CASE "project" \notin readable /\ "root" \in readable
  <2>1. e = << >> \o << "root" >>
    BY <1>3, <1>6
  <2>2. << "root" >> \in Seq(Paths)
    BY DEF Paths
  <2>3. e = << "root" >>
    BY <2>1, <2>2, ConcatEmptySeq
  <2>4. e # << >> /\ Head(e) = "root"
    BY <2>3
  <2>5. << "global" >> \o << "root" >> = << "global", "root" >>
    BY FewPaths
  <2>6. QED
    BY <1>4, <1>6, <2>4, <2>5
<1>7. CASE "project" \notin readable /\ "root" \notin readable
  <2>1. e = << >> \o << >>
    BY <1>3, <1>7
  <2>2. << >> \in Seq(Paths) /\ << "global" >> \in Seq(Paths)
    BY EmptySeq DEF Paths
  <2>3. e = << >>
    BY <2>1, <2>2, ConcatEmptySeq
  <2>4. << "global" >> \o << >> = << "global" >>
    BY <2>2, ConcatEmptySeq
  <2>5. QED
    BY <1>4, <1>7, <2>3, <2>4
<1>8. QED
  BY <1>5, <1>6, <1>7

\* Load: without an error, the configuration is that of the layers.
LEMMA LoadRight ==
  ASSUME world \in World, NEW l, l = Load(world.files, world.home, world.explicit)
  PROVE  /\ l.cfg.providers \in Seq(ProviderRecord)
         /\ world.home /\ l.err = "nil" =>
              /\ Layers \in Seq(Content)
              /\ l.cfg = ApplyDefaults(FoldLeft(Merge, Default, Layers))
              /\ Validate(l.cfg)
<1>1. PICK files : files = world.files
  OBVIOUS
<1>2. files \in [Paths -> FileRecord] /\ world.home \in BOOLEAN /\ world.explicit \in BOOLEAN
  BY <1>1 DEF World, Paths, FileRecord
<1>3. Default.providers \in Seq(ProviderRecord)
  <2>1. Default \in Reading
    BY DefaultReads DEF ReadFrom
  <2>2. QED
    BY <2>1 DEF Reading
<1>4. Layers \in Seq(Content)
  <2>1. Used \in Seq(Paths)
    BY FewPaths DEF Used
  <2>2. Those(Used, FilesOf(files)) \in Seq(Paths)
    BY <2>1, ThoseType
  <2>3. Contents(files, Those(Used, FilesOf(files))) \in Seq(Content)
    BY <1>2, <2>2, ContentsType
  <2>4. QED
    BY <1>1, <2>3, LayersAre
<1>5. ASSUME NEW paths \in Seq(Paths), l = LoadFrom(files, paths),
             l.err = "nil" => Those(paths, FilesOf(files)) = Those(Used, FilesOf(files))
      PROVE  /\ l.cfg.providers \in Seq(ProviderRecord)
             /\ l.err = "nil" => /\ l.cfg = ApplyDefaults(FoldLeft(Merge, Default, Layers))
                                 /\ Validate(l.cfg)
  BY <1>1, <1>2, <1>5, LoadFromRight, LayersAre
<1>6. CASE world.explicit
  <2>1. Used = << "explicit" >> /\ << "explicit" >> \in Seq(Paths)
    BY <1>6, FewPaths DEF Used
  <2>2. CASE files["explicit"].is \in {"file", "broken"}
    <3>1. l = LoadFrom(files, << "explicit" >>)
      BY <1>1, <1>6, <2>2 DEF Load
    <3>2. QED
      BY <1>4, <1>5, <2>1, <3>1
  <2>3. CASE files["explicit"].is \notin {"file", "broken"}
    <3>1. l = [err |-> "not_found", cfg |-> Default]
      BY <1>1, <1>6, <2>3 DEF Load
    <3>2. l.err # "nil" /\ l.cfg = Default
      BY <3>1
    <3>3. QED
      BY <1>3, <3>2
  <2>4. QED
    BY <2>2, <2>3
<1>7. CASE ~ world.explicit
  <2>0. PICK readable : readable = {p \in DOMAIN files : files[p].is \in {"file", "broken"}}
    OBVIOUS
  <2>1. PICK searched : searched = SearchPaths(world.home)
    OBVIOUS
  <2>2. l = LoadFrom(files, Searches(searched, readable))
    BY <1>1, <1>7, <2>0, <2>1 DEF Load, LoadSearch, Searches
  <2>3. CASE world.home
    <3>1. searched = << "global", "project", "root" >>
      <4>1. << "global" >> \o << "project", "root" >> = << "global", "project", "root" >>
        BY FewPaths
      <4>2. QED
        BY <2>1, <2>3, <4>1 DEF SearchPaths
    <3>2. PICK at : at = Searches(searched, readable)
      OBVIOUS
    <3>3. at = IF "project" \in readable THEN << "global", "project" >>
               ELSE IF "root" \in readable THEN << "global", "root" >> ELSE << "global" >>
      BY <3>1, <3>2, SearchFinds
    <3>4. at \in Seq(Paths)
      BY <3>3, FewPaths
    <3>5. ASSUME l.err = "nil"
          PROVE  Those(at, FilesOf(files)) = Those(Used, FilesOf(files))
      <4>1. \A p \in ToSet(at) : files[p].is \in {"absent", "file"}
        BY <1>2, <2>2, <3>2, <3>4, <3>5, LoadFromRight
      <4>2. CASE "project" \in readable
        <5>1. at = << "global", "project" >>
          BY <3>3, <4>2
        <5>2. "project" \in ToSet(at)
          BY <5>1 DEF ToSet
        <5>3. files["project"].is = "file"
          BY <2>0, <4>1, <4>2, <5>2
        <5>4. Used = << "global", "project" >>
          BY <1>1, <1>7, <5>3 DEF Used
        <5>5. QED
          BY <5>1, <5>4
      <4>3. CASE "project" \notin readable
        <5>1. "project" \in DOMAIN files /\ files["project"].is # "file"
          BY <1>2, <2>0, <4>3 DEF Paths
        <5>2. Used = << "global", "root" >>
          BY <1>1, <1>7, <5>1 DEF Used
        <5>3. CASE "root" \in readable
          BY <3>3, <4>3, <5>2, <5>3
        <5>4. CASE "root" \notin readable
          <6>1. at = << "global" >>
            BY <3>3, <4>3, <5>4
          <6>2. "root" \notin FilesOf(files)
            BY <2>0, <5>4 DEF FilesOf
          <6>3. "global" \in Paths /\ "root" \in Paths
            BY DEF Paths
          <6>4. PICK one : one = IF "global" \in FilesOf(files) THEN << "global" >> ELSE << >>
            OBVIOUS
          <6>5. Those(at, FilesOf(files)) = one
            BY <6>1, <6>3, <6>4, ThoseOne
          <6>6. Those(Used, FilesOf(files)) = one \o << >>
            BY <5>2, <6>2, <6>3, <6>4, ThosePair
          <6>7. one \in Seq(Paths)
            BY <6>3, <6>4, EmptySeq
          <6>8. one \o << >> = one
            BY <6>7, ConcatEmptySeq
          <6>9. QED
            BY <6>5, <6>6, <6>8
        <5>5. QED
          BY <5>3, <5>4
      <4>4. QED
        BY <4>2, <4>3
    <3>6. QED
      BY <1>4, <1>5, <2>2, <3>2, <3>4, <3>5
  <2>4. CASE ~ world.home
    <3>1. searched = << "project", "root" >>
      <4>1. << "project", "root" >> \in Seq(Paths)
        BY FewPaths
      <4>2. << >> \o << "project", "root" >> = << "project", "root" >>
        BY <4>1, ConcatEmptySeq
      <4>3. QED
        BY <2>1, <2>4, <4>2 DEF SearchPaths
    <3>2. Head(searched) = "project" /\ Tail(searched) = << "root" >>
      BY <3>1
    <3>3. Those(Tail(searched), readable) = IF "root" \in readable THEN << "root" >> ELSE << >>
      BY <3>2, ThoseOne
    <3>4. Searches(searched, readable) \in Seq(Paths)
      <4>1. CASE "root" \in readable
        <5>1. Those(Tail(searched), readable) = << "root" >>
          BY <3>3, <4>1
        <5>2. Searches(searched, readable) = << "project" >> \o << "root" >>
          BY <3>2, <5>1 DEF Searches
        <5>3. QED
          BY <5>2, FewPaths
      <4>2. CASE "root" \notin readable
        <5>1. Those(Tail(searched), readable) = << >>
          BY <3>3, <4>2
        <5>2. Searches(searched, readable) = << "project" >> \o << >>
          BY <3>2, <5>1 DEF Searches
        <5>3. << "project" >> \in Seq(Paths)
          BY FewPaths
        <5>4. QED
          BY <5>2, <5>3, ConcatEmptySeq
      <4>3. QED
        BY <4>1, <4>2
    <3>5. l.cfg.providers \in Seq(ProviderRecord)
      BY <1>2, <2>2, <3>4, LoadFromRight
    <3>6. QED
      BY <2>4, <3>5
  <2>5. QED
    BY <1>2, <2>3, <2>4
<1>8. QED
  BY <1>2, <1>6, <1>7

-----------------------------------------------------------------------------
(***************************************************************************)
(* What the files say, in the words of the properties.                     *)
(***************************************************************************)
SaidEvents(event) == Decides(LAMBDA l : Commands(l.hooks, event), << >>)
SaidBackend == Decides(LAMBDA l : l.backend, Unset)
SaidDefault == Decides(LAMBDA l : l.default, Unset)
SaidThreshold == Decides(LAMBDA l : l.threshold, << >>)
SaidDirs == Decides(LAMBDA l : l.write_dirs, << >>)

LEMMA SaidAre ==
  /\ \A n : Said(n) = Last(Highest(ProvidersSaid(Layers, n), << >>))
  /\ \A e : SaidEvents(e) = Highest(CommandsSaid(Layers, e), << >>)
  /\ SaidBackend = Highest(BackendsSaid(Layers), Unset)
  /\ SaidDefault = Highest(DefaultsSaid(Layers), Unset)
  /\ SaidThreshold = Highest(ThresholdsSaid(Layers), << >>)
  /\ SaidDirs = Highest(DirsSaid(Layers), << >>)
<1>1. ASSUME NEW n PROVE Said(n) = Last(Highest(ProvidersSaid(Layers, n), << >>))
  BY DEF Said, Decides, ProvidersSaid, SaysProvider, OfName
<1>2. ASSUME NEW e PROVE SaidEvents(e) = Highest(CommandsSaid(Layers, e), << >>)
  BY DEF SaidEvents, Decides, CommandsSaid
<1>3. /\ SaidBackend = Highest(BackendsSaid(Layers), Unset)
      /\ SaidDefault = Highest(DefaultsSaid(Layers), Unset)
      /\ SaidThreshold = Highest(ThresholdsSaid(Layers), << >>)
      /\ SaidDirs = Highest(DirsSaid(Layers), << >>)
  BY DEF SaidBackend, SaidDefault, SaidThreshold, SaidDirs, Decides, BackendsSaid, DefaultsSaid,
         ThresholdsSaid, DirsSaid
<1>4. QED
  BY <1>1, <1>2, <1>3

LEMMA SaidNamesAre ==
  ASSUME Layers \in Seq(Content)
  PROVE  SaidNames = NamesSaid(Layers) /\ FirstSaid = WithProviders(Layers)[1].providers[1].name
<1>1. FirstSaid = WithProviders(Layers)[1].providers[1].name
  BY DEF FirstSaid, WithProviders
<1>2. SaidNames = NamesSaid(Layers)
  BY DEF SaidNames, NamesSaid, NamesOf, ToSet
<1>3. QED
  BY <1>1, <1>2

\* What the files decide of a configuration, the records of its providers apart.
Settings(c) ==
  /\ c \in Reading /\ Distinct(c.providers)
  /\ NamesOf(c.providers) = SaidNames
  /\ \A n \in SaidNames : Said(n).context_window >= 0
  /\ \A e \in Events : Commands(c.hooks, e) = SaidEvents(e)
  /\ c.backend = Overlaid("none", SaidBackend, Unset)
  /\ AutoCompressEnabled(c) <=> SaidThreshold # << 0 >>
  /\ c.write_dirs = SaidDirs

AsRead(c) ==
  /\ Settings(c)
  /\ \A x \in ToSet(c.providers) : x = Said(x.name)
  /\ c.default = Overlaid(FirstSaid, SaidDefault, Unset)

AsUsed(c, chosen) ==
  /\ Settings(c)
  /\ \A x \in ToSet(c.providers) :
       x = [Said(x.name) EXCEPT !.model = IF x.name = chosen THEN Overlaid(@, world.model, Unset)
                                          ELSE @]
  /\ chosen \in SaidNames
  /\ chosen = Overlaid(Overlaid(FirstSaid, SaidDefault, Unset), world.provider, Unset)

LEMMA EventsAre ==
  ASSUME Layers \in Seq(Content)
  PROVE  Events \subseteq STRING
<1>1. ASSUME NEW l \in ToSet(Layers), NEW j \in DOMAIN l.hooks PROVE l.hooks[j].event \in STRING
  <2>1. l \in Content
    BY SetOfSeq
  <2>2. l.hooks \in Seq(HookRecord)
    BY <2>1 DEF Content
  <2>3. l.hooks[j] \in HookRecord
    BY <2>2, LenProperties, ElementOfSeq
  <2>4. QED
    BY <2>3 DEF HookRecord
<1>2. QED
  BY <1>1 DEF Events, ToSet

\* A configuration that is loaded.
LEMMA LoadedAsRead ==
  ASSUME world \in World, world.home,
         NEW l, l = Load(world.files, world.home, world.explicit), l.err = "nil"
  PROVE  AsRead(l.cfg)
<1>1. PICK ls : ls = Layers
  OBVIOUS
<1>2. PICK c, d : c = FoldLeft(Merge, Default, ls) /\ d = l.cfg
  OBVIOUS
<1>3. ls \in Seq(Content) /\ d = ApplyDefaults(c) /\ Validate(d)
  BY <1>1, <1>2, LoadRight
<1>4. ReadFrom(ls, c)
  BY <1>2, <1>3, FilesRead
<1>5. /\ d \in Reading
      /\ d.providers = c.providers /\ d.hooks = c.hooks /\ d.write_dirs = c.write_dirs
      /\ d.backend = c.backend
      /\ d.threshold = IF c.threshold = << >> THEN << DefaultAutoCompressThreshold >>
                       ELSE c.threshold
      /\ d.default = IF c.default = Unset /\ c.providers # << >> THEN c.providers[1].name
                     ELSE c.default
  BY <1>3, <1>4, DefaultsApplied
<1>6. /\ d.providers \in Seq(ProviderRecord) /\ d.providers # << >>
  BY <1>3, <1>5 DEF Reading, Validate
<1>7. NamesOf(d.providers) = SaidNames
  BY <1>1, <1>3, <1>4, <1>5, SaidNamesAre DEF ReadFrom
<1>8. \A x \in ToSet(d.providers) : x = Said(x.name) /\ x.context_window >= 0
  <2>1. ASSUME NEW x \in ToSet(d.providers) PROVE x = Said(x.name)
    BY <1>1, <1>4, <1>5, SaidAre DEF ReadFrom
  <2>2. ASSUME NEW x \in ToSet(d.providers) PROVE x.context_window >= 0
    <3>1. PICK i \in DOMAIN d.providers : x = d.providers[i]
      BY DEF ToSet
    <3>2. QED
      BY <1>3, <3>1 DEF Validate, ValidProvider
  <2>3. QED
    BY <2>1, <2>2
<1>9. \A n \in SaidNames : Said(n).context_window >= 0
  BY <1>7, <1>8 DEF NamesOf
<1>10. \A e \in Events : Commands(d.hooks, e) = SaidEvents(e)
  BY <1>1, <1>3, <1>4, <1>5, SaidAre, EventsAre DEF ReadFrom
<1>11. d.backend = Overlaid("none", SaidBackend, Unset) /\ d.write_dirs = SaidDirs
  BY <1>1, <1>4, <1>5, SaidAre DEF ReadFrom
<1>12. AutoCompressEnabled(d) <=> SaidThreshold # << 0 >>
  <2>1. PICK t : t = SaidThreshold
    OBVIOUS
  <2>2. c.threshold = t
    BY <1>1, <1>4, <2>1, SaidAre DEF ReadFrom
  <2>3. t \in Seq(Int) /\ Len(t) <= 1
    BY <1>4, <2>2 DEF ReadFrom, Reading
  <2>4. CASE t = << >>
    <3>1. d.threshold = << 80 >>
      BY <1>5, <2>2, <2>4 DEF DefaultAutoCompressThreshold
    <3>2. AutoCompressEnabled(d)
      BY <3>1 DEF AutoCompressEnabled
    <3>3. << 0 >> # << >>
      OBVIOUS
    <3>4. QED
      BY <2>1, <2>4, <3>2, <3>3
  <2>5. CASE t # << >>
    <3>1. d.threshold = t
      BY <1>5, <2>2, <2>5
    <3>2. Len(t) = 1 /\ DOMAIN t = 1 .. 1
      <4>1. Len(t) \in Nat /\ DOMAIN t = 1 .. Len(t)
        BY <2>3, LenProperties
      <4>2. Len(t) # 0
        BY <2>3, <2>5, EmptySeq
      <4>3. Len(t) = 1
        BY <2>3, <4>1, <4>2
      <4>4. QED
        BY <4>1, <4>3
    <3>3. t[1] \in 0 .. 100
      BY <1>3, <3>1, <3>2 DEF Validate
    <3>4. AutoCompressEnabled(d) <=> t[1] > 0
      BY <2>5, <3>1 DEF AutoCompressEnabled
    <3>5. t = << 0 >> <=> t[1] = 0
      <4>1. PICK z : z = << 0 >>
        OBVIOUS
      <4>2. z \in Seq(Int) /\ Len(z) = 1 /\ z[1] = 0
        BY <4>1
      <4>3. t[1] = 0 => t = z
        <5>1. t[1] = 0 => \A i \in 1 .. Len(t) : t[i] = z[i]
          BY <3>2, <4>2
        <5>2. QED
          BY <2>3, <3>2, <4>2, <5>1, SeqEqual
      <4>4. QED
        BY <4>1, <4>2, <4>3
    <3>6. QED
      BY <2>1, <3>3, <3>4, <3>5
  <2>6. QED
    BY <2>4, <2>5
<1>13. d.default = Overlaid(FirstSaid, SaidDefault, Unset)
  <2>1. c.providers[1].name = FirstSaid
    BY <1>1, <1>3, <1>4, <1>5, <1>6, SaidNamesAre DEF ReadFrom
  <2>2. c.default = SaidDefault
    BY <1>1, <1>4, SaidAre DEF ReadFrom
  <2>3. QED
    BY <1>5, <1>6, <2>1, <2>2 DEF Overlaid
<1>14. Distinct(d.providers)
  BY <1>4, <1>5 DEF ReadFrom
<1>15. QED
  BY <1>2, <1>5, <1>7, <1>8, <1>9, <1>10, <1>11, <1>12, <1>13, <1>14 DEF AsRead, Settings

-----------------------------------------------------------------------------
(***************************************************************************)
(* The personas of the runtime.                                            *)
(***************************************************************************)
\* Joined, along a sequence.
JoinedFold(base, E) == [s \in Seq(E) |-> FoldLeft(Joined, base, s)]

JoinedDoes(V, E) == [q \in V \X E |-> Joined(q[1], q[2])]

LEMMA JoinedFolds ==
  ASSUME NEW V, NEW E, NEW base \in V,
         \A v \in V : \A e \in E : Joined(v, e) \in V
  PROVE  FoldLaws(JoinedFold(base, E), JoinedDoes(V, E), base, V, E)
<1>1. ASSUME NEW s \in Seq(E)
      PROVE  \E g : /\ Traced(g, V, base, Along(JoinedDoes(V, E), V, s, Len(s)), Len(s))
                    /\ FoldLeft(Joined, base, s) = g[Len(s)]
  <2>1. PICK n : n = Len(s)
    OBVIOUS
  <2>2. n \in Nat /\ DOMAIN s = 1 .. n /\ \A i \in 1 .. n : s[i] \in E
    BY <2>1, LenProperties, ElementOfSeq
  <2> DEFINE step == Along(JoinedDoes(V, E), V, s, n)
             It(f) == f = [t \in SUBSET (1 .. n) |->
                             IF t = {} THEN base ELSE Joined(f[t \ {Max(t)}], s[Max(t)])]
  <2>3. \A v \in V : \A k \in 1 .. n : step[<< v, k >>] = Joined(v, s[k])
    BY <2>2 DEF Along, JoinedDoes
  <2>4. step \in [V \X (1 .. n) -> V]
    BY <2>2 DEF Along, JoinedDoes
  <2> HIDE DEF step
  <2>5. \E f : It(f)
    <3>1. PICK f \in [SUBSET (1 .. n) -> V] : Iterates(f, base, step, n)
      BY <2>2, <2>4, IteratesExists
    <3>2. ASSUME NEW t \in SUBSET (1 .. n), t # {}
          PROVE  step[<< f[t \ {Max(t)}], Max(t) >>] = Joined(f[t \ {Max(t)}], s[Max(t)])
      <4>1. Max(t) \in 1 .. n
        BY <2>2, <3>2, MaxFound
      <4>2. f[t \ {Max(t)}] \in V
        OBVIOUS
      <4>3. QED
        BY <2>3, <4>1, <4>2
    <3>3. It(f)
      BY <3>1, <3>2 DEF Iterates
    <3>4. QED
      BY <3>3
  <2>6. \E f : It(f) /\ FoldLeft(Joined, base, s) = f[1 .. n]
    BY <2>2, <2>5 DEF FoldLeft, MapThenFoldSet
  <2>7. PICK f : It(f) /\ FoldLeft(Joined, base, s) = f[1 .. n]
    BY <2>6
  <2>8. f[{}] = base
    BY <2>7
  <2>9. ASSUME NEW k \in 1 .. n, f[1 .. k - 1] \in V
        PROVE  f[1 .. k] = step[<< f[1 .. k - 1], k >>]
    <3>1. 1 .. k \in SUBSET (1 .. n) /\ 1 .. k # {} /\ k \in Nat /\ k # 0
      BY <2>2, UpTo
    <3>2. Max(1 .. k) = k /\ (1 .. k) \ {k} = 1 .. k - 1
      BY <3>1, MaxUpTo
    <3>3. f[1 .. k] = Joined(f[1 .. k - 1], s[k])
      BY <2>7, <3>1, <3>2
    <3>4. QED
      BY <2>3, <2>9, <3>3
  <2> DEFINE g == [k \in 0 .. n |-> f[1 .. k]]
  <2> HIDE DEF It
  <2>10. Traced(g, V, base, step, n)
    BY <2>2, <2>4, <2>8, <2>9, TracedBy
  <2>11. g[n] = f[1 .. n]
    BY <2>2
  <2> HIDE DEF g
  <2>12. QED
    BY <2>1, <2>7, <2>10, <2>11 DEF step
<1>2. FoldsAs(JoinedFold(base, E), JoinedDoes(V, E), base, V, E)
  BY <1>1 DEF FoldsAs, JoinedFold
<1>3. QED
  BY <1>2, FoldObeys

LEMMA ParsedType ==
  ASSUME NEW roots \in Seq(Seq(Definitions))
  PROVE  Parsed(roots) \in Seq(Definitions)
<1>1. PICK files : files = FlattenSeq(roots)
  OBVIOUS
<1>2. files \in Seq(Definitions)
  BY <1>1, FlattenType
<1> DEFINE T == {f \in ToSet(files) : f.parses}
<1>3. Parsed(roots) = Those(files, T)
  BY <1>1 DEF Parsed
<1> HIDE DEF T
<1>4. QED
  BY <1>2, <1>3, ThoseType

\* Discover: the definition of a name that counts is the last that can be read.
LEMMA DiscoverRight ==
  ASSUME NEW roots \in Seq(Seq(Definitions))
  PROVE  /\ Discover(roots) \in Seq(Definitions)
         /\ \A x \in ToSet(Discover(roots)) : x = Last(OfName(Parsed(roots), x.name))
<1>1. << >> \in Lists(Definitions)
  BY NothingListed
<1>2. Parsed(roots) \in Seq(Definitions)
  BY ParsedType
<1>3. LaidOver(Definitions, << >>, Parsed(roots), MergeByName(<< >>, Parsed(roots)))
  BY <1>1, <1>2, MergeRight
<1>4. Discover(roots) = MergeByName(<< >>, Parsed(roots))
  BY DEF Discover, MergeByName
<1>5. ToSet(<< >>) = {}
  BY SetOfNothing
<1>6. PICK r : r = Discover(roots)
  OBVIOUS
<1>7. PICK over : over = Parsed(roots)
  OBVIOUS
<1>8. LaidOver(Definitions, << >>, over, r)
  BY <1>3, <1>4, <1>6, <1>7
<1>9. r \in Seq(Definitions)
  BY <1>8 DEF LaidOver, Lists
<1>10. ASSUME NEW x \in ToSet(r) PROVE x = Last(OfName(over, x.name))
  BY <1>5, <1>8 DEF LaidOver
<1>11. QED
  BY <1>6, <1>7, <1>9, <1>10

\* Definition, in the world's files.
LEMMA DefinitionIs == \A name : Definition(name) = Last(OfName(Parsed(world.roots), name))
BY DEF Definition, OfName

LEMMA ValidateType ==
  ASSUME NEW q \in Definitions
  PROVE  /\ ValidatePersona(q) \in Definitions
         /\ ValidatePersona(q).name = q.name /\ ValidatePersona(q).model = q.model
         /\ ValidatePersona(q).agents = q.agents
         /\ ValidatePersona(q).tools = Those(q.tools, KnownTools)
<1>1. PICK t : t = Those(q.tools, KnownTools)
  OBVIOUS
<1>2. q.tools \in Seq(STRING)
  BY DEF Definitions
<1>3. t \in Seq(STRING)
  BY <1>1, <1>2, ThoseType
<1>4. ValidatePersona(q) = [q EXCEPT !.tools = t]
  BY <1>1 DEF ValidatePersona
<1>5. QED
  BY <1>1, <1>3, <1>4 DEF Definitions

\* newPersonaRuntime: whom it has is defined, and does not forbid it.
LEMMA RuntimeRight ==
  ASSUME NEW defs \in Seq(Definitions)
  PROVE  /\ NewPersonaRuntime(defs) \in Seq(Definitions)
         /\ \A p \in ToSet(NewPersonaRuntime(defs)) :
              \E q \in ToSet(defs) : p = ValidatePersona(q) /\ ~ q.disabled
<1> DEFINE T == {p \in ToSet(defs) : ModelInvocable(p)}
           F == JoinedFold(<< >>, Definitions)
           op == JoinedDoes(Seq(Definitions), Definitions)
<1>1. NewPersonaRuntime(defs) = FoldLeft(Joined, << >>, Those(defs, T))
  BY DEF NewPersonaRuntime
<1>2. \A x \in T : x \in ToSet(defs) /\ ~ x.disabled
  BY DEF ModelInvocable
<1> HIDE DEF T
<1>3. Those(defs, T) \in Seq(Definitions)
  BY ThoseType
<1>4. ToSet(Those(defs, T)) \subseteq T
  BY ThoseSet
<1>5. << >> \in Seq(Definitions)
  BY EmptySeq
<1>6. ASSUME NEW v \in Seq(Definitions), NEW p \in Definitions
      PROVE  /\ Joined(v, p) \in Seq(Definitions)
             /\ ToSet(Joined(v, p)) \subseteq ToSet(v) \cup {ValidatePersona(p)}
  <2>1. CASE Named(v, p.name) = {}
    <3>1. Joined(v, p) = Append(v, ValidatePersona(p))
      BY <2>1 DEF Joined
    <3>2. ValidatePersona(p) \in Definitions
      BY ValidateType
    <3>3. QED
      BY <3>1, <3>2, AppendProperties, SetOfAppend
  <2>2. CASE Named(v, p.name) # {}
    <3>1. Joined(v, p) = v
      BY <2>2 DEF Joined
    <3>2. QED
      BY <3>1
  <2>3. QED
    BY <2>1, <2>2
<1>7. FoldLaws(F, op, << >>, Seq(Definitions), Definitions)
  <2>1. \A v \in Seq(Definitions) : \A p \in Definitions : Joined(v, p) \in Seq(Definitions)
    BY <1>6
  <2>2. QED
    BY <1>5, <2>1, JoinedFolds
<1>8. \A s \in Seq(Definitions) : F[s] = FoldLeft(Joined, << >>, s)
  BY DEF JoinedFold
<1>9. \A v \in Seq(Definitions) : \A p \in Definitions : op[<< v, p >>] = Joined(v, p)
  BY DEF JoinedDoes
<1> HIDE DEF F, op
<1> DEFINE R(s) == F[s] \in Seq(Definitions)
                   /\ \A x \in ToSet(F[s]) : \E q \in ToSet(s) : x = ValidatePersona(q)
           U == {s \in Seq(Definitions) : R(s)}
<1>10. << >> \in U
  <2>1. F[<< >>] = << >>
    BY <1>7 DEF FoldLaws
  <2>2. ToSet(<< >>) = {}
    BY SetOfNothing
  <2>3. QED
    BY <1>5, <2>1, <2>2
<1>11. ASSUME NEW s \in Seq(Definitions), NEW p \in Definitions, s \in U PROVE Append(s, p) \in U
  <2>1. F[Append(s, p)] = op[<< F[s], p >>] /\ F[s] \in Seq(Definitions)
    BY <1>7 DEF FoldLaws
  <2>2. F[Append(s, p)] = Joined(F[s], p)
    BY <1>9, <2>1
  <2>3. Append(s, p) \in Seq(Definitions) /\ ToSet(Append(s, p)) = ToSet(s) \cup {p}
    BY AppendProperties, SetOfAppend
  <2>4. R(s)
    BY <1>11
  <2>5. /\ Joined(F[s], p) \in Seq(Definitions)
        /\ ToSet(Joined(F[s], p)) \subseteq ToSet(F[s]) \cup {ValidatePersona(p)}
    BY <1>6, <2>1
  <2>6. R(Append(s, p))
    BY <2>2, <2>3, <2>4, <2>5
  <2>7. QED
    BY <2>3, <2>6
<1>12. \A s \in Seq(Definitions) : s \in U
  <2> HIDE DEF U
  <2>1. QED
    BY <1>10, <1>11, SeqInductive
<1>13. R(Those(defs, T))
  BY <1>3, <1>12
<1>14. QED
  BY <1>1, <1>2, <1>3, <1>4, <1>8, <1>13

\* Whoever the runtime has is the definition that counts, its tools the known ones.
LEMMA PersonaRight ==
  ASSUME world \in World, personas \in {Discover(world.roots), << >>},
         NEW name, Named(Runtime, name) # {}
  PROVE  /\ Definition(name) \in Definitions
         /\ Persona(name) = ValidatePersona(Definition(name)) /\ ~ Definition(name).disabled
<1>1. PICK roots : roots = world.roots
  OBVIOUS
<1>2. roots \in Seq(Seq(Definitions))
  BY <1>1 DEF World
<1>3. personas \in Seq(Definitions)
  <2>1. << >> \in Seq(Definitions)
    BY EmptySeq
  <2>2. Discover(roots) \in Seq(Definitions)
    BY <1>2, DiscoverRight
  <2>3. QED
    BY <1>1, <2>1, <2>2
<1>4. \A q \in ToSet(personas) : q = Definition(q.name)
  <2>1. ToSet(<< >>) = {}
    BY SetOfNothing
  <2>2. \A x \in ToSet(Discover(roots)) : x = Last(OfName(Parsed(roots), x.name))
    BY <1>2, DiscoverRight
  <2>3. QED
    BY <1>1, <2>1, <2>2, DefinitionIs
<1>5. PICK i \in Named(Runtime, name) : Persona(name) = Runtime[i]
  BY DEF Persona
<1>6. Runtime[i].name = name /\ Runtime[i] \in ToSet(Runtime)
  BY <1>5 DEF Named, ToSet
<1>7. PICK q \in ToSet(personas) : Runtime[i] = ValidatePersona(q) /\ ~ q.disabled
  BY <1>3, <1>6, RuntimeRight DEF Runtime
<1>8. q \in Definitions
  BY <1>3, SetOfSeq
<1>9. q.name = name
  BY <1>6, <1>7, <1>8, ValidateType
<1>10. QED
  BY <1>4, <1>5, <1>7, <1>8, <1>9

\* The tools of a persona.
LEMMA ToolsRight ==
  ASSUME NEW d \in Definitions, NEW p, p = ValidatePersona(d)
  PROVE  LET known == ToSet(d.tools) \cap KnownTools
         IN  /\ RunSubagentTool \in PersonaTools(p) => RunSubagentTool \in ToSet(d.tools)
             /\ (d.tools = << >> \/ known # {}) =>
                  PersonaTools(p) = IF d.tools = << >> THEN Builtins ELSE known
<1>1. d.tools \in Seq(STRING) /\ p.tools = Those(d.tools, KnownTools)
  BY ValidateType DEF Definitions
<1>2. PICK known : known = ToSet(d.tools) \cap KnownTools
  OBVIOUS
<1>3. /\ ToSet(p.tools) = known
      /\ p.tools = << >> <=> known = {}
  BY <1>1, <1>2, ThoseSet, ThoseNone
<1>4. PersonaTools(p) = (IF p.tools = << >> THEN Builtins ELSE Builtins \cap known)
                           \cup (known \cap {RunSubagentTool})
  BY <1>3 DEF PersonaTools, BuildFor
<1>5. RunSubagentTool \notin Builtins
  BY BuiltinsAssumption
<1>6. d.tools = << >> => known = {}
  <2>1. ToSet(<< >>) = {}
    BY SetOfNothing
  <2>2. QED
    BY <1>2, <2>1
<1>7. known \subseteq Builtins \cup {RunSubagentTool} /\ known \subseteq ToSet(d.tools)
  BY <1>2 DEF KnownTools
<1>8. RunSubagentTool \in PersonaTools(p) => RunSubagentTool \in ToSet(d.tools)
  BY <1>4, <1>5, <1>7
<1>9. ASSUME d.tools = << >> PROVE PersonaTools(p) = Builtins
  BY <1>3, <1>4, <1>6, <1>9
<1>10. ASSUME known # {} PROVE PersonaTools(p) = known /\ d.tools # << >>
  BY <1>3, <1>4, <1>5, <1>6, <1>7, <1>10
<1>11. QED
  BY <1>2, <1>8, <1>9, <1>10

-----------------------------------------------------------------------------
(***************************************************************************)
(* The inductive invariant.                                                *)
(***************************************************************************)
Begun == {"windows", "running", "crashed"}

Confined ==
  /\ sandbox.asked = Overlaid(Overlaid("none", SaidBackend, Unset), world.env, Unset)
  /\ (sandbox.asked = "landlock" /\ world.machine # "other") => sandbox.active
  /\ sandbox.active =>
       sandbox.allowed = (DefaultWriteDirs \cup ToSet(SaidDirs)) \ sandbox.unusable

\* The entry of a provider in the map, and what is written there.
Probed(n) ==
  /\ probes[n] \in {"idle", "asking", "writing", "done"}
  /\ found[n] \in Nat /\ windows[n] \in Nat
  /\ probes[n] \in {"idle", "asking"} => found[n] = 0 /\ windows[n] = 0 /\ n \notin raced
  /\ probes[n] = "asking" => Provider(n).context_window = 0
  /\ probes[n] \in {"writing", "done"} /\ Provider(n).context_window > 0 =>
       found[n] = Provider(n).context_window
  /\ Provider(n).context_window = 0 /\ found[n] # 0 =>
       \E list \in Listings : found[n] = LookupContextWindow(list, Provider(n).model)
  /\ probes[n] = "done" /\ n \notin raced => windows[n] = found[n]

Probing ==
  /\ DOMAIN probes = Names /\ DOMAIN found = Names /\ DOMAIN windows = Names
  /\ \A n \in Names : Probed(n)
  /\ \A i \in DOMAIN cfg.providers : next <= i => probes[cfg.providers[i].name] = "idle"
  /\ raced \subseteq Names

Shown ==
  IF stage = "running"
  THEN /\ DOMAIN shown = Names
       /\ \A n \in Names : shown[n] = Window(n) /\ probes[n] = "done"
  ELSE DOMAIN shown = {}

\* A call is of a persona of the runtime, by one that may.
Invited(c) ==
  /\ Named(Runtime, c.name) # {}
  /\ c.caller # "main" =>
       LET d == Definition(c.caller)
       IN  RunSubagentTool \in ToSet(d.tools) /\ (d.agents.any \/ c.name \in d.agents.names)

StartInv ==
  /\ world \in Worlds
  /\ stage \in {"load", "select", "failed"} \cup Chosen
  /\ cfg.providers \in Seq(ProviderRecord)
  /\ stage = "select" /\ world.home => AsRead(cfg)
  /\ stage \in Chosen => AsUsed(cfg, current)
  /\ personas \in {Discover(world.roots), << >>}
  /\ DOMAIN providers \subseteq Names
  /\ stage \in {"load", "select", "discover", "build"} => DOMAIN providers = {}
  /\ next \in 1 .. Len(cfg.providers) + 1
  /\ stage \notin Begun =>
       next = 1 /\ raced = {} /\ \A n \in DOMAIN probes : probes[n] = "idle"
  /\ stage \in Begun => Confined /\ Probing
  /\ Shown
  /\ stage # "running" => calls = {}
  /\ \A c \in calls : Invited(c)

-----------------------------------------------------------------------------
(***************************************************************************)
(* What a step that changes nothing of it leaves as it is.                 *)
(***************************************************************************)

\* What the files say stays.
LEMMA LayersKept ==
  ASSUME world' = world
  PROVE  Layers' = Layers
BY DEF Layers

\* What they say of the settings stays.
LEMMA SaidKept ==
  ASSUME world' = world
  PROVE  /\ SaidNames' = SaidNames /\ FirstSaid' = FirstSaid /\ Events' = Events
         /\ SaidBackend' = SaidBackend /\ SaidDefault' = SaidDefault
         /\ SaidThreshold' = SaidThreshold /\ SaidDirs' = SaidDirs
BY DEF SaidNames, FirstSaid, Events, SaidBackend, SaidDefault, SaidThreshold, SaidDirs, Decides,
       Layers

\* What they say of a provider, of an event and of a persona stays.
LEMMA NameKept ==
  ASSUME world' = world, NEW n
  PROVE  Said(n)' = Said(n) /\ SaidEvents(n)' = SaidEvents(n) /\ Definition(n)' = Definition(n)
BY DEF Said, SaidEvents, Decides, Layers, Definition

\* A configuration in use stays one.
LEMMA UsedKept ==
  ASSUME world' = world, cfg' = cfg, current' = current
  PROVE  AsUsed(cfg, current)' = AsUsed(cfg, current)
BY DEF AsUsed, Settings, SaidNames, FirstSaid, Events, SaidBackend, SaidDefault, SaidThreshold,
       SaidDirs, Decides, Layers, Said, SaidEvents

\* The providers stay.
LEMMA ProvidersKept ==
  ASSUME cfg' = cfg
  PROVE  Names' = Names /\ \A n : Provider(n)' = Provider(n)
BY DEF Names, Provider

\* The calls stay ones that are allowed.
LEMMA InvitedKept ==
  ASSUME world' = world, personas' = personas, NEW c
  PROVE  Invited(c)' = Invited(c)
BY DEF Invited, Definition, Runtime

\* The sandbox stays what it is.
LEMMA ConfinedKept ==
  ASSUME world' = world, sandbox' = sandbox
  PROVE  Confined' = Confined
BY DEF Confined, SaidBackend, SaidDirs, Decides, Layers

-----------------------------------------------------------------------------
(***************************************************************************)
(* The providers in use.                                                   *)
(***************************************************************************)
LEMMA NamesAre ==
  ASSUME cfg.providers \in Seq(ProviderRecord)
  PROVE  Names = NamesOf(cfg.providers) /\ DOMAIN cfg.providers = 1 .. Len(cfg.providers)
         /\ Len(cfg.providers) \in Nat
<1>1. PICK ps : ps = cfg.providers
  OBVIOUS
<1>2. DOMAIN ps = 1 .. Len(ps) /\ Len(ps) \in Nat
  BY <1>1, LenProperties
<1>3. Names = NamesOf(ps)
  BY <1>1 DEF Names, NamesOf, ToSet
<1>4. QED
  BY <1>1, <1>2, <1>3

\* The record of a name is the one that has it.
LEMMA ProviderIs ==
  ASSUME cfg.providers \in Seq(ProviderRecord), Distinct(cfg.providers),
         NEW i \in DOMAIN cfg.providers
  PROVE  /\ cfg.providers[i].name \in Names
         /\ Provider(cfg.providers[i].name) = cfg.providers[i]
<1>1. PICK ps : ps = cfg.providers
  OBVIOUS
<1>2. PICK at : at = Named(ps, ps[i].name)
  OBVIOUS
<1>3. at = {i}
  BY <1>1, <1>2, NamedOnce
<1>4. (CHOOSE k \in at : TRUE) = i
  BY <1>3
<1>5. QED
  BY <1>1, <1>2, <1>4 DEF Provider, Names

LEMMA NameAt ==
  ASSUME NEW n \in Names
  PROVE  \E i \in DOMAIN cfg.providers : n = cfg.providers[i].name
BY DEF Names

\* The record of a provider in use is what the files say of it, --model apart.
LEMMA ProviderSaid ==
  ASSUME cfg.providers \in Seq(ProviderRecord), AsUsed(cfg, current), NEW n \in Names
  PROVE  /\ Names = SaidNames /\ current \in Names
         /\ Provider(n) \in ProviderRecord /\ Provider(n).context_window \in Nat
         /\ Provider(n) = [Said(n) EXCEPT !.model = IF n = current
                              THEN Overlaid(@, world.model, Unset) ELSE @]
         /\ Provider(n).context_window = Said(n).context_window
<1>1. Distinct(cfg.providers) /\ NamesOf(cfg.providers) = SaidNames
  BY DEF AsUsed, Settings
<1>2. Names = SaidNames
  BY <1>1, NamesAre
<1>3. PICK i \in DOMAIN cfg.providers : n = cfg.providers[i].name
  BY NameAt
<1>4. PICK x : x = cfg.providers[i]
  OBVIOUS
<1>5. Provider(n) = x /\ x.name = n
  BY <1>1, <1>3, <1>4, ProviderIs
<1>6. x \in ProviderRecord
  BY <1>4, NamesAre, ElementOfSeq
<1>7. x \in ToSet(cfg.providers)
  BY <1>4 DEF ToSet
<1>8. x = [Said(n) EXCEPT !.model = IF n = current THEN Overlaid(@, world.model, Unset) ELSE @]
  BY <1>5, <1>7 DEF AsUsed
<1>9. x.context_window = Said(n).context_window
  BY <1>8
<1>10. x.context_window \in Int /\ Said(n).context_window >= 0
  BY <1>2, <1>6 DEF AsUsed, Settings, ProviderRecord
<1>11. x.context_window \in Nat
  BY <1>9, <1>10
<1>12. current \in Names
  BY <1>2 DEF AsUsed
<1>13. QED
  BY <1>2, <1>5, <1>6, <1>8, <1>9, <1>11, <1>12

-----------------------------------------------------------------------------
(***************************************************************************)
(* The steps up to the agents keep the invariant.                          *)
(***************************************************************************)
LEMMA ReadBecomes ==
  ASSUME NEW c, world' = world, cfg' = c
  PROVE  AsRead(cfg)' = AsRead(c)
BY DEF AsRead, Settings, SaidNames, FirstSaid, Events, SaidBackend, SaidDefault, SaidThreshold,
       SaidDirs, Decides, Layers, Said, SaidEvents

LEMMA UsedBecomes ==
  ASSUME NEW c, NEW chosen, world' = world, cfg' = c, current' = chosen
  PROVE  AsUsed(cfg, current)' = AsUsed(c, chosen)
BY DEF AsUsed, Settings, SaidNames, FirstSaid, Events, SaidBackend, SaidDefault, SaidThreshold,
       SaidDirs, Decides, Layers, Said, SaidEvents

LEMMA StartHolds ==
  ASSUME StartInit
  PROVE  StartInv
<1>1. cfg.providers = << >>
  BY DEF StartInit, Default, Empty
<1>2. PICK none : none = << >>
  OBVIOUS
<1>3. none \in Seq(ProviderRecord) /\ Len(none) = 0 /\ DOMAIN none = {}
  BY <1>2, EmptySeq
<1>4. cfg.providers \in Seq(ProviderRecord) /\ Len(cfg.providers) = 0
  BY <1>1, <1>2, <1>3
<1>5. DOMAIN providers = {} /\ DOMAIN shown = {} /\ DOMAIN probes = {}
  BY <1>2, <1>3 DEF StartInit
<1>6. personas \in {Discover(world.roots), << >>}
  BY DEF StartInit
<1>7. Shown
  BY <1>5 DEF Shown, StartInit
<1>8. QED
  BY <1>4, <1>5, <1>6, <1>7 DEF StartInv, StartInit, Chosen, Begun

LEMMA WorldIs == ASSUME StartInv PROVE world \in World
BY InputsAssumption DEF StartInv

LEMMA LoadSteps ==
  ASSUME StartInv, LoadConfig
  PROVE  StartInv'
<1>1. PICK l : /\ l = Load(world.files, world.home, world.explicit)
               /\ cfg' = l.cfg /\ stage' = IF l.err = "nil" THEN "select" ELSE "failed"
  BY DEF LoadConfig
<1>2. cfg'.providers \in Seq(ProviderRecord)
  BY <1>1, WorldIs, LoadRight
<1>3. Len(cfg'.providers) \in Nat
  BY <1>2, LenProperties
<1>4. ASSUME stage' = "select", world.home PROVE AsRead(cfg)'
  <2>1. l.err = "nil"
    BY <1>1, <1>4
  <2>2. AsRead(l.cfg)
    BY <1>1, <1>4, <2>1, WorldIs, LoadedAsRead
  <2>3. AsRead(cfg)' = AsRead(l.cfg)
    BY <1>1, ReadBecomes DEF LoadConfig
  <2>4. QED
    BY <2>2, <2>3
<1>5. /\ world' = world /\ personas' = personas /\ providers' = providers /\ next' = next
      /\ raced' = raced /\ probes' = probes /\ shown' = shown /\ calls' = calls
      /\ stage = "load" /\ stage' \in {"select", "failed"}
  BY <1>1 DEF LoadConfig
<1>6. DOMAIN providers = {} /\ DOMAIN shown = {} /\ calls = {} /\ next = 1 /\ raced = {}
      /\ \A n \in DOMAIN probes : probes[n] = "idle"
  BY <1>5 DEF StartInv, Shown, Begun
<1>7. Shown'
  BY <1>5, <1>6 DEF Shown
<1>8. world' \in Worlds /\ personas' \in {Discover(world'.roots), << >>}
  BY <1>5 DEF StartInv
<1>9. next' \in 1 .. Len(cfg'.providers) + 1
  BY <1>3, <1>5, <1>6
<1>10. QED
  BY <1>2, <1>4, <1>5, <1>6, <1>7, <1>8, <1>9 DEF StartInv, Chosen, Begun

\* --model changes the record of the provider in use, and no other.
LEMMA ModelSet ==
  ASSUME world \in World, AsRead(cfg),
         NEW chosen, chosen = Overlaid(cfg.default, world.provider, Unset),
         NEW at, at = Named(cfg.providers, chosen), at # {},
         NEW c, c = [cfg EXCEPT !.providers = WithModel(@, at, world.model)]
  PROVE  c.providers \in Seq(ProviderRecord) /\ AsUsed(c, chosen)
<1>1. PICK ps, qs, m : ps = cfg.providers /\ m = world.model /\ qs = WithModel(ps, at, m)
  OBVIOUS
<1>2. ps \in Seq(ProviderRecord) /\ Distinct(ps) /\ NamesOf(ps) = SaidNames
  BY <1>1 DEF AsRead, Settings, Reading
<1>19. cfg \in Reading
  BY DEF AsRead, Settings
<1>3. /\ c = [cfg EXCEPT !.providers = qs]
      /\ qs = [i \in DOMAIN ps |-> IF i \in at
                 THEN [ps[i] EXCEPT !.model = Overlaid(@, m, Unset)] ELSE ps[i]]
  BY <1>1 DEF WithModel
<1>4. at \subseteq DOMAIN ps /\ \A i \in DOMAIN ps : i \in at <=> ps[i].name = chosen
  BY <1>1 DEF Named
<1>5. Len(ps) \in Nat /\ DOMAIN ps = 1 .. Len(ps) /\ \A i \in DOMAIN ps : ps[i] \in ProviderRecord
  BY <1>2, LenProperties, ElementOfSeq
<1>6. m \in STRING
  BY <1>1 DEF World
<1>7. ASSUME NEW i \in DOMAIN ps
      PROVE  /\ qs[i] \in ProviderRecord /\ qs[i].name = ps[i].name
             /\ qs[i] = [ps[i] EXCEPT !.model = IF ps[i].name = chosen
                           THEN Overlaid(@, m, Unset) ELSE @]
  <2>1. ps[i] \in ProviderRecord
    BY <1>5
  <2>2. PICK o : o = Overlaid(ps[i].model, m, Unset)
    OBVIOUS
  <2>3. o \in STRING
    BY <1>6, <2>1, <2>2 DEF Overlaid, ProviderRecord
  <2>4. CASE i \in at
    <3>1. qs[i] = [ps[i] EXCEPT !.model = o]
      BY <1>3, <2>2, <2>4
    <3>2. ps[i].name = chosen
      BY <1>4, <2>4
    <3>3. QED
      BY <2>1, <2>2, <2>3, <3>1, <3>2 DEF ProviderRecord
  <2>5. CASE i \notin at
    <3>1. qs[i] = ps[i] /\ ps[i].name # chosen
      BY <1>3, <1>4, <2>5
    <3>2. QED
      BY <2>1, <3>1 DEF ProviderRecord
  <2>6. QED
    BY <2>4, <2>5
<1>8. DOMAIN qs = DOMAIN ps
  BY <1>3
<1>9. qs \in Seq(ProviderRecord)
  <2>1. PICK n : n = Len(ps)
    OBVIOUS
  <2>2. qs = [i \in 1 .. n |-> qs[i]]
    BY <1>3, <1>5, <2>1
  <2>3. \A i \in 1 .. n : qs[i] \in ProviderRecord
    BY <1>5, <1>7, <2>1
  <2>4. qs \in [1 .. n -> ProviderRecord]
    BY <2>2, <2>3
  <2>5. QED
    BY <1>5, <2>1, <2>4
<1>10. Distinct(qs)
  BY <1>2, <1>7, <1>8 DEF Distinct
<1>11. NamesOf(qs) = NamesOf(ps)
  BY <1>7, <1>8 DEF NamesOf, ToSet
<1>12. /\ c.hooks = cfg.hooks /\ c.backend = cfg.backend /\ c.write_dirs = cfg.write_dirs
       /\ c.threshold = cfg.threshold /\ c.providers = qs
  BY <1>1, <1>3, <1>19 DEF Reading
<1>18. c \in Reading
  BY <1>3, <1>9, <1>19 DEF Reading
<1>13. Settings(c)
  BY <1>2, <1>18, <1>10, <1>11, <1>12 DEF AsRead, Settings, AutoCompressEnabled
<1>14. ASSUME NEW x \in ToSet(qs)
       PROVE  x = [Said(x.name) EXCEPT !.model = IF x.name = chosen THEN Overlaid(@, m, Unset)
                                                 ELSE @]
  <2>1. PICK i \in DOMAIN ps : x = qs[i]
    BY <1>8 DEF ToSet
  <2>2. ps[i] \in ToSet(ps)
    BY DEF ToSet
  <2>3. ps[i] = Said(ps[i].name)
    BY <1>1, <2>2 DEF AsRead
  <2>4. QED
    BY <1>7, <2>1, <2>3
<1>15. chosen \in SaidNames
  <2>1. PICK i \in DOMAIN ps : ps[i].name = chosen
    BY <1>4
  <2>2. QED
    BY <1>2, <2>1 DEF NamesOf, ToSet
<1>16. chosen = Overlaid(Overlaid(FirstSaid, SaidDefault, Unset), world.provider, Unset)
  BY DEF AsRead
<1>17. QED
  BY <1>1, <1>9, <1>12, <1>13, <1>14, <1>15, <1>16 DEF AsUsed

LEMMA SelectSteps ==
  ASSUME StartInv, Select
  PROVE  StartInv'
<1>1. PICK chosen, at : /\ chosen = Overlaid(cfg.default, world.provider, Unset)
                        /\ at = Named(cfg.providers, chosen)
  OBVIOUS
<1>2. /\ world' = world /\ personas' = personas /\ providers' = providers /\ next' = next
      /\ raced' = raced /\ probes' = probes /\ shown' = shown /\ calls' = calls
      /\ stage = "select"
  BY DEF Select
<1>3. /\ DOMAIN providers' = {} /\ DOMAIN shown' = {} /\ calls' = {} /\ next' = 1 /\ raced' = {}
      /\ \A n \in DOMAIN probes' : probes'[n] = "idle"
  BY <1>2 DEF StartInv, Shown, Begun
<1>4. world' \in Worlds /\ personas' \in {Discover(world'.roots), << >>}
  BY <1>2 DEF StartInv
<1>5. CASE ~ world.home \/ at = {}
  <2>1. stage' = "failed" /\ cfg' = cfg
    BY <1>1, <1>5 DEF Select
  <2>2. Shown'
    BY <1>3, <2>1 DEF Shown
  <2>3. cfg'.providers \in Seq(ProviderRecord) /\ next' \in 1 .. Len(cfg'.providers) + 1
    BY <1>2, <2>1 DEF StartInv
  <2>4. QED
    BY <1>3, <1>4, <2>1, <2>2, <2>3 DEF StartInv, Chosen, Begun
<1>6. CASE world.home /\ at # {}
  <2>1. PICK c : c = [cfg EXCEPT !.providers = WithModel(@, at, world.model)]
    OBVIOUS
  <2>2. stage' = "discover" /\ current' = chosen /\ cfg' = c
    BY <1>1, <1>6, <2>1 DEF Select
  <2>3. AsRead(cfg)
    BY <1>2, <1>6 DEF StartInv
  <2>4. c.providers \in Seq(ProviderRecord) /\ AsUsed(c, chosen)
    BY <1>1, <1>6, <2>1, <2>3, WorldIs, ModelSet
  <2>5. AsUsed(cfg, current)'
    BY <1>2, <2>2, <2>4, UsedBecomes
  <2>6. Shown'
    BY <1>3, <2>2 DEF Shown
  <2>7. Len(c.providers) \in Nat
    BY <2>4, LenProperties
  <2>8. next' \in 1 .. Len(cfg'.providers) + 1
    BY <1>3, <2>2, <2>7
  <2>9. QED
    BY <1>3, <1>4, <2>2, <2>4, <2>5, <2>6, <2>8 DEF StartInv, Chosen, Begun
<1>7. QED
  BY <1>5, <1>6

LEMMA FindSteps ==
  ASSUME StartInv, FindPersonas
  PROVE  StartInv'
<1>1. /\ world' = world /\ cfg' = cfg /\ current' = current /\ providers' = providers
      /\ next' = next /\ raced' = raced /\ probes' = probes /\ shown' = shown /\ calls' = calls
      /\ stage = "discover" /\ stage' = "build"
  BY DEF FindPersonas
<1>2. AsUsed(cfg, current)'
  <2>1. AsUsed(cfg, current)
    BY <1>1 DEF StartInv, Chosen
  <2>2. QED
    BY <1>1, <2>1, UsedKept
<1>3. Shown' /\ DOMAIN providers' = {} /\ calls' = {}
  BY <1>1 DEF StartInv, Shown
<1>4. personas' \in {Discover(world'.roots), << >>}
  BY <1>1 DEF FindPersonas
<1>5. QED
  BY <1>1, <1>2, <1>3, <1>4 DEF StartInv, Chosen, Begun

LEMMA BuildSteps ==
  ASSUME StartInv, BuildAgents
  PROVE  StartInv'
<1>1. /\ world' = world /\ cfg' = cfg /\ current' = current /\ personas' = personas
      /\ next' = next /\ raced' = raced /\ probes' = probes /\ shown' = shown /\ calls' = calls
      /\ stage = "build" /\ stage' \in {"sandbox", "failed"}
  BY DEF BuildAgents
<1>2. AsUsed(cfg, current)'
  <2>1. AsUsed(cfg, current)
    BY <1>1 DEF StartInv, Chosen
  <2>2. QED
    BY <1>1, <2>1, UsedKept
<1>3. Shown' /\ calls' = {} /\ personas' \in {Discover(world'.roots), << >>}
  BY <1>1 DEF StartInv, Shown
<1>4. DOMAIN providers' \subseteq Names'
  <2>1. Names' = Names
    BY <1>1, ProvidersKept
  <2>2. DOMAIN providers \subseteq Names
    BY DEF StartInv
  <2>3. DOMAIN providers' = Names \/ providers' = providers
    BY DEF BuildAgents
  <2>4. QED
    BY <2>1, <2>2, <2>3
<1>5. QED
  BY <1>1, <1>2, <1>3, <1>4 DEF StartInv, Chosen, Begun

-----------------------------------------------------------------------------
(***************************************************************************)
(* The sandbox.                                                            *)
(***************************************************************************)

\* A sandbox that is applied without an error fails closed on Linux.
LEMMA AppliedRight ==
  ASSUME world \in World, NEW backend, NEW unusable, NEW refused \in BOOLEAN,
         NEW r, r = Apply(backend, unusable, refused), ~ r.err
  PROVE  /\ (backend = "landlock" /\ world.machine # "other") => r.active
         /\ r.active => r.allowed = (DefaultWriteDirs \cup ToSet(cfg.write_dirs)) \ unusable
<1>1. PICK dirs : dirs = (DefaultWriteDirs \cup ToSet(cfg.write_dirs)) \ unusable
  OBVIOUS
<1>2. PICK l : l = Landlock(unusable, refused)
  OBVIOUS
<1>3. PICK on \in BOOLEAN :
        on <=> world.machine = "linux" /\ ~ refused /\ dirs # {}
  OBVIOUS
<1>4. l = [err |-> world.machine # "other" /\ ~ on, active |-> on,
           allowed |-> IF on THEN dirs ELSE {}]
  BY <1>1, <1>2, <1>3 DEF Landlock
<1>5. /\ backend = "none" => r = [err |-> FALSE, active |-> FALSE, allowed |-> {}]
      /\ backend = "auto" => r = [l EXCEPT !.err = FALSE]
      /\ backend = "landlock" => r = l
      /\ backend \notin {"none", "auto", "landlock"} =>
           r = [err |-> TRUE, active |-> FALSE, allowed |-> {}]
  BY <1>2 DEF Apply
<1>6. l.active => l.allowed = dirs
  BY <1>4
<1>7. world.machine # "other" /\ ~ l.err => l.active
  BY <1>4
<1>8. CASE backend = "none"
  BY <1>5, <1>8
<1>9. CASE backend = "auto"
  <2>1. r.active = l.active /\ r.allowed = l.allowed
    BY <1>4, <1>5, <1>9
  <2>2. QED
    BY <1>1, <1>6, <1>9, <2>1
<1>10. CASE backend = "landlock"
  BY <1>1, <1>5, <1>6, <1>7, <1>10
<1>11. CASE backend \notin {"none", "auto", "landlock"}
  BY <1>5, <1>11
<1>12. QED
  BY <1>8, <1>9, <1>10, <1>11

LEMMA ConfineSteps ==
  ASSUME StartInv, Confine
  PROVE  StartInv'
<1>1. /\ world' = world /\ cfg' = cfg /\ current' = current /\ personas' = personas
      /\ providers' = providers /\ next' = next /\ raced' = raced /\ shown' = shown
      /\ calls' = calls /\ stage = "sandbox"
      /\ probes' = [n \in Names |-> "idle"]
      /\ found' = [n \in Names |-> 0] /\ windows' = [n \in Names |-> 0]
  BY DEF Confine
<1>2. PICK unusable \in Unusables, refused \in BOOLEAN :
        \E backend, res :
          /\ backend = Overlaid(cfg.backend, world.env, Unset)
          /\ res = Apply(backend, unusable, refused)
          /\ stage' = IF res.err THEN "failed" ELSE "windows"
          /\ sandbox' = [asked |-> backend, active |-> res.active,
                         allowed |-> res.allowed, unusable |-> unusable]
  BY DEF Confine
<1>3. PICK backend, res :
        /\ backend = Overlaid(cfg.backend, world.env, Unset)
        /\ res = Apply(backend, unusable, refused)
        /\ stage' = IF res.err THEN "failed" ELSE "windows"
        /\ sandbox' = [asked |-> backend, active |-> res.active,
                       allowed |-> res.allowed, unusable |-> unusable]
  BY <1>2
<1>4. AsUsed(cfg, current) /\ cfg.providers \in Seq(ProviderRecord)
  BY <1>1 DEF StartInv, Chosen
<1>5. AsUsed(cfg, current)'
  BY <1>1, <1>4, UsedKept
<1>6. Names' = Names /\ stage' \in {"failed", "windows"}
  BY <1>1, <1>3, ProvidersKept
<1>7. Shown' /\ calls' = {} /\ personas' \in {Discover(world'.roots), << >>}
  BY <1>1, <1>6 DEF StartInv, Shown
<1>8. DOMAIN providers' \subseteq Names' /\ next' = 1 /\ raced' = {}
  BY <1>1, <1>6 DEF StartInv, Begun
<1>9. \A n \in Names' : probes'[n] = "idle" /\ found'[n] = 0 /\ windows'[n] = 0
  BY <1>1, <1>6
<1>10. Probing'
  <2>1. ASSUME NEW i \in DOMAIN cfg.providers PROVE probes'[cfg'.providers[i].name] = "idle"
    <3>1. cfg.providers[i].name \in Names
      BY DEF Names
    <3>2. QED
      BY <1>1, <3>1
  <2>2. ASSUME NEW n \in Names' PROVE Probed(n)'
    BY <1>8, <1>9 DEF Probed
  <2>3. QED
    BY <1>1, <1>6, <1>8, <2>1, <2>2 DEF Probing
<1>11. ASSUME stage' = "windows" PROVE Confined'
  <2>1. ~ res.err
    BY <1>3, <1>11
  <2>2. PICK dirs : dirs = (DefaultWriteDirs \cup ToSet(cfg.write_dirs)) \ unusable
    OBVIOUS
  <2>3. /\ (backend = "landlock" /\ world.machine # "other") => res.active
        /\ res.active => res.allowed = dirs
    BY <1>3, <2>1, <2>2, WorldIs, AppliedRight
  <2>4. cfg.backend = Overlaid("none", SaidBackend, Unset) /\ cfg.write_dirs = SaidDirs
    BY <1>4 DEF AsUsed, Settings
  <2>5. SaidBackend' = SaidBackend /\ SaidDirs' = SaidDirs
    BY <1>1, SaidKept
  <2>6. sandbox'.asked = Overlaid(Overlaid("none", SaidBackend', Unset), world'.env, Unset)
    BY <1>1, <1>3, <2>4, <2>5
  <2>7. (sandbox'.asked = "landlock" /\ world'.machine # "other") => sandbox'.active
    BY <1>1, <1>3, <2>3
  <2>8. sandbox'.active => sandbox'.allowed = (DefaultWriteDirs \cup ToSet(SaidDirs'))
                                                 \ sandbox'.unusable
    BY <1>3, <2>2, <2>3, <2>4, <2>5
  <2>9. QED
    BY <2>6, <2>7, <2>8 DEF Confined
<1>12. ASSUME stage' = "failed" PROVE \A n \in DOMAIN probes' : probes'[n] = "idle"
  BY <1>1
<1>13. world' \in Worlds /\ next' \in 1 .. Len(cfg'.providers) + 1
  BY <1>1 DEF StartInv
<1>14. QED
  BY <1>1, <1>4, <1>5, <1>6, <1>7, <1>8, <1>10, <1>11, <1>12, <1>13 DEF StartInv, Chosen, Begun

-----------------------------------------------------------------------------
(***************************************************************************)
(* The context windows.                                                    *)
(***************************************************************************)
Answers == [id : STRING, window : Int]

LEMMA FirstIn ==
  ASSUME NEW S, NEW s \in Seq(S), s # << >>
  PROVE  s[1] \in ToSet(s)
<1>1. Len(s) \in Nat /\ Len(s) # 0
  BY EmptySeq, LenProperties
<1>2. 1 \in 1 .. Len(s)
  BY <1>1
<1>3. QED
  BY <1>2, SetOfSeq

\* The size that is looked up is one the endpoint states, that of the model
\* itself if it states it.
LEMMA LookupRight ==
  ASSUME NEW list \in Seq(Answers), NEW model, NEW size, size = LookupContextWindow(list, model)
  PROVE  LET own == { i \in DOMAIN list : list[i].id = model /\ list[i].window > 0 }
         IN  /\ size \in Nat
             /\ size # 0 => size \in { list[i].window : i \in DOMAIN list }
             /\ own # {} => size \in { list[i].window : i \in own } /\ size # 0
<1>1. PICK states : states = Those(list, { m \in ToSet(list) : m.window > 0 })
  OBVIOUS
<1>2. PICK mine : mine = Those(states, { m \in ToSet(states) : m.id = model })
  OBVIOUS
<1>3. size = IF mine # << >> THEN mine[1].window
             ELSE IF states # << >> THEN states[1].window ELSE 0
  BY <1>1, <1>2 DEF LookupContextWindow
<1>4. states \in Seq(Answers) /\ ToSet(states) = { m \in ToSet(list) : m.window > 0 }
  <2>1. PICK T : T = { m \in ToSet(list) : m.window > 0 }
    OBVIOUS
  <2>2. states \in Seq(Answers) /\ ToSet(states) = ToSet(list) \cap T
    BY <1>1, <2>1, ThoseType, ThoseSet
  <2>3. QED
    BY <2>1, <2>2
<1>5. mine \in Seq(Answers) /\ ToSet(mine) = { m \in ToSet(states) : m.id = model }
  <2>1. PICK T : T = { m \in ToSet(states) : m.id = model }
    OBVIOUS
  <2>2. mine \in Seq(Answers) /\ ToSet(mine) = ToSet(states) \cap T
    BY <1>2, <1>4, <2>1, ThoseType, ThoseSet
  <2>3. QED
    BY <2>1, <2>2
<1>6. ToSet(list) \subseteq Answers /\ \A m \in ToSet(list) : \E i \in DOMAIN list : m = list[i]
  BY SetOfSeq DEF ToSet
<1>7. ASSUME NEW i \in DOMAIN list, list[i].id = model, list[i].window > 0 PROVE mine # << >>
  <2>1. list[i] \in ToSet(list)
    BY DEF ToSet
  <2>2. list[i] \in ToSet(mine)
    BY <1>4, <1>5, <1>7, <2>1
  <2>3. QED
    BY <2>2, SetOfNothing
<1>8. CASE mine # << >>
  <2>1. mine[1] \in ToSet(mine)
    BY <1>5, <1>8, FirstIn
  <2>2. PICK i \in DOMAIN list : mine[1] = list[i]
    BY <1>4, <1>5, <1>6, <2>1
  <2>3. list[i].id = model /\ list[i].window > 0 /\ list[i] \in Answers
    BY <1>4, <1>5, <1>6, <2>1, <2>2
  <2>4. size = list[i].window /\ list[i].window \in Int
    BY <1>3, <1>8, <2>2, <2>3 DEF Answers
  <2>5. QED
    BY <2>3, <2>4
<1>9. CASE mine = << >> /\ states # << >>
  <2>1. states[1] \in ToSet(states)
    BY <1>4, <1>9, FirstIn
  <2>2. PICK i \in DOMAIN list : states[1] = list[i]
    BY <1>4, <1>6, <2>1
  <2>3. list[i].window > 0 /\ list[i] \in Answers
    BY <1>4, <1>6, <2>1, <2>2
  <2>4. size = list[i].window /\ list[i].window \in Int
    BY <1>3, <1>9, <2>2, <2>3 DEF Answers
  <2>5. QED
    BY <1>7, <1>9, <2>3, <2>4
<1>10. CASE mine = << >> /\ states = << >>
  BY <1>3, <1>7, <1>10
<1>11. QED
  BY <1>8, <1>9, <1>10

\* What does not touch an entry leaves it as it is.
LEMMA ProbedKept ==
  ASSUME cfg' = cfg, NEW n, Probed(n), probes'[n] = probes[n], found'[n] = found[n],
         windows'[n] = windows[n], raced \subseteq raced',
         n \in raced' => n \in raced \/ probes[n] = "writing"
  PROVE  Probed(n)'
<1>1. Provider(n)' = Provider(n)
  BY ProvidersKept
<1>2. PICK p : p = Provider(n)
  OBVIOUS
<1>3. QED
  BY <1>1, <1>2 DEF Probed

\* Steps of the loop, of the goroutines and of tui.New keep the rest.
LEMMA BegunSteps ==
  ASSUME StartInv, stage \in Begun, stage' \in Begun,
         UNCHANGED << world, cfg, current, personas, providers, sandbox >>,
         next' \in 1 .. Len(cfg.providers) + 1, Probing', Shown',
         stage' # "running" => calls' = {}, \A c \in calls' : Invited(c)'
  PROVE  StartInv'
<1>1. /\ AsUsed(cfg, current) /\ Confined /\ stage \in Chosen
  BY DEF StartInv, Begun, Chosen
<1>2. AsUsed(cfg, current)'
  BY <1>1, UsedKept
<1>3. Confined'
  BY <1>1, ConfinedKept
<1>4. Names' = Names
  BY ProvidersKept
<1>5. /\ world' \in Worlds /\ cfg'.providers \in Seq(ProviderRecord)
      /\ personas' \in {Discover(world'.roots), << >>}
      /\ DOMAIN providers' \subseteq Names'
  BY <1>4 DEF StartInv
<1>6. QED
  BY <1>2, <1>3, <1>4, <1>5 DEF StartInv, Begun, Chosen

LEMMA InvitedStays ==
  ASSUME StartInv, world' = world, personas' = personas, calls' = calls
  PROVE  \A c \in calls' : Invited(c)'
<1>1. ASSUME NEW c \in calls PROVE Invited(c)'
  <2>1. Invited(c)
    BY DEF StartInv
  <2>2. QED
    BY <2>1, InvitedKept
<1>2. QED
  BY <1>1

\* What is known while the windows are resolved.
LEMMA InWindows ==
  ASSUME StartInv, stage = "windows"
  PROVE  /\ cfg.providers \in Seq(ProviderRecord) /\ AsUsed(cfg, current) /\ Probing
         /\ Distinct(cfg.providers) /\ DOMAIN cfg.providers = 1 .. Len(cfg.providers)
         /\ Len(cfg.providers) \in Nat /\ next \in 1 .. Len(cfg.providers) + 1
         /\ DOMAIN shown = {} /\ calls = {}
         /\ \A i \in DOMAIN cfg.providers :
              /\ cfg.providers[i].name \in Names
              /\ Provider(cfg.providers[i].name) = cfg.providers[i]
              /\ cfg.providers[i].context_window \in Nat
<1>1. /\ cfg.providers \in Seq(ProviderRecord) /\ AsUsed(cfg, current) /\ Probing
      /\ next \in 1 .. Len(cfg.providers) + 1 /\ DOMAIN shown = {} /\ calls = {}
  BY DEF StartInv, Begun, Chosen, Shown
<1>2. Distinct(cfg.providers)
  BY <1>1 DEF AsUsed, Settings
<1>3. DOMAIN cfg.providers = 1 .. Len(cfg.providers) /\ Len(cfg.providers) \in Nat
  BY <1>1, NamesAre
<1>4. ASSUME NEW i \in DOMAIN cfg.providers
      PROVE  /\ cfg.providers[i].name \in Names
             /\ Provider(cfg.providers[i].name) = cfg.providers[i]
             /\ cfg.providers[i].context_window \in Nat
  <2>1. /\ cfg.providers[i].name \in Names
        /\ Provider(cfg.providers[i].name) = cfg.providers[i]
    BY <1>1, <1>2, ProviderIs
  <2>2. Provider(cfg.providers[i].name).context_window \in Nat
    BY <1>1, <2>1, ProviderSaid
  <2>3. QED
    BY <2>1, <2>2
<1>5. QED
  BY <1>1, <1>2, <1>3, <1>4

\* A map before and after a step that writes the entry of n at most.
Elsewhere(f, g, n) == DOMAIN g = DOMAIN f /\ \A m \in DOMAIN f \ {n} : g[m] = f[m]

\* A step at the entry of n: the others stay what they are.
LEMMA EntrySteps ==
  ASSUME StartInv, stage = "windows", stage' \in {"windows", "crashed"},
         UNCHANGED << world, cfg, current, personas, providers, sandbox, shown, calls >>,
         NEW n \in Names,
         Elsewhere(probes, probes', n), Elsewhere(found, found', n),
         Elsewhere(windows, windows', n),
         raced' = raced \/ raced' = raced \cup Writers \cup {n},
         Probed(n)',
         \/ next' = next /\ probes[n] # "idle"
         \/ next \in DOMAIN cfg.providers /\ next' = next + 1 /\ n = cfg.providers[next].name
  PROVE  StartInv'
<1>1. /\ Probing /\ Distinct(cfg.providers) /\ DOMAIN cfg.providers = 1 .. Len(cfg.providers)
      /\ Len(cfg.providers) \in Nat /\ next \in 1 .. Len(cfg.providers) + 1
      /\ DOMAIN shown = {} /\ calls = {}
      /\ \A i \in DOMAIN cfg.providers : cfg.providers[i].name \in Names
  BY InWindows
<1>2. DOMAIN probes = Names /\ DOMAIN found = Names /\ DOMAIN windows = Names
      /\ raced \subseteq Names
  BY <1>1 DEF Probing
<1>3. Writers \subseteq Names /\ raced \subseteq raced' /\ raced' \subseteq Names
  BY <1>2 DEF Writers
<1>4. ASSUME NEW m \in Names PROVE Probed(m)'
  <2>1. CASE m = n
    BY <2>1
  <2>2. CASE m # n
    <3>1. Probed(m)
      BY <1>1 DEF Probing
    <3>2. probes'[m] = probes[m] /\ found'[m] = found[m] /\ windows'[m] = windows[m]
      BY <1>2, <2>2 DEF Elsewhere
    <3>3. m \in raced' => m \in raced \/ probes[m] = "writing"
      BY <2>2 DEF Writers
    <3>4. QED
      BY <1>3, <3>1, <3>2, <3>3, ProbedKept
  <2>3. QED
    BY <2>1, <2>2
<1>5. /\ next' \in 1 .. Len(cfg.providers) + 1
      /\ \A i \in DOMAIN cfg.providers : next' <= i => probes'[cfg.providers[i].name] = "idle"
  <2>1. ASSUME NEW i \in DOMAIN cfg.providers, next <= i
        PROVE  probes[cfg.providers[i].name] = "idle"
    BY <1>1, <2>1 DEF Probing
  <2>2. CASE next' = next /\ probes[n] # "idle"
    BY <1>1, <1>2, <2>1, <2>2 DEF Elsewhere
  <2>3. CASE next \in DOMAIN cfg.providers /\ next' = next + 1 /\ n = cfg.providers[next].name
    <3>1. next' \in 1 .. Len(cfg.providers) + 1
      BY <1>1, <2>3
    <3>2. ASSUME NEW i \in DOMAIN cfg.providers, next' <= i
          PROVE  next <= i /\ cfg.providers[i].name # n
      <4>1. next <= i /\ i # next
        BY <1>1, <2>3, <3>2
      <4>2. QED
        BY <1>1, <2>3, <4>1 DEF Distinct
    <3>3. QED
      BY <1>1, <1>2, <2>1, <3>1, <3>2 DEF Elsewhere
  <2>4. QED
    BY <2>2, <2>3
<1>6. Names' = Names
  BY ProvidersKept
<1>7. Probing'
  BY <1>2, <1>3, <1>4, <1>5, <1>6 DEF Probing, Elsewhere
<1>8. Shown'
  BY <1>1 DEF Shown
<1>9. \A c \in calls' : Invited(c)'
  BY InvitedStays
<1>10. QED
  BY <1>1, <1>5, <1>7, <1>8, <1>9, BegunSteps DEF Begun

\* An entry nothing is written to.
LEMMA NothingElsewhere ==
  ASSUME NEW f, NEW g, f = g, NEW n
  PROVE  Elsewhere(f, g, n)
BY DEF Elsewhere

\* An entry that is written.
LEMMA OneElsewhere ==
  ASSUME NEW f, NEW g, NEW n, NEW x, g = [f EXCEPT ![n] = x]
  PROVE  Elsewhere(f, g, n) /\ (n \in DOMAIN f => g[n] = x)
BY DEF Elsewhere

\* The beginning of a write leaves its entry right.
LEMMA BeginRight ==
  ASSUME cfg' = cfg, NEW n, n \in DOMAIN probes, n \in DOMAIN found, NEW size \in Nat,
         BeginWrite(n, size), UNCHANGED windows, Probed(n),
         Provider(n).context_window \in Nat,
         Provider(n).context_window > 0 => size = Provider(n).context_window,
         Provider(n).context_window = 0 /\ size # 0 =>
           \E list \in Listings : size = LookupContextWindow(list, Provider(n).model)
  PROVE  /\ Probed(n)'
         /\ Elsewhere(probes, probes', n) /\ Elsewhere(found, found', n)
         /\ Elsewhere(windows, windows', n)
         /\ raced' = raced \/ raced' = raced \cup Writers \cup {n}
<1>1. /\ probes' = [probes EXCEPT ![n] = "writing"] /\ found' = [found EXCEPT ![n] = size]
      /\ raced' = raced \/ raced' = raced \cup Writers \cup {n}
  BY DEF BeginWrite
<1>2. /\ probes'[n] = "writing" /\ found'[n] = size
      /\ Elsewhere(probes, probes', n) /\ Elsewhere(found, found', n)
      /\ Elsewhere(windows, windows', n)
  BY <1>1, OneElsewhere, NothingElsewhere
<1>3. Provider(n)' = Provider(n) /\ windows'[n] \in Nat
  BY ProvidersKept DEF Probed
<1>4. PICK p : p = Provider(n)
  OBVIOUS
<1>5. Probed(n)'
  BY <1>2, <1>3, <1>4 DEF Probed
<1>6. QED
  BY <1>1, <1>2, <1>5

LEMMA LoopIn ==
  ASSUME StartInv, LoopAt, NEW n, n = cfg.providers[next].name
  PROVE  /\ stage = "windows" /\ next \in DOMAIN cfg.providers /\ n \in Names
         /\ Provider(n) = cfg.providers[next] /\ Provider(n).context_window \in Nat
         /\ Probed(n) /\ probes[n] = "idle" /\ n \in DOMAIN probes /\ n \in DOMAIN found
<1>1. stage = "windows" /\ next <= Len(cfg.providers)
  BY DEF LoopAt
<1>2. next \in DOMAIN cfg.providers
  BY <1>1, InWindows
<1>3. n \in Names /\ Provider(n) = cfg.providers[next] /\ Provider(n).context_window \in Nat
  BY <1>1, <1>2, InWindows
<1>4. Probing
  BY <1>1, InWindows
<1>5. next <= next
  BY <1>1, InWindows
<1>6. probes[n] = "idle"
  BY <1>2, <1>4, <1>5 DEF Probing
<1>7. QED
  BY <1>1, <1>2, <1>3, <1>4, <1>6 DEF Probing

LEMMA ConfiguredSteps ==
  ASSUME StartInv, Configured
  PROVE  StartInv'
<1>1. PICK n, size : n = cfg.providers[next].name /\ size = cfg.providers[next].context_window
  OBVIOUS
<1>2. /\ LoopAt /\ size > 0 /\ BeginWrite(n, size) /\ next' = next + 1
      /\ UNCHANGED << world, cfg, current, personas, providers, sandbox, windows, shown, calls >>
  BY <1>1 DEF Configured
<1>3. /\ stage = "windows" /\ next \in DOMAIN cfg.providers /\ n \in Names
      /\ Provider(n).context_window = size /\ size \in Nat
      /\ Probed(n) /\ n \in DOMAIN probes /\ n \in DOMAIN found
  BY <1>1, <1>2, LoopIn
<1>4. stage' \in {"windows", "crashed"}
  BY <1>2, <1>3 DEF BeginWrite
<1>5. /\ Probed(n)'
      /\ Elsewhere(probes, probes', n) /\ Elsewhere(found, found', n)
      /\ Elsewhere(windows, windows', n)
      /\ raced' = raced \/ raced' = raced \cup Writers \cup {n}
  BY <1>2, <1>3, BeginRight
<1>6. QED
  BY <1>1, <1>2, <1>3, <1>4, <1>5, EntrySteps

LEMMA AskSteps ==
  ASSUME StartInv, Ask
  PROVE  StartInv'
<1>1. PICK n : n = cfg.providers[next].name
  OBVIOUS
<1>2. /\ LoopAt /\ cfg.providers[next].context_window = 0 /\ next' = next + 1
      /\ probes' = [probes EXCEPT ![n] = "asking"]
      /\ UNCHANGED << world, stage, cfg, current, personas, providers, sandbox, found, windows,
                      raced, shown, calls >>
  BY <1>1 DEF Ask
<1>3. /\ stage = "windows" /\ next \in DOMAIN cfg.providers /\ n \in Names
      /\ Provider(n).context_window = 0
      /\ Probed(n) /\ probes[n] = "idle" /\ n \in DOMAIN probes
  BY <1>1, <1>2, LoopIn
<1>4. /\ probes'[n] = "asking"
      /\ Elsewhere(probes, probes', n) /\ Elsewhere(found, found', n)
      /\ Elsewhere(windows, windows', n)
  BY <1>2, <1>3, OneElsewhere, NothingElsewhere
<1>5. Provider(n)' = Provider(n)
  BY <1>2, ProvidersKept
<1>6. Probed(n)'
  <2>1. PICK p : p = Provider(n)
    OBVIOUS
  <2>2. found[n] = 0 /\ windows[n] = 0 /\ n \notin raced
    BY <1>3 DEF Probed
  <2>3. QED
    BY <1>2, <1>3, <1>4, <1>5, <2>1, <2>2 DEF Probed
<1>7. QED
  BY <1>1, <1>2, <1>3, <1>4, <1>6, EntrySteps

\* What is known of a goroutine that is not done.
LEMMA GoroutineIn ==
  ASSUME StartInv, stage = "windows", NEW n \in DOMAIN probes
  PROVE  /\ n \in Names /\ Probed(n) /\ n \in DOMAIN found /\ n \in DOMAIN windows
         /\ Provider(n).context_window \in Nat
<1>1. /\ Probing /\ cfg.providers \in Seq(ProviderRecord) /\ AsUsed(cfg, current)
  BY InWindows
<1>2. n \in Names /\ Probed(n) /\ n \in DOMAIN found /\ n \in DOMAIN windows
  BY <1>1 DEF Probing
<1>3. QED
  BY <1>1, <1>2, ProviderSaid

\* A goroutine that ends without a size.
LEMMA EndsWithout ==
  ASSUME StartInv, stage = "windows", NEW n \in DOMAIN probes, probes[n] = "asking",
         probes' = [probes EXCEPT ![n] = "done"],
         UNCHANGED << world, stage, cfg, current, personas, providers, sandbox, next, found,
                      windows, raced, shown, calls >>
  PROVE  StartInv'
<1>1. n \in Names /\ Probed(n)
  BY GoroutineIn
<1>2. /\ probes'[n] = "done"
      /\ Elsewhere(probes, probes', n) /\ Elsewhere(found, found', n)
      /\ Elsewhere(windows, windows', n)
  BY OneElsewhere, NothingElsewhere
<1>3. Provider(n)' = Provider(n)
  BY ProvidersKept
<1>4. found[n] = 0 /\ windows[n] = 0 /\ Provider(n).context_window = 0
  BY <1>1 DEF Probed
<1>5. Probed(n)'
  BY <1>2, <1>3, <1>4 DEF Probed
<1>6. QED
  BY <1>1, <1>2, <1>5, EntrySteps

LEMMA AnswerSteps ==
  ASSUME StartInv, NEW n \in DOMAIN probes, ProbeAnswers(n)
  PROVE  StartInv'
<1>1. PICK list \in Listings :
        \E size : /\ size = LookupContextWindow(list, Provider(n).model)
                  /\ IF size > 0 THEN BeginWrite(n, size)
                     ELSE /\ probes' = [probes EXCEPT ![n] = "done"]
                          /\ UNCHANGED << stage, found, raced >>
  BY DEF ProbeAnswers
<1>2. PICK size :
        /\ size = LookupContextWindow(list, Provider(n).model)
        /\ IF size > 0 THEN BeginWrite(n, size)
           ELSE probes' = [probes EXCEPT ![n] = "done"] /\ UNCHANGED << stage, found, raced >>
  BY <1>1
<1>3. /\ stage = "windows" /\ probes[n] = "asking"
      /\ UNCHANGED << world, cfg, current, personas, providers, sandbox, next, windows, shown,
                      calls >>
  BY DEF ProbeAnswers
<1>4. /\ n \in Names /\ Probed(n) /\ n \in DOMAIN found
      /\ Provider(n).context_window = 0 /\ probes[n] # "idle"
  BY <1>3, GoroutineIn DEF Probed
<1>5. size \in Nat
  <2>1. list \in Seq(Answers)
    BY InputsAssumption DEF Answers
  <2>2. QED
    BY <1>2, <2>1, LookupRight
<1>6. CASE size > 0
  <2>1. BeginWrite(n, size)
    BY <1>2, <1>6
  <2>2. stage' \in {"windows", "crashed"}
    BY <1>3, <2>1 DEF BeginWrite
  <2>3. PICK cw : cw = Provider(n).context_window
    OBVIOUS
  <2>4. cw = 0 /\ cw \in Nat
    BY <1>4, <2>3
  <2>5. /\ Probed(n)'
        /\ Elsewhere(probes, probes', n) /\ Elsewhere(found, found', n)
        /\ Elsewhere(windows, windows', n)
        /\ raced' = raced \/ raced' = raced \cup Writers \cup {n}
    BY <1>2, <1>3, <1>4, <1>5, <2>1, <2>3, <2>4, BeginRight
  <2>6. QED
    BY <1>3, <1>4, <2>2, <2>5, EntrySteps
<1>7. CASE ~ (size > 0)
  BY <1>2, <1>3, <1>7, EndsWithout
<1>8. QED
  BY <1>6, <1>7

LEMMA NoAnswerSteps ==
  ASSUME StartInv, NEW n \in DOMAIN probes, NoAnswer(n)
  PROVE  StartInv'
<1>1. /\ stage = "windows" /\ probes[n] = "asking" /\ probes' = [probes EXCEPT ![n] = "done"]
      /\ UNCHANGED << world, stage, cfg, current, personas, providers, sandbox, next, found,
                      windows, raced, shown, calls >>
  BY DEF NoAnswer
<1>2. QED
  BY <1>1, EndsWithout

LEMMA EndWriteSteps ==
  ASSUME StartInv, NEW n \in DOMAIN probes, EndWrite(n)
  PROVE  StartInv'
<1>1. /\ stage = "windows" /\ probes[n] = "writing" /\ probes' = [probes EXCEPT ![n] = "done"]
      /\ UNCHANGED << world, stage, cfg, current, personas, providers, sandbox, next, found,
                      raced, shown, calls >>
      /\ \/ windows' = [windows EXCEPT ![n] = found[n]]
         \/ n \in raced /\ windows' = windows
  BY DEF EndWrite
<1>2. n \in Names /\ Probed(n) /\ n \in DOMAIN windows
  BY <1>1, GoroutineIn
<1>3. /\ probes'[n] = "done"
      /\ Elsewhere(probes, probes', n) /\ Elsewhere(found, found', n)
  BY <1>1, OneElsewhere, NothingElsewhere
<1>4. /\ Elsewhere(windows, windows', n)
      /\ windows'[n] = found[n] \/ (n \in raced /\ windows'[n] = windows[n])
  BY <1>1, <1>2, OneElsewhere, NothingElsewhere
<1>5. Provider(n)' = Provider(n)
  BY <1>1, ProvidersKept
<1>6. Probed(n)'
  <2>1. PICK p : p = Provider(n)
    OBVIOUS
  <2>2. QED
    BY <1>1, <1>2, <1>3, <1>4, <1>5, <2>1 DEF Probed
<1>7. QED
  BY <1>1, <1>2, <1>3, <1>4, <1>6, EntrySteps

LEMMA ShowSteps ==
  ASSUME StartInv, Show
  PROVE  StartInv'
<1>1. /\ stage = "windows" /\ stage' = "running" /\ shown' = [n \in Names |-> Window(n)]
      /\ \A n \in Names : probes[n] = "done"
      /\ UNCHANGED << world, cfg, current, personas, providers, sandbox, next, probes, found,
                      windows, raced, calls >>
  BY DEF Show
<1>2. Probing /\ next \in 1 .. Len(cfg.providers) + 1 /\ calls = {}
  BY <1>1, InWindows
<1>3. Names' = Names
  BY <1>1, ProvidersKept
<1>4. Probing'
  <2>1. ASSUME NEW n \in Names PROVE Probed(n)'
    <3>1. Probed(n)
      BY <1>2 DEF Probing
    <3>2. QED
      BY <1>1, <3>1, ProbedKept
  <2>2. QED
    BY <1>1, <1>2, <1>3, <2>1 DEF Probing
<1>5. Shown'
  <2>1. \A n : Window(n)' = Window(n)
    BY <1>1 DEF Window
  <2>2. QED
    BY <1>1, <1>3, <2>1 DEF Shown
<1>6. \A c \in calls' : Invited(c)'
  BY <1>1, <1>2
<1>7. QED
  BY <1>1, <1>2, <1>4, <1>5, <1>6, BegunSteps DEF Begun

-----------------------------------------------------------------------------
(***************************************************************************)
(* The running program, and the invariant.                                 *)
(***************************************************************************)
LEMMA DelegateSteps ==
  ASSUME StartInv, NEW caller, NEW name, Delegate(caller, name)
  PROVE  StartInv'
<1>1. /\ stage = "running"
      /\ caller = "main" \/ \E c \in calls : c.name = caller
      /\ RunSubagentTool \in CallerTools(caller)
      /\ Lookup(Runtime, CallerAllows(caller), name)
      /\ calls' = calls \cup {[caller |-> caller, name |-> name]}
      /\ UNCHANGED << world, stage, cfg, current, personas, providers, sandbox, next, probes,
                      found, windows, raced, shown >>
  BY DEF Delegate
<1>2. /\ Probing /\ next \in 1 .. Len(cfg.providers) + 1 /\ Shown
      /\ personas \in {Discover(world.roots), << >>} /\ \A c \in calls : Invited(c)
  BY <1>1 DEF StartInv, Begun
<1>3. Names' = Names
  BY <1>1, ProvidersKept
<1>4. Probing'
  <2>1. ASSUME NEW n \in Names PROVE Probed(n)'
    <3>1. Probed(n)
      BY <1>2 DEF Probing
    <3>2. QED
      BY <1>1, <3>1, ProbedKept
  <2>2. QED
    BY <1>1, <1>2, <1>3, <2>1 DEF Probing
<1>5. Shown'
  <2>1. \A n : Window(n)' = Window(n)
    BY <1>1 DEF Window
  <2>2. QED
    BY <1>1, <1>2, <1>3, <2>1 DEF Shown
<1>6. PICK call : call = [caller |-> caller, name |-> name]
  OBVIOUS
<1>7. Invited(call)
  <2>1. Named(Runtime, name) # {}
    BY <1>1 DEF Lookup
  <2>2. ASSUME caller # "main"
        PROVE  LET d == Definition(caller)
               IN  RunSubagentTool \in ToSet(d.tools) /\ (d.agents.any \/ name \in d.agents.names)
    <3>1. PICK c \in calls : c.name = caller
      BY <1>1, <2>2
    <3>2. Named(Runtime, caller) # {}
      BY <1>2, <3>1 DEF Invited
    <3>3. PICK d, p : d = Definition(caller) /\ p = Persona(caller)
      OBVIOUS
    <3>4. d \in Definitions /\ p = ValidatePersona(d)
      BY <1>2, <3>2, <3>3, WorldIs, PersonaRight
    <3>5. RunSubagentTool \in PersonaTools(p)
      BY <1>1, <2>2, <3>3 DEF CallerTools
    <3>6. RunSubagentTool \in ToSet(d.tools)
      BY <3>4, <3>5, ToolsRight
    <3>7. p.agents = d.agents
      BY <3>4, ValidateType
    <3>8. p.agents.any \/ name \in p.agents.names
      BY <1>1, <2>2, <3>3 DEF CallerAllows, Lookup
    <3>9. QED
      BY <3>3, <3>6, <3>7, <3>8
  <2>3. QED
    BY <1>6, <2>1, <2>2 DEF Invited
<1>8. ASSUME NEW c \in calls' PROVE Invited(c)'
  <2>1. Invited(c)
    BY <1>1, <1>2, <1>6, <1>7
  <2>2. QED
    BY <1>1, <2>1, InvitedKept
<1>9. stage \in Begun /\ stage' \in Begun /\ stage' = "running"
  BY <1>1 DEF Begun
<1>10. QED
  BY <1>1, <1>2, <1>4, <1>5, <1>8, <1>9, BegunSteps

LEMMA StutterStart ==
  ASSUME StartInv, UNCHANGED startVars
  PROVE  StartInv'
<1>1. /\ UNCHANGED << world, stage, cfg, current, personas, providers, sandbox, next, probes >>
      /\ UNCHANGED << found, windows, raced, shown, calls >>
  BY DEF startVars
<1>2. Names' = Names
  BY <1>1, ProvidersKept
<1>3. ASSUME stage = "select", world.home PROVE AsRead(cfg)'
  <2>1. AsRead(cfg)
    BY <1>3 DEF StartInv
  <2>2. PICK c : c = cfg
    OBVIOUS
  <2>3. AsRead(cfg)' = AsRead(c)
    BY <1>1, <2>2, ReadBecomes
  <2>4. QED
    BY <2>1, <2>2, <2>3
<1>4. ASSUME stage \in Chosen PROVE AsUsed(cfg, current)'
  <2>1. AsUsed(cfg, current)
    BY <1>4 DEF StartInv
  <2>2. QED
    BY <1>1, <2>1, UsedKept
<1>5. ASSUME stage \in Begun PROVE Confined' /\ Probing'
  <2>1. Confined /\ Probing
    BY <1>5 DEF StartInv
  <2>2. Confined'
    BY <1>1, <2>1, ConfinedKept
  <2>3. ASSUME NEW n \in Names PROVE Probed(n)'
    <3>1. Probed(n)
      BY <2>1 DEF Probing
    <3>2. QED
      BY <1>1, <3>1, ProbedKept
  <2>4. QED
    BY <1>1, <1>2, <2>1, <2>2, <2>3 DEF Probing
<1>6. Shown'
  <2>1. \A n : Window(n)' = Window(n)
    BY <1>1 DEF Window
  <2>2. Shown
    BY DEF StartInv
  <2>3. QED
    BY <1>1, <1>2, <2>1, <2>2 DEF Shown
<1>7. \A c \in calls' : Invited(c)'
  BY <1>1, InvitedStays
<1>8. QED
  BY <1>1, <1>2, <1>3, <1>4, <1>5, <1>6, <1>7 DEF StartInv, Chosen, Begun

\* Every step of the start keeps the invariant.
LEMMA StartKeeps ==
  ASSUME StartInv, [StartNext]_startVars
  PROVE  StartInv'
<1>1. CASE LoadConfig
  BY <1>1, LoadSteps
<1>2. CASE Select
  BY <1>2, SelectSteps
<1>3. CASE FindPersonas
  BY <1>3, FindSteps
<1>4. CASE BuildAgents
  BY <1>4, BuildSteps
<1>5. CASE Confine
  BY <1>5, ConfineSteps
<1>6. CASE Configured
  BY <1>6, ConfiguredSteps
<1>7. CASE Ask
  BY <1>7, AskSteps
<1>8. CASE Show
  BY <1>8, ShowSteps
<1>9. ASSUME NEW n \in DOMAIN probes, ProbeAnswers(n) \/ NoAnswer(n) \/ EndWrite(n)
      PROVE  StartInv'
  BY <1>9, AnswerSteps, NoAnswerSteps, EndWriteSteps
<1>10. ASSUME NEW caller, NEW name, Delegate(caller, name) PROVE StartInv'
  BY <1>10, DelegateSteps
<1>11. CASE UNCHANGED startVars
  BY <1>11, StutterStart
<1>12. QED
  BY <1>1, <1>2, <1>3, <1>4, <1>5, <1>6, <1>7, <1>8, <1>9, <1>10, <1>11 DEF StartNext

\* The start of the program (cmd/garess/main.go): what the invariant says holds
\* whatever the files, the flags, the endpoints and the system are.
THEOREM StartInvariant == StartSpec => []StartInv
<1>1. StartInit => StartInv
  BY StartHolds
<1>2. StartInv /\ [StartNext]_startVars => StartInv'
  BY StartKeeps
<1>3. QED
  BY <1>1, <1>2, PTL DEF StartSpec

-----------------------------------------------------------------------------
(***************************************************************************)
(* The properties.                                                         *)
(***************************************************************************)
LEMMA StartTyped ==
  ASSUME StartInv
  PROVE  StartTypeOK
<1>1. stage \in Chosen => current \in Names
  BY NamesAre DEF StartInv, AsUsed, Settings
<1>2. DOMAIN shown \subseteq Names /\ \A n \in DOMAIN shown : shown[n] = Window(n)
  BY DEF StartInv, Shown
<1>3. ASSUME NEW n \in DOMAIN shown PROVE shown[n] \in [size : Nat \ {0}, approx : BOOLEAN]
  <2>1. stage = "running" /\ n \in Names
    BY <1>2 DEF StartInv, Shown
  <2>2. windows[n] \in Nat
    BY <2>1 DEF StartInv, Begun, Probing, Probed
  <2>3. PICK w, d : w = windows[n] /\ d = DefaultContextWindow
    OBVIOUS
  <2>4. shown[n] = IF w > 0 THEN [size |-> w, approx |-> FALSE] ELSE [size |-> d, approx |-> TRUE]
    BY <1>2, <2>3 DEF Window
  <2>5. w \in Nat /\ d \in Nat \ {0}
    BY <2>2, <2>3, BoundsAssumption
  <2>6. QED
    BY <2>4, <2>5
<1>4. \A n \in DOMAIN probes : probes[n] \in {"idle", "asking", "writing", "done"}
  BY DEF StartInv, Probing, Probed
<1>5. raced \subseteq Writers \cup {n \in DOMAIN probes : probes[n] = "done"}
  <2>1. CASE stage \notin Begun
    BY <2>1 DEF StartInv
  <2>2. CASE stage \in Begun
    <3>1. Probing
      BY <2>2 DEF StartInv
    <3>2. ASSUME NEW n \in raced PROVE n \in Names /\ probes[n] \in {"writing", "done"}
      <4>1. n \in Names
        BY <3>1 DEF Probing
      <4>2. Probed(n)
        BY <3>1, <4>1 DEF Probing
      <4>3. QED
        BY <4>1, <4>2 DEF Probed
    <3>3. QED
      BY <3>1, <3>2 DEF Probing, Writers
  <2>3. QED
    BY <2>1, <2>2
<1>6. QED
  BY <1>1, <1>2, <1>3, <1>4, <1>5 DEF StartInv, StartTypeOK

LEMMA LayersHold ==
  ASSUME StartInv
  PROVE  LayersReach
<1>1. SUFFICES ASSUME stage \in Chosen PROVE LayersReach
  BY DEF LayersReach
<1>2. cfg.providers \in Seq(ProviderRecord) /\ AsUsed(cfg, current)
  BY <1>1 DEF StartInv
<1>3. Settings(cfg)
  BY <1>2 DEF AsUsed
<1>4. Names = SaidNames
  BY <1>2, <1>3, NamesAre DEF Settings
<1>5. ASSUME NEW n \in SaidNames
      PROVE  Provider(n) = [Said(n) EXCEPT !.model =
                              IF n = current THEN Overlaid(@, world.model, Unset) ELSE @]
  BY <1>2, <1>4, <1>5, ProviderSaid
<1>6. \A e \in Events : Commands(cfg.hooks, e) = SaidEvents(e)
  BY <1>3 DEF Settings
<1>7. cfg.backend = Overlaid("none", SaidBackend, Unset)
  BY <1>3 DEF Settings
<1>8. AutoCompressEnabled(cfg) <=> SaidThreshold # << 0 >>
  BY <1>3 DEF Settings
<1>9. current = Overlaid(Overlaid(FirstSaid, SaidDefault, Unset), world.provider, Unset)
  BY <1>2 DEF AsUsed
<1>10. QED
  BY <1>4, <1>5, <1>6, <1>7, <1>8, <1>9
     DEF LayersReach, SaidEvents, SaidBackend, SaidThreshold, SaidDefault

LEMMA FailClosedHolds ==
  ASSUME StartInv
  PROVE  FailClosed
<1>1. stage \in {"windows", "running", "crashed"} => Confined
  BY DEF StartInv, Begun
<1>2. QED
  BY <1>1 DEF FailClosed, Confined, SaidBackend, SaidDirs

LEMMA InvitedHolds ==
  ASSUME StartInv
  PROVE  InvitedOnly
<1>1. ASSUME NEW c \in calls
      PROVE  LET d == Definition(c.name)
                 known == ToSet(d.tools) \cap KnownTools
             IN  /\ Persona(c.name).model = d.model /\ ~ d.disabled
                 /\ (d.tools = << >> \/ known # {}) =>
                      PersonaTools(Persona(c.name)) = IF d.tools = << >> THEN Builtins ELSE known
  <2>1. PICK d, p : d = Definition(c.name) /\ p = Persona(c.name)
    OBVIOUS
  <2>2. Named(Runtime, c.name) # {} /\ personas \in {Discover(world.roots), << >>}
    BY DEF StartInv, Invited
  <2>3. d \in Definitions /\ p = ValidatePersona(d) /\ ~ d.disabled
    BY <2>1, <2>2, WorldIs, PersonaRight
  <2>4. p.model = d.model
    BY <2>3, ValidateType
  <2>5. PICK known : known = ToSet(d.tools) \cap KnownTools
    OBVIOUS
  <2>6. (d.tools = << >> \/ known # {}) =>
           PersonaTools(p) = IF d.tools = << >> THEN Builtins ELSE known
    BY <2>3, <2>5, ToolsRight
  <2>7. QED
    BY <2>1, <2>3, <2>4, <2>5, <2>6
<1>2. \A c \in calls : Invited(c)
  BY DEF StartInv
<1>3. QED
  BY <1>1, <1>2 DEF InvitedOnly, Invited

LEMMA WindowsHold ==
  ASSUME StartInv
  PROVE  WindowsTold
<1>1. SUFFICES ASSUME NEW n \in DOMAIN shown \ raced
               PROVE  IF Said(n).context_window > 0
                      THEN shown[n] = [size |-> Said(n).context_window, approx |-> FALSE]
                      ELSE IF shown[n].approx
                           THEN shown[n].size = DefaultContextWindow /\ found[n] = 0
                      ELSE \E list \in Listings :
                             LET own == { i \in DOMAIN list :
                                            list[i].id = Provider(n).model /\ list[i].window > 0 }
                             IN  /\ shown[n].size \in { list[i].window : i \in DOMAIN list }
                                 /\ own # {} => shown[n].size \in { list[i].window : i \in own }
  BY DEF WindowsTold
<1>2. stage = "running" /\ n \in Names /\ shown[n] = Window(n) /\ probes[n] = "done"
  BY <1>1 DEF StartInv, Shown
<1>3. /\ cfg.providers \in Seq(ProviderRecord) /\ AsUsed(cfg, current) /\ Probed(n)
  BY <1>2 DEF StartInv, Begun, Chosen, Probing
<1>4. PICK p, cw : p = Provider(n) /\ cw = p.context_window
  OBVIOUS
<1>5. cw \in Nat /\ Said(n).context_window = cw
  BY <1>2, <1>3, <1>4, ProviderSaid
<1>6. /\ found[n] \in Nat /\ windows[n] = found[n]
      /\ cw > 0 => found[n] = cw
      /\ cw = 0 /\ found[n] # 0 =>
           \E list \in Listings : found[n] = LookupContextWindow(list, p.model)
  BY <1>1, <1>2, <1>3, <1>4 DEF Probed
<1>7. shown[n] = IF found[n] > 0 THEN [size |-> found[n], approx |-> FALSE]
                 ELSE [size |-> DefaultContextWindow, approx |-> TRUE]
  BY <1>2, <1>6 DEF Window
<1>8. CASE cw > 0
  BY <1>5, <1>6, <1>7, <1>8
<1>9. CASE cw = 0 /\ found[n] = 0
  BY <1>5, <1>7, <1>9
<1>10. CASE cw = 0 /\ found[n] # 0
  <2>1. PICK list \in Listings : found[n] = LookupContextWindow(list, p.model)
    BY <1>6, <1>10
  <2>2. list \in Seq(Answers)
    BY InputsAssumption DEF Answers
  <2>3. PICK own : own = { i \in DOMAIN list : list[i].id = p.model /\ list[i].window > 0 }
    OBVIOUS
  <2>4. /\ found[n] \in { list[i].window : i \in DOMAIN list }
        /\ own # {} => found[n] \in { list[i].window : i \in own }
    BY <1>10, <2>1, <2>2, <2>3, LookupRight
  <2>5. shown[n].size = found[n] /\ ~ shown[n].approx /\ ~ (Said(n).context_window > 0)
    BY <1>5, <1>6, <1>7, <1>10
  <2>6. QED
    BY <1>4, <2>3, <2>4, <2>5
<1>11. QED
  BY <1>5, <1>8, <1>9, <1>10

\* Every variable of the start has its type, and a provider in use is a
\* configured one (cmd/garess/main.go).
THEOREM StartTypeCorrect == StartSpec => []StartTypeOK
<1>1. StartInv => StartTypeOK
  BY StartTyped
<1>2. QED
  BY <1>1, StartInvariant, PTL

\* The program starts with what the highest file says of each provider, event
\* and setting (config.Load), for all files and flags.
THEOREM LayersReachHolds == StartSpec => []LayersReach
<1>1. StartInv => LayersReach
  BY LayersHold
<1>2. QED
  BY <1>1, StartInvariant, PTL

\* On Linux the sandbox fails closed, and confines to what the files say
\* (sandbox.Apply, applyLandlock).
THEOREM StartFailsClosed == StartSpec => []FailClosed
<1>1. StartInv => FailClosed
  BY FailClosedHolds
<1>2. QED
  BY <1>1, StartInvariant, PTL

\* Whoever runs a persona may, and runs the definition that counts with its
\* tools (personas.Discover, newPersonaRuntime, buildFor), for all definitions.
THEOREM OnlyInvitedRun == StartSpec => []InvitedOnly
<1>1. StartInv => InvitedOnly
  BY InvitedHolds
<1>2. QED
  BY <1>1, StartInvariant, PTL

\* The first frame knows the context windows (resolveContextWindows), whatever
\* the endpoints answer and in whichever order.
THEOREM WindowsAreTold == StartSpec => []WindowsTold
<1>1. StartInv => WindowsTold
  BY WindowsHold
<1>2. QED
  BY <1>1, StartInvariant, PTL

=============================================================================
