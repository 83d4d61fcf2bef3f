----------------------------- MODULE SubAgents -----------------------------
(***************************************************************************)
(* Delegation by run_subagent: nested runs of personas                     *)
(* (internal/harness/subagent.go), the channel their live status travels   *)
(* by (cmd/garess/main.go) and the records the screen keeps of them        *)
(* (internal/tui/subagents.go).                                            *)
(*                                                                         *)
(* A run is the goroutine of one run_subagent call.  Only the runs the     *)
(* main agent asks for report to the screen; they send into a bounded      *)
(* channel and block while it is full.  The screen takes one status at a   *)
(* time: waitSubAgent receives it, Update handles it and waits again.      *)
(***************************************************************************)
EXTENDS Integers, Sequences

CONSTANTS
    Personas,          \* names under which personas are known
    Invocable,         \* those that agents may run
    Delegates,         \* those that list run_subagent among their tools
    Allows,            \* for each persona, those it may run in turn
    Broken,            \* those whose agent cannot be built (bad model or tool)
    MaxSubAgentDepth,  \* 5 in the code
    SinkCap,           \* capacity of the status channel, 256 in the code
    MaxRuns,           \* bound: run_subagent calls in a behaviour
    MaxInner,          \* bound: completed events of one nested run
    MaxSessions        \* bound: sessions the screen shows one after the other

ASSUME PersonasAssumption ==
    /\ Invocable \subseteq Personas /\ Delegates \subseteq Personas
    /\ Broken \subseteq Personas /\ Allows \in [Personas -> SUBSET Personas]
ASSUME BoundsAssumption ==
    /\ MaxSubAgentDepth \in Nat \ {0} /\ SinkCap \in Nat \ {0}
    /\ MaxRuns \in Nat /\ MaxInner \in Nat /\ MaxSessions \in Nat \ {0}

VARIABLES
    runs,       \* every run_subagent call so far, oldest first; field "shown" is
                \* history: the session whose screen was told of its start
    channel,    \* statuses sent and not yet received
    received,   \* the status waitSubAgent has returned, as a sequence of at most one
    streaming,  \* the screen shows a turn in progress
    session,    \* which session the screen shows
    subs        \* the screen's records (Model.subs)

vars == <<runs, channel, received, streaming, session, subs>>

Main == 0                     \* the caller that is not a run
Live(r) == runs[r].at # "ended"
TopLevel(r) == runs[r].depth = 0
Children(r) == {c \in DOMAIN runs : runs[c].parent = r /\ Live(c)}

Run == [parent : 0 .. MaxRuns, persona : Personas, depth : 0 .. MaxSubAgentDepth - 1,
        at : {"called", "announced", "running", "ended"},
        shown : 0 .. MaxSessions,
        inner : 0 .. MaxInner,           \* completed events so far
        outcome : {"none", "unbuilt", "failed", "answered"}]
Status == [run : 1 .. MaxRuns, phase : {"started", "event", "finished", "failed"},
           event : 0 .. MaxInner]
Record == [run : 1 .. MaxRuns, running : BOOLEAN, failed : BOOLEAN,
           inner : Seq(1 .. MaxInner)]

Init ==
    /\ runs = <<>> /\ channel = <<>> /\ received = <<>>
    /\ streaming = FALSE /\ session = 1 /\ subs = <<>>

-----------------------------------------------------------------------------
(* The nested runs.                                                        *)

\* Whom a caller may run: the main agent every invocable persona, a persona
\* those its agents field allows.
Reachable(caller) ==
    IF caller = Main THEN Invocable ELSE Invocable \cap Allows[runs[caller].persona]

DepthOf(caller) == IF caller = Main THEN 0 ELSE runs[caller].depth + 1

\* Seeded fault: a status is dropped when the channel is full.
SinkDrops(r, phase, event) ==
    IF TopLevel(r) /\ Len(channel) < SinkCap
    THEN channel' = Append(channel, [run |-> r, phase |-> phase, event |-> event])
    ELSE UNCHANGED channel

\* The sink: a top-level run sends and blocks while the channel is full, a
\* deeper one has no observer.
Sink(r, phase, event) ==
    IF TopLevel(r)
    THEN /\ Len(channel) < SinkCap
         /\ channel' = Append(channel, [run |-> r, phase |-> phase, event |-> event])
    ELSE UNCHANGED channel

\* A call of run_subagent that names a known and allowed persona and is not
\* nested too deep.  (Any other call returns an error and changes nothing.)
Call(caller, persona) ==
    /\ Len(runs) < MaxRuns
    /\ IF caller = Main THEN streaming
       ELSE runs[caller].at = "running" /\ runs[caller].persona \in Delegates
    /\ persona \in Reachable(caller)
    /\ DepthOf(caller) < MaxSubAgentDepth
    /\ runs' = Append(runs, [parent |-> caller, persona |-> persona, depth |-> DepthOf(caller),
                             at |-> "called", shown |-> 0,
                             inner |-> 0, outcome |-> "none"])
    /\ UNCHANGED <<channel, received, streaming, session, subs>>

Announce(r) ==
    /\ runs[r].at = "called"
    /\ Sink(r, "started", 0)
    /\ runs' = [runs EXCEPT ![r].at = "announced"]
    /\ UNCHANGED <<received, streaming, session, subs>>

\* agentFor, and the runner for the agent.  (The cache under the lock only saves
\* a second build of the same persona, which has the same result.)  When the
\* agent cannot be built the call returns at once, its start announced already.
Build(r) ==
    /\ runs[r].at = "announced"
    /\ runs' = IF runs[r].persona \in Broken
               THEN [runs EXCEPT ![r].at = "ended", ![r].outcome = "unbuilt"]
               ELSE [runs EXCEPT ![r].at = "running"]
    /\ UNCHANGED <<channel, received, streaming, session, subs>>

\* One completed event of the nested run: a tool call or result, or text.
Yield(r) ==
    /\ runs[r].at = "running" /\ Children(r) = {}
    /\ runs[r].inner < MaxInner
    /\ runs' = [runs EXCEPT ![r].inner = @ + 1]
    /\ Sink(r, "event", runs'[r].inner)
    /\ UNCHANGED <<received, streaming, session, subs>>

\* The nested run is over.  It is answered if it ended without an error, that of
\* a cancellation included, and with some visible text.
Finish(r, answered) ==
    /\ runs[r].at = "running" /\ Children(r) = {}
    /\ answered => runs[r].inner > 0
    /\ Sink(r, IF answered THEN "finished" ELSE "failed", 0)
    /\ runs' = [runs EXCEPT ![r].at = "ended",
                            ![r].outcome = IF answered THEN "answered" ELSE "failed"]
    /\ UNCHANGED <<received, streaming, session, subs>>

-----------------------------------------------------------------------------
(* The screen.                                                             *)

StartTurn ==
    /\ ~streaming
    /\ streaming' = TRUE
    /\ UNCHANGED <<runs, channel, received, session, subs>>

\* The turn ends: the calls of the main agent have returned, or the user pressed
\* esc, and those that have not go on until their context stops them.
EndTurn ==
    /\ streaming
    /\ streaming' = FALSE
    /\ UNCHANGED <<runs, channel, received, session, subs>>

\* /new, or a session resumed from the list: clearSubagents.
LeaveSession ==
    /\ ~streaming /\ session < MaxSessions
    /\ session' = session + 1
    /\ subs' = <<>>
    /\ UNCHANGED <<runs, channel, received, streaming>>

\* Seeded fault: the channel is drained only while a turn is on screen.
ReceiveInTurn ==
    /\ streaming
    /\ received = <<>> /\ channel # <<>>
    /\ received' = <<Head(channel)>>
    /\ channel' = Tail(channel)
    /\ UNCHANGED <<runs, streaming, session, subs>>

\* waitSubAgent.
Receive ==
    /\ received = <<>> /\ channel # <<>>
    /\ received' = <<Head(channel)>>
    /\ channel' = Tail(channel)
    /\ UNCHANGED <<runs, streaming, session, subs>>

\* Seeded fault: a failure is noted and the row goes on.
UpdatedRuns(rec, st) ==
    CASE st.phase = "started" -> [rec EXCEPT !.running = TRUE]
      [] st.phase = "event" -> [rec EXCEPT !.inner = Append(@, st.event)]
      [] st.phase = "finished" -> [rec EXCEPT !.running = FALSE]
      [] OTHER -> [rec EXCEPT !.failed = TRUE]

\* What a status makes of its record.
Updated(rec, st) ==
    CASE st.phase = "started" -> [rec EXCEPT !.running = TRUE]
      [] st.phase = "event" -> [rec EXCEPT !.inner = Append(@, st.event)]
      [] st.phase = "finished" -> [rec EXCEPT !.running = FALSE]
      [] OTHER -> [rec EXCEPT !.running = FALSE, !.failed = TRUE]

\* handleSubAgent: find the record of the run or make one, update it, and wait
\* for the next status.
Handle ==
    /\ received # <<>>
    /\ LET st == Head(received)
           known == {i \in DOMAIN subs : subs[i].run = st.run}
           fresh == [run |-> st.run, running |-> FALSE, failed |-> FALSE, inner |-> <<>>]
       IN  /\ subs' = IF known = {} THEN Append(subs, Updated(fresh, st))
                      ELSE [i \in DOMAIN subs |-> IF i \in known THEN Updated(subs[i], st)
                                                  ELSE subs[i]]
           /\ runs' = IF st.phase = "started" THEN [runs EXCEPT ![st.run].shown = session]
                      ELSE runs
    /\ received' = <<>>
    /\ UNCHANGED <<channel, streaming, session>>

Next ==
    \/ \E caller \in 0 .. Len(runs), p \in Personas : Call(caller, p)
    \/ \E r \in DOMAIN runs :
         \/ Announce(r) \/ Build(r) \/ Yield(r)
         \/ \E answered \in BOOLEAN : Finish(r, answered)
    \/ StartTurn \/ EndTurn \/ LeaveSession
    \/ Receive \/ Handle

Spec == Init /\ [][Next]_vars

\* Update and its commands are always scheduled, and so is a goroutine that can
\* go on.  A nested run ends: the iteration cap bounds it.  Nothing is assumed
\* of the user.
Fairness ==
    /\ WF_vars(Receive) /\ WF_vars(Handle)
    /\ \A r \in 1 .. MaxRuns :
         /\ WF_vars(r \in DOMAIN runs /\ Announce(r))
         /\ WF_vars(r \in DOMAIN runs /\ Build(r))
         /\ WF_vars(r \in DOMAIN runs /\ \E answered \in BOOLEAN : Finish(r, answered))

FairSpec == Spec /\ Fairness

-----------------------------------------------------------------------------
(* Correctness.                                                            *)

TypeOK ==
    /\ runs \in Seq(Run) /\ Len(runs) =< MaxRuns
    /\ channel \in Seq(Status) /\ Len(channel) =< SinkCap
    /\ received \in Seq(Status) /\ Len(received) =< 1
    /\ streaming \in BOOLEAN /\ session \in 1 .. MaxSessions
    /\ subs \in Seq(Record)

\* The statuses on their way to the screen, oldest first, and where those of run
\* r are among them.
Coming == received \o channel
Of(r) == {k \in 1 .. Len(Coming) : Coming[k].run = r}
Ends == {"finished", "failed"}

\* A row tells the truth.  One that says "running" has a run that has not ended,
\* or whose end is on its way; the exception is a run whose agent could not be
\* built: run() returns without a status, and its row stays.  One that has
\* stopped says "failed" exactly when its caller was given an error.  About
\* subAgentRecord against the end statuses and the results of run().
RowsMatchRuns ==
    \A i \in DOMAIN subs :
        LET r == subs[i].run
        IN  /\ subs[i].running =>
                 \/ Live(r)
                 \/ runs[r].outcome = "unbuilt"
                 \/ \E k \in Of(r) : Coming[k].phase \in Ends
            /\ (~subs[i].running /\ ~Live(r) /\ Of(r) = {}) =>
                 (subs[i].failed <=> runs[r].outcome # "answered")

\* The block of a record, and then the events of its run on their way, are all
\* events of the run, once each and in order, from the one after "before".
ShowsFrom(rec, before) ==
    LET n == Len(rec.inner)
        events == {k \in Of(rec.run) : Coming[k].phase = "event"}
    IN  /\ before + n =< runs[rec.run].inner
        /\ rec.inner = [k \in 1 .. n |-> before + k]
        /\ {Coming[k].event : k \in events} = before + n + 1 .. runs[rec.run].inner
        /\ \A k, l \in events : k < l => Coming[k].event < Coming[l].event

\* The expanded block of a run the screen saw start holds, with what is on its
\* way, every event of the run once and in order; a run whose start fell into
\* an earlier session shows what came after the screen left that session.
\* About subAgentRecord.inner, for runs that report at the same time.
RecordsShowRun ==
    \A i \in DOMAIN subs :
        \E before \in 0 .. MaxInner :
            /\ ShowsFrom(subs[i], before)
            /\ runs[subs[i].run].shown = session => before = 0

\* Every run_subagent call returns, however deep personas delegate to one
\* another and however small the channel.  About the depth limit, the blocking
\* sink and the one reader that Update keeps waiting.
EveryCallReturns ==
    \A r \in 1 .. MaxRuns : (r \in DOMAIN runs) ~> (r \in DOMAIN runs /\ ~Live(r))
=============================================================================
