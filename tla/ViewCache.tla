----------------------------- MODULE ViewCache -----------------------------
(***************************************************************************)
(* The conversation on screen (internal/tui): the completed parts in their *)
(* order (Model.stableParts), the cache of them that has been appended to  *)
(* the line view (Model.viewCommitted, convView.lines), the live slot      *)
(* under them, and the scroll position.                                    *)
(*                                                                         *)
(* A part is told apart by what it shows and by the settings it was        *)
(* rendered with; its text is not modelled.  A part has one line, and the  *)
(* text in the live slot TailLines.  One handler of Update is one action.  *)
(***************************************************************************)
EXTENDS Integers, Sequences, SequencesExt

CONSTANTS
    Height,       \* rows of the conversation when no prompt is queued
    TailLines,    \* lines of streamed text or thoughts in the live slot
    MaxEvents,    \* bound: completed events in a behaviour
    MaxChunks,    \* bound: finalized chunks of one response
    MaxInfos,     \* bound: info blocks in a behaviour
    MaxResizes    \* bound: changes of the width

ASSUME ViewAssumption ==
    /\ Height \in Nat \ {0, 1} /\ TailLines \in Nat \ {0}
    /\ MaxEvents \in Nat /\ MaxChunks \in Nat /\ MaxInfos \in Nat /\ MaxResizes \in Nat

VARIABLES
    screen,       \* the fields of Model and convView that decide what is shown
    nextEvent,    \* identity of the next event
    nextInfo      \* identity of the next info block

vars == <<screen, nextEvent, nextInfo>>

Part(kind, id, width, open) == [kind |-> kind, id |-> id, width |-> width, open |-> open]

\* A conversation with nothing in it and nothing going on.
Empty == [
    events |-> <<>>,         \* completed events: [id, call], a call being of run_subagent
    rendered |-> <<>>,       \* their cached parts
    thoughts |-> FALSE,      \* thoughts have been streamed in this response
    block |-> <<>>,          \* the frozen thinking block, if any
    frozen |-> FALSE,
    chunks |-> <<>>,         \* finalized chunks of the streamed response
    tail |-> FALSE,          \* it has an unfinished chunk
    ephemeral |-> <<>>,      \* info blocks
    subs |-> <<>>,           \* sub-agent records: [call, running, dirty, part]
    active |-> FALSE,        \* assistantActive
    streaming |-> FALSE, generating |-> FALSE,
    compressing |-> FALSE,
    pending |-> FALSE,       \* a prompt waits for the compression
    queued |-> FALSE,        \* a prompt is queued behind the turn
    overlay |-> "none",      \* what is open: "palette", "sessions"
    lines |-> <<>>, committed |-> 0,
    live |-> "none", offset |-> 0,
    width |-> 1, thinking |-> FALSE, expanded |-> FALSE]

Rows(s) == IF s.queued THEN Height - 1 ELSE Height

-----------------------------------------------------------------------------
(* The line view.                                                          *)

LiveLines(s) ==
    CASE s.live \in {"none", "blank"} -> 0
      [] s.live \in {"tail", "thoughts"} -> TailLines
      [] s.live \in {"palette", "sessions"} -> IF Rows(s) > 1 THEN Rows(s) - 1 ELSE 1
      [] OTHER -> 1

LineCount(s) == Len(s.lines) + LiveLines(s)
MaxScroll(s) == IF LineCount(s) > Rows(s) THEN LineCount(s) - Rows(s) ELSE 0
clamp(s) == IF s.offset > MaxScroll(s) THEN [s EXCEPT !.offset = MaxScroll(s)] ELSE s

\* Seeded fault: the scroll position is kept when the live slot gets smaller.
setLiveFree(s, kind) == [s EXCEPT !.live = kind]

setLive(s, kind) == clamp([s EXCEPT !.live = kind])
clearLive(s) == [s EXCEPT !.live = "none"]
gotoBottom(s) == [s EXCEPT !.offset = 0]

resetView(s) == [s EXCEPT !.committed = 0, !.lines = <<>>, !.live = "none", !.offset = 0]

-----------------------------------------------------------------------------
(* What belongs on screen.                                                 *)

Ended(s) == {i \in DOMAIN s.subs : ~s.subs[i].running}
Anchored(s, i) == \E e \in DOMAIN s.events : s.events[e] = [id |-> s.subs[i].call, call |-> TRUE]

\* subBlock renders a block that is shown and dirty, and keeps the part.
subBlock(s) ==
    [s EXCEPT !.subs = [i \in DOMAIN @ |->
        IF i \in Ended(s) /\ Anchored(s, i) /\ @[i].dirty
        THEN [@[i] EXCEPT !.dirty = FALSE,
                          !.part = <<Part("sub", s.subs[i].call, s.width, s.expanded)>>]
        ELSE @[i]]]

\* The blocks of the runs that event e started; a run that goes on has none.
BlocksAfter(s, e) ==
    FlattenSeq([i \in DOMAIN s.subs |->
        IF i \in Ended(s) /\ s.events[e] = [id |-> s.subs[i].call, call |-> TRUE]
        THEN s.subs[i].part ELSE <<>>])

stableParts(s) ==
    FlattenSeq([e \in DOMAIN s.events |-> <<s.rendered[e]>> \o BlocksAfter(s, e)])
      \o s.block \o s.chunks \o s.ephemeral

subRunning(s) == s.streaming /\ \E i \in DOMAIN s.subs : s.subs[i].running

LiveKind(s) ==
    IF s.compressing THEN "indicator"
    ELSE IF s.streaming /\ s.generating THEN IF s.thoughts THEN "thoughts" ELSE "waiting"
    ELSE IF s.active THEN IF s.tail \/ (s.thoughts /\ ~s.frozen) THEN "tail" ELSE "blank"
    ELSE IF subRunning(s) THEN "run"
    ELSE IF s.overlay # "none" /\ ~s.streaming THEN s.overlay
    ELSE "none"

\* Parts beyond the committed ones are appended; only a shorter list than the
\* committed one starts over.  The live slot is replaced.
updateViewport(s0) ==
    LET s == subBlock(s0)
        stable == stableParts(s)
        kept == IF s.committed > Len(stable) THEN resetView(s) ELSE s
        filled == [kept EXCEPT !.lines = @ \o SubSeq(stable, kept.committed + 1, Len(stable)),
                               !.committed = Len(stable)]
    IN  IF LiveKind(s) = "none" THEN clearLive(filled) ELSE setLive(filled, LiveKind(s))

renderEvent(s, ev) == Part("event", ev.id, s.width, FALSE)

renderAll(s) ==
    updateViewport(resetView(
        [s EXCEPT !.rendered = [e \in DOMAIN s.events |-> renderEvent(s, s.events[e])]]))

\* Nothing of the response that was streaming is left.
dropStream(s) ==
    [s EXCEPT !.active = FALSE, !.chunks = <<>>, !.tail = FALSE,
              !.thoughts = FALSE, !.block = <<>>, !.frozen = FALSE]

ThinkingBlock(s) == IF s.thoughts THEN <<Part("thinking", 0, 0, s.thinking)>> ELSE <<>>

freezeThinking(s) ==
    resetView([s EXCEPT !.block = ThinkingBlock(s), !.frozen = TRUE])

addInfo(s) == updateViewport([s EXCEPT !.ephemeral = Append(@, Part("info", nextInfo, s.width, FALSE))])

-----------------------------------------------------------------------------

Init == screen = Empty /\ nextEvent = 1 /\ nextInfo = 1

Idle == ~screen.streaming /\ ~screen.compressing

startStream(s) ==
    updateViewport(gotoBottom([dropStream(s) EXCEPT !.streaming = TRUE, !.generating = TRUE]))

\* With or without a prompt that is sent when it is done.
startCompression(s, pending) ==
    updateViewport(gotoBottom([s EXCEPT !.compressing = TRUE, !.pending = pending]))

\* Enter: a prompt, a command that shows a block, one that opens the list of
\* sessions, or one that shows nothing here.
Send ==
    /\ Idle /\ screen.overlay # "sessions"
    /\ LET s == [screen EXCEPT !.ephemeral = <<>>, !.overlay = "none"]
       IN  \/ screen' = startStream(s) /\ UNCHANGED nextInfo
           \/ \E pending \in BOOLEAN : /\ s.events # <<>>
                                       /\ screen' = startCompression(s, pending)
                                       /\ UNCHANGED nextInfo
           \/ /\ nextInfo =< MaxInfos
              /\ screen' = addInfo(s) /\ nextInfo' = nextInfo + 1
           \/ /\ screen' = updateViewport([s EXCEPT !.overlay = "sessions"])
              /\ UNCHANGED nextInfo
           \/ screen' = s /\ UNCHANGED nextInfo
    /\ UNCHANGED nextEvent

\* flushStream with a batch of thoughts, of text, or of both.  The text finalizes
\* so many chunks, and may leave an unfinished one.
Flush(thought, text, chunks, tail) ==
    /\ screen.streaming /\ (thought \/ text)
    /\ IF text THEN chunks = 1 \/ tail ELSE chunks = 0 /\ tail = screen.tail
    /\ Len(screen.chunks) + chunks =< MaxChunks
    /\ LET new == [c \in 1 .. chunks |->
                     Part("chunk", Len(screen.chunks) + c, screen.width, FALSE)]
           s == [screen EXCEPT !.active = TRUE,
                               !.generating = @ /\ ~text,
                               !.chunks = @ \o new, !.tail = tail,
                               !.thoughts = @ \/ thought]
       IN  screen' = updateViewport(
                       IF text /\ ~s.frozen /\ s.thoughts THEN freezeThinking(s) ELSE s)
    /\ UNCHANGED <<nextEvent, nextInfo>>

\* Seeded fault: the final event is appended to what was streamed before it.
CompletedAppends(kind) ==
    /\ screen.streaming /\ nextEvent =< MaxEvents
    /\ LET ev == [id |-> nextEvent, call |-> kind = "call"]
           s == dropStream(screen)
           shown == [s EXCEPT !.events = Append(@, ev), !.rendered = Append(@, renderEvent(s, ev)),
                              !.generating = CASE kind = "result" -> TRUE
                                               [] kind = "user" -> @
                                               [] OTHER -> FALSE]
       IN  screen' = updateViewport(shown)
    /\ nextEvent' = nextEvent + 1
    /\ UNCHANGED nextInfo

\* handleADK with a completed event: it replaces what was streamed of it, and the
\* view is built anew.
Completed(kind) ==
    /\ screen.streaming /\ nextEvent =< MaxEvents
    /\ LET ev == [id |-> nextEvent, call |-> kind = "call"]
           s == dropStream(screen)
           shown == [s EXCEPT !.events = Append(@, ev), !.rendered = Append(@, renderEvent(s, ev)),
                              !.generating = CASE kind = "result" -> TRUE
                                               [] kind = "user" -> @
                                               [] OTHER -> FALSE]
       IN  screen' = updateViewport(resetView(shown))
    /\ nextEvent' = nextEvent + 1
    /\ UNCHANGED nextInfo

\* finishStreaming: a normal end renders everything again, a turn that was
\* stopped or failed keeps what was streamed.  A queued prompt is sent, at once
\* or after a compression, or given back to the composer.
Finish(normal) ==
    /\ screen.streaming
    /\ LET s == [screen EXCEPT !.streaming = FALSE, !.generating = FALSE]
           shown == updateViewport(IF normal THEN renderAll(s) ELSE s)
           popped == clamp([shown EXCEPT !.queued = FALSE])
       IN  \/ ~s.queued /\ screen' = shown
           \/ s.queued /\ ~normal /\ screen' = updateViewport(popped)
           \/ s.queued /\ normal /\ screen' = startStream(popped)
           \/ /\ normal /\ s.events # <<>>
              /\ screen' = startCompression(popped, s.queued)
    /\ UNCHANGED <<nextEvent, nextInfo>>

\* handleCompressResult: the summary takes the place of the covered events, and a
\* card tells of it.
Compressed ==
    /\ screen.compressing /\ nextEvent =< MaxEvents /\ nextInfo =< MaxInfos
    /\ \E covered \in 1 .. Len(screen.events) :
         LET s == [screen EXCEPT !.compressing = FALSE, !.pending = FALSE,
                     !.events = <<[id |-> nextEvent, call |-> FALSE]>>
                                  \o SubSeq(@, covered + 1, Len(@))]
             card == addInfo(renderAll(s))
         IN  screen' = IF screen.pending THEN startStream(card) ELSE updateViewport(card)
    /\ nextEvent' = nextEvent + 1 /\ nextInfo' = nextInfo + 1

\* Seeded fault: with the indicator goes whatever was in the live slot before.
CompressionFailedClears ==
    /\ screen.compressing
    /\ screen' = clearLive([screen EXCEPT !.compressing = FALSE, !.pending = FALSE])
    /\ UNCHANGED <<nextEvent, nextInfo>>

CompressionFailed ==
    /\ screen.compressing
    /\ screen' = updateViewport([screen EXCEPT !.compressing = FALSE, !.pending = FALSE])
    /\ UNCHANGED <<nextEvent, nextInfo>>

QueueWhileBusy ==
    /\ screen.streaming /\ ~screen.queued
    /\ screen' = updateViewport(clamp([screen EXCEPT !.queued = TRUE]))
    /\ UNCHANGED <<nextEvent, nextInfo>>

\* handleSubAgent: a run starts, for a call that is on screen or about to be, or
\* goes on, or ends.
SubAgent(call, phase) ==
    /\ LET known == {i \in DOMAIN screen.subs : screen.subs[i].call = call}
           fresh == [call |-> call, running |-> TRUE, dirty |-> TRUE, part |-> <<>>]
           s == IF phase = "started" THEN [screen EXCEPT !.subs = Append(@, fresh)]
                ELSE [screen EXCEPT !.subs = [i \in DOMAIN @ |->
                        IF i \in known
                        THEN [@[i] EXCEPT !.dirty = TRUE, !.running = (phase = "event")]
                        ELSE @[i]]]
       IN  /\ IF phase = "started" THEN screen.streaming /\ known = {}
              ELSE \E i \in known : screen.subs[i].running
           /\ screen' = updateViewport(IF phase = "ended" THEN resetView(s) ELSE s)
    /\ UNCHANGED <<nextEvent, nextInfo>>

\* newSession, and resumeSession with one event in the session.
LeaveSession(resumed) ==
    /\ Idle /\ (resumed => nextEvent =< MaxEvents)
    /\ LET ev == [id |-> nextEvent, call |-> FALSE]
           s == [dropStream(screen) EXCEPT
                   !.events = IF resumed THEN <<ev>> ELSE <<>>,
                   !.rendered = IF resumed THEN <<renderEvent(screen, ev)>> ELSE <<>>,
                   !.ephemeral = <<>>, !.subs = <<>>, !.expanded = FALSE, !.overlay = "none"]
       IN  screen' = updateViewport(resetView(s))
    /\ nextEvent' = IF resumed THEN nextEvent + 1 ELSE nextEvent
    /\ UNCHANGED nextInfo

\* A new width: everything is rendered again, and the chunks of a response that
\* is being streamed, or was stopped, are rendered from its text.
Resize ==
    /\ screen.width =< MaxResizes
    /\ LET s == renderAll([screen EXCEPT !.width = @ + 1])
       IN  screen' = IF s.active
                     THEN updateViewport(resetView(
                            [s EXCEPT !.chunks = [c \in DOMAIN @ |-> [@[c] EXCEPT !.width = s.width]]]))
                     ELSE s
    /\ UNCHANGED <<nextEvent, nextInfo>>

\* ctrl+t.
ToggleThinking ==
    /\ LET s == [screen EXCEPT !.thinking = ~@]
       IN  screen' = IF s.frozen /\ s.thoughts
                     THEN updateViewport(resetView([s EXCEPT !.block = ThinkingBlock(s)]))
                     ELSE updateViewport(renderAll(s))
    /\ UNCHANGED <<nextEvent, nextInfo>>

\* ctrl+o.
ToggleSubagents ==
    /\ ~screen.compressing
    /\ LET s == [screen EXCEPT !.expanded = ~@,
                               !.subs = [i \in DOMAIN @ |-> [@[i] EXCEPT !.dirty = TRUE]]]
       IN  screen' = updateViewport(resetView(s))
    /\ UNCHANGED <<nextEvent, nextInfo>>

\* "/" in the composer, and esc or a key that closes what is open.
Overlay(kind) ==
    /\ Idle
    /\ \/ kind = "palette" /\ screen.overlay = "none"
       \/ kind = "none" /\ screen.overlay # "none"
    /\ screen' = updateViewport([screen EXCEPT !.overlay = kind])
    /\ UNCHANGED <<nextEvent, nextInfo>>

Scroll ==
    /\ \E to \in {screen.offset - 1, screen.offset + 1, MaxScroll(screen)} :
         /\ to \in 0 .. MaxScroll(screen) /\ to # screen.offset
         /\ screen' = [screen EXCEPT !.offset = to]
    /\ UNCHANGED <<nextEvent, nextInfo>>

Next ==
    \/ Send \/ QueueWhileBusy \/ Compressed \/ CompressionFailed
    \/ \E thought, text, tail \in BOOLEAN, chunks \in 0 .. 1 : Flush(thought, text, chunks, tail)
    \/ \E kind \in {"user", "reply", "call", "result"} : Completed(kind)
    \/ \E normal \in BOOLEAN : Finish(normal)
    \/ \E call \in 1 .. MaxEvents, phase \in {"started", "event", "ended"} : SubAgent(call, phase)
    \/ \E resumed \in BOOLEAN : LeaveSession(resumed)
    \/ Resize \/ ToggleThinking \/ ToggleSubagents
    \/ \E kind \in {"palette", "none"} : Overlay(kind)
    \/ Scroll

Spec == Init /\ [][Next]_vars

-----------------------------------------------------------------------------
(* Correctness.                                                            *)

PartKinds == {"event", "sub", "thinking", "chunk", "info"}
Parts == [kind : PartKinds, id : 0 .. MaxEvents + MaxChunks + MaxInfos,
          width : 0 .. MaxResizes + 1, open : BOOLEAN]

TypeOK ==
    /\ nextEvent \in 1 .. MaxEvents + 1 /\ nextInfo \in 1 .. MaxInfos + 1
    /\ DOMAIN screen = DOMAIN Empty
    /\ screen.lines \in Seq(Parts) /\ stableParts(screen) \in Seq(Parts)
    /\ Len(screen.rendered) = Len(screen.events)
    /\ screen.committed = Len(screen.lines) /\ screen.offset \in Nat
    /\ screen.live \in {"none", "blank", "indicator", "thoughts", "waiting", "tail", "run",
                        "palette", "sessions"}

\* The view has caught up with the number of parts there are.
CaughtUp == screen.committed = Len(stableParts(screen))

\* Where no info block is shown, the lines on screen are the parts that belong
\* there, in their order, whatever was streamed, frozen, finished, compressed or
\* resized before.  And nothing of the conversation has the width of another
\* window, save what keeps its own rendering: thoughts, info blocks, blocks of
\* sub-agents.  About updateViewport's rule to append what is new, and about
\* renderAll and rechunk in the handler of a resize.
SyncedView ==
    /\ (CaughtUp /\ screen.ephemeral = <<>>) => screen.lines = stableParts(screen)
    /\ \A i \in DOMAIN screen.lines :
          screen.lines[i].kind \in {"event", "chunk"} => screen.lines[i].width = screen.width

\* The window never begins beyond the first line: convView.view allocates as many
\* rows as lie between its ends, and a negative number panics.  About clearLive,
\* which keeps the scroll position of a taller view.
WindowInside == screen.offset =< LineCount(screen)

\* What was streamed before a turn was stopped stays on screen, the unfinished
\* chunk in the live slot, until the next turn.  About finishStreaming, which
\* keeps it, and all that uses the view and its live slot after it.
StoppedTextStays ==
    (screen.active /\ Idle /\ CaughtUp) =>
        /\ screen.tail => screen.live = "tail"
        /\ screen.ephemeral = <<>> => ToSet(screen.chunks) \subseteq ToSet(screen.lines)
=============================================================================
