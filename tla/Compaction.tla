---------------------------- MODULE Compaction ----------------------------
(***************************************************************************)
(* The life of one session under context compression: the transcript on    *)
(* disk (log) and its compaction marker, the run that appends to it, the   *)
(* pump that brings what was appended to the TUI, the conversation the TUI *)
(* shows (display, the code's m.events), and the goroutine that summarises *)
(* a prefix of the display and persists the summary and the marker.        *)
(*                                                                         *)
(* The text of a summary is abstracted to the set of events the summariser *)
(* was given, directly or through an earlier summary (covers). Model       *)
(* output, token counts and the usage threshold are nondeterministic.      *)
(***************************************************************************)
EXTENDS SessionView

CONSTANTS
  MaxEvents,     (* Bounds the model: no action appends to a longer log.   *)
  HistoryLimit,  (* [session] history_limit, 40 unless configured.         *)
  TranscriptBudget,  (* DefaultMaxTranscriptChars, in events of equal size. *)
  ToolKinds,     (* The tools the model calls: "free", "gated" (asks).     *)
  AutoCompress,  (* Options.AutoCompress.                                  *)
  Trouble        (* The mishaps that may happen, of the set Mishaps.       *)

ASSUME BoundsAssumption ==
  MaxEvents \in Nat /\ HistoryLimit \in Int /\ TranscriptBudget \in Nat
ASSUME ToolsAssumption == ToolKinds \subseteq {"free", "gated"}
ASSUME AutoAssumption == AutoCompress \in BOOLEAN

Mishaps == {"turn-cancelled", "compression-cancelled", "write-failed", "killed"}

ASSUME TroubleAssumption == Trouble \subseteq Mishaps

VARIABLES
  log,          (* <id>.jsonl                                              *)
  marker,       (* the Compaction field of <id>.meta.json                  *)
  phase,        (* idle, streaming, confirming or compressing              *)
  run,          (* what the run of this turn appends next                  *)
  leftover,     (* the same of a cancelled run that has not returned yet   *)
  inflight,     (* events persisted and on their way to the TUI            *)
  display,      (* m.events                                                *)
  asked,        (* m.confirming, while the run that asked is ending        *)
  esc,          (* esc was pressed: the context of the turn or of the      *)
                (* compression is cancelled                                *)
  failed,       (* m.streamFailed                                          *)
  noAutoAfter,  (* m.ctxNoAutoAfter                                        *)
  job,          (* the compression goroutine and what it was started with  *)
  gap,          (* history: user events since the last summary, 2 at most  *)
  minGap,       (* history: the least gap a marker was written at          *)
  mishaps       (* history: what went wrong in this session so far         *)

disk  == << log, marker >>
turn  == << run, leftover, inflight, asked, failed >>
hist  == << gap, minGap, mishaps >>
vars  == << disk, phase, turn, display, esc, noAutoAfter, job, hist >>

Kinds == {"prompt", "answer", "summary", "reply", "call", "result", "ask"}
Event == [id : Nat, kind : Kinds, covers : SUBSET Nat]

RunStages == {"none", "prompt", "answer", "model", "tool", "gate", "ask", "done"}
JobStages == {"none", "summarize", "append", "mark", "ready", "failed", "aborted"}
Job == [stage : JobStages, auto : BOOLEAN, pending : BOOLEAN,
        covered : Seq(Event), tail : Seq(Event), summary : Nat]
NoJob == [stage |-> "none", auto |-> FALSE, pending |-> FALSE,
          covered |-> << >>, tail |-> << >>, summary |-> NoId]

ModelView == ViewOf(log, marker, HistoryLimit)

TypeOK ==
  /\ log \in Seq(Event)
  /\ marker \in Marker
  /\ phase \in {"idle", "streaming", "confirming", "compressing"}
  /\ run \in RunStages
  /\ leftover \in RunStages
  /\ inflight \in Seq(Event)
  /\ display \in Seq(Event)
  /\ asked \in BOOLEAN
  /\ esc \in BOOLEAN
  /\ failed \in BOOLEAN
  /\ noAutoAfter \in Nat
  /\ job \in Job
  /\ gap \in 0 .. 2
  /\ minGap \in 0 .. 2
  /\ mishaps \subseteq Trouble

Init ==
  /\ log = << >>
  /\ marker = NoMarker
  /\ phase = "idle"
  /\ run = "none"
  /\ leftover = "none"
  /\ inflight = << >>
  /\ display = << >>
  /\ asked = FALSE
  /\ esc = FALSE
  /\ failed = FALSE
  /\ noAutoAfter = 0
  /\ job = NoJob
  /\ gap = 2
  /\ minGap = 2
  /\ mishaps = {}

Room == Len(log) < MaxEvents

NewEvent(kind, covers) == [id |-> Len(log) + 1, kind |-> kind, covers |-> covers]

Noted(what) == what \in Trouble /\ mishaps' = mishaps \cup {what}

(***************************************************************************)
(* Starting a turn and starting a compression.                             *)
(***************************************************************************)

\* startStream: a new run, whose first event is the user's content.
StartStream(content) ==
  /\ phase' = "streaming"
  /\ run' = content
  /\ inflight' = << >>
  /\ asked' = FALSE
  /\ esc' = FALSE
  /\ failed' = FALSE

\* startCompression: snapshots of the covered prefix and of the tail go to the
\* goroutine. With nothing to compress it does nothing, and a pending prompt is
\* sent right away, which is the first alternative of SendPrompt.
StartCompression(auto, pending) ==
  \E k \in 1 .. Len(display) :
    /\ CutoffAt(display, k)
    /\ phase' = "compressing"
    /\ esc' = FALSE
    /\ job' = [stage |-> "summarize", auto |-> auto, pending |-> pending,
               covered |-> SubSeq(display, 1, k),
               tail |-> SubSeq(display, k + 1, Len(display)),
               summary |-> NoId]

\* send: the prompt starts a turn or, when the usage estimate is over the
\* threshold, waits for an automatic compression.
SendPrompt ==
  /\ phase = "idle"
  /\ Room
  /\ \/ StartStream("prompt") /\ job' = job
     \/ /\ AutoCompress
        /\ StartCompression(TRUE, TRUE)
        /\ UNCHANGED << run, inflight, asked, failed >>
  /\ UNCHANGED << disk, leftover, display, noAutoAfter, hist >>

\* /compress
CompressCommand ==
  /\ phase = "idle"
  /\ Room
  /\ StartCompression(FALSE, FALSE)
  /\ UNCHANGED << disk, turn, display, noAutoAfter, hist >>

\* answerConfirmation, approving or denying: a new run carries the decision.
AnswerConfirmation ==
  /\ phase = "confirming"
  /\ StartStream("answer")
  /\ UNCHANGED << disk, leftover, display, noAutoAfter, job, hist >>

(***************************************************************************)
(* The run: each event is persisted and then yielded to the pump.          *)
(***************************************************************************)

\* The event a run at this stage appends, and the stage it goes to: a prompt
\* or an answer is followed by the model, a call by its result, and a gated
\* call by a placeholder result and the confirmation request that ends the run.
Appends(stage, kind, next) ==
  \/ stage = "prompt" /\ kind = "prompt" /\ next = "model"
  \/ stage = "answer" /\ kind = "answer" /\ next = "tool"
  \/ stage = "model"  /\ kind = "reply"  /\ next = "done"
  \/ stage = "model"  /\ kind = "call"   /\ next = "tool" /\ "free" \in ToolKinds
  \/ stage = "model"  /\ kind = "call"   /\ next = "gate" /\ "gated" \in ToolKinds
  \/ stage = "tool"   /\ kind = "result" /\ next = "model"
  \/ stage = "gate"   /\ kind = "result" /\ next = "ask"
  \/ stage = "ask"    /\ kind = "ask"    /\ next = "done"

AppendedBy(stage, kind, next) ==
  /\ Room
  /\ Appends(stage, kind, next)
  /\ log' = Append(log, NewEvent(kind, {}))
  /\ gap' = IF kind \in UserKinds /\ gap < 2 THEN gap + 1 ELSE gap
  /\ UNCHANGED << marker, minGap, mishaps >>

RunAppends ==
  \E kind \in Kinds, next \in RunStages :
    /\ phase = "streaming"
    /\ AppendedBy(run, kind, next)
    /\ run' = next
    /\ inflight' = Append(inflight, NewEvent(kind, {}))
    /\ UNCHANGED << phase, leftover, display, asked, esc, failed, noAutoAfter, job >>

\* The run yields an error (the server, a hook, the iteration cap) and ends.
RunFails ==
  /\ phase = "streaming"
  /\ run \notin {"none", "done"}
  /\ run' = "done"
  /\ failed' = TRUE
  /\ UNCHANGED << disk, phase, leftover, inflight, display, asked, esc,
                  noAutoAfter, job, hist >>

\* A cancelled run appends what it had under way, or returns; nobody reads it.
LeftoverAppends ==
  \E kind \in Kinds, next \in RunStages :
    /\ AppendedBy(leftover, kind, next)
    /\ leftover' = next
    /\ UNCHANGED << phase, run, inflight, display, asked, esc, failed,
                    noAutoAfter, job >>

LeftoverReturns ==
  /\ leftover # "none"
  /\ leftover' = "none"
  /\ UNCHANGED << disk, phase, run, inflight, display, asked, esc, failed,
                  noAutoAfter, job, hist >>

(***************************************************************************)
(* The TUI side of a turn.                                                 *)
(***************************************************************************)

\* handleADK of a completed event: it joins the display.
HandleEvent ==
  /\ phase = "streaming"
  /\ inflight # << >>
  /\ display' = Append(display, Head(inflight))
  /\ inflight' = Tail(inflight)
  /\ asked' = (asked \/ Head(inflight).kind = "ask")
  /\ UNCHANGED << disk, phase, run, leftover, esc, failed, noAutoAfter, job, hist >>

\* finishStreaming of a run that ended by itself, after its last event was
\* handled: confirm, or compress when over the threshold, or go idle. A prompt
\* queued meanwhile waits for the compression, or is sent as SendPrompt sends.
FinishTurn ==
  /\ phase = "streaming"
  /\ run = "done"
  /\ inflight = << >>
  /\ ~ esc
  /\ run' = "none"
  /\ \/ /\ phase' = IF asked THEN "confirming" ELSE "idle"
        /\ UNCHANGED << esc, job >>
     \/ /\ AutoCompress
        /\ ~ asked
        /\ ~ failed
        /\ Len(display) >= noAutoAfter
        /\ Room
        /\ \E queued \in BOOLEAN : StartCompression(TRUE, queued)
  /\ UNCHANGED << disk, leftover, inflight, display, asked, failed,
                  noAutoAfter, hist >>

\* esc while the model works: cancelStream cancels the context of the run. (With
\* a confirmation on screen esc denies it. One leftover run at a time: a bound.)
CancelTurn ==
  /\ phase = "streaming"
  /\ ~ esc
  /\ ~ asked
  /\ leftover = "none"
  /\ esc' = TRUE
  /\ Noted("turn-cancelled")
  /\ UNCHANGED << disk, phase, turn, display, noAutoAfter, job, gap, minGap >>

\* The pump saw the cancelled context and closed its channel: what it had not
\* delivered is dropped, and the run goes on until it sees the context too.
CancelledTurnEnds ==
  /\ phase = "streaming"
  /\ esc
  /\ phase' = IF asked THEN "confirming" ELSE "idle"
  /\ leftover' = IF run = "done" THEN "none" ELSE run
  /\ run' = "none"
  /\ inflight' = << >>
  /\ UNCHANGED << disk, display, asked, esc, failed, noAutoAfter, job, hist >>

(***************************************************************************)
(* The compression goroutine (runCompression) and its result.              *)
(***************************************************************************)

Goto(stage) == job' = [job EXCEPT !.stage = stage]

OnlyJobMoves ==
  UNCHANGED << phase, turn, display, esc, noAutoAfter, minGap >>

\* Summarize: the model answers, or fails, or sees the cancelled context.
Summarize ==
  /\ job.stage = "summarize"
  /\ Goto("append") \/ Goto("failed") \/ (esc /\ Goto("aborted"))
  /\ UNCHANGED << disk, gap, mishaps >>
  /\ OnlyJobMoves

\* What a text about these events stands for, an earlier digest included.
StandsFor(events) == { e.id : e \in events } \cup UNION { e.covers : e \in events }

DigestSkipsSummaries(events) ==  \* seeded fault: earlier digests left out
  { events[i].id : i \in 1 .. Len(events) }

\* The new summary: Transcript renders the covered events, the text of an earlier
\* summary among them, and drops the oldest ones that are over the budget.
Digest(events) ==
  StandsFor({ events[i] : i \in { j \in 1 .. Len(events) :
                                   j > Len(events) - TranscriptBudget } })

AppendSummaryUnchecked ==  \* seeded fault: an append that failed goes unnoticed
  /\ job.stage = "append"
  /\ job' = [job EXCEPT !.stage = "mark", !.summary = Len(log) + 1]
  /\ UNCHANGED << disk, gap, mishaps >>
  /\ OnlyJobMoves

AppendSummaryRewrites ==  \* seeded fault: the log on disk is compacted as well
  /\ job.stage = "append"
  /\ log' = Append(job.tail, NewEvent("summary", Digest(job.covered)))
  /\ job' = [job EXCEPT !.stage = "mark", !.summary = Len(log) + 1]
  /\ UNCHANGED << marker, gap, mishaps >>
  /\ OnlyJobMoves

\* Compact, first half: the summary event goes to the end of the log.
AppendSummary ==
  /\ job.stage = "append"
  /\ log' = Append(log, NewEvent("summary", Digest(job.covered)))
  /\ job' = [job EXCEPT !.stage = "mark", !.summary = Len(log) + 1]
  /\ UNCHANGED << marker, gap, mishaps >>
  /\ OnlyJobMoves

WriteMarkerShort ==  \* seeded fault: the marker stops one event early
  /\ job.stage = "mark"
  /\ Len(job.covered) > 1
  /\ marker' = [summary |-> job.summary,
                coveredThrough |-> job.covered[Len(job.covered) - 1].id]
  /\ Goto("ready")
  /\ gap' = 0
  /\ minGap' = IF gap < minGap THEN gap ELSE minGap
  /\ UNCHANGED << log, mishaps, phase, turn, display, esc, noAutoAfter >>

\* Compact, second half: the marker is written.
WriteMarker ==
  /\ job.stage = "mark"
  /\ marker' = [summary |-> job.summary,
                coveredThrough |-> job.covered[Len(job.covered)].id]
  /\ Goto("ready")
  /\ gap' = 0
  /\ minGap' = IF gap < minGap THEN gap ELSE minGap
  /\ UNCHANGED << log, mishaps, phase, turn, display, esc, noAutoAfter >>

\* Either write of Compact fails.
CompactFails ==
  /\ job.stage \in {"append", "mark"}
  /\ Goto("failed")
  /\ Noted("write-failed")
  /\ UNCHANGED << disk, gap >>
  /\ OnlyJobMoves

\* esc while compressing: cancelCompression.
CancelCompression ==
  /\ phase = "compressing"
  /\ ~ esc
  /\ esc' = TRUE
  /\ Noted("compression-cancelled")
  /\ UNCHANGED << disk, phase, turn, display, noAutoAfter, job, gap, minGap >>

HandleSummaryCooldown ==  \* seeded fault: cooldown off by the covered events
  /\ job.stage = "ready"
  /\ display' = << log[job.summary] >> \o job.tail
  /\ noAutoAfter' = Len(job.tail) - Len(job.covered)
  /\ job' = NoJob
  /\ phase' = "idle"
  /\ esc' = FALSE
  /\ UNCHANGED << disk, turn, hist >>

\* handleCompressResult of a summary: the display is rebuilt from it and the
\* tail, and the pending prompt is sent.
HandleSummary ==
  /\ job.stage = "ready"
  /\ display' = << log[job.summary] >> \o job.tail
  /\ noAutoAfter' = IF job.auto THEN Len(job.tail) + 3 ELSE noAutoAfter
  /\ job' = NoJob
  /\ IF job.pending
       THEN StartStream("prompt")
       ELSE /\ phase' = "idle"
            /\ esc' = FALSE
            /\ UNCHANGED << run, inflight, asked, failed >>
  /\ UNCHANGED << disk, leftover, hist >>

HandleOnlyFailure ==  \* seeded fault: a cancelled compression posts nothing
  /\ job.stage = "failed"
  /\ job' = NoJob
  /\ phase' = "idle"
  /\ esc' = FALSE
  /\ UNCHANGED << disk, turn, display, noAutoAfter, hist >>

\* handleCompressResult of an error. When esc was pressed the goroutine's select
\* may drop its result, whatever it is, and the TUI reads a cancellation.
HandleNoSummary ==
  /\ \/ job.stage \in {"failed", "aborted"}
     \/ esc /\ job.stage = "ready"
  /\ job' = NoJob
  /\ phase' = "idle"
  /\ esc' = FALSE
  /\ UNCHANGED << disk, turn, display, noAutoAfter, hist >>

(***************************************************************************)
(* Coming back to the session.                                             *)
(***************************************************************************)

ResumeWhileCompressing ==  \* seeded fault: the picker opens during a compression
  /\ phase \in {"idle", "compressing"}
  /\ display' = ModelView
  /\ noAutoAfter' = 0
  /\ UNCHANGED << disk, phase, turn, esc, job, hist >>

\* resumeSession, after a detour through another session.
Resume ==
  /\ phase = "idle"
  /\ display' = ModelView
  /\ noAutoAfter' = 0
  /\ UNCHANGED << disk, phase, turn, esc, job, hist >>

\* The process ends at any point (ctrl+c, a kill); a later one resumes.
Restart ==
  /\ phase' = "idle"
  /\ display' = ModelView
  /\ run' = "none"
  /\ leftover' = "none"
  /\ inflight' = << >>
  /\ asked' = FALSE
  /\ esc' = FALSE
  /\ failed' = FALSE
  /\ noAutoAfter' = 0
  /\ job' = NoJob
  /\ Noted("killed")
  /\ UNCHANGED << disk, gap, minGap >>

TurnStep == RunAppends \/ RunFails \/ HandleEvent \/ FinishTurn \/ CancelledTurnEnds
JobStep == Summarize \/ AppendSummary \/ WriteMarker \/ CompactFails
HandleResult == HandleSummary \/ HandleNoSummary

Next ==
  \/ SendPrompt \/ CompressCommand \/ AnswerConfirmation
  \/ CancelTurn \/ CancelCompression
  \/ TurnStep \/ LeftoverAppends \/ LeftoverReturns
  \/ JobStep \/ HandleResult
  \/ Resume \/ Restart

(***************************************************************************)
(* The compression goroutine runs, and Bubble Tea delivers the message its *)
(* command returns. Summarize may take long, but its HTTP request ends in  *)
(* an answer or an error. Nothing is assumed of the user.                  *)
(***************************************************************************)
Fairness == WF_vars(JobStep) /\ WF_vars(HandleResult)

Spec == Init /\ [][Next]_vars /\ Fairness
-----------------------------------------------------------------------------
(***************************************************************************)
(* Safety.                                                                 *)
(***************************************************************************)

Ids(events) == { events[i].id : i \in 1 .. Len(events) }
Latest(kind) == { i \in 1 .. Len(log) : /\ log[i].kind = kind
                                        /\ \A j \in i + 1 .. Len(log) : log[j].kind # kind }
FullView == ApplyCompaction(log, marker)
Undisturbed == mishaps = {}

\* A written marker always names two events of the log, so the fail-open branch
\* of applyCompaction, which its comment says should not happen, is dead code
\* even with runs left over, failed writes and kills between the two writes.
MarkerResolves == marker.summary # NoId => Applies(log, marker)

\* The history cap never ages the summary out of what the model sees, never
\* hides it behind an older one, and still bounds what the model sees.
SummarySticks ==
  LET view == ModelView
  IN  /\ marker.summary # NoId => Head(view) = log[marker.summary]
      /\ HistoryLimit > 0 => Len(view) <= HistoryLimit

\* However turns, compressions, kills and resumes follow one another, no event
\* is shown to the model twice, and the display never shows one twice.
Distinct(events) ==
  \A i, j \in 1 .. Len(events) : events[i].id = events[j].id => i = j

NothingTwice == Distinct(ModelView) /\ Distinct(display)

\* The display, capped as the service caps, is the transcript the model gets.
SeenAsShown ==
  LET compacted == marker.summary # NoId /\ Has(display, marker.summary)
  IN  Cap(display, HistoryLimit, compacted) = ModelView

\* Between turns the user sees what the model will see, as long as nothing was
\* interrupted and each compression came two user events after the last one.
DisplayAgrees ==
  Undisturbed /\ minGap = 2 /\ phase \in {"idle", "confirming"} =>
    SeenAsShown

\* Compression forgets nothing: every event of the log is before the model,
\* itself or in a digest (of a digest ...) that is, as long as nothing was
\* interrupted, each compression came after a new user event and what it covers
\* fits the summariser's budget. (The history limit must not bite either: what a
\* resumed display leaves out, the next compression does not cover.)
NothingForgotten ==
  Undisturbed /\ minGap > 0 =>
    Ids(log) \subseteq StandsFor({ FullView[i] : i \in 1 .. Len(FullView) })

\* The model never sees a tool result whose call was summarised away, as long
\* as no turn was interrupted between the call and the result, by the user or by
\* a confirmation.
PairsIntact ==
  LET view == FullView
      CallOf(r) == CHOOSE c \in 1 .. view[r].id :
                     /\ log[c].kind = "call"
                     /\ \A b \in c + 1 .. view[r].id : log[b].kind # "call"
  IN  Undisturbed =>
        \A r \in 1 .. Len(view) :
          view[r].kind = "result" => CallOf(r) \in Ids(view)

\* While a compression runs the display stands still: the tail and the covered
\* prefix the goroutine was given are still what is on screen when it ends.
SnapshotIsCurrent ==
  phase = "compressing" => display = job.covered \o job.tail

\* Whatever goes wrong around it, the stored session keeps its promise: nothing
\* of the log is rewritten, and the marker moves forward from one summary to a
\* later one that stands for events before it.
Ledger == INSTANCE SessionLedger
KeepsLedger == Ledger!Spec

(***************************************************************************)
(* Liveness: the input is gated while a compression runs, so it must end,  *)
(* esc or not.                                                             *)
(***************************************************************************)
CompressionEnds == phase = "compressing" ~> phase # "compressing"

(***************************************************************************)
(* What the documents of the repository say and the code does not do.      *)
(***************************************************************************)

\* internal/compress/compress.go:50-52, docs/configuration.md:96-98: the latest
\* exchange is kept verbatim in what the model sees.
LatestExchangeKept ==
  Undisturbed => \A p \in Latest("prompt") : p \in Ids(FullView)

=============================================================================
