------------------------------- MODULE Turns -------------------------------
(***************************************************************************)
(* The turns of the terminal program: the composer, the prompts queued     *)
(* behind a busy run, the runs and the channels they arrive by, the        *)
(* confirmation of a tool, compressions that hold a prompt back, and the   *)
(* switch to another session.                                              *)
(*                                                                         *)
(* The record m is the Model of internal/tui that Update takes and         *)
(* returns. A run is the goroutine of startStream; a waiter is a command   *)
(* of waitForADK, which takes one message from the channel it was given.   *)
(***************************************************************************)
EXTENDS Integers, Sequences, FiniteSets, SequencesExt

CONSTANTS
  MaxPrompts,   (* bounds the prompts the user types                        *)
  MaxAsks,      (* bounds the confirmation requests                         *)
  MaxSessions,  (* bounds the sessions                                      *)
  QueueCap,     (* maxQueuedPrompts                                         *)
  ChannelCap,   (* bounds the messages of a run that are under way          *)
  Trouble       (* the mishaps that may happen, of the set Mishaps          *)

Mishaps == {"early-answer", "compression-cancelled", "compression-fails"}

ASSUME TurnsAssumption ==
  /\ MaxPrompts \in Nat \ {0} /\ MaxAsks \in Nat
  /\ MaxSessions \in Nat \ {0} /\ QueueCap \in Nat /\ ChannelCap \in Nat \ {0}
  /\ Trouble \subseteq Mishaps

VARIABLES
  m,        (* the Model: what Update reads and writes                      *)
  pump,     (* the runs started so far, and the waiters on each channel     *)
  jobs,     (* the compressions under way                                   *)
  typed,    (* the number of prompts typed so far                           *)
  asks,     (* the number of confirmation requests so far                   *)
  sent,     (* history: the user messages sent, each with its session       *)
  entered,  (* history: per prompt, the session it was last entered in      *)
  dropped,  (* history: prompts the user left behind by switching session   *)
  mishaps   (* history: what went wrong so far                              *)

hist == << entered, dropped, mishaps >>
vars == << m, pump, jobs, typed, asks, sent, hist >>

Prompts == 1 .. MaxPrompts
Message == Seq(Prompts)         \* << >> is no message
RunIds == 1 .. MaxPrompts + MaxAsks
NoRun == 0                      \* a nil channel, a nil cancel function
NoJob == 0

Run == [stage : {"working", "asked", "over"}, stopped : BOOLEAN,
        out : Seq({"event", "confirm", "error"})]
Pump == [run : Seq(Run), waiters : [RunIds \cup {NoRun} -> Nat]]
Model == [streaming : BOOLEAN, confirming : BOOLEAN, compressing : BOOLEAN,
          cancelled : BOOLEAN, streamFailed : BOOLEAN,
          composer : Message, queued : Seq(Message), pending : Message,
          session : 1 .. MaxSessions, opened : 1 .. MaxSessions,
          cancel : RunIds \cup {NoRun}, adkCh : RunIds \cup {NoRun},
          compressCancel : Nat]

TypeOK ==
  /\ m \in Model
  /\ Len(m.queued) <= QueueCap
  /\ pump \in Pump
  /\ jobs \subseteq [n : Nat \ {NoJob}, stopped : BOOLEAN]
  /\ typed \in 0 .. MaxPrompts
  /\ asks \in 0 .. MaxAsks
  /\ sent \in Seq([prompts : Message, session : 1 .. MaxSessions])
  /\ entered \in [Prompts -> 0 .. MaxSessions]
  /\ dropped \subseteq Prompts
  /\ mishaps \subseteq Trouble

Init ==
  /\ m = [streaming |-> FALSE, confirming |-> FALSE, compressing |-> FALSE,
          cancelled |-> FALSE, streamFailed |-> FALSE,
          composer |-> << >>, queued |-> << >>, pending |-> << >>,
          session |-> 1, opened |-> 1,
          cancel |-> NoRun, adkCh |-> NoRun, compressCancel |-> NoJob]
  /\ pump = [run |-> << >>, waiters |-> [r \in RunIds \cup {NoRun} |-> 0]]
  /\ jobs = {}
  /\ typed = 0
  /\ asks = 0
  /\ sent = << >>
  /\ entered = [p \in Prompts |-> 0]
  /\ dropped = {}
  /\ mishaps = {}

Idle == ~ m.streaming /\ ~ m.confirming /\ ~ m.compressing
Runs == 1 .. Len(pump.run)

Noted(what) == what \in Trouble /\ mishaps' = mishaps \cup {what}
Waits(p, r) == [p EXCEPT !.waiters[r] = @ + 1]
Taken(p, r) == [p EXCEPT !.waiters[r] = @ - 1]
Entered(message) ==
  entered' = [p \in Prompts |->
    IF p \in ToSet(message) THEN m.session ELSE entered[p]]

(***************************************************************************)
(* startStream: content is a message, or << >> for the answer to a         *)
(* confirmation request.                                                   *)
(***************************************************************************)
StartStream(model, p, content) ==
  LET r == Len(p.run) + 1
  IN  /\ m' = [model EXCEPT !.streaming = TRUE, !.cancelled = FALSE,
                            !.streamFailed = FALSE, !.cancel = r, !.adkCh = r]
      /\ pump' = Waits([p EXCEPT !.run =
                   Append(@, [stage |-> "working", stopped |-> FALSE, out |-> << >>])], r)
      /\ sent' = IF content = << >> THEN sent
                 ELSE Append(sent, [prompts |-> content, session |-> model.session])

\* startCompression: with nothing worth compressing the pending message, if any,
\* is sent right away.
StartCompression(model, p, pending) ==
  \/ /\ pending # << >>
     /\ StartStream([model EXCEPT !.pending = << >>], p, pending)
     /\ UNCHANGED jobs
  \/ /\ pending = << >>
     /\ m' = model
     /\ pump' = p
     /\ UNCHANGED << jobs, sent >>
  \/ LET n == CHOOSE k \in 1 .. Cardinality(jobs) + 1 : \A j \in jobs : j.n # k
     IN  /\ m' = [model EXCEPT !.compressing = TRUE, !.compressCancel = n,
                               !.pending = pending]
         /\ pump' = p
         /\ jobs' = jobs \cup {[n |-> n, stopped |-> FALSE]}
         /\ UNCHANGED sent

(***************************************************************************)
(* Keys.                                                                   *)
(***************************************************************************)

\* The composer is edited, idle or while a run streams.
Type ==
  /\ ~ m.confirming
  /\ m.streaming \/ ~ m.compressing
  /\ typed < MaxPrompts
  /\ typed' = typed + 1
  /\ m' = [m EXCEPT !.composer = Append(@, typed + 1)]
  /\ UNCHANGED << pump, jobs, asks, sent, hist >>

\* Enter, idle: send. Whether the context is over the threshold is left open.
Send ==
  /\ Idle
  /\ m.composer # << >>
  /\ Entered(m.composer)
  /\ LET cleared == [m EXCEPT !.composer = << >>]
     IN  \/ StartStream(cleared, pump, m.composer) /\ UNCHANGED jobs
         \/ StartCompression(cleared, pump, m.composer)
  /\ UNCHANGED << typed, asks, dropped, mishaps >>

QueueWithoutCap ==  \* seeded fault: the composer is reset before the cap is looked at
  /\ m.streaming /\ ~ m.confirming
  /\ m.composer # << >>
  /\ Entered(m.composer)
  /\ m' = [m EXCEPT !.composer = << >>,
                    !.queued = IF Len(@) < QueueCap THEN Append(@, m.composer) ELSE @]
  /\ UNCHANGED << pump, jobs, typed, asks, sent, dropped, mishaps >>

QueueAtTheFront ==  \* seeded fault: the newest prompt goes first
  /\ m.streaming /\ ~ m.confirming
  /\ m.composer # << >>
  /\ Len(m.queued) < QueueCap
  /\ Entered(m.composer)
  /\ m' = [m EXCEPT !.composer = << >>, !.queued = << m.composer >> \o @]
  /\ UNCHANGED << pump, jobs, typed, asks, sent, dropped, mishaps >>

\* Enter while a run streams: queueWhileBusy.
QueueWhileBusy ==
  /\ m.streaming /\ ~ m.confirming
  /\ m.composer # << >>
  /\ Len(m.queued) < QueueCap
  /\ Entered(m.composer)
  /\ m' = [m EXCEPT !.composer = << >>, !.queued = Append(@, m.composer)]
  /\ UNCHANGED << pump, jobs, typed, asks, sent, dropped, mishaps >>

\* Esc while a run streams: cancelStream.
CancelStream ==
  /\ m.streaming /\ ~ m.confirming
  /\ m' = [m EXCEPT !.cancelled = TRUE]
  /\ pump' = IF m.cancel = NoRun THEN pump
             ELSE [pump EXCEPT !.run[m.cancel].stopped = TRUE]
  /\ UNCHANGED << jobs, typed, asks, sent, hist >>

\* y or n to a confirmation request: answerConfirmation. The user is taken to
\* be slower than the end of the run that asked, unless the answer is early.
AnswerConfirmation ==
  /\ m.confirming
  /\ IF m.streaming THEN Noted("early-answer") ELSE UNCHANGED mishaps
  /\ StartStream([m EXCEPT !.confirming = FALSE], pump, << >>)
  /\ UNCHANGED << jobs, typed, asks, entered, dropped >>

\* /compress, typed into the composer in place of a prompt.
CompressCommand ==
  /\ Idle
  /\ m.composer = << >>
  /\ StartCompression(m, pump, << >>)
  /\ UNCHANGED << typed, asks, hist >>

\* Esc while a compression runs: cancelCompression.
CancelCompression ==
  /\ Noted("compression-cancelled")
  /\ m.compressing /\ ~ m.streaming /\ ~ m.confirming
  /\ jobs' = { [j EXCEPT !.stopped = @ \/ j.n = m.compressCancel] : j \in jobs }
  /\ UNCHANGED << m, pump, typed, asks, sent, entered, dropped >>

\* /new, typed in place of a prompt: the queue belongs to the previous session.
NewSession ==
  /\ Idle
  /\ m.composer = << >>
  /\ m.opened < MaxSessions
  /\ m' = [m EXCEPT !.session = m.opened + 1, !.opened = m.opened + 1, !.queued = << >>]
  /\ dropped' = dropped \cup ToSet(FlattenSeq(m.queued))
  /\ UNCHANGED << pump, jobs, typed, asks, sent, entered, mishaps >>

ResumeWhileBusy ==  \* seeded fault: the rail is not gated while a run streams
  /\ ~ m.confirming /\ ~ m.compressing
  /\ \E id \in 1 .. m.opened : id # m.session /\
       m' = [m EXCEPT !.session = id, !.composer = << >>]
  /\ dropped' = dropped \cup ToSet(m.composer)
  /\ UNCHANGED << pump, jobs, typed, asks, sent, entered, mishaps >>

\* A past session is picked from the rail or the picker: resumeSession.
Resume ==
  /\ Idle
  /\ \E id \in 1 .. m.opened : id # m.session /\
       m' = [m EXCEPT !.session = id, !.composer = << >>,
                      !.confirming = FALSE, !.cancelled = FALSE, !.streamFailed = FALSE]
  /\ dropped' = dropped \cup ToSet(m.composer)
  /\ UNCHANGED << pump, jobs, typed, asks, sent, entered, mishaps >>

(***************************************************************************)
(* The goroutines of a run: the runner, and the pump that hands over what  *)
(* it yields until it returns or its context is cancelled.                 *)
(***************************************************************************)
RunYields(r, item, stage) ==
  /\ pump.run[r].stage = "working"
  /\ Len(pump.run[r].out) < ChannelCap
  /\ pump' = [pump EXCEPT !.run[r].out = Append(@, item), !.run[r].stage = stage]
  /\ UNCHANGED << m, jobs, typed, sent, hist >>

RunAppends(r) == RunYields(r, "event", "working") /\ UNCHANGED asks
RunFails(r) == RunYields(r, "error", "over") /\ UNCHANGED asks
RunAsks(r) ==
  /\ asks < MaxAsks
  /\ RunYields(r, "confirm", "asked")
  /\ asks' = asks + 1

RunReturns(r) ==
  /\ pump.run[r].stage # "over"
  /\ pump' = [pump EXCEPT !.run[r].stage = "over"]
  /\ UNCHANGED << m, jobs, typed, asks, sent, hist >>

StoppedRunGoesOn(r) ==  \* seeded fault: the pump waits for the runner to return
  /\ pump.run[r].stopped
  /\ pump.run[r].stage = "over"
  /\ pump.run[r].out # << >>
  /\ pump' = [pump EXCEPT !.run[r].out = << >>]
  /\ UNCHANGED << m, jobs, typed, asks, sent, hist >>

Heads(s) == IF s = << >> THEN {} ELSE { << Head(s) >> }

\* The context is done: the pump returns and closes the channel, which may hold
\* a message; the error of the context itself may still get through.
StoppedRunEnds(r) ==
  /\ pump.run[r].stopped
  /\ pump.run[r].stage # "over" \/ pump.run[r].out # << >>
  /\ \E out \in { << >>, << "error" >> } \cup Heads(pump.run[r].out) :
       pump' = [pump EXCEPT !.run[r].stage = "over", !.run[r].out = out]
  /\ UNCHANGED << m, jobs, typed, asks, sent, hist >>

(***************************************************************************)
(* Messages of a run, handled by handleADK.                                *)
(***************************************************************************)
Over(model) == model.cancelled \/ model.streamFailed

FinishIgnoringCancel(model, p) ==  \* seeded fault: the queue goes on after an interrupt
  LET ended == [model EXCEPT !.streaming = FALSE, !.cancel = NoRun, !.adkCh = NoRun]
  IN  IF ended.queued # << >> /\ ~ ended.confirming
        THEN StartStream([ended EXCEPT !.queued = Tail(@)], p, Head(ended.queued)) /\ UNCHANGED jobs
        ELSE m' = ended /\ pump' = p /\ UNCHANGED << jobs, sent >>

FinishWithoutPop(model, p) ==  \* seeded fault: the prompt sent stays in the queue
  LET ended == [model EXCEPT !.streaming = FALSE, !.cancel = NoRun, !.adkCh = NoRun]
  IN  IF ended.queued # << >> /\ ~ ended.confirming /\ ~ Over(ended) /\ Len(p.run) < MaxPrompts
        THEN StartStream(ended, p, Head(ended.queued)) /\ UNCHANGED jobs
        ELSE m' = ended /\ pump' = p /\ UNCHANGED << jobs, sent >>

FinishKeepingQueue(model, p) ==  \* seeded fault: an interrupt leaves the queue as it is
  LET ended == [model EXCEPT !.streaming = FALSE, !.cancel = NoRun, !.adkCh = NoRun]
  IN  IF ended.queued # << >> /\ ~ ended.confirming /\ ~ Over(ended)
        THEN StartStream([ended EXCEPT !.queued = Tail(@)], p, Head(ended.queued)) /\ UNCHANGED jobs
        ELSE m' = ended /\ pump' = p /\ UNCHANGED << jobs, sent >>

\* finishStreaming: the run is over. After an interrupt or an error the queue is
\* handed back to the composer; otherwise its front is sent, and a compression
\* may come before it.
FinishStreaming(model, p) ==
  LET ended == [model EXCEPT !.streaming = FALSE, !.cancel = NoRun, !.adkCh = NoRun]
      popped == [ended EXCEPT !.queued = Tail(@)]
  IN  \/ /\ ended.confirming \/ (ended.queued = << >>)
         /\ m' = ended
         /\ pump' = p
         /\ UNCHANGED << jobs, sent >>
      \/ /\ ~ ended.confirming /\ ended.queued # << >> /\ Over(ended)
         /\ m' = [ended EXCEPT !.queued = << >>, !.composer = FlattenSeq(ended.queued)]
         /\ pump' = p
         /\ UNCHANGED << jobs, sent >>
      \/ /\ ~ ended.confirming /\ ended.queued # << >> /\ ~ Over(ended)
         /\ \/ StartStream(popped, p, Head(ended.queued)) /\ UNCHANGED jobs
            \/ StartCompression(popped, p, Head(ended.queued))
      \/ /\ ~ ended.confirming /\ ended.queued = << >> /\ ~ Over(ended)
         /\ StartCompression(ended, p, << >>)

RearmUnlessAsked(r, p, asked) ==  \* seeded fault: no wait after a confirmation request
  IF asked THEN p ELSE Waits(p, m.adkCh)

\* The next waiter reads the channel of the Model, not the one this message
\* came by.
Rearm(r, p, asked) == Waits(p, m.adkCh)

\* A completed event, a batch of deltas or a confirmation request is handled.
HandleEvent(r) ==
  /\ pump.waiters[r] > 0 /\ pump.run[r].out # << >>
  /\ Head(pump.run[r].out) \in {"event", "confirm"}
  /\ LET asked == Head(pump.run[r].out) = "confirm"
     IN  /\ m' = [m EXCEPT !.confirming = @ \/ asked]
         /\ pump' = Rearm(r, Taken([pump EXCEPT !.run[r].out = Tail(@)], r), asked)
  /\ UNCHANGED << jobs, typed, asks, sent, hist >>

HandleError(r) ==
  /\ pump.waiters[r] > 0 /\ pump.run[r].out # << >>
  /\ Head(pump.run[r].out) = "error"
  /\ FinishStreaming([m EXCEPT !.cancelled = FALSE, !.streamFailed = TRUE],
                     Taken([pump EXCEPT !.run[r].out = Tail(@)], r))
  /\ UNCHANGED << typed, asks, hist >>

\* The channel is closed and empty: the end-of-stream marker.
HandleDone(r) ==
  /\ pump.waiters[r] > 0 /\ pump.run[r].out = << >>
  /\ pump.run[r].stage = "over"
  /\ FinishStreaming(m, Taken(pump, r))
  /\ UNCHANGED << typed, asks, hist >>

(***************************************************************************)
(* Results of a compression, handled by handleCompressResult.              *)
(***************************************************************************)
Cleared == [m EXCEPT !.compressing = FALSE, !.compressCancel = NoJob, !.pending = << >>]
JobsWithout(j) ==
  { [k EXCEPT !.stopped = @ \/ k.n = m.compressCancel] : k \in jobs \ {j} }

HandleSummary(j) ==
  /\ jobs' = JobsWithout(j)
  /\ \/ /\ m.pending # << >>
        /\ StartStream(Cleared, pump, m.pending)
     \/ /\ m.pending = << >>
        /\ m' = Cleared
        /\ UNCHANGED << pump, sent >>
  /\ UNCHANGED << typed, asks, hist >>

\* The pending text goes back to the composer.
HandleCancelled(j) ==
  /\ j.stopped
  /\ jobs' = JobsWithout(j)
  /\ m' = [Cleared EXCEPT !.composer = IF m.pending = << >> THEN @ ELSE m.pending]
  /\ UNCHANGED << pump, typed, asks, sent, hist >>

HandleFailure(j) ==
  /\ Noted("compression-fails")
  /\ jobs' = JobsWithout(j)
  /\ m' = Cleared
  /\ UNCHANGED << pump, typed, asks, sent, entered, dropped >>

Keys ==
  \/ Type \/ Send \/ QueueWhileBusy \/ CancelStream \/ AnswerConfirmation
  \/ CompressCommand \/ CancelCompression \/ NewSession \/ Resume
RunStep(r) ==
  \/ RunAppends(r) \/ RunFails(r) \/ RunAsks(r) \/ RunReturns(r) \/ StoppedRunEnds(r)
Deliver(r) == HandleEvent(r) \/ HandleError(r) \/ HandleDone(r)
Result(j) == HandleSummary(j) \/ HandleCancelled(j) \/ HandleFailure(j)

Next ==
  \/ Keys
  \/ \E r \in Runs : RunStep(r) \/ Deliver(r)
  \/ \E j \in jobs : Result(j)

Spec == Init /\ [][Next]_vars

\* The pump waits for nothing but the runner and Update handles one message
\* after the other. The server answers a request unless the user gives it up, and
\* the harness caps the number of requests, so a run returns, and a compression
\* does too; the pump of a stopped run ends without them. The user may do nothing.
FairSpec ==
  /\ Spec
  /\ \A r \in RunIds :
       /\ WF_vars(r \in Runs /\ Deliver(r))
       /\ WF_vars(r \in Runs /\ StoppedRunEnds(r))
       /\ WF_vars(r \in Runs /\ ~ pump.run[r].stopped /\ RunReturns(r))
  /\ WF_vars(\E j \in jobs : Result(j))
-----------------------------------------------------------------------------
(***************************************************************************)
(* Safety.                                                                 *)
(***************************************************************************)
Sent == FlattenSeq([i \in 1 .. Len(sent) |-> sent[i].prompts])
Queued == FlattenSeq(m.queued)
Live(r) == pump.run[r].stage = "working" /\ ~ pump.run[r].stopped

\* Unless a confirmation was answered before the run that asked had ended, a run
\* is read by exactly one waiter from its start to its end, and a run that can
\* still yield is the one on screen.
OneReader ==
  "early-answer" \notin mishaps =>
    /\ \A r \in Runs : Live(r) => m.streaming /\ m.adkCh = r
    /\ \A r \in Runs \cup {NoRun} :
         pump.waiters[r] = IF m.streaming /\ r = m.adkCh THEN 1 ELSE 0

\* Whatever goes wrong, a prompt is in one place: the composer, the queue, held
\* back by a compression, or sent. None is sent twice.
NeverTwice ==
  LET everywhere == Sent \o m.pending \o Queued \o m.composer
  IN  Cardinality(ToSet(everywhere)) = Len(everywhere)

InHand == ToSet(Sent \o m.pending \o Queued \o m.composer)

\* Also when compressions are cancelled, a prompt that was entered is sent, waits
\* to be, or is back in the composer, or the user left its session: handing prompts
\* back to the composer overwrites drafts, but never a prompt that was entered.
EnteredKept ==
  mishaps \subseteq {"compression-cancelled"} =>
    \A p \in Prompts : entered[p] # 0 => p \in dropped \cup InHand

\* Prompts are sent in the order they were typed in, whatever was queued, handed
\* back after an interrupt or held back by a compression that succeeds.
SentInOrder ==
  mishaps = {} => \A i, j \in 1 .. Len(Sent) : i < j => Sent[i] < Sent[j]

\* A prompt goes to the session it was entered in, also when it was queued
\* behind a run or a compression that succeeds.
SentWhereEntered ==
  mishaps = {} => \A i \in 1 .. Len(sent) : \A p \in ToSet(sent[i].prompts) :
                    entered[p] = sent[i].session

\* Nothing fires by itself after an interrupt: from a cancelled turn only the
\* user's answer to a confirmation request starts a run, and no compression.
NothingFires ==
  [][m.streaming /\ m.cancelled /\ ~ m.confirming /\ "early-answer" \notin mishaps =>
       Len(pump'.run) = Len(pump.run) /\ (m'.compressing => m.compressing)]_vars

(***************************************************************************)
(* Liveness.                                                               *)
(***************************************************************************)

\* Esc ends the turn even if the server never answers.
EscEndsTurn == m.streaming /\ m.cancelled ~> ~ m.streaming

\* A queued prompt is sent or handed back, unless a tool waits for the user or a
\* mishap struck.
QueueDrains == m.queued # << >> ~> m.queued = << >> \/ m.confirming \/ mishaps # {}
=============================================================================
