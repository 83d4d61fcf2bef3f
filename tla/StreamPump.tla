----------------------------- MODULE StreamPump -----------------------------
(***************************************************************************)
(* The pump between the runner of a turn and the screen: startStream's two *)
(* goroutines, the channels between them, and the one message at a time    *)
(* that waitForADK takes.                                                  *)
(*                                                                         *)
(* The feeder moves what the runner yields into a buffered channel. The    *)
(* coalescer gathers deltas into batches, handed over when full, when the  *)
(* ticker fires and before anything that is not a delta.                   *)
(***************************************************************************)
EXTENDS Integers, Sequences

CONSTANTS
  RawCap,     (* the buffer between feeder and coalescer *)
  BatchCap,   (* streamBatchCap                          *)
  MaxYields   (* bounds what the runner yields           *)

ASSUME PumpAssumption ==
  RawCap \in Nat \ {0} /\ BatchCap \in Nat \ {0} /\ MaxYields \in Nat

VARIABLES
  kinds,      (* per item yielded, whether it is a delta, an event or an error *)
  feeder,     (* "pull": in the runner; "send": holds an item; "done"          *)
  raw,        (* the channel from feeder to coalescer                          *)
  coalescer,  (* "select"; "leave": returns once todo is sent; "done"          *)
  batch,      (* the deltas gathered so far                                    *)
  todo,       (* the messages the coalescer is about to send                   *)
  ch,         (* the channel to the screen, of capacity 1                      *)
  shown,      (* what handleADK was given, in order                            *)
  ended,      (* handleADK has finished the run                                *)
  stopped     (* the context is cancelled                                      *)

runner == << kinds, feeder >>
vars == << runner, raw, coalescer, batch, todo, ch, shown, ended, stopped >>

Items == 1 .. MaxYields

TypeOK ==
  /\ kinds \in Seq({"delta", "event", "error"})
  /\ feeder \in {"pull", "send", "done"}
  /\ raw \in Seq(Items) /\ Len(raw) <= RawCap
  /\ coalescer \in {"select", "leave", "done"}
  /\ batch \in Seq(Items) /\ Len(batch) < BatchCap
  /\ todo \in Seq(Seq(Items)) /\ Len(todo) <= 2
  /\ ch \in Seq(Seq(Items)) /\ Len(ch) <= 1
  /\ shown \in Seq(Items)
  /\ ended \in BOOLEAN
  /\ stopped \in BOOLEAN

Init ==
  /\ kinds = << >>
  /\ feeder = "pull"
  /\ raw = << >>
  /\ coalescer = "select"
  /\ batch = << >>
  /\ todo = << >>
  /\ ch = << >>
  /\ shown = << >>
  /\ ended = FALSE
  /\ stopped = FALSE

(***************************************************************************)
(* The feeder.                                                             *)
(***************************************************************************)
Yield ==
  /\ feeder = "pull"
  /\ Len(kinds) < MaxYields
  /\ \E kind \in {"delta", "event", "error"} : kinds' = Append(kinds, kind)
  /\ feeder' = "send"
  /\ UNCHANGED << raw, coalescer, batch, todo, ch, shown, ended, stopped >>

\* The iterator is exhausted, also when the context made the runner give up.
RunnerReturns ==
  /\ feeder = "pull"
  /\ feeder' = "done"
  /\ UNCHANGED << kinds, raw, coalescer, batch, todo, ch, shown, ended, stopped >>

FeederSends ==
  /\ feeder = "send"
  /\ Len(raw) < RawCap
  /\ raw' = Append(raw, Len(kinds))
  /\ feeder' = "pull"
  /\ UNCHANGED << kinds, coalescer, batch, todo, ch, shown, ended, stopped >>

FeederBlocks ==  \* seeded fault: the feeder's send does not look at the context
  /\ feeder = "send"
  /\ stopped /\ Len(raw) < RawCap
  /\ feeder' = "done"
  /\ UNCHANGED << kinds, raw, coalescer, batch, todo, ch, shown, ended, stopped >>

FeederStops ==
  /\ feeder = "send"
  /\ stopped
  /\ feeder' = "done"
  /\ UNCHANGED << kinds, raw, coalescer, batch, todo, ch, shown, ended, stopped >>

(***************************************************************************)
(* The coalescer's select; it chooses freely among the cases that are      *)
(* ready.                                                                  *)
(***************************************************************************)
Selecting == coalescer = "select" /\ todo = << >>
Flushed(b) == IF b = << >> THEN << >> ELSE << b >>

ReceiveDelta ==
  /\ Selecting
  /\ raw # << >> /\ kinds[Head(raw)] = "delta"
  /\ raw' = Tail(raw)
  /\ LET grown == Append(batch, Head(raw))
     IN  IF Len(grown) >= BatchCap
           THEN batch' = << >> /\ todo' = << grown >>
           ELSE batch' = grown /\ UNCHANGED todo
  /\ UNCHANGED << runner, coalescer, ch, shown, ended, stopped >>

ReceiveWithoutFlush ==  \* seeded fault: the event does not wait for the deltas before it
  /\ Selecting
  /\ raw # << >> /\ kinds[Head(raw)] # "delta"
  /\ raw' = Tail(raw)
  /\ todo' = << << Head(raw) >> >>
  /\ coalescer' = IF kinds[Head(raw)] = "error" THEN "leave" ELSE "select"
  /\ UNCHANGED << runner, batch, ch, shown, ended, stopped >>

\* A completed event or an error goes out at once, after the deltas before it;
\* after an error the coalescer returns.
ReceiveOther ==
  /\ Selecting
  /\ raw # << >> /\ kinds[Head(raw)] # "delta"
  /\ raw' = Tail(raw)
  /\ todo' = Append(Flushed(batch), << Head(raw) >>)
  /\ batch' = << >>
  /\ coalescer' = IF kinds[Head(raw)] = "error" THEN "leave" ELSE "select"
  /\ UNCHANGED << runner, ch, shown, ended, stopped >>

\* The feeder has closed its channel: the last deltas are drained.
ReceiveEnd ==
  /\ Selecting
  /\ raw = << >> /\ feeder = "done"
  /\ todo' = Flushed(batch)
  /\ batch' = << >>
  /\ coalescer' = "leave"
  /\ UNCHANGED << runner, raw, ch, shown, ended, stopped >>

TickWhenFull ==  \* seeded fault: only a full batch is flushed
  /\ Selecting
  /\ Len(batch) >= BatchCap
  /\ todo' = << batch >>
  /\ batch' = << >>
  /\ UNCHANGED << runner, raw, coalescer, ch, shown, ended, stopped >>

Tick ==
  /\ Selecting
  /\ batch # << >>
  /\ todo' = << batch >>
  /\ batch' = << >>
  /\ UNCHANGED << runner, raw, coalescer, ch, shown, ended, stopped >>

SeesStop ==
  /\ Selecting
  /\ stopped
  /\ coalescer' = "done"
  /\ UNCHANGED << runner, raw, batch, todo, ch, shown, ended, stopped >>

(***************************************************************************)
(* The coalescer's send: the channel takes the message, or the context is  *)
(* done and the message is dropped. A dropped event ends the pump, a       *)
(* dropped batch does not.                                                 *)
(***************************************************************************)
Send ==
  /\ todo # << >> /\ ch = << >>
  /\ ch' = << Head(todo) >>
  /\ todo' = Tail(todo)
  /\ UNCHANGED << runner, raw, coalescer, batch, shown, ended, stopped >>

Drop ==
  /\ todo # << >> /\ stopped
  /\ todo' = Tail(todo)
  /\ coalescer' = IF kinds[Head(todo)[1]] = "event" THEN "done" ELSE coalescer
  /\ UNCHANGED << runner, raw, batch, ch, shown, ended, stopped >>

Leave ==
  /\ coalescer = "leave" /\ todo = << >>
  /\ coalescer' = "done"
  /\ UNCHANGED << runner, raw, batch, todo, ch, shown, ended, stopped >>

(***************************************************************************)
(* The screen: waitForADK and handleADK. An error, or the closed channel,  *)
(* finishes the run, and nobody waits on the channel any more.             *)
(***************************************************************************)
Handle ==
  /\ ~ ended
  /\ ch # << >>
  /\ shown' = shown \o Head(ch)
  /\ ch' = << >>
  /\ ended' = (kinds[Head(ch)[1]] = "error")
  /\ UNCHANGED << runner, raw, coalescer, batch, todo, stopped >>

HandleDone ==
  /\ ~ ended
  /\ ch = << >> /\ coalescer = "done"
  /\ ended' = TRUE
  /\ UNCHANGED << runner, raw, coalescer, batch, todo, ch, shown, stopped >>

\* Esc; finishStreaming forgets the cancel function.
Stop ==
  /\ ~ ended /\ ~ stopped
  /\ stopped' = TRUE
  /\ UNCHANGED << runner, raw, coalescer, batch, todo, ch, shown, ended >>

Feeder == FeederSends \/ FeederStops
Coalescer ==
  \/ ReceiveDelta \/ ReceiveOther \/ ReceiveEnd \/ SeesStop \/ Send \/ Drop \/ Leave
Screen == Handle \/ HandleDone

Next == Yield \/ RunnerReturns \/ Feeder \/ Coalescer \/ Tick \/ Screen \/ Stop

Spec == Init /\ [][Next]_vars

\* The goroutines and Update run; the ticker fires while the coalescer waits. The
\* runner may hang, and the user need not press esc.
FairSpec ==
  /\ Spec
  /\ WF_vars(Feeder) /\ WF_vars(Coalescer) /\ WF_vars(Tick) /\ WF_vars(Screen)
-----------------------------------------------------------------------------
(***************************************************************************)
(* Safety.                                                                 *)
(***************************************************************************)
\* The pump implements StreamDelivery: no item is shown twice, out of order or,
\* unless the run is cancelled, with a gap before it; an event does not overtake
\* the deltas before it; and a run that ends by itself has shown everything, or
\* everything up to its first error: the last batch is not left behind.
Delivery == INSTANCE StreamDelivery
KeepsDelivery == Delivery!Spec

(***************************************************************************)
(* Liveness.                                                               *)
(***************************************************************************)
InShown(n) == \E k \in 1 .. Len(shown) : shown[k] = n

\* What the runner yielded is shown although it yields nothing more and does not
\* return, unless the run is over: latency is bounded by the ticker.
YieldedIsShown ==
  \A n \in Items : Len(kinds) >= n ~> InShown(n) \/ stopped \/ ended

\* Esc ends the run on screen even if the runner hangs, and a feeder that holds
\* an item lets go of it.
StopEnds == stopped ~> ended /\ feeder # "send"
=============================================================================
