---------------------------- MODULE SessionView ----------------------------
(***************************************************************************)
(* The pure functions that decide what the model is shown of a session:    *)
(* the read-time filters of internal/chat (applyCompaction and trim) and   *)
(* the choice of what to compress of internal/compress (PickCutoff).       *)
(*                                                                         *)
(* An event is a record with at least an id, unique in its log, and a kind *)
(* that decides its author; a compaction marker is a record whose summary  *)
(* field is NoId when the session was never compacted.                     *)
(***************************************************************************)
EXTENDS Integers, Sequences

NoId == 0

Marker == [summary : Nat, coveredThrough : Nat]
NoMarker == [summary |-> NoId, coveredThrough |-> NoId]

(***************************************************************************)
(* Events authored by the user: a prompt, the answer to a confirmation     *)
(* request (a FunctionResponse sent as a user message) and the summary     *)
(* event that Compact writes.                                              *)
(***************************************************************************)
UserKinds == {"prompt", "answer", "summary"}
ByUser(e) == e.kind \in UserKinds

(***************************************************************************)
(* PickCutoff: k is the number of leading events to summarise. The tail    *)
(* starts at the last user event, and there must be an earlier one.        *)
(***************************************************************************)
CutoffAtLastEvent(events, k) ==  \* seeded fault: cuts inside an exchange
  /\ k = Len(events) - 1
  /\ \E i, j \in 1 .. Len(events) : i # j /\ ByUser(events[i]) /\ ByUser(events[j])

CutoffAt(events, k) ==
  /\ k \in 1 .. Len(events) - 1
  /\ ByUser(events[k + 1])
  /\ \A j \in k + 2 .. Len(events) : ~ ByUser(events[j])
  /\ \E j \in 1 .. k : ByUser(events[j])

(***************************************************************************)
(* applyCompaction: the summary stands for every event up to and including *)
(* the covered one; the summary itself is shown only at the head. A marker *)
(* that does not resolve fails open to the raw history.                    *)
(***************************************************************************)
Has(events, id) == \E i \in 1 .. Len(events) : events[i].id = id
At(events, id) == CHOOSE i \in 1 .. Len(events) : events[i].id = id

Applies(events, marker) ==
  /\ marker.summary # NoId
  /\ Has(events, marker.summary)
  /\ Has(events, marker.coveredThrough)

AfterKeepsSummary(events, covered, summary) ==  \* seeded fault: no "continue"
  SubSeq(events, covered + 1, Len(events))

AfterOneLess(events, covered, summary) ==  \* seeded fault: off by one
  IF summary > covered
    THEN SubSeq(events, covered + 2, summary - 1)
           \o SubSeq(events, summary + 1, Len(events))
    ELSE SubSeq(events, covered + 2, Len(events))

After(events, covered, summary) ==
  IF summary > covered
    THEN SubSeq(events, covered + 1, summary - 1)
           \o SubSeq(events, summary + 1, Len(events))
    ELSE SubSeq(events, covered + 1, Len(events))

ApplyCompaction(events, marker) ==
  IF Applies(events, marker)
    THEN LET summary == At(events, marker.summary)
             covered == At(events, marker.coveredThrough)
         IN  << events[summary] >> \o After(events, covered, summary)
    ELSE events

(***************************************************************************)
(* The history cap of trim: the last limit events, or, when the first one  *)
(* is a summary that stands for the whole earlier conversation, that one   *)
(* and the last limit - 1 others. A limit of 0 or less is no limit.        *)
(***************************************************************************)
CapUnprotected(events, limit, protectFirst) ==  \* seeded fault: no sticky head
  LET n == Len(events)
  IN  IF limit > 0 /\ n > limit THEN SubSeq(events, n - limit + 1, n) ELSE events

Cap(events, limit, protectFirst) ==
  LET n == Len(events)
  IN  IF limit > 0 /\ n > limit
        THEN IF protectFirst
               THEN << events[1] >> \o SubSeq(events, n - limit + 2, n)
               ELSE SubSeq(events, n - limit + 1, n)
        ELSE events

(***************************************************************************)
(* What Get and SessionView return for a log and its marker when no filter *)
(* is asked for: the transcript the runner feeds the model next.           *)
(***************************************************************************)
ViewOf(log, marker, limit) ==
  Cap(ApplyCompaction(log, marker), limit, Applies(log, marker))
=============================================================================
