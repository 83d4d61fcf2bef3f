--------------------------- MODULE SessionLedger ---------------------------
(***************************************************************************)
(* What the rest of the program relies on of a stored session: a log that  *)
(* only ever grows at its end, and a marker that moves from one summary of *)
(* the log to a later one, each time standing for events before it.        *)
(***************************************************************************)
EXTENDS SessionView

VARIABLES
  log,     (* the events of the session, oldest first *)
  marker   (* the latest compaction                   *)

Init == log = << >> /\ marker = NoMarker

\* One event, of any kind, joins the log.
Record ==
  /\ Len(log') = Len(log) + 1
  /\ SubSeq(log', 1, Len(log)) = log
  /\ UNCHANGED marker

\* The marker moves on to a later summary.
Mark ==
  /\ \E s \in 1 .. Len(log), c \in 1 .. Len(log) :
       /\ log[s].kind = "summary"
       /\ c < s
       /\ marker.summary = NoId \/ \E o \in 1 .. s - 1 : log[o].id = marker.summary
       /\ marker' = [summary |-> log[s].id, coveredThrough |-> log[c].id]
  /\ UNCHANGED log

Next == Record \/ Mark

Spec == Init /\ [][Next]_<< log, marker >>
=============================================================================
