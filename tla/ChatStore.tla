----------------------------- MODULE ChatStore -----------------------------
(***************************************************************************)
(* The files of one session, <id>.jsonl and <id>.meta.json, and the calls  *)
(* of the session service on them. A call is a sequence of file accesses   *)
(* and holds no lock between them: the run of a turn, a cancelled run that *)
(* has not returned, a compression and the session list each make theirs   *)
(* from a goroutine of their own.                                          *)
(*                                                                         *)
(* os.WriteFile is two steps, truncation and writing. Appending one line   *)
(* is one write to a file opened with O_APPEND.                            *)
(***************************************************************************)
EXTENDS SessionView, FiniteSets

CONSTANTS
  Appenders,   (* the goroutines that call Create and AppendEvent *)
  Compactors,  (* the goroutines that call Compact                *)
  Readers,     (* the goroutines that call Get and SessionView    *)
  MaxEvents,   (* bounds the events written                       *)
  MaxMishaps,  (* bounds how many kinds of mishap a history has   *)
  Trouble      (* the mishaps that may happen, of the set Mishaps *)

Writers == Appenders \cup Compactors
Callers == Writers \cup Readers

ASSUME CallersAssumption ==
  /\ Appenders \cap Compactors = {}
  /\ Writers \cap Readers = {}
Mishaps == {"overlap", "twin-create", "killed", "disk-full"}

ASSUME StoreAssumption ==
  MaxEvents \in Nat /\ MaxMishaps \in Nat /\ Trouble \subseteq Mishaps

VARIABLES
  lines,     (* the transcript                                               *)
  present,   (* the transcript file exists                                   *)
  open,      (* its last line has no newline: a write was cut short          *)
  sidecar,   (* the metadata file, and what it last held                     *)
  call,      (* per caller: the call under way, where it is, what it read    *)
  next,      (* a fresh event identifier                                     *)
  acked,     (* history: the events whose AppendEvent returned no error      *)
  deltas,    (* history: those of them that changed the session's state      *)
  confirmed, (* history: the marker of the last Compact to return no error   *)
  mishaps    (* history: what went wrong so far                              *)

files == << lines, present, open, sidecar >>
hist  == << acked, deltas, confirmed, mishaps >>
vars  == << files, call, next, hist >>

Line == [id : Nat \ {NoId}, kind : {"reply", "summary"}, whole : BOOLEAN]
Meta == [marker : Marker, state : SUBSET Nat]
NoMeta == [marker |-> NoMarker, state |-> {}]

Idle == [op |-> "none", at |-> "idle", meta |-> NoMeta, id |-> NoId,
         delta |-> FALSE, covers |-> NoId, due |-> {}]
Call == [op : {"none", "create", "append", "compact", "read"},
         at : {"idle", "truncate", "write", "file", "meta", "line", "lines"},
         meta : Meta, id : Nat, delta : BOOLEAN, covers : Nat, due : SUBSET Nat]

TypeOK ==
  /\ lines \in Seq(Line)
  /\ present \in BOOLEAN
  /\ open \in BOOLEAN
  /\ sidecar \in [stage : {"missing", "empty", "whole"}, held : Meta]
  /\ call \in [Callers -> Call]
  /\ next \in Nat \ {0}
  /\ acked \in Seq(Nat)
  /\ deltas \subseteq Nat
  /\ confirmed \in Marker
  /\ mishaps \subseteq Trouble

Init ==
  /\ lines = << >>
  /\ present = FALSE
  /\ open = FALSE
  /\ sidecar = [stage |-> "missing", held |-> NoMeta]
  /\ call = [p \in Callers |-> Idle]
  /\ next = 1
  /\ acked = << >>
  /\ deltas = {}
  /\ confirmed = NoMarker
  /\ mishaps = {}

Busy(p) == call[p].at # "idle"
Noted(what) ==
  /\ what \in Trouble
  /\ mishaps' = mishaps \cup {what}
  /\ Cardinality(mishaps') <= MaxMishaps
Ids(s) == { s[i].id : i \in 1 .. Len(s) }

(***************************************************************************)
(* Calls begin, go to their next file access, and return.                  *)
(***************************************************************************)
Begins(p, record) ==
  /\ ~ Busy(p)
  /\ call' = [call EXCEPT ![p] = record]

\* A call that writes; two of them at once are a mishap.
BeginsToWrite(p, record) ==
  /\ Begins(p, record)
  /\ IF \E q \in Writers : Busy(q) THEN Noted("overlap") ELSE UNCHANGED mishaps
  /\ UNCHANGED << acked, deltas, confirmed >>

Reached(p, op, at) == call[p].op = op /\ call[p].at = at
Goes(p, at) == call' = [call EXCEPT ![p].at = at]
Returns(p) == call' = [call EXCEPT ![p] = Idle]

BeginCreateAnyway(p) ==  \* seeded fault: an existing session is not looked for
  /\ p \in Appenders
  /\ \A q \in Writers : ~ Busy(q)
  /\ BeginsToWrite(p, [Idle EXCEPT !.op = "create", !.at = "truncate"])
  /\ UNCHANGED << files, next >>

\* Create of a session that does not exist. A second run may find it missing too
\* while the first, cancelled at once, is still creating it.
BeginCreate(p) ==
  /\ p \in Appenders
  /\ ~ present /\ sidecar.stage = "missing"
  /\ IF \E q \in Writers : Busy(q) THEN Noted("twin-create") ELSE UNCHANGED mishaps
  /\ Begins(p, [Idle EXCEPT !.op = "create", !.at = "truncate"])
  /\ UNCHANGED << files, next, acked, deltas, confirmed >>

\* AppendEvent of a complete event, with or without a state delta, by a run that
\* has created the session or read it.
BeginAppend(p) ==
  /\ p \in Appenders
  /\ present
  /\ next <= MaxEvents
  /\ \E delta \in BOOLEAN :
       BeginsToWrite(p, [Idle EXCEPT !.op = "append", !.at = "meta",
                                     !.id = next, !.delta = delta])
  /\ next' = next + 1
  /\ UNCHANGED files

\* Compact of a prefix that ends at some event of the transcript.
BeginCompact(p) ==
  /\ p \in Compactors
  /\ next <= MaxEvents
  /\ \E covers \in Ids(lines) :
       BeginsToWrite(p, [Idle EXCEPT !.op = "compact", !.at = "meta",
                                     !.id = next, !.covers = covers])
  /\ next' = next + 1
  /\ UNCHANGED files

\* Get and SessionView; due is what had been acknowledged by then.
BeginRead(p) ==
  /\ p \in Readers
  /\ Begins(p, [Idle EXCEPT !.op = "read", !.at = "meta",
                            !.due = { acked[i] : i \in 1 .. Len(acked) }])
  /\ UNCHANGED << files, next, hist >>

\* readMeta; without readable metadata the call returns an error.
ReadMeta(p) ==
  /\ call[p].at = "meta"
  /\ IF sidecar.stage = "whole"
       THEN call' = [call EXCEPT
              ![p].meta = sidecar.held,
              ![p].at = CASE call[p].op = "read"   -> "lines"
                          [] call[p].op = "append" -> IF call[p].delta THEN "truncate" ELSE "line"
                          [] OTHER                 -> "line"]
       ELSE Returns(p)
  /\ UNCHANGED << files, next, hist >>

\* writeMeta, first half: the file is truncated.
TruncateMeta(p) ==
  /\ call[p].at = "truncate"
  /\ sidecar' = [sidecar EXCEPT !.stage = "empty"]
  /\ Goes(p, "write")
  /\ UNCHANGED << lines, present, open, next, hist >>

\* The metadata a call writes: what it read, with its own change.
Written(c) ==
  CASE c.op = "append"  -> [c.meta EXCEPT !.state = @ \cup {c.id}]
    [] c.op = "compact" -> [c.meta EXCEPT
                              !.marker = [summary |-> c.id, coveredThrough |-> c.covers]]
    [] OTHER            -> NoMeta

\* writeMeta, second half: the content. Compact returns after it.
WriteMeta(p) ==
  /\ call[p].at = "write"
  /\ sidecar' = [stage |-> "whole", held |-> Written(call[p])]
  /\ CASE call[p].op = "create" -> Goes(p, "file") /\ UNCHANGED confirmed
       [] call[p].op = "append" -> Goes(p, "line") /\ UNCHANGED confirmed
       [] OTHER -> Returns(p) /\ confirmed' = Written(call[p]).marker
  /\ UNCHANGED << lines, present, open, next, acked, deltas, mishaps >>

\* The last step of Create: an empty transcript, whatever was there. Of a session
\* created twice the histories forget what the second time took.
CreateFile(p) ==
  /\ Reached(p, "create", "file")
  /\ lines' = << >>
  /\ present' = TRUE
  /\ open' = FALSE
  /\ Returns(p)
  /\ IF "twin-create" \in mishaps
       THEN acked' = << >> /\ deltas' = {} /\ confirmed' = NoMarker
       ELSE UNCHANGED << acked, deltas, confirmed >>
  /\ UNCHANGED << sidecar, next, mishaps >>

KindOf(c) == IF c.op = "compact" THEN "summary" ELSE "reply"

\* A line written after one that was cut short continues it.
Extended(c) ==
  IF open THEN lines ELSE Append(lines, [id |-> c.id, kind |-> KindOf(c), whole |-> TRUE])

AppendLineTruncates(p) ==  \* seeded fault: the file is opened without O_APPEND
  /\ Reached(p, "append", "line")
  /\ lines' = << [id |-> call[p].id, kind |-> "reply", whole |-> TRUE] >>
  /\ present' = TRUE
  /\ open' = FALSE
  /\ acked' = Append(acked, call[p].id)
  /\ deltas' = IF call[p].delta THEN deltas \cup {call[p].id} ELSE deltas
  /\ Returns(p)
  /\ UNCHANGED << sidecar, next, confirmed, mishaps >>

\* appendLine of AppendEvent, which returns after it.
AppendLine(p) ==
  /\ Reached(p, "append", "line")
  /\ lines' = Extended(call[p])
  /\ present' = TRUE
  /\ open' = FALSE
  /\ acked' = Append(acked, call[p].id)
  /\ deltas' = IF call[p].delta THEN deltas \cup {call[p].id} ELSE deltas
  /\ Returns(p)
  /\ UNCHANGED << sidecar, next, confirmed, mishaps >>

\* appendLine of Compact.
SummaryLine(p) ==
  /\ Reached(p, "compact", "line")
  /\ lines' = Extended(call[p])
  /\ present' = TRUE
  /\ open' = FALSE
  /\ Goes(p, "truncate")
  /\ UNCHANGED << sidecar, next, hist >>

\* readEvents: one bad line fails the whole read. The call returns either way;
\* what a reader is given is a function of the lines at this step.
Readable == present /\ \A i \in 1 .. Len(lines) : lines[i].whole
ReadLines(p) ==
  /\ call[p].at = "lines"
  /\ Returns(p)
  /\ UNCHANGED << files, next, hist >>

\* No space: a metadata file stays truncated, a line is cut short or not begun,
\* and the call returns the error.
WriteFails(p) ==
  /\ Noted("disk-full")
  /\ \/ /\ call[p].at \in {"write", "file"}
        /\ UNCHANGED << lines, present, open >>
     \/ /\ call[p].at = "line"
        /\ \/ UNCHANGED << lines, open >>
           \/ /\ lines' = IF open THEN lines
                            ELSE Append(lines, [id |-> call[p].id, kind |-> KindOf(call[p]),
                                                whole |-> FALSE])
              /\ open' = TRUE
        /\ present' = TRUE
  /\ Returns(p)
  /\ UNCHANGED << sidecar, next, acked, deltas, confirmed >>

\* The process is killed: its calls are gone and its files stay as they are.
Kill ==
  /\ Noted("killed")
  /\ \E p \in Callers : call[p] # Idle
  /\ call' = [p \in Callers |-> Idle]
  /\ UNCHANGED << files, next, acked, deltas, confirmed >>

Begin(p) == BeginCreate(p) \/ BeginAppend(p) \/ BeginCompact(p) \/ BeginRead(p)
Step(p) ==
  \/ ReadMeta(p) \/ TruncateMeta(p) \/ WriteMeta(p) \/ CreateFile(p)
  \/ AppendLine(p) \/ SummaryLine(p) \/ ReadLines(p) \/ WriteFails(p)

Next == Kill \/ \E p \in Callers : Begin(p) \/ Step(p)

Spec == Init /\ [][Next]_vars
-----------------------------------------------------------------------------
(***************************************************************************)
(* Safety.                                                                 *)
(***************************************************************************)

Quiet == \A p \in Writers : ~ Busy(p)
Succeeds(p) == call[p].at = "lines" /\ Readable

\* A reader that succeeds is given every event acknowledged before it began,
\* except those the summary it is given stands for, and it never falls back to
\* the raw history: whatever the writers do between its two file accesses, the
\* marker it read names events it then reads. Only a session created twice is
\* excepted: it is emptied while it is read.
ReadersSeeAcked ==
  "twin-create" \notin mishaps => \A p \in Readers : Succeeds(p) =>
    LET read == call[p].meta.marker
        covered == { lines[i].id : i \in { j \in 1 .. Len(lines) :
                       \E k \in j .. Len(lines) : lines[k].id = read.coveredThrough } }
    IN  /\ call[p].due \subseteq Ids(ApplyCompaction(lines, read)) \cup covered
        /\ read.summary # NoId => Applies(lines, read)

\* An event that was acknowledged is a line of the transcript, unless a full disk
\* cut a line short; and a session that has one can be read between calls, unless
\* a writer was killed or the disk was full: overlapping writers cannot prevent it.
\* Of a session created twice this is said of what the second Create left.
\* Unless writers overlapped, the metadata too holds between calls all that was
\* acknowledged: the marker of the last Compact, or a later one, and the state
\* every acknowledged event set, kills and a full disk notwithstanding.
AckedIsStored ==
  /\ "disk-full" \notin mishaps =>
       \A i \in 1 .. Len(acked) :
         \E j \in 1 .. Len(lines) : lines[j].id = acked[i] /\ lines[j].whole
  /\ mishaps \subseteq {"overlap", "twin-create"} /\ Quiet /\ acked # << >> =>
       sidecar.stage = "whole" /\ Readable
  /\ mishaps \cap {"overlap", "twin-create"} = {} /\ Quiet /\ sidecar.stage = "whole" =>
       /\ sidecar.held.marker.summary >= confirmed.summary
       /\ deltas \subseteq sidecar.held.state

\* Writers that do not overlap, killed or not, make of the two files a ledger:
\* each step appends an event, moves the marker to a later summary, or neither.
Ledger == INSTANCE SessionLedger WITH log <- lines, marker <- sidecar.held.marker
FilesKeepLedger ==
  [][mishaps' \subseteq {"killed"} => [Ledger!Next]_<< lines, sidecar.held.marker >>]_vars
=============================================================================
