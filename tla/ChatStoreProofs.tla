-------------------------- MODULE ChatStoreProofs --------------------------
(***************************************************************************)
(* The files of a session and the calls on them, for every number of       *)
(* goroutines and of events, and for all mishaps at once.                  *)
(*                                                                         *)
(* The invariant is a conjunction by what has gone wrong.  Some of it      *)
(* holds whatever happens; some unless a session was created twice; and    *)
(* some only while writers do not overlap, when what a writer has read is  *)
(* what the metadata file still holds.                                     *)
(***************************************************************************)
EXTENDS ChatStore, OperatorProofs

Held == sidecar.held
AllWhole == \A i \in 1 .. Len(lines) : lines[i].whole
AckedIds == { acked[i] : i \in 1 .. Len(acked) }

\* Where a call can be, by who makes it and what it is.
Shape(p, c) ==
  \/ c = Idle
  \/ /\ p \in Appenders /\ c.op = "create" /\ c.at \in {"truncate", "write", "file"}
  \/ /\ p \in Appenders /\ c.op = "append" /\ present /\ c.id # NoId /\ c.id < next
     /\ c.at \in {"meta", "line"} \/ (c.delta /\ c.at \in {"truncate", "write"})
  \/ /\ p \in Compactors /\ c.op = "compact" /\ present /\ c.id # NoId /\ c.id < next
     /\ c.at \in {"meta", "line", "truncate", "write"}
  \/ /\ p \in Readers /\ c.op = "read" /\ c.at \in {"meta", "lines"}

Shapes ==
  /\ \A p \in Callers : Shape(p, call[p]) /\ call[p].meta.marker.summary < next
  /\ Held.marker.summary < next

\* Whatever goes wrong.
Sound ==
  /\ ~ present => lines = << >> /\ acked = << >> /\ deltas = {} /\ confirmed = NoMarker
  /\ open => ~ AllWhole
  /\ "disk-full" \notin mishaps => AllWhole
  /\ AllWhole => AckedIds \subseteq Ids(lines)
  /\ sidecar.stage = "missing" =>
       /\ ~ present /\ Held = NoMeta
       /\ \A p \in Callers : call[p].at \in {"idle", "truncate", "meta"}
  /\ sidecar.stage = "empty" /\ "killed" \notin mishaps /\ "disk-full" \notin mishaps =>
       \E p \in Callers : call[p].at = "write"

Resolves(marker) ==
  marker.summary # NoId => Has(lines, marker.summary) /\ Has(lines, marker.coveredThrough)

\* What a compaction has read of the transcript and written to it.
Grounded(c) ==
  c.op = "compact" =>
    /\ Has(lines, c.covers)
    /\ c.at \in {"truncate", "write"} => Has(lines, c.id)

\* Unless the session was created twice, nothing in it is ever taken back.
CreatedOnce ==
  "twin-create" \notin mishaps =>
    /\ \A p \in Callers : call[p].due \subseteq AckedIds
    /\ AllWhole => /\ Resolves(Held.marker)
                   /\ \A p \in Callers : Resolves(call[p].meta.marker) /\ Grounded(call[p])
    /\ \A p \in Writers : call[p].op = "create" =>
         /\ ~ present /\ Held = NoMeta
         /\ \A q \in Writers : Busy(q) => q = p

\* The last line is the summary of this call, and what it covers comes before.
SummaryLast(c) ==
  LET n == Len(lines)
  IN  /\ n > 0 /\ lines[n].id = c.id /\ lines[n].kind = "summary"
      /\ \E i \in 1 .. n - 1 : lines[i].id = c.covers
      /\ Held.marker.summary = NoId \/ \E i \in 1 .. n - 1 : lines[i].id = Held.marker.summary

\* A writer that is alone: what it has read is still so.
Current(c) ==
  /\ c.op \in {"append", "compact"} /\ c.at \in {"truncate", "write"} => c.meta = Held
  /\ c.op = "append" /\ c.at = "line" /\ c.delta => c.id \in Held.state
  /\ c.op = "compact" => Held.marker.summary <= c.id
  /\ c.op = "compact" /\ c.at = "line" => c.meta = Held
  /\ c.op = "compact" /\ c.at \in {"truncate", "write"} /\ "disk-full" \notin mishaps => SummaryLast(c)

Solo == "overlap" \notin mishaps /\ "twin-create" \notin mishaps
OneWriter ==
  Solo =>
    /\ \A p, q \in Writers : Busy(p) /\ Busy(q) => p = q
    /\ confirmed.summary <= Held.marker.summary /\ deltas \subseteq Held.state
    /\ \A p \in Writers : Current(call[p])

IInv == TypeOK /\ Shapes /\ Sound /\ CreatedOnce /\ OneWriter
-----------------------------------------------------------------------------
(***************************************************************************)
(* Records, and the parts of the state.                                    *)
(***************************************************************************)
LEMMA Callings ==
  /\ Appenders \cap Compactors = {} /\ Writers \cap Readers = {}
  /\ Writers = Appenders \cup Compactors /\ Callers = Writers \cup Readers
BY CallersAssumption DEF CallersAssumption, Writers, Callers

LEMMA Nothings ==
  /\ NoId \in Nat /\ NoId = 0 /\ NoMarker \in Marker /\ NoMeta \in Meta
  /\ NoMarker.summary = 0 /\ NoMeta.marker = NoMarker /\ NoMeta.state = {}
  /\ Idle \in Call /\ Idle.op = "none" /\ Idle.at = "idle" /\ Idle.meta = NoMeta
  /\ Idle.due = {} /\ Idle.delta = FALSE
BY DEF NoId, NoMarker, Marker, NoMeta, Meta, Idle, Call

LEMMA States ==
  ASSUME IInv
  PROVE  /\ lines \in Seq(Line) /\ Len(lines) \in Nat
         /\ Held \in Meta /\ Held.marker.summary \in Nat /\ Held.marker \in Marker
         /\ sidecar.stage \in {"missing", "empty", "whole"}
         /\ call \in [Callers -> Call] /\ next \in Nat \ {0}
         /\ acked \in Seq(Nat) /\ deltas \subseteq Nat /\ confirmed \in Marker
         /\ mishaps \subseteq Trouble /\ present \in BOOLEAN /\ open \in BOOLEAN
<1>1. TypeOK
  BY DEF IInv
<1>2. lines \in Seq(Line) /\ Len(lines) \in Nat
  BY <1>1, LenProperties DEF TypeOK
<1>3. Held \in Meta
  BY <1>1 DEF TypeOK, Held
<1>4. Held.marker.summary \in Nat /\ Held.marker \in Marker
  BY <1>3 DEF Meta, Marker
<1>5. QED
  BY <1>1, <1>2, <1>3, <1>4 DEF TypeOK

LEMMA Calls ==
  ASSUME IInv, NEW p \in Callers
  PROVE  /\ call[p] \in Call /\ Shape(p, call[p])
         /\ call[p].meta \in Meta /\ call[p].meta.marker \in Marker
         /\ call[p].meta.marker.summary \in Nat
         /\ call[p].meta.marker.summary < next
         /\ call[p].id \in Nat /\ call[p].covers \in Nat /\ call[p].delta \in BOOLEAN
         /\ call[p].due \subseteq Nat
         /\ ~ Busy(p) => call[p] = Idle
         /\ call[p].at = "idle" => call[p] = Idle
<1>1. call[p] \in Call
  BY States
<1>2. Shape(p, call[p]) /\ call[p].meta.marker.summary < next
  BY DEF IInv, Shapes
<1>3. call[p].meta \in Meta /\ call[p].meta.marker \in Marker /\ call[p].meta.marker.summary \in Nat
  BY <1>1 DEF Call, Meta, Marker
<1>4. call[p].at = "idle" => call[p] = Idle
  BY <1>2 DEF Shape
<1>5. QED
  BY <1>1, <1>2, <1>3, <1>4 DEF Call, Busy

\* Who makes a call of a kind, where it can be, and what that tells.
LEMMA ByKind ==
  ASSUME IInv, NEW p \in Callers
  PROVE  /\ call[p].op = "create" =>
              p \in Appenders /\ call[p].at \in {"truncate", "write", "file"}
         /\ call[p].op = "append" => p \in Appenders /\ present /\ call[p].id # NoId /\ call[p].id < next
         /\ call[p].op = "compact" => p \in Compactors /\ present /\ call[p].id # NoId /\ call[p].id < next
         /\ call[p].op = "read" => p \in Readers /\ call[p].at \in {"meta", "lines"}
         /\ call[p].at \in {"truncate", "write"} =>
              \/ call[p].op = "create" \/ call[p].op = "compact"
              \/ call[p].op = "append" /\ call[p].delta
         /\ call[p].at = "line" => call[p].op \in {"append", "compact"}
         /\ call[p].at = "file" => call[p].op = "create"
         /\ call[p].at = "meta" => call[p].op \in {"append", "compact", "read"}
         /\ call[p].at = "lines" => call[p].op = "read"
         /\ call[p].op \in {"create", "append", "compact"} => p \in Writers /\ Busy(p)
BY Calls, Nothings, Callings DEF Shape, Busy

-----------------------------------------------------------------------------
(***************************************************************************)
(* A step of one call, and what is left to show of it.                     *)
(***************************************************************************)
Change(p, c) ==
  /\ p \in Callers /\ c \in Call /\ call' = [call EXCEPT ![p] = c]
  /\ next <= next' /\ next' \in Nat \ {0}
  /\ (present => present') /\ mishaps \subseteq mishaps' /\ mishaps' \subseteq Trouble

LEMMA Changed ==
  ASSUME IInv, NEW p, NEW c, Change(p, c)
  PROVE  /\ p \in Callers /\ c \in Call /\ call' \in [Callers -> Call] /\ call'[p] = c
         /\ \A q \in Callers : q # p => call'[q] = call[q]
BY States DEF Change

LEMMA ShapesKept ==
  ASSUME IInv, NEW p, NEW c, Change(p, c), Shape(p, c)',
         c.meta.marker.summary < next', Held'.marker.summary < next'
  PROVE  Shapes'
<1>1. ASSUME NEW q \in Callers, q # p
      PROVE  Shape(q, call[q])' /\ call'[q].meta.marker.summary < next'
  <2>0. PICK old : old = call[q]
    OBVIOUS
  <2>1. call'[q] = old /\ next <= next' /\ next \in Nat /\ next' \in Nat /\ (present => present')
    BY <1>1, <2>0, Changed, States DEF Change
  <2>2. old.meta.marker.summary < next' /\ old.id \in Nat
    BY <2>0, <2>1, Calls
  <2>3. Shape(q, old)'
    <3>1. \A n \in Nat : n < next => n < next'
      BY <2>1
    <3>2. Shape(q, old)
      BY <2>0, Calls
    <3>3. QED
      BY <2>1, <2>2, <3>1, <3>2 DEF Shape
  <2>4. QED
    BY <2>1, <2>2, <2>3
<1>2. Shape(p, call[p])' /\ call'[p].meta.marker.summary < next'
  BY Changed
<1>3. QED
  BY <1>1, <1>2 DEF Shapes

\* What the file that is missing or empty tells of the calls.
LEMMA SidecarKept ==
  ASSUME IInv, NEW p, NEW c, Change(p, c),
         sidecar'.stage = "missing" =>
           sidecar' = sidecar /\ present' = present /\ c.at \in {"idle", "truncate", "meta"},
         sidecar'.stage = "empty" =>
           c.at = "write" \/ (sidecar' = sidecar /\ call[p].at # "write") \/ "disk-full" \in mishaps'
  PROVE  /\ sidecar'.stage = "missing" =>
              /\ ~ present' /\ Held' = NoMeta
              /\ \A q \in Callers : call'[q].at \in {"idle", "truncate", "meta"}
         /\ sidecar'.stage = "empty" /\ "killed" \notin mishaps' /\ "disk-full" \notin mishaps' =>
              \E q \in Callers : call'[q].at = "write"
<1>1. CASE sidecar'.stage = "missing"
  BY <1>1, Changed DEF IInv, Sound, Held
<1>2. ASSUME sidecar'.stage = "empty", "killed" \notin mishaps', "disk-full" \notin mishaps'
      PROVE  \E q \in Callers : call'[q].at = "write"
  <2>1. CASE c.at = "write"
    BY <2>1, Changed
  <2>2. CASE sidecar' = sidecar /\ call[p].at # "write"
    <3>1. "killed" \notin mishaps /\ "disk-full" \notin mishaps
      BY <1>2 DEF Change
    <3>2. PICK q \in Callers : call[q].at = "write"
      BY <1>2, <2>2, <3>1 DEF IInv, Sound
    <3>3. QED
      BY <2>2, <3>2, Changed
  <2>3. QED
    BY <1>2, <2>1, <2>2
<1>3. QED
  BY <1>1, <1>2

\* Nothing is taken back: unless the session was created twice.
LEMMA CreatedOnceKept ==
  ASSUME IInv, NEW p, NEW c, Change(p, c),
         "twin-create" \notin mishaps' =>
           /\ AckedIds \subseteq AckedIds' /\ Ids(lines) \subseteq Ids(lines')
           /\ AllWhole' => AllWhole
           /\ c.due \subseteq AckedIds'
           /\ AllWhole' => Resolves(Held.marker)' /\ Resolves(c.meta.marker)' /\ Grounded(c)'
           /\ c.op = "create" =>
                ~ present' /\ Held' = NoMeta /\ \A q \in Writers : Busy(q) => q = p
           /\ p \in Writers => \A q \in Writers : call[q].op = "create" => q = p
           /\ p \notin Writers => UNCHANGED files
  PROVE  CreatedOnce'
<1>1. SUFFICES ASSUME "twin-create" \notin mishaps' PROVE CreatedOnce!2'
  BY DEF CreatedOnce
<1>2. "twin-create" \notin mishaps
  BY <1>1 DEF Change
<1>3. CreatedOnce!2
  BY <1>2 DEF IInv, CreatedOnce
<1>4. \A q \in Callers : call'[q].due \subseteq AckedIds'
  BY <1>1, <1>3, Changed
<1>5. \A id : Has(lines, id) => Has(lines, id)'
  <2>1. \A id : Has(lines, id) <=> id \in Ids(lines)
    BY DEF Has, Ids
  <2>2. \A id : Has(lines, id)' <=> id \in Ids(lines')
    BY DEF Has, Ids
  <2>3. QED
    BY <1>1, <2>1, <2>2
<1>6. ASSUME AllWhole', NEW q \in Callers
      PROVE  Resolves(call[q].meta.marker)' /\ Grounded(call[q])'
  <2>1. CASE q = p
    BY <1>1, <1>6, <2>1, Changed
  <2>2. CASE q # p
    <3>1. PICK old : old = call[q]
      OBVIOUS
    <3>2. Resolves(old.meta.marker) /\ Grounded(old)
      BY <1>1, <1>3, <1>6, <3>1
    <3>3. Resolves(old.meta.marker)' /\ Grounded(old)'
      BY <1>5, <3>2 DEF Resolves, Grounded
    <3>4. QED
      BY <2>2, <3>1, <3>3, Changed
  <2>3. QED
    BY <2>1, <2>2
<1>7. ASSUME NEW r \in Writers, call'[r].op = "create"
      PROVE  ~ present' /\ Held' = NoMeta /\ \A q \in Writers : Busy(q)' => q = r
  <2>1. r \in Callers /\ \A q \in Writers : q \in Callers
    BY <1>7, Callings
  <2>2. \A q \in Callers : q # p => (Busy(q)' <=> Busy(q))
    BY Changed DEF Busy
  <2>3. CASE r = p
    BY <1>1, <1>7, <2>1, <2>2, <2>3, Changed
  <2>4. CASE r # p
    <3>1. call[r].op = "create"
      BY <1>7, <2>1, <2>4, Changed
    <3>2. p \notin Writers
      BY <1>1, <1>7, <2>4, <3>1
    <3>3. UNCHANGED files
      BY <1>1, <3>2
    <3>4. QED
      BY <1>3, <1>7, <2>1, <2>2, <3>1, <3>2, <3>3 DEF files, Held
  <2>5. QED
    BY <2>3, <2>4
<1>8. QED
  BY <1>1, <1>4, <1>6, <1>7

\* A writer that is alone stays so.
LEMMA OneWriterKept ==
  ASSUME IInv, NEW p, NEW c, Change(p, c),
         Solo' =>
           /\ p \in Writers => Current(c)' /\ \A q \in Writers : Busy(q) => q = p
           /\ p \notin Writers => UNCHANGED files
           /\ confirmed'.summary <= Held'.marker.summary /\ deltas' \subseteq Held'.state
  PROVE  OneWriter'
<1>1. SUFFICES ASSUME Solo' PROVE OneWriter!2'
  BY DEF OneWriter
<1>2. Solo /\ ("disk-full" \notin mishaps' => "disk-full" \notin mishaps)
  BY <1>1 DEF Solo, Change
<1>3. OneWriter!2
  BY <1>2 DEF IInv, OneWriter
<1>4. \A q \in Writers : q \in Callers
  BY Callings
<1>5. \A q \in Callers : q # p => (Busy(q)' <=> Busy(q))
  BY Changed DEF Busy
<1>6. \A q, r \in Writers : Busy(q)' /\ Busy(r)' => q = r
  BY <1>1, <1>3, <1>4, <1>5
<1>7. ASSUME NEW q \in Writers PROVE Current(call[q])'
  <2>1. CASE q = p
    BY <1>1, <1>7, <2>1, Changed
  <2>2. CASE q # p /\ p \in Writers
    <3>1. call'[q] = Idle
      BY <1>1, <1>4, <2>2, Calls, Changed
    <3>2. QED
      BY <3>1, Nothings DEF Current
  <2>3. CASE p \notin Writers
    <3>0. PICK old : old = call[q]
      OBVIOUS
    <3>1. call'[q] = old /\ UNCHANGED files
      BY <1>1, <1>4, <2>3, <3>0, Changed, Callings DEF Change
    <3>2. Current(old)
      BY <1>3, <3>0
    <3>3. lines' = lines /\ Held' = Held
      BY <3>1 DEF files, Held
    <3>4. SummaryLast(old)' <=> SummaryLast(old)
      BY <3>3 DEF SummaryLast
    <3>5. Current(old)'
      BY <1>2, <3>2, <3>3, <3>4 DEF Current
    <3>6. QED
      BY <3>1, <3>5
  <2>4. QED
    BY <2>1, <2>2, <2>3
<1>8. QED
  BY <1>1, <1>6, <1>7

-----------------------------------------------------------------------------
(***************************************************************************)
(* Steps that leave the files as they are.                                 *)
(***************************************************************************)
LEMMA FilesSame ==
  ASSUME UNCHANGED files
  PROVE  /\ lines' = lines /\ present' = present /\ open' = open
         /\ sidecar' = sidecar /\ Held' = Held
         /\ AllWhole' <=> AllWhole
         /\ \A id : Has(lines, id)' <=> Has(lines, id)
         /\ \A marker : Resolves(marker)' <=> Resolves(marker)
         /\ \A c : Grounded(c)' <=> Grounded(c)
<1>1. /\ lines' = lines /\ present' = present /\ open' = open
      /\ sidecar' = sidecar /\ Held' = Held
  BY DEF files, Held
<1>2. AllWhole' <=> AllWhole
  BY <1>1 DEF AllWhole
<1>3. \A id : Has(lines, id)' <=> Has(lines, id)
  BY <1>1 DEF Has
<1>4. \A marker : Resolves(marker)' <=> Resolves(marker)
  BY <1>3 DEF Resolves
<1>5. \A c : Grounded(c)' <=> Grounded(c)
  BY <1>3 DEF Grounded
<1>6. QED
  BY <1>1, <1>2, <1>3, <1>4, <1>5

\* A call begins, goes on reading or returns.
LEMMA Looks ==
  ASSUME IInv, NEW p, NEW c, Change(p, c), UNCHANGED << files, acked, deltas, confirmed >>,
         Shape(p, c)', c.meta.marker.summary < next',
         sidecar.stage = "missing" => c.at \in {"idle", "truncate", "meta"},
         call[p].at # "write",
         "twin-create" \notin mishaps' =>
           /\ c.due \subseteq AckedIds
           /\ AllWhole => Resolves(c.meta.marker) /\ Grounded(c)
           /\ c.op = "create" =>
                ~ present /\ Held = NoMeta /\ \A q \in Writers : Busy(q) => q = p
           /\ p \in Writers => \A q \in Writers : call[q].op = "create" => q = p,
         Solo' /\ p \in Writers => Current(c)' /\ \A q \in Writers : Busy(q) => q = p
  PROVE  IInv'
<1>1. /\ lines' = lines /\ present' = present /\ open' = open
      /\ sidecar' = sidecar /\ Held' = Held
      /\ acked' = acked /\ deltas' = deltas /\ confirmed' = confirmed
      /\ UNCHANGED files
      /\ AllWhole' <=> AllWhole
      /\ \A marker : Resolves(marker)' <=> Resolves(marker)
      /\ Grounded(c)' <=> Grounded(c)
  BY FilesSame DEF files
<1>2. /\ call' \in [Callers -> Call] /\ mishaps \subseteq mishaps' /\ mishaps' \subseteq Trouble
      /\ next' \in Nat \ {0} /\ next <= next' /\ next \in Nat
  BY Changed, States DEF Change
<1>3. TypeOK'
  BY <1>1, <1>2 DEF IInv, TypeOK
<1>4. Held.marker.summary < next'
  BY <1>2, States DEF IInv, Shapes
<1>5. Shapes'
  BY <1>1, <1>4, ShapesKept
<1>6. AckedIds' = AckedIds
  BY <1>1 DEF AckedIds
<1>7. Sound'
  <2>1. /\ sidecar'.stage = "missing" =>
              /\ ~ present' /\ Held' = NoMeta
              /\ \A q \in Callers : call'[q].at \in {"idle", "truncate", "meta"}
        /\ sidecar'.stage = "empty" /\ "killed" \notin mishaps' /\ "disk-full" \notin mishaps' =>
              \E q \in Callers : call'[q].at = "write"
    BY <1>1, SidecarKept
  <2>2. "disk-full" \notin mishaps' => AllWhole
    BY <1>2 DEF IInv, Sound
  <2>3. Ids(lines') = Ids(lines)
    BY <1>1
  <2>4. QED
    BY <1>1, <1>6, <2>1, <2>2, <2>3 DEF IInv, Sound
<1>8. CreatedOnce'
  <2>1. ASSUME "twin-create" \notin mishaps', AllWhole PROVE Resolves(Held.marker)
    BY <1>2, <2>1 DEF IInv, CreatedOnce
  <2>2. Resolves(Held.marker)' <=> Resolves(Held.marker)
    BY <1>1 DEF Resolves, Has
  <2>3. Resolves(c.meta.marker)' <=> Resolves(c.meta.marker)
    BY <1>1 DEF Resolves, Has
  <2>4. Ids(lines') = Ids(lines)
    BY <1>1
  <2>5. QED
    BY <1>1, <1>6, <2>1, <2>2, <2>3, <2>4, CreatedOnceKept
<1>9. OneWriter'
  <2>1. ASSUME Solo' PROVE confirmed.summary <= Held.marker.summary /\ deltas \subseteq Held.state
    <3>1. Solo
      BY <1>2, <2>1 DEF Solo
    <3>2. QED
      BY <3>1 DEF IInv, OneWriter
  <2>2. QED
    BY <1>1, <2>1, OneWriterKept
<1>10. QED
  BY <1>3, <1>5, <1>7, <1>8, <1>9 DEF IInv

LEMMA Beginning ==
  ASSUME IInv, NEW p \in Callers, ~ Busy(p)
  PROVE  call[p] = Idle /\ call[p].at # "write"
BY Calls, Nothings

LEMMA BeginCreateStep ==
  ASSUME IInv, NEW p \in Callers, BeginCreate(p)
  PROVE  IInv'
<1>1. PICK c : c = [Idle EXCEPT !.op = "create", !.at = "truncate"]
  OBVIOUS
<1>2. /\ p \in Appenders /\ ~ present /\ sidecar.stage = "missing" /\ ~ Busy(p)
      /\ call' = [call EXCEPT ![p] = c] /\ next' = next
      /\ UNCHANGED << files, acked, deltas, confirmed >>
      /\ IF \E q \in Writers : Busy(q) THEN Noted("twin-create") ELSE UNCHANGED mishaps
  BY <1>1 DEF BeginCreate, Begins
<1>3. /\ c.op = "create" /\ c.at = "truncate" /\ c.meta = NoMeta /\ c.due = {}
      /\ c = [op |-> "create", at |-> "truncate", meta |-> NoMeta, id |-> NoId,
              delta |-> FALSE, covers |-> NoId, due |-> {}]
  BY <1>1 DEF Idle
<1>4. c \in Call
  BY <1>3, Nothings DEF Call
<1>5. mishaps \subseteq mishaps' /\ mishaps' \subseteq Trouble
      /\ ("twin-create" \notin mishaps' => \A q \in Writers : ~ Busy(q))
  BY <1>2, States DEF Noted
<1>6. Change(p, c)
  BY <1>2, <1>4, <1>5, States DEF Change, files
<1>7. Held = NoMeta /\ call[p].at # "write"
  BY <1>2, Beginning DEF IInv, Sound
<1>8. \A q \in Writers : call[q].op = "create" => Busy(q)
  BY ByKind, Callings
<1>9. Resolves(c.meta.marker) /\ Grounded(c) /\ Current(c)'
  BY <1>3, Nothings DEF Resolves, Grounded, Current
<1>10. Shape(p, c)' /\ c.meta.marker.summary < next'
  BY <1>2, <1>3, Nothings, States DEF Shape
<1>11. QED
  BY <1>2, <1>3, <1>5, <1>6, <1>7, <1>8, <1>9, <1>10, Looks DEF Solo

\* What the mishaps tell when a call that writes begins.
LEMMA BeginsWriting ==
  ASSUME IInv, NEW p \in Callers, NEW c \in Call, BeginsToWrite(p, c), next' = next + 1,
         UNCHANGED files
  PROVE  /\ Change(p, c) /\ UNCHANGED << files, acked, deltas, confirmed >>
         /\ call[p].at # "write" /\ next \in Nat /\ next < next'
         /\ Solo' => \A q \in Writers : ~ Busy(q)
<1>1. /\ ~ Busy(p) /\ call' = [call EXCEPT ![p] = c]
      /\ IF \E q \in Writers : Busy(q) THEN Noted("overlap") ELSE UNCHANGED mishaps
      /\ UNCHANGED << acked, deltas, confirmed >>
  BY DEF BeginsToWrite, Begins
<1>2. mishaps \subseteq mishaps' /\ mishaps' \subseteq Trouble
      /\ ("overlap" \notin mishaps' => \A q \in Writers : ~ Busy(q))
  BY <1>1, States DEF Noted
<1>3. next \in Nat /\ next' \in Nat \ {0} /\ next < next' /\ next <= next'
  BY States
<1>4. QED
  BY <1>1, <1>2, <1>3, Beginning DEF Change, files, Solo

LEMMA BeginAppendStep ==
  ASSUME IInv, NEW p \in Callers, BeginAppend(p)
  PROVE  IInv'
<1>1. PICK delta \in BOOLEAN :
        BeginsToWrite(p, [Idle EXCEPT !.op = "append", !.at = "meta", !.id = next, !.delta = delta])
  BY DEF BeginAppend
<1>2. PICK c : c = [Idle EXCEPT !.op = "append", !.at = "meta", !.id = next, !.delta = delta]
  OBVIOUS
<1>3. p \in Appenders /\ present /\ next' = next + 1 /\ UNCHANGED files /\ BeginsToWrite(p, c)
  BY <1>1, <1>2 DEF BeginAppend
<1>4. /\ c.op = "append" /\ c.at = "meta" /\ c.meta = NoMeta /\ c.due = {} /\ c.id = next
      /\ c = [op |-> "append", at |-> "meta", meta |-> NoMeta, id |-> next,
              delta |-> delta, covers |-> NoId, due |-> {}]
  BY <1>2 DEF Idle
<1>5. c \in Call
  BY <1>4, Nothings, States DEF Call
<1>6. /\ Change(p, c) /\ UNCHANGED << files, acked, deltas, confirmed >>
      /\ call[p].at # "write" /\ next \in Nat /\ next < next'
      /\ Solo' => \A q \in Writers : ~ Busy(q)
  BY <1>3, <1>5, BeginsWriting
<1>7. Resolves(c.meta.marker) /\ Grounded(c) /\ Current(c)'
  BY <1>4, Nothings DEF Resolves, Grounded, Current
<1>8. present' /\ Shape(p, c)' /\ c.meta.marker.summary < next'
  BY <1>3, <1>4, <1>6, Nothings, States DEF Shape, files
<1>9. "twin-create" \notin mishaps' => \A q \in Writers : call[q].op # "create"
  BY <1>3, <1>6 DEF IInv, CreatedOnce, Change
<1>10. QED
  BY <1>4, <1>6, <1>7, <1>8, <1>9, Looks

LEMMA BeginCompactStep ==
  ASSUME IInv, NEW p \in Callers, BeginCompact(p)
  PROVE  IInv'
<1>1. PICK covers \in Ids(lines) :
        BeginsToWrite(p, [Idle EXCEPT !.op = "compact", !.at = "meta", !.id = next, !.covers = covers])
  BY DEF BeginCompact
<1>2. PICK c : c = [Idle EXCEPT !.op = "compact", !.at = "meta", !.id = next, !.covers = covers]
  OBVIOUS
<1>3. p \in Compactors /\ next' = next + 1 /\ UNCHANGED files /\ BeginsToWrite(p, c)
  BY <1>1, <1>2 DEF BeginCompact
<1>4. /\ c.op = "compact" /\ c.at = "meta" /\ c.meta = NoMeta /\ c.due = {}
      /\ c.id = next /\ c.covers = covers
      /\ c = [op |-> "compact", at |-> "meta", meta |-> NoMeta, id |-> next,
              delta |-> FALSE, covers |-> covers, due |-> {}]
  BY <1>2 DEF Idle
<1>5. covers \in Nat /\ Has(lines, covers) /\ present
  <2>1. PICK i \in 1 .. Len(lines) : covers = lines[i].id
    BY <1>1 DEF Ids
  <2>2. lines[i] \in Line
    BY States, LenProperties
  <2>3. lines # << >>
    BY <2>1, EmptySeq
  <2>4. QED
    BY <2>1, <2>2, <2>3 DEF Line, Has, IInv, Sound
<1>6. c \in Call
  BY <1>4, <1>5, Nothings, States DEF Call
<1>7. /\ Change(p, c) /\ UNCHANGED << files, acked, deltas, confirmed >>
      /\ call[p].at # "write" /\ next \in Nat /\ next < next'
      /\ Solo' => \A q \in Writers : ~ Busy(q)
  BY <1>3, <1>6, BeginsWriting
<1>8. Held.marker.summary <= next /\ Held' = Held
  BY <1>3, States, FilesSame DEF IInv, Shapes
<1>9. Resolves(c.meta.marker) /\ Grounded(c) /\ Current(c)'
  BY <1>4, <1>5, <1>8, Nothings DEF Resolves, Grounded, Current
<1>10. present' /\ Shape(p, c)' /\ c.meta.marker.summary < next'
  BY <1>3, <1>4, <1>5, <1>7, Nothings, States DEF Shape, files
<1>11. "twin-create" \notin mishaps' => \A q \in Writers : call[q].op # "create"
  BY <1>5, <1>7 DEF IInv, CreatedOnce, Change
<1>12. QED
  BY <1>4, <1>7, <1>9, <1>10, <1>11, Looks

LEMMA BeginReadStep ==
  ASSUME IInv, NEW p \in Callers, BeginRead(p)
  PROVE  IInv'
<1>1. PICK c : c = [Idle EXCEPT !.op = "read", !.at = "meta", !.due = AckedIds]
  OBVIOUS
<1>2. /\ p \in Readers /\ ~ Busy(p) /\ call' = [call EXCEPT ![p] = c]
      /\ UNCHANGED << files, next, acked, deltas, confirmed, mishaps >>
  BY <1>1 DEF BeginRead, Begins, hist, AckedIds
<1>3. /\ c.op = "read" /\ c.at = "meta" /\ c.meta = NoMeta /\ c.due = AckedIds
      /\ c = [op |-> "read", at |-> "meta", meta |-> NoMeta, id |-> NoId,
              delta |-> FALSE, covers |-> NoId, due |-> AckedIds]
  BY <1>1 DEF Idle
<1>4. AckedIds \in SUBSET Nat
  BY States, LenProperties DEF AckedIds
<1>5. c \in Call
  BY <1>3, <1>4, Nothings DEF Call
<1>6. Change(p, c) /\ call[p].at # "write"
  BY <1>2, <1>5, States, Beginning DEF Change, files
<1>7. Resolves(c.meta.marker) /\ Grounded(c) /\ p \notin Writers
  BY <1>2, <1>3, Nothings, Callings DEF Resolves, Grounded
<1>8. Shape(p, c)' /\ c.meta.marker.summary < next'
  BY <1>2, <1>3, Nothings, States DEF Shape
<1>9. QED
  BY <1>2, <1>3, <1>6, <1>7, <1>8, Looks

-----------------------------------------------------------------------------
(***************************************************************************)
(* Calls that go on.                                                       *)
(***************************************************************************)
LEMMA Moved ==
  ASSUME NEW c \in Call, NEW at \in {"truncate", "write", "file", "line"}
  PROVE  LET d == [c EXCEPT !.at = at]
         IN  /\ d \in Call /\ d.at = at /\ d.op = c.op /\ d.meta = c.meta /\ d.id = c.id
             /\ d.delta = c.delta /\ d.covers = c.covers /\ d.due = c.due
BY DEF Call

\* A call that returns.
LEMMA Returned ==
  ASSUME IInv
  PROVE  /\ \A p : Shape(p, Idle) /\ Shape(p, Idle)'
         /\ Resolves(Idle.meta.marker) /\ Resolves(Idle.meta.marker)'
         /\ Grounded(Idle) /\ Grounded(Idle)' /\ Current(Idle)'
         /\ Idle \in Call /\ Idle.meta.marker.summary = 0 /\ Idle.due = {}
         /\ Idle.op = "none" /\ Idle.at = "idle"
BY Nothings DEF Shape, Resolves, Grounded, Current

\* Which writers there are beside one that is at work.
LEMMA AtWork ==
  ASSUME IInv, NEW p \in Writers, Busy(p)
  PROVE  /\ "twin-create" \notin mishaps =>
              \A q \in Writers : call[q].op = "create" => q = p
         /\ Solo => /\ \A q \in Writers : Busy(q) => q = p
                    /\ Current(call[p])
                    /\ confirmed.summary <= Held.marker.summary /\ deltas \subseteq Held.state
<1>1. ASSUME "twin-create" \notin mishaps, NEW q \in Writers, call[q].op = "create"
      PROVE  q = p
  BY <1>1 DEF IInv, CreatedOnce
<1>2. QED
  BY <1>1 DEF IInv, OneWriter

LEMMA ReadMetaStep ==
  ASSUME IInv, NEW p \in Callers, ReadMeta(p)
  PROVE  IInv'
<1>1. PICK old : old = call[p]
  OBVIOUS
<1>2. /\ old.at = "meta" /\ UNCHANGED << files, next, acked, deltas, confirmed, mishaps >>
  BY <1>1 DEF ReadMeta, hist
<1>3. /\ old \in Call /\ old.op \in {"append", "compact", "read"} /\ call \in [Callers -> Call]
      /\ Shape(p, old)
  BY <1>1, <1>2, Calls, ByKind, States
<1>4. call[p].at # "write"
  BY <1>1, <1>2
<1>5. CASE sidecar.stage = "whole"
  <2>1. PICK at : at = CASE old.op = "read"   -> "lines"
                         [] old.op = "append" -> IF old.delta THEN "truncate" ELSE "line"
                         [] OTHER             -> "line"
    OBVIOUS
  <2>2. /\ old.op = "read" => at = "lines"
        /\ old.op = "append" /\ old.delta => at = "truncate"
        /\ old.op = "append" /\ ~ old.delta => at = "line"
        /\ old.op = "compact" => at = "line"
        /\ at \in {"lines", "truncate", "line"}
    BY <1>3, <2>1
  <2>3. PICK c : c = [old EXCEPT !.meta = Held, !.at = at]
    OBVIOUS
  <2>4. call' = [call EXCEPT ![p] = c]
    <3>1. call' = [call EXCEPT ![p].meta = Held, ![p].at = at]
      BY <1>1, <1>5, <2>1 DEF ReadMeta, Held
    <3>2. QED
      BY <1>1, <1>3, <2>3, <3>1
  <2>5. /\ c \in Call /\ c.at = at /\ c.op = old.op /\ c.meta = Held /\ c.id = old.id
        /\ c.delta = old.delta /\ c.covers = old.covers /\ c.due = old.due
    BY <1>3, <2>2, <2>3, States DEF Call
  <2>6. Change(p, c)
    BY <1>2, <2>4, <2>5, States DEF Change, files
  <2>7. present' = present /\ next' = next /\ Held' = Held
    BY <1>2 DEF files, Held
  <2>8. Shape(p, c)'
    BY <1>3, <2>2, <2>5, <2>7, Nothings DEF Shape
  <2>9. c.meta.marker.summary < next'
    BY <2>5, <2>7 DEF IInv, Shapes
  <2>10. ASSUME "twin-create" \notin mishaps
         PROVE  /\ c.due \subseteq AckedIds
                /\ AllWhole => Resolves(c.meta.marker) /\ Grounded(c)
    BY <1>1, <2>2, <2>5, <2>10 DEF IInv, CreatedOnce, Grounded
  <2>11. ASSUME p \in Writers
         PROVE  /\ "twin-create" \notin mishaps =>
                     \A q \in Writers : call[q].op = "create" => q = p
                /\ Solo => Current(c)' /\ \A q \in Writers : Busy(q) => q = p
    <3>1. Busy(p)
      BY <1>1, <1>2 DEF Busy
    <3>2. Solo => Current(old)
      BY <1>1, <2>11, <3>1, AtWork
    <3>3. Current(old) => Current(c)'
      BY <1>3, <2>2, <2>5, <2>7 DEF Current
    <3>4. QED
      BY <2>11, <3>1, <3>2, <3>3, AtWork
  <2>12. QED
    BY <1>2, <1>3, <1>4, <1>5, <2>5, <2>6, <2>8, <2>9, <2>10, <2>11, Looks DEF Solo
<1>6. CASE sidecar.stage # "whole"
  <2>1. call' = [call EXCEPT ![p] = Idle]
    BY <1>6 DEF ReadMeta, Returns
  <2>2. Change(p, Idle)
    BY <1>2, <2>1, States, Nothings DEF Change, files
  <2>3. Idle.meta.marker.summary < next'
    BY <1>2, Returned, States
  <2>4. ASSUME p \in Writers
        PROVE  /\ "twin-create" \notin mishaps =>
                    \A q \in Writers : call[q].op = "create" => q = p
               /\ Solo => \A q \in Writers : Busy(q) => q = p
    <3>1. Busy(p)
      BY <1>1, <1>2 DEF Busy
    <3>2. QED
      BY <2>4, <3>1, AtWork
  <2>5. QED
    BY <1>2, <1>4, <2>2, <2>3, <2>4, Looks, Returned DEF Solo
<1>7. QED
  BY <1>5, <1>6

LEMMA ReadLinesStep ==
  ASSUME IInv, NEW p \in Callers, ReadLines(p)
  PROVE  IInv'
<1>1. /\ call[p].at = "lines" /\ call' = [call EXCEPT ![p] = Idle]
      /\ UNCHANGED << files, next, acked, deltas, confirmed, mishaps >>
  BY DEF ReadLines, Returns, hist
<1>2. p \notin Writers
  BY <1>1, ByKind, Callings
<1>3. Change(p, Idle)
  BY <1>1, States, Nothings DEF Change, files
<1>4. Idle.meta.marker.summary < next'
  BY <1>1, Returned, States
<1>5. QED
  BY <1>1, <1>2, <1>3, <1>4, Looks, Returned

LEMMA KillStep ==
  ASSUME IInv, Kill
  PROVE  IInv'
<1>1. /\ call' = [p \in Callers |-> Idle] /\ Noted("killed")
      /\ UNCHANGED << files, next, acked, deltas, confirmed >>
  BY DEF Kill
<1>2. /\ lines' = lines /\ present' = present /\ open' = open
      /\ sidecar' = sidecar /\ Held' = Held
      /\ acked' = acked /\ deltas' = deltas /\ confirmed' = confirmed
      /\ AllWhole' <=> AllWhole
      /\ next' = next /\ mishaps \subseteq mishaps' /\ mishaps' \subseteq Trouble
      /\ "killed" \in mishaps'
  BY <1>1, States, FilesSame DEF files, Noted
<1>3. \A p \in Callers : call'[p] = Idle
  BY <1>1
<1>4. TypeOK'
  BY <1>1, <1>2, Nothings DEF IInv, TypeOK
<1>5. Shapes'
  <2>1. \A p \in Callers : Shape(p, call[p])'
    BY <1>3 DEF Shape
  <2>2. 0 < next
    BY States
  <2>3. QED
    BY <1>2, <1>3, <2>1, <2>2, Nothings DEF IInv, Shapes
<1>6. Sound'
  <2>1. AckedIds' = AckedIds /\ Ids(lines') = Ids(lines)
    BY <1>2 DEF AckedIds
  <2>2. QED
    BY <1>2, <1>3, <2>1, Nothings DEF IInv, Sound
<1>7. CreatedOnce'
  <2>1. SUFFICES ASSUME "twin-create" \notin mishaps PROVE CreatedOnce!2'
    BY <1>2 DEF CreatedOnce
  <2>2. CreatedOnce!2
    BY <2>1 DEF IInv, CreatedOnce
  <2>3. Resolves(Held.marker)' <=> Resolves(Held.marker)
    BY <1>2 DEF Resolves, Has
  <2>4. \A p \in Callers : Resolves(call[p].meta.marker)' /\ Grounded(call[p])'
    BY <1>3, Nothings DEF Resolves, Grounded
  <2>5. \A p \in Writers : p \in Callers
    BY Callings
  <2>6. QED
    BY <1>2, <1>3, <2>2, <2>3, <2>4, <2>5, Nothings
<1>8. OneWriter'
  <2>1. \A p \in Writers : p \in Callers
    BY Callings
  <2>2. \A p \in Writers : Current(call[p])' /\ ~ Busy(p)'
    BY <1>3, <2>1, Nothings DEF Current, Busy
  <2>3. Solo' => Solo
    BY <1>2 DEF Solo
  <2>4. QED
    BY <1>2, <2>2, <2>3 DEF IInv, OneWriter
<1>9. QED
  BY <1>4, <1>5, <1>6, <1>7, <1>8 DEF IInv

-----------------------------------------------------------------------------
(***************************************************************************)
(* Calls that write the metadata.                                          *)
(***************************************************************************)
\* The transcript is left as it is, and nothing but a marker is acknowledged.
LEMMA Saves ==
  ASSUME IInv, NEW p, NEW c, Change(p, c), p \in Writers, Busy(p),
         UNCHANGED << lines, present, open, next, acked, deltas, mishaps >>,
         sidecar' \in [stage : {"empty", "whole"}, held : Meta], confirmed' \in Marker,
         Shape(p, c)', c.meta = call[p].meta \/ c.meta = NoMeta, c.due = call[p].due \/ c.due = {},
         Held'.marker.summary < next,
         sidecar'.stage = "empty" => c.at = "write",
         "twin-create" \notin mishaps =>
           /\ AllWhole => Resolves(Held.marker)' /\ Grounded(c)
           /\ c.op = "create" => call[p].op = "create" /\ Held' = NoMeta,
         Solo =>
           /\ Current(c)' /\ Held.state \subseteq Held'.state
           /\ confirmed'.summary <= Held'.marker.summary,
         ~ present => confirmed' = confirmed
  PROVE  IInv'
<1>1. /\ call' \in [Callers -> Call] /\ next' = next /\ mishaps' = mishaps /\ p \in Callers
      /\ Solo' = Solo
  BY Changed DEF Solo
<1>2. TypeOK'
  BY <1>1 DEF IInv, TypeOK
<1>3. Held' \in Meta
  BY DEF Held
<1>4. /\ c.meta.marker.summary < next /\ c.due \subseteq call[p].due
      /\ (AllWhole /\ "twin-create" \notin mishaps => Resolves(c.meta.marker))
  <2>1. 0 < next
    BY States
  <2>2. CASE c.meta = NoMeta
    BY <2>1, <2>2, Nothings DEF Resolves
  <2>3. CASE c.meta = call[p].meta
    BY <1>1, <2>3, Calls DEF IInv, CreatedOnce
  <2>4. QED
    BY <2>2, <2>3
<1>5. Shapes'
  BY <1>1, <1>4, ShapesKept
<1>6. /\ AckedIds' = AckedIds /\ Ids(lines') = Ids(lines)
      /\ AllWhole' <=> AllWhole
      /\ Resolves(c.meta.marker)' <=> Resolves(c.meta.marker)
      /\ Grounded(c)' <=> Grounded(c)
  BY DEF AckedIds, AllWhole, Resolves, Grounded, Has
<1>7. Sound'
  <2>1. sidecar'.stage # "missing"
    OBVIOUS
  <2>2. sidecar'.stage = "empty" /\ "killed" \notin mishaps' /\ "disk-full" \notin mishaps' =>
              \E q \in Callers : call'[q].at = "write"
    BY <2>1, SidecarKept
  <2>3. QED
    BY <1>1, <1>6, <2>1, <2>2 DEF IInv, Sound
<1>8. CreatedOnce'
  <2>1. ASSUME "twin-create" \notin mishaps
        PROVE  /\ c.due \subseteq AckedIds
               /\ \A q \in Writers : call[q].op = "create" => q = p
               /\ call[p].op = "create" => ~ present /\ \A q \in Writers : Busy(q) => q = p
    BY <1>1, <1>4, <2>1, AtWork DEF IInv, CreatedOnce
  <2>2. QED
    BY <1>1, <1>4, <1>6, <2>1, CreatedOnceKept
<1>9. OneWriter'
  <2>1. ASSUME Solo PROVE deltas \subseteq Held'.state /\ \A q \in Writers : Busy(q) => q = p
    BY <2>1, AtWork
  <2>2. QED
    BY <1>1, <2>1, OneWriterKept
<1>10. QED
  BY <1>2, <1>5, <1>7, <1>8, <1>9 DEF IInv

LEMMA TruncateMetaStep ==
  ASSUME IInv, NEW p \in Callers, TruncateMeta(p)
  PROVE  IInv'
<1>1. PICK old : old = call[p]
  OBVIOUS
<1>2. /\ old.at = "truncate" /\ sidecar' = [sidecar EXCEPT !.stage = "empty"]
      /\ call' = [call EXCEPT ![p].at = "write"]
      /\ UNCHANGED << lines, present, open, next, acked, deltas, confirmed, mishaps >>
  BY <1>1 DEF TruncateMeta, Goes, hist
<1>3. /\ old \in Call /\ Shape(p, old) /\ p \in Writers /\ Busy(p)
      /\ old.op = "create" \/ old.op = "compact" \/ (old.op = "append" /\ old.delta)
      /\ call \in [Callers -> Call]
  BY <1>1, <1>2, Calls, ByKind, States DEF Busy
<1>4. PICK c : c = [old EXCEPT !.at = "write"]
  OBVIOUS
<1>5. /\ c \in Call /\ c.at = "write" /\ c.op = old.op /\ c.meta = old.meta /\ c.id = old.id
      /\ c.delta = old.delta /\ c.covers = old.covers /\ c.due = old.due
  BY <1>3, <1>4, Moved
<1>6. call' = [call EXCEPT ![p] = c]
  BY <1>1, <1>2, <1>3, <1>4
<1>7. Change(p, c)
  <2>1. next' = next /\ present' = present /\ mishaps' = mishaps /\ c \in Call
    BY <1>2, <1>5
  <2>2. QED
    BY <1>6, <2>1, States DEF Change
<1>8. sidecar' \in [stage : {"empty", "whole"}, held : Meta] /\ Held' = Held
  <2>1. sidecar \in [stage : {"missing", "empty", "whole"}, held : Meta]
    BY DEF IInv, TypeOK
  <2>2. sidecar'.held = sidecar.held /\ sidecar'.stage = "empty"
    BY <1>2, <2>1
  <2>3. sidecar' \in [stage : {"empty", "whole"}, held : Meta]
    BY <1>2, <2>1
  <2>4. QED
    BY <2>2, <2>3 DEF Held
<1>9. Shape(p, c)'
  BY <1>2, <1>3, <1>5, Nothings DEF Shape
<1>10. ASSUME "twin-create" \notin mishaps
       PROVE  /\ AllWhole => Resolves(Held.marker)' /\ Grounded(c)
              /\ c.op = "create" => old.op = "create" /\ Held' = NoMeta
  <2>1. CreatedOnce!2
    BY <1>10 DEF IInv, CreatedOnce
  <2>2. Resolves(Held.marker)' <=> Resolves(Held.marker)
    BY <1>2, <1>8 DEF Resolves, Has
  <2>3. Grounded(old) => Grounded(c)
    BY <1>2, <1>3, <1>5 DEF Grounded
  <2>4. QED
    BY <1>1, <1>3, <1>5, <1>8, <2>1, <2>2, <2>3
<1>11. ASSUME Solo
       PROVE  /\ Current(c)' /\ Held.state \subseteq Held'.state
              /\ confirmed'.summary <= Held'.marker.summary
  <2>1. Current(old) /\ confirmed.summary <= Held.marker.summary
    BY <1>1, <1>3, <1>11, AtWork
  <2>2. SummaryLast(c)' <=> SummaryLast(old)
    BY <1>2, <1>5, <1>8 DEF SummaryLast
  <2>3. Current(c)'
    BY <1>2, <1>3, <1>5, <1>8, <2>1, <2>2 DEF Current
  <2>4. QED
    BY <1>2, <1>8, <2>1, <2>3
<1>12. Held'.marker.summary < next /\ confirmed' \in Marker /\ sidecar'.stage = "empty"
  BY <1>2, <1>8, States DEF IInv, Shapes, TypeOK
<1>13. QED
  BY <1>1, <1>2, <1>3, <1>5, <1>7, <1>8, <1>9, <1>10, <1>11, <1>12, Saves

LEMMA WriteMetaStep ==
  ASSUME IInv, NEW p \in Callers, WriteMeta(p)
  PROVE  IInv'
<1>1. PICK old : old = call[p]
  OBVIOUS
<1>2. PICK w : w = Written(old)
  OBVIOUS
<1>3. /\ old.at = "write" /\ sidecar' = [stage |-> "whole", held |-> w] /\ Held' = w
      /\ UNCHANGED << lines, present, open, next, acked, deltas, mishaps >>
  BY <1>1, <1>2 DEF WriteMeta, Held
<1>4. /\ old \in Call /\ Shape(p, old) /\ p \in Writers /\ Busy(p) /\ call \in [Callers -> Call]
      /\ old.op = "create" \/ old.op = "compact" \/ (old.op = "append" /\ old.delta)
      /\ old.meta \in Meta /\ old.meta.marker.summary < next /\ old.id \in Nat /\ old.covers \in Nat
  BY <1>1, <1>3, Calls, ByKind, States DEF Busy
<1>5. /\ Solo => /\ Current(old) /\ deltas \subseteq Held.state
                 /\ confirmed.summary <= Held.marker.summary
      /\ "twin-create" \notin mishaps =>
            /\ AllWhole => Resolves(Held.marker) /\ Resolves(old.meta.marker) /\ Grounded(old)
            /\ old.op = "create" => Held = NoMeta /\ ~ present
  BY <1>1, <1>4, AtWork DEF IInv, CreatedOnce
<1>6. 0 < next /\ confirmed \in Marker /\ confirmed.summary \in Nat
  BY States DEF Marker
<1>7. CASE old.op = "create"
  <2>1. PICK c : c = [old EXCEPT !.at = "file"]
    OBVIOUS
  <2>2. /\ c \in Call /\ c.at = "file" /\ c.op = old.op /\ c.meta = old.meta /\ c.due = old.due
    BY <1>4, <2>1, Moved
  <2>3. call' = [call EXCEPT ![p].at = "file"] /\ confirmed' = confirmed /\ w = NoMeta
    BY <1>1, <1>2, <1>7 DEF WriteMeta, Goes, Written
  <2>4. call' = [call EXCEPT ![p] = c]
    BY <1>1, <1>4, <2>1, <2>3
  <2>5. Change(p, c)
    BY <1>3, <2>2, <2>4, States DEF Change
  <2>6. Shape(p, c)'
    BY <1>3, <1>4, <1>7, <2>2, Nothings DEF Shape
  <2>7. Grounded(c) /\ Resolves(Held.marker)' /\ Current(c)'
    BY <1>3, <1>7, <2>2, <2>3, Nothings DEF Grounded, Resolves, Current
  <2>8. Solo => Held' = Held
    BY <1>3, <1>5, <1>7, <2>3 DEF Solo
  <2>9. /\ sidecar' \in [stage : {"empty", "whole"}, held : Meta]
        /\ sidecar'.stage = "whole" /\ Held'.marker.summary < next
    BY <1>3, <1>6, <2>3, Nothings
  <2>10. QED
    BY <1>1, <1>3, <1>4, <1>5, <1>6, <1>7, <2>2, <2>3, <2>5, <2>6, <2>7, <2>8, <2>9, Saves
<1>8. CASE old.op = "append"
  <2>1. PICK c : c = [old EXCEPT !.at = "line"]
    OBVIOUS
  <2>2. /\ c \in Call /\ c.at = "line" /\ c.op = old.op /\ c.meta = old.meta /\ c.due = old.due
        /\ c.id = old.id /\ c.delta = old.delta
    BY <1>4, <2>1, Moved
  <2>3. /\ call' = [call EXCEPT ![p].at = "line"] /\ confirmed' = confirmed
        /\ w = [old.meta EXCEPT !.state = @ \cup {old.id}]
    BY <1>1, <1>2, <1>8 DEF WriteMeta, Goes, Written
  <2>4. w \in Meta /\ w.marker = old.meta.marker /\ w.state = old.meta.state \cup {old.id}
    BY <1>4, <2>3 DEF Meta
  <2>5. call' = [call EXCEPT ![p] = c]
    BY <1>1, <1>4, <2>1, <2>3
  <2>6. Change(p, c)
    BY <1>3, <2>2, <2>5, States DEF Change
  <2>7. Shape(p, c)'
    BY <1>3, <1>4, <1>8, <2>2, Nothings DEF Shape
  <2>8. Grounded(c) /\ (Resolves(Held.marker)' <=> Resolves(old.meta.marker))
    BY <1>3, <1>8, <2>2, <2>4 DEF Grounded, Resolves, Has
  <2>9. Solo => Current(c)' /\ w.marker = Held.marker /\ Held.state \subseteq w.state
    <3>1. Solo => old.meta = Held
      BY <1>3, <1>5, <1>8 DEF Current
    <3>2. old.id \in w.state
      BY <2>4
    <3>3. Current(c)'
      BY <1>3, <1>8, <2>2, <3>2 DEF Current
    <3>4. QED
      BY <2>4, <3>1, <3>3
  <2>10. /\ sidecar' \in [stage : {"empty", "whole"}, held : Meta]
         /\ sidecar'.stage = "whole" /\ Held'.marker.summary < next
    BY <1>3, <1>4, <2>4
  <2>11. QED
    BY <1>1, <1>3, <1>4, <1>5, <1>6, <1>8, <2>2, <2>3, <2>6, <2>7, <2>8, <2>9, <2>10, Saves
<1>9. CASE old.op = "compact"
  <2>1. PICK mark : mark = [summary |-> old.id, coveredThrough |-> old.covers]
    OBVIOUS
  <2>2. /\ call' = [call EXCEPT ![p] = Idle] /\ confirmed' = w.marker
        /\ w = [old.meta EXCEPT !.marker = mark]
    BY <1>1, <1>2, <1>9, <2>1 DEF WriteMeta, Returns, Written
  <2>3. mark \in Marker /\ mark.summary = old.id /\ mark.coveredThrough = old.covers
    BY <1>4, <2>1 DEF Marker
  <2>4. w \in Meta /\ w.marker = mark /\ w.state = old.meta.state
    BY <1>4, <2>2, <2>3 DEF Meta
  <2>5. old.id < next /\ present
    BY <1>1, <1>9, ByKind
  <2>6. Change(p, Idle)
    BY <1>3, <2>2, States, Nothings DEF Change
  <2>7. AllWhole /\ "twin-create" \notin mishaps => Resolves(Held.marker)'
    BY <1>3, <1>5, <1>9, <2>3, <2>4 DEF Resolves, Grounded, Has
  <2>8. Solo => Held.state \subseteq w.state
    BY <1>3, <1>5, <1>9, <2>4 DEF Current
  <2>9. /\ sidecar' \in [stage : {"empty", "whole"}, held : Meta]
        /\ sidecar'.stage = "whole" /\ Held'.marker.summary < next
        /\ confirmed' \in Marker /\ confirmed'.summary <= Held'.marker.summary
    BY <1>3, <1>4, <2>2, <2>3, <2>4, <2>5
  <2>10. QED
    BY <1>3, <1>4, <2>2, <2>5, <2>6, <2>7, <2>8, <2>9, Saves, Returned, Nothings
<1>10. QED
  BY <1>4, <1>7, <1>8, <1>9

-----------------------------------------------------------------------------
(***************************************************************************)
(* Calls that write the transcript.                                        *)
(***************************************************************************)
LEMMA Extension ==
  ASSUME NEW l \in Line, lines \in Seq(Line), lines' = Append(lines, l)
  PROVE  /\ lines' \in Seq(Line) /\ Len(lines') = Len(lines) + 1 /\ Len(lines) \in Nat
         /\ lines'[Len(lines) + 1] = l
         /\ \A i \in 1 .. Len(lines) : lines'[i] = lines[i]
         /\ Ids(lines') = Ids(lines) \cup {l.id}
         /\ AllWhole' <=> AllWhole /\ l.whole
<1>1. /\ lines' \in Seq(Line) /\ Len(lines') = Len(lines) + 1 /\ Len(lines) \in Nat
      /\ lines'[Len(lines) + 1] = l
      /\ \A i \in 1 .. Len(lines) : lines'[i] = lines[i]
  BY AppendProperties, LenProperties
<1>2. \A i : i \in 1 .. Len(lines') <=> (i \in 1 .. Len(lines) \/ i = Len(lines) + 1)
  BY <1>1
<1>3. AllWhole' <=> AllWhole /\ l.whole
  BY <1>1, <1>2 DEF AllWhole
<1>4. Ids(lines') = Ids(lines) \cup {l.id}
  <2>1. \A id : id \in Ids(lines') <=> \E i \in 1 .. Len(lines') : lines'[i].id = id
    BY DEF Ids
  <2>2. \A id : id \in Ids(lines) <=> \E i \in 1 .. Len(lines) : lines[i].id = id
    BY DEF Ids
  <2>3. \A id : id \in Ids(lines') <=> (id \in Ids(lines) \/ id = l.id)
    BY <1>1, <1>2, <2>1, <2>2
  <2>4. QED
    BY <2>3
<1>5. QED
  BY <1>1, <1>3, <1>4

\* A step that leaves the metadata as it is.
LEMMA Writes ==
  ASSUME IInv, NEW p, NEW c, Change(p, c), p \in Writers, Busy(p),
         sidecar' = sidecar, next' = next, sidecar.stage # "missing",
         lines' \in Seq(Line), open' \in BOOLEAN, present' \in BOOLEAN,
         acked' \in Seq(Nat), deltas' \subseteq Nat, confirmed' \in Marker,
         Shape(p, c)', c.op # "create",
         c = Idle \/ (c.meta = call[p].meta /\ c.due = call[p].due),
         present' \/ UNCHANGED << lines, present, acked, deltas, confirmed >>,
         open' => ~ AllWhole', "disk-full" \notin mishaps' => AllWhole',
         AllWhole' => AckedIds' \subseteq Ids(lines'),
         "disk-full" \in mishaps' \/ call[p].at # "write",
         "twin-create" \notin mishaps' =>
           /\ AckedIds \subseteq AckedIds' /\ Ids(lines) \subseteq Ids(lines')
           /\ AllWhole' => AllWhole
           /\ AllWhole' => Grounded(c)',
         Solo' =>
           /\ Current(c)'
           /\ confirmed'.summary <= Held.marker.summary /\ deltas' \subseteq Held.state
  PROVE  IInv'
<1>1. /\ call' \in [Callers -> Call] /\ p \in Callers
      /\ mishaps \subseteq mishaps' /\ mishaps' \subseteq Trouble /\ Held' = Held
  BY Changed DEF Change, Held
<1>2. TypeOK'
  BY <1>1 DEF IInv, TypeOK
<1>3. c.meta.marker.summary < next'
  <2>1. 0 < next
    BY States
  <2>2. QED
    BY <1>1, <2>1, Nothings, Calls
<1>4. Shapes'
  BY <1>1, <1>3, ShapesKept DEF IInv, Shapes
<1>5. Sound'
  <2>1. sidecar'.stage = "empty" /\ "killed" \notin mishaps' /\ "disk-full" \notin mishaps' =>
              \E q \in Callers : call'[q].at = "write"
    BY SidecarKept
  <2>2. ~ present' =>
          /\ lines' = << >> /\ acked' = << >> /\ deltas' = {} /\ confirmed' = NoMarker
    BY DEF IInv, Sound
  <2>3. QED
    BY <2>1, <2>2 DEF Sound
<1>6. ASSUME "twin-create" \notin mishaps', NEW marker, Resolves(marker)
      PROVE  Resolves(marker)'
  <2>1. /\ \A id : Has(lines, id) <=> id \in Ids(lines)
        /\ \A id : Has(lines, id)' <=> id \in Ids(lines')
    BY DEF Has, Ids
  <2>2. QED
    BY <1>6, <2>1 DEF Resolves
<1>7. CreatedOnce'
  <2>1. ASSUME "twin-create" \notin mishaps'
        PROVE  /\ c.due \subseteq AckedIds'
               /\ AllWhole' => Resolves(Held.marker)' /\ Resolves(c.meta.marker)'
               /\ \A q \in Writers : call[q].op = "create" => q = p
    <3>1. "twin-create" \notin mishaps
      BY <1>1, <2>1
    <3>2. CreatedOnce!2
      BY <3>1 DEF IInv, CreatedOnce
    <3>3. c.due \subseteq AckedIds'
      BY <1>1, <2>1, <3>2, Nothings
    <3>4. AllWhole => Resolves(c.meta.marker)
      BY <1>1, <3>2, Returned
    <3>5. PICK held : held = Held.marker
      OBVIOUS
    <3>6. AllWhole' => Resolves(held)'
      BY <1>6, <2>1, <3>2, <3>5
    <3>7. Resolves(Held.marker)' <=> Resolves(held)'
      BY <1>1, <3>5 DEF Resolves
    <3>8. AllWhole' => Resolves(c.meta.marker)'
      BY <1>6, <2>1, <3>4
    <3>9. QED
      BY <3>1, <3>3, <3>6, <3>7, <3>8, AtWork
  <2>2. QED
    BY <2>1, CreatedOnceKept
<1>8. OneWriter'
  <2>1. ASSUME Solo' PROVE \A q \in Writers : Busy(q) => q = p
    <3>1. Solo
      BY <1>1, <2>1 DEF Solo
    <3>2. QED
      BY <3>1, AtWork
  <2>2. QED
    BY <1>1, <2>1, OneWriterKept
<1>9. QED
  BY <1>2, <1>4, <1>5, <1>7, <1>8 DEF IInv

LEMMA CreateFileStep ==
  ASSUME IInv, NEW p \in Callers, CreateFile(p)
  PROVE  IInv'
<1>1. /\ call[p].op = "create" /\ call[p].at = "file"
      /\ lines' = << >> /\ present' = TRUE /\ open' = FALSE
      /\ call' = [call EXCEPT ![p] = Idle]
      /\ UNCHANGED << sidecar, next, mishaps >>
      /\ IF "twin-create" \in mishaps
           THEN acked' = << >> /\ deltas' = {} /\ confirmed' = NoMarker
           ELSE UNCHANGED << acked, deltas, confirmed >>
  BY DEF CreateFile, Reached, Returns
<1>2. p \in Writers /\ Busy(p) /\ sidecar.stage # "missing"
  BY <1>1, ByKind DEF IInv, Sound, Busy
<1>3. Change(p, Idle)
  BY <1>1, States, Nothings DEF Change
<1>4. /\ lines' \in Seq(Line) /\ acked' \in Seq(Nat) /\ deltas' \subseteq Nat
      /\ confirmed' \in Marker /\ Len(lines') = 0
  BY <1>1, States, Nothings, EmptySeq
<1>5. AllWhole'
  BY <1>4 DEF AllWhole
<1>6. ASSUME "twin-create" \notin mishaps
      PROVE  /\ lines = << >> /\ acked = << >> /\ AckedIds' = AckedIds /\ AckedIds = {}
             /\ Ids(lines) = {} /\ AllWhole
  <2>1. lines = << >> /\ acked = << >>
    BY <1>1, <1>2, <1>6 DEF IInv, CreatedOnce, Sound
  <2>2. AckedIds' = AckedIds /\ AckedIds = {}
    BY <1>1, <1>6, <2>1 DEF AckedIds
  <2>3. QED
    BY <2>1, <2>2 DEF AllWhole, Ids
<1>7. AckedIds' \subseteq Ids(lines')
  <2>1. CASE "twin-create" \in mishaps
    BY <1>1, <2>1 DEF AckedIds
  <2>2. CASE "twin-create" \notin mishaps
    BY <1>6, <2>2
  <2>3. QED
    BY <2>1, <2>2
<1>8. ASSUME Solo'
      PROVE  confirmed'.summary <= Held.marker.summary /\ deltas' \subseteq Held.state
  BY <1>1, <1>2, <1>8, AtWork DEF Solo
<1>9. QED
  BY <1>1, <1>2, <1>3, <1>4, <1>5, <1>6, <1>7, <1>8, Writes, Returned

\* The line a call writes, and who writes one.
LEMMA AtLine ==
  ASSUME IInv, NEW p \in Callers, call[p].at = "line", NEW whole \in BOOLEAN
  PROVE  /\ p \in Writers /\ Busy(p) /\ sidecar.stage # "missing" /\ present
         /\ [id |-> call[p].id, kind |-> KindOf(call[p]), whole |-> whole] \in Line
<1>1. /\ p \in Writers /\ Busy(p) /\ sidecar.stage # "missing" /\ present
      /\ call[p].id \in Nat /\ call[p].id # NoId
  BY Calls, ByKind DEF IInv, Sound, Busy
<1>2. KindOf(call[p]) \in {"reply", "summary"}
  BY DEF KindOf
<1>3. QED
  BY <1>1, <1>2 DEF Line

\* A line written whole.
LEMMA Extends ==
  ASSUME IInv, NEW p \in Callers, call[p].at = "line", lines' = Extended(call[p]), open' = FALSE
  PROVE  /\ lines' \in Seq(Line)
         /\ AllWhole' <=> AllWhole
         /\ Ids(lines) \subseteq Ids(lines')
         /\ AllWhole =>
              /\ lines' = Append(lines, [id |-> call[p].id, kind |-> KindOf(call[p]), whole |-> TRUE])
              /\ Ids(lines') = Ids(lines) \cup {call[p].id}
<1>1. PICK l \in Line : l = [id |-> call[p].id, kind |-> KindOf(call[p]), whole |-> TRUE]
  BY AtLine
<1>2. l.id = call[p].id /\ l.whole = TRUE
  BY <1>1
<1>3. CASE open
  <2>1. lines' = lines /\ ~ AllWhole
    BY <1>3 DEF Extended, IInv, Sound
  <2>2. QED
    BY <2>1, States DEF AllWhole
<1>4. CASE ~ open
  <2>1. lines' = Append(lines, l)
    BY <1>1, <1>4 DEF Extended
  <2>2. QED
    BY <1>1, <1>2, <2>1, Extension, States
<1>5. QED
  BY <1>3, <1>4

LEMMA AppendLineStep ==
  ASSUME IInv, NEW p \in Callers, AppendLine(p)
  PROVE  IInv'
<1>1. PICK id \in Nat : id = call[p].id
  BY Calls
<1>2. /\ call[p].op = "append" /\ call[p].at = "line"
      /\ lines' = Extended(call[p]) /\ present' = TRUE /\ open' = FALSE
      /\ call' = [call EXCEPT ![p] = Idle]
      /\ acked' = Append(acked, id)
      /\ deltas' = IF call[p].delta THEN deltas \cup {id} ELSE deltas
      /\ UNCHANGED << sidecar, next, confirmed, mishaps >>
  BY <1>1 DEF AppendLine, Reached, Returns
<1>3. p \in Writers /\ Busy(p) /\ sidecar.stage # "missing"
  BY <1>2, AtLine
<1>4. Change(p, Idle)
  BY <1>2, States, Nothings DEF Change
<1>5. /\ lines' \in Seq(Line) /\ (AllWhole' <=> AllWhole) /\ Ids(lines) \subseteq Ids(lines')
      /\ (AllWhole => id \in Ids(lines'))
  BY <1>1, <1>2, Extends
<1>6. acked' \in Seq(Nat) /\ AckedIds' = AckedIds \cup {id}
  <2>1. /\ acked' \in Seq(Nat) /\ Len(acked') = Len(acked) + 1 /\ Len(acked) \in Nat
        /\ acked'[Len(acked) + 1] = id
        /\ \A i \in 1 .. Len(acked) : acked'[i] = acked[i]
    BY <1>2, States, AppendProperties, LenProperties
  <2>2. \A i : i \in 1 .. Len(acked') <=> (i \in 1 .. Len(acked) \/ i = Len(acked) + 1)
    BY <2>1
  <2>3. \A n : n \in AckedIds <=> \E i \in 1 .. Len(acked) : acked[i] = n
    BY DEF AckedIds
  <2>4. \A n : n \in AckedIds' <=> \E i \in 1 .. Len(acked') : acked'[i] = n
    BY DEF AckedIds
  <2>5. \A n : n \in AckedIds' <=> (n \in AckedIds \/ n = id)
    BY <2>1, <2>2, <2>3, <2>4
  <2>6. QED
    BY <2>1, <2>5
<1>7. deltas' \subseteq Nat /\ confirmed' \in Marker
  BY <1>2, States
<1>8. "disk-full" \notin mishaps' => AllWhole'
  BY <1>2, <1>5 DEF IInv, Sound
<1>9. AllWhole' => AckedIds' \subseteq Ids(lines')
  BY <1>5, <1>6 DEF IInv, Sound
<1>10. ASSUME Solo'
       PROVE  confirmed'.summary <= Held.marker.summary /\ deltas' \subseteq Held.state
  <2>1. Current(call[p]) /\ confirmed.summary <= Held.marker.summary /\ deltas \subseteq Held.state
    BY <1>2, <1>3, <1>10, AtWork DEF Solo
  <2>2. call[p].delta => id \in Held.state
    BY <1>1, <1>2, <2>1 DEF Current
  <2>3. QED
    BY <1>2, <2>1, <2>2
<1>11. QED
  BY <1>2, <1>3, <1>4, <1>5, <1>6, <1>7, <1>8, <1>9, <1>10, Writes, Returned

LEMMA SummaryLineStep ==
  ASSUME IInv, NEW p \in Callers, SummaryLine(p)
  PROVE  IInv'
<1>1. PICK old : old = call[p]
  OBVIOUS
<1>2. /\ old.op = "compact" /\ old.at = "line"
      /\ lines' = Extended(call[p]) /\ present' = TRUE /\ open' = FALSE
      /\ call' = [call EXCEPT ![p].at = "truncate"]
      /\ UNCHANGED << sidecar, next, acked, deltas, confirmed, mishaps >>
  BY <1>1 DEF SummaryLine, Reached, Goes, hist
<1>3. /\ old \in Call /\ Shape(p, old) /\ p \in Writers /\ Busy(p) /\ call \in [Callers -> Call]
      /\ sidecar.stage # "missing" /\ present
  BY <1>1, <1>2, Calls, AtLine, States
<1>4. PICK c : c = [old EXCEPT !.at = "truncate"]
  OBVIOUS
<1>5. /\ c \in Call /\ c.at = "truncate" /\ c.op = old.op /\ c.meta = old.meta /\ c.id = old.id
      /\ c.delta = old.delta /\ c.covers = old.covers /\ c.due = old.due
  BY <1>3, <1>4, Moved
<1>6. call' = [call EXCEPT ![p] = c]
  BY <1>1, <1>2, <1>3, <1>4
<1>7. Change(p, c)
  <2>1. next' = next /\ present' = TRUE /\ mishaps' = mishaps /\ c \in Call
    BY <1>2, <1>5
  <2>2. QED
    BY <1>6, <2>1, States DEF Change
<1>8. /\ lines' \in Seq(Line) /\ (AllWhole' <=> AllWhole) /\ Ids(lines) \subseteq Ids(lines')
      /\ (AllWhole => old.id \in Ids(lines'))
  BY <1>1, <1>2, Extends
<1>9. Shape(p, c)'
  BY <1>2, <1>3, <1>5, Nothings DEF Shape
<1>10. AckedIds' = AckedIds
  BY <1>2 DEF AckedIds
<1>11. "disk-full" \notin mishaps' => AllWhole'
  BY <1>2, <1>8 DEF IInv, Sound
<1>12. AllWhole' => AckedIds' \subseteq Ids(lines')
  BY <1>8, <1>10 DEF IInv, Sound
<1>13. ASSUME "twin-create" \notin mishaps, AllWhole
       PROVE  Resolves(Held.marker) /\ Grounded(old)
  BY <1>1, <1>13 DEF IInv, CreatedOnce
<1>14. ASSUME "twin-create" \notin mishaps, AllWhole PROVE Grounded(c)'
  <2>1. /\ \A id : Has(lines, id) <=> id \in Ids(lines)
        /\ \A id : Has(lines, id)' <=> id \in Ids(lines')
    BY DEF Has, Ids
  <2>2. Has(lines, c.covers)' /\ Has(lines, c.id)'
    BY <1>2, <1>5, <1>8, <1>13, <1>14, <2>1 DEF Grounded
  <2>3. QED
    BY <2>2 DEF Grounded
<1>15. ASSUME Solo'
       PROVE  /\ Current(c)'
              /\ confirmed.summary <= Held.marker.summary /\ deltas \subseteq Held.state
  <2>1. Solo /\ Held' = Held
    BY <1>2, <1>15 DEF Solo, Held
  <2>2. Current(old) /\ confirmed.summary <= Held.marker.summary /\ deltas \subseteq Held.state
    BY <1>1, <1>3, <2>1, AtWork
  <2>3. ASSUME "disk-full" \notin mishaps PROVE SummaryLast(c)'
    <3>1. PICK l \in Line : l = [id |-> call[p].id, kind |-> KindOf(call[p]), whole |-> TRUE]
      BY <1>1, <1>2, AtLine
    <3>2. l.id = old.id /\ l.kind = "summary"
      BY <1>1, <1>2, <3>1 DEF KindOf
    <3>3. AllWhole
      BY <2>3 DEF IInv, Sound
    <3>4. lines' = Append(lines, l)
      BY <1>1, <1>2, <3>1, <3>3, Extends
    <3>5. /\ Len(lines') = Len(lines) + 1 /\ Len(lines) \in Nat
          /\ lines'[Len(lines) + 1] = l
          /\ \A i \in 1 .. Len(lines) : lines'[i] = lines[i]
      BY <3>1, <3>4, Extension, States
    <3>6. /\ Has(lines, old.covers)
          /\ Held.marker.summary = NoId \/ Has(lines, Held.marker.summary)
      BY <1>2, <1>13, <2>1, <3>3 DEF Solo, Resolves, Grounded
    <3>7. \A id : Has(lines, id) => \E i \in 1 .. Len(lines') - 1 : lines'[i].id = id
      BY <3>5 DEF Has
    <3>8. QED
      BY <1>5, <2>1, <3>2, <3>5, <3>6, <3>7 DEF SummaryLast
  <2>4. Current(c)'
    BY <1>2, <1>5, <2>1, <2>2, <2>3 DEF Current
  <2>5. QED
    BY <2>2, <2>4
<1>16. QED
  BY <1>1, <1>2, <1>3, <1>5, <1>7, <1>8, <1>9, <1>10, <1>11, <1>12, <1>14, <1>15, Writes, States

LEMMA WriteFailsStep ==
  ASSUME IInv, NEW p \in Callers, WriteFails(p)
  PROVE  IInv'
<1>1. /\ call' = [call EXCEPT ![p] = Idle]
      /\ UNCHANGED << sidecar, next, acked, deltas, confirmed >>
      /\ mishaps \subseteq mishaps' /\ mishaps' \subseteq Trouble /\ "disk-full" \in mishaps'
      /\ call[p].at \in {"write", "file", "line"}
  BY States DEF WriteFails, Noted, Returns
<1>2. p \in Writers /\ Busy(p) /\ sidecar.stage # "missing"
  BY <1>1, ByKind DEF IInv, Sound, Busy
<1>3. /\ lines' \in Seq(Line) /\ (AllWhole' => AllWhole) /\ Ids(lines) \subseteq Ids(lines')
      /\ (open' => ~ AllWhole') /\ open' \in BOOLEAN
      /\ present' \in BOOLEAN /\ (present => present')
      /\ present' \/ UNCHANGED << lines, present, acked, deltas, confirmed >>
  <2>1. CASE UNCHANGED << lines, open >> /\ (present' = TRUE \/ UNCHANGED present)
    <3>1. AllWhole' <=> AllWhole
      BY <2>1 DEF AllWhole
    <3>2. Ids(lines') = Ids(lines)
      BY <2>1
    <3>3. open' => ~ AllWhole'
      BY <2>1, <3>1 DEF IInv, Sound
    <3>4. present' \in BOOLEAN /\ (present => present')
      <4>1. present \in BOOLEAN /\ (present' = TRUE \/ present' = present)
        BY <2>1, States
      <4>2. QED
        BY <4>1
    <3>5. lines' \in Seq(Line) /\ open' \in BOOLEAN
      BY <2>1, States
    <3>6. QED
      BY <1>1, <2>1, <3>1, <3>2, <3>3, <3>4, <3>5
  <2>2. CASE /\ call[p].at = "line" /\ present' = TRUE /\ open' = TRUE
             /\ lines' = IF open THEN lines
                         ELSE Append(lines, [id |-> call[p].id, kind |-> KindOf(call[p]),
                                             whole |-> FALSE])
    <3>1. PICK l \in Line : l = [id |-> call[p].id, kind |-> KindOf(call[p]), whole |-> FALSE]
      BY <2>2, AtLine
    <3>2. CASE open
      <4>1. lines' = lines /\ ~ AllWhole
        BY <2>2, <3>2 DEF IInv, Sound
      <4>2. AllWhole' <=> AllWhole
        BY <4>1 DEF AllWhole
      <4>3. QED
        BY <2>2, <4>1, <4>2, States
    <3>3. CASE ~ open
      <4>1. lines' = Append(lines, l)
        BY <2>2, <3>1, <3>3
      <4>2. lines' \in Seq(Line) /\ Ids(lines) \subseteq Ids(lines') /\ ~ AllWhole'
        BY <3>1, <4>1, Extension, States
      <4>3. QED
        BY <2>2, <4>2
    <3>4. QED
      BY <3>2, <3>3
  <2>3. QED
    BY <2>1, <2>2 DEF WriteFails
<1>4. Change(p, Idle)
  BY <1>1, <1>3, States, Nothings DEF Change
<1>5. AckedIds' = AckedIds
  BY <1>1 DEF AckedIds
<1>6. AllWhole' => AckedIds' \subseteq Ids(lines')
  BY <1>3, <1>5 DEF IInv, Sound
<1>7. ASSUME Solo'
      PROVE  confirmed'.summary <= Held.marker.summary /\ deltas' \subseteq Held.state
  <2>1. Solo
    BY <1>1, <1>7 DEF Solo
  <2>2. QED
    BY <1>1, <1>2, <2>1, AtWork
<1>8. QED
  BY <1>1, <1>2, <1>3, <1>4, <1>5, <1>6, <1>7, Writes, Returned, States

-----------------------------------------------------------------------------
(***************************************************************************)
(* The invariant, and what it is for.                                      *)
(***************************************************************************)
LEMMA InitInvariant == Init => IInv
<1>1. SUFFICES ASSUME Init PROVE IInv
  OBVIOUS
<1>2. /\ lines = << >> /\ present = FALSE /\ open = FALSE /\ next = 1
      /\ sidecar = [stage |-> "missing", held |-> NoMeta]
      /\ call = [p \in Callers |-> Idle]
      /\ acked = << >> /\ deltas = {} /\ confirmed = NoMarker /\ mishaps = {}
  BY <1>1 DEF Init
<1>3. /\ lines \in Seq(Line) /\ acked \in Seq(Nat) /\ Len(lines) = 0 /\ Len(acked) = 0
      /\ Held = NoMeta /\ sidecar.stage = "missing"
      /\ \A p \in Callers : call[p] = Idle
      /\ \A p \in Writers : p \in Callers /\ call[p] = Idle
  BY <1>2, EmptySeq, Callings DEF Held
<1>4. TypeOK
  <2>1. sidecar \in [stage : {"missing", "empty", "whole"}, held : Meta]
    BY <1>2, Nothings
  <2>2. call \in [Callers -> Call]
    BY <1>2, Nothings
  <2>3. lines \in Seq(Line) /\ acked \in Seq(Nat)
    BY <1>3
  <2>4. next \in Nat \ {0} /\ confirmed \in Marker /\ deltas \subseteq Nat /\ mishaps \subseteq Trouble
    BY <1>2, Nothings
  <2>5. present \in BOOLEAN /\ open \in BOOLEAN
    BY <1>2
  <2>6. QED
    BY <2>1, <2>2, <2>3, <2>4, <2>5 DEF TypeOK
<1>5. Shapes
  BY <1>2, <1>3, Nothings DEF Shapes, Shape
<1>6. AllWhole /\ AckedIds = {}
  BY <1>3 DEF AllWhole, AckedIds
<1>7. Sound
  BY <1>2, <1>3, <1>6, Nothings DEF Sound
<1>8. CreatedOnce
  BY <1>3, <1>6, Nothings DEF CreatedOnce, Resolves, Grounded
<1>9. OneWriter
  <2>1. \A p \in Writers : ~ Busy(p) /\ Current(call[p])
    BY <1>3, Nothings DEF Busy, Current
  <2>2. QED
    BY <1>2, <1>3, <2>1, Nothings DEF OneWriter
<1>10. QED
  BY <1>4, <1>5, <1>7, <1>8, <1>9 DEF IInv

LEMMA NextInvariant == IInv /\ [Next]_vars => IInv'
<1>1. SUFFICES ASSUME IInv, [Next]_vars PROVE IInv'
  OBVIOUS
<1>2. CASE Kill
  BY <1>1, <1>2, KillStep
<1>3. ASSUME NEW p \in Callers, Begin(p) PROVE IInv'
  BY <1>1, <1>3, BeginCreateStep, BeginAppendStep, BeginCompactStep, BeginReadStep DEF Begin
<1>4. ASSUME NEW p \in Callers, Step(p) PROVE IInv'
  BY <1>1, <1>4, ReadMetaStep, TruncateMetaStep, WriteMetaStep, CreateFileStep,
     AppendLineStep, SummaryLineStep, ReadLinesStep, WriteFailsStep DEF Step
<1>5. CASE UNCHANGED vars
  <2>1. UNCHANGED << lines, present, open, sidecar, call, next, acked, deltas, confirmed, mishaps >>
    BY <1>5 DEF vars, files, hist
  <2>2. TypeOK' <=> TypeOK
    BY <2>1 DEF TypeOK
  <2>3. Shapes' <=> Shapes
    BY <2>1 DEF Shapes, Shape, Held
  <2>4. Sound' <=> Sound
    BY <2>1 DEF Sound, AllWhole, AckedIds, Held, Ids
  <2>5. CreatedOnce' <=> CreatedOnce
    BY <2>1 DEF CreatedOnce, AckedIds, AllWhole, Held, Resolves, Grounded, Has, Busy
  <2>6. OneWriter' <=> OneWriter
    BY <2>1 DEF OneWriter, Solo, Busy, Held, Current, SummaryLast
  <2>7. QED
    BY <1>1, <2>2, <2>3, <2>4, <2>5, <2>6 DEF IInv
<1>6. QED
  BY <1>1, <1>2, <1>3, <1>4, <1>5 DEF Next

LEMMA Invariance == Spec => []IInv
BY InitInvariant, NextInvariant, PTL DEF Spec

\* The files, the calls and the histories keep their types.
\* About the file accesses of the session service (internal/chat/service.go).
THEOREM TypeCorrect == Spec => []TypeOK
<1>1. IInv => TypeOK
  BY DEF IInv
<1>2. QED
  BY <1>1, Invariance, PTL

LEMMA StoredNow == IInv => AckedIsStored
<1>1. SUFFICES ASSUME IInv PROVE AckedIsStored
  OBVIOUS
<1>2. ASSUME "disk-full" \notin mishaps, NEW i \in 1 .. Len(acked)
      PROVE  \E j \in 1 .. Len(lines) : lines[j].id = acked[i] /\ lines[j].whole
  <2>1. AllWhole /\ AckedIds \subseteq Ids(lines)
    BY <1>1, <1>2 DEF IInv, Sound
  <2>2. acked[i] \in Ids(lines)
    BY <2>1 DEF AckedIds
  <2>3. QED
    BY <2>1, <2>2 DEF Ids, AllWhole
<1>3. ASSUME mishaps \subseteq {"overlap", "twin-create"}, Quiet, acked # << >>
      PROVE  sidecar.stage = "whole" /\ Readable
  <2>1. "disk-full" \notin mishaps /\ "killed" \notin mishaps
    BY <1>3
  <2>2. present /\ AllWhole /\ sidecar.stage # "missing"
    BY <1>1, <1>3, <2>1 DEF IInv, Sound
  <2>3. ASSUME NEW p \in Callers, call[p].at = "write" PROVE FALSE
    BY <1>1, <1>3, <2>3, ByKind DEF Quiet
  <2>4. sidecar.stage # "empty"
    BY <1>1, <2>1, <2>3 DEF IInv, Sound
  <2>5. QED
    BY <1>1, <2>2, <2>4, States DEF Readable, AllWhole
<1>4. ASSUME mishaps \cap {"overlap", "twin-create"} = {}
      PROVE  /\ sidecar.held.marker.summary >= confirmed.summary
             /\ deltas \subseteq sidecar.held.state
  <2>1. confirmed.summary <= Held.marker.summary /\ deltas \subseteq Held.state
    BY <1>1, <1>4 DEF IInv, OneWriter, Solo
  <2>2. confirmed.summary \in Nat /\ Held.marker.summary \in Nat
    BY <1>1, States DEF Marker
  <2>3. QED
    BY <2>1, <2>2 DEF Held
<1>5. QED
  BY <1>2, <1>3, <1>4 DEF AckedIsStored

\* Every acknowledged event is a line of the transcript, a session with one can be
\* read between calls, and unless writers overlapped the metadata holds what was
\* acknowledged: for any number of goroutines, and all mishaps together.
\* About AppendEvent, Compact, writeMeta and appendLine.
THEOREM AcknowledgedStays == Spec => []AckedIsStored
BY StoredNow, Invariance, PTL

LEMMA SeenNow == IInv => ReadersSeeAcked
<1>1. SUFFICES ASSUME IInv, "twin-create" \notin mishaps, NEW p \in Readers, Succeeds(p)
      PROVE  LET read == call[p].meta.marker
                 covered == { lines[i].id : i \in { j \in 1 .. Len(lines) :
                                \E k \in j .. Len(lines) : lines[k].id = read.coveredThrough } }
             IN  /\ call[p].due \subseteq Ids(ApplyCompaction(lines, read)) \cup covered
                 /\ read.summary # NoId => Applies(lines, read)
  BY DEF ReadersSeeAcked
<1>2. PICK read : read = call[p].meta.marker
  OBVIOUS
<1>3. PICK covered : covered = { lines[i].id : i \in { j \in 1 .. Len(lines) :
                       \E k \in j .. Len(lines) : lines[k].id = read.coveredThrough } }
  OBVIOUS
<1>4. AllWhole /\ p \in Callers
  BY <1>1, Callings DEF Succeeds, Readable, AllWhole
<1>5. /\ call[p].due \subseteq AckedIds /\ AckedIds \subseteq Ids(lines)
      /\ Resolves(read)
  BY <1>1, <1>2, <1>4 DEF IInv, CreatedOnce, Sound
<1>6. read.summary # NoId => Applies(lines, read)
  BY <1>5 DEF Resolves, Applies
<1>7. ASSUME NEW id \in Ids(lines) PROVE id \in Ids(ApplyCompaction(lines, read)) \cup covered
  <2>1. PICK i \in 1 .. Len(lines) : lines[i].id = id
    BY <1>7 DEF Ids
  <2>2. PICK shown : shown = ApplyCompaction(lines, read)
    OBVIOUS
  <2>3. \/ Shows(shown, lines[i])
        \/ \E k \in i .. Len(lines) : lines[k].id = read.coveredThrough
    BY <1>1, <2>2, OnlyCoveredHidden, States
  <2>4. ASSUME Shows(shown, lines[i]) PROVE id \in Ids(shown)
    BY <2>1, <2>4 DEF Shows, Ids
  <2>5. ASSUME \E k \in i .. Len(lines) : lines[k].id = read.coveredThrough PROVE id \in covered
    BY <1>3, <2>1, <2>5
  <2>6. QED
    BY <2>2, <2>3, <2>4, <2>5
<1>8. call[p].due \subseteq Ids(ApplyCompaction(lines, read)) \cup covered
  BY <1>5, <1>7
<1>9. QED
  BY <1>2, <1>3, <1>6, <1>8, Zenon

\* A reader that succeeds misses nothing acknowledged before it began but what its
\* summary stands for, whatever writers do between its two file accesses.
\* About Get and SessionView (internal/chat/service.go) and applyCompaction.
THEOREM ReadersMissNothing == Spec => []ReadersSeeAcked
BY SeenNow, Invariance, PTL

-----------------------------------------------------------------------------
(***************************************************************************)
(* The ledger that writers which do not overlap keep.                      *)
(***************************************************************************)
LEMMA RecordsLine ==
  ASSUME IInv, NEW p \in Callers, call[p].at = "line", lines' = Extended(call[p]),
         open' = FALSE, sidecar' = sidecar, "disk-full" \notin mishaps
  PROVE  Ledger!Next
<1>1. PICK l \in Line : l = [id |-> call[p].id, kind |-> KindOf(call[p]), whole |-> TRUE]
  BY AtLine
<1>2. AllWhole
  BY DEF IInv, Sound
<1>3. lines' = Append(lines, l)
  BY <1>1, <1>2, Extends
<1>4. Len(lines') = Len(lines) + 1 /\ SubSeq(lines', 1, Len(lines)) = lines
  BY <1>1, <1>3, Extension, Prefix, States
<1>5. QED
  BY <1>4 DEF Ledger!Next, Ledger!Record

LEMMA MarksOn ==
  ASSUME IInv, NEW p \in Callers, WriteMeta(p), Solo, "disk-full" \notin mishaps
  PROVE  [Ledger!Next]_<< lines, sidecar.held.marker >>
<1>1. PICK old : old = call[p]
  OBVIOUS
<1>2. /\ old.at = "write" /\ sidecar'.held = Written(old) /\ lines' = lines
  BY <1>1 DEF WriteMeta
<1>3. /\ p \in Writers /\ Busy(p) /\ old \in Call /\ old.meta \in Meta
      /\ old.op = "create" \/ old.op = "compact" \/ old.op = "append"
  BY <1>1, <1>2, Calls, ByKind DEF Busy
<1>4. Current(old)
  BY <1>1, <1>3, AtWork
<1>5. CASE old.op = "create"
  <2>1. Held = NoMeta /\ Written(old) = NoMeta
    BY <1>1, <1>3, <1>5 DEF IInv, CreatedOnce, Solo, Written
  <2>2. QED
    BY <1>2, <2>1 DEF Held
<1>6. CASE old.op = "append"
  <2>1. old.meta = Held /\ Written(old) = [old.meta EXCEPT !.state = @ \cup {old.id}]
    BY <1>2, <1>4, <1>6 DEF Current, Written
  <2>2. Written(old).marker = old.meta.marker
    BY <1>3, <2>1 DEF Meta
  <2>3. QED
    BY <1>2, <2>1, <2>2 DEF Held
<1>7. CASE old.op = "compact"
  <2>1. PICK mark : mark = [summary |-> old.id, coveredThrough |-> old.covers]
    OBVIOUS
  <2>2. Written(old) = [old.meta EXCEPT !.marker = mark]
    BY <1>7, <2>1 DEF Written
  <2>3. sidecar'.held.marker = mark
    BY <1>2, <1>3, <2>2 DEF Meta
  <2>4. SummaryLast(old)
    BY <1>2, <1>4, <1>7 DEF Current
  <2>5. PICK n : n = Len(lines)
    OBVIOUS
  <2>6. /\ n > 0 /\ n \in Nat /\ lines[n].id = old.id /\ lines[n].kind = "summary"
        /\ \E i \in 1 .. n - 1 : lines[i].id = old.covers
        /\ Held.marker.summary = NoId \/ \E i \in 1 .. n - 1 : lines[i].id = Held.marker.summary
    BY <2>4, <2>5, States DEF SummaryLast
  <2>7. PICK i \in 1 .. n - 1 : lines[i].id = old.covers
    BY <2>6
  <2>8. n \in 1 .. Len(lines) /\ i \in 1 .. Len(lines) /\ i < n
    BY <2>5, <2>6, <2>7
  <2>9. sidecar'.held.marker = [summary |-> lines[n].id, coveredThrough |-> lines[i].id]
    BY <2>1, <2>3, <2>6, <2>7
  <2>10. Ledger!Mark
    BY <1>2, <2>6, <2>8, <2>9 DEF Ledger!Mark, Ledger!NoId, NoId, Held
  <2>11. QED
    BY <2>10 DEF Ledger!Next
<1>8. QED
  BY <1>3, <1>5, <1>6, <1>7

LEMMA LedgerStep ==
  ASSUME IInv, [Next]_vars, mishaps' \subseteq {"killed"}
  PROVE  [Ledger!Next]_<< lines, sidecar.held.marker >>
<1>1. CASE UNCHANGED vars \/ Kill \/ \E p \in Callers : Begin(p) \/ ReadMeta(p) \/ ReadLines(p)
  BY <1>1 DEF vars, files, hist, Kill, Begin, BeginCreate, BeginAppend, BeginCompact, BeginRead,
              ReadMeta, ReadLines
<1>2. ASSUME NEW p \in Callers, Step(p), ~ ReadMeta(p), ~ ReadLines(p)
      PROVE  [Ledger!Next]_<< lines, sidecar.held.marker >>
  <2>1. "disk-full" \notin mishaps' /\ "overlap" \notin mishaps' /\ "twin-create" \notin mishaps'
    OBVIOUS
  <2>2. CASE TruncateMeta(p)
    <3>1. sidecar'.held = sidecar.held
      BY <2>2 DEF TruncateMeta, IInv, TypeOK
    <3>2. QED
      BY <2>2, <3>1 DEF TruncateMeta
  <2>3. CASE WriteMeta(p)
    BY <2>1, <2>3, MarksOn DEF WriteMeta, Solo
  <2>4. CASE CreateFile(p)
    <3>1. mishaps' = mishaps /\ sidecar' = sidecar /\ lines' = << >> /\ call[p].op = "create"
      BY <2>4 DEF CreateFile, Reached
    <3>2. ~ present
      BY <2>1, <3>1, ByKind DEF IInv, CreatedOnce
    <3>3. lines = << >>
      BY <3>2 DEF IInv, Sound
    <3>4. QED
      BY <3>1, <3>3
  <2>5. CASE AppendLine(p)
    BY <2>1, <2>5, RecordsLine DEF AppendLine, Reached
  <2>6. CASE SummaryLine(p)
    BY <2>1, <2>6, RecordsLine DEF SummaryLine, Reached, hist
  <2>7. ~ WriteFails(p)
    BY <2>1 DEF WriteFails, Noted
  <2>8. QED
    BY <1>2, <2>2, <2>3, <2>4, <2>5, <2>6, <2>7 DEF Step
<1>3. QED
  BY <1>1, <1>2 DEF Next, Step

\* As long as writers do not overlap and the disk has space, and however often the
\* process is killed, each step appends one line, moves the marker from one summary
\* to a later one, or leaves both as they were: the file accesses implement the ledger.
\* About AppendEvent, Compact and Create.
THEOREM FilesAreLedger == Spec => FilesKeepLedger
<1>1. IInv /\ [Next]_vars =>
        [mishaps' \subseteq {"killed"} => [Ledger!Next]_<< lines, sidecar.held.marker >>]_vars
  BY LedgerStep
<1>2. QED
  BY <1>1, Invariance, PTL DEF Spec, FilesKeepLedger
=============================================================================
