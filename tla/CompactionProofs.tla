-------------------------- MODULE CompactionProofs --------------------------
(***************************************************************************)
(* Type correctness, the safety invariants that hold whatever goes wrong,  *)
(* and the refinement of Compaction, for every number of events, history   *)
(* limit, set of tools and set of mishaps.                                 *)
(*                                                                         *)
(* The invariants are not inductive: that a marker resolves depends on the *)
(* goroutine that will write it knowing two events of the log, which in    *)
(* turn depends on everything the TUI holds having come from the log.      *)
(***************************************************************************)
EXTENDS Compaction, OperatorProofs

\* An identifier is a position of the log.
LogNumbered == \A i \in 1 .. Len(log) : log[i].id = i

\* Whatever is under way, shown or under compression was read from the log.
FromLog ==
  /\ Within(inflight, log)
  /\ Within(display, log)
  /\ Within(job.covered, log)
  /\ Within(job.tail, log)

\* A written marker names two positions of the log.
MarkerNames ==
  marker.summary # NoId =>
    /\ marker.summary \in 1 .. Len(log)
    /\ marker.coveredThrough \in 1 .. Len(log)

\* The goroutine has something to summarise, and before it writes the marker
\* it has written the summary.
JobNames ==
  /\ job.stage # "none" => Len(job.covered) >= 1
  /\ job.stage \in {"mark", "ready"} => job.summary \in 1 .. Len(log)

\* Between its two writes the goroutine knows a summary that is later than the
\* one the marker names and than everything it covers.
MarkReady ==
  job.stage = "mark" =>
    /\ log[job.summary].kind = "summary"
    /\ job.summary > marker.summary
    /\ job.covered[Len(job.covered)].id < job.summary

Coherent ==
  /\ LogNumbered
  /\ FromLog
  /\ MarkerNames
  /\ JobNames
  /\ MarkReady
  /\ SnapshotIsCurrent

IInv == TypeOK /\ Coherent
-----------------------------------------------------------------------------
\* Appending an event leaves the earlier ones where they are.
LEMMA AppendKeeps ==
  ASSUME NEW S, NEW s \in Seq(S), NEW e \in S
  PROVE  /\ Append(s, e) \in Seq(S)
         /\ Len(Append(s, e)) = Len(s) + 1
         /\ \A i \in 1 .. Len(s) : Append(s, e)[i] = s[i]
         /\ Append(s, e)[Len(s) + 1] = e
         /\ \A t : Within(t, s) => Within(t, Append(s, e))
<1>1. /\ Append(s, e) \in Seq(S)
      /\ Len(Append(s, e)) = Len(s) + 1
      /\ \A i \in 1 .. Len(s) : Append(s, e)[i] = s[i]
      /\ Append(s, e)[Len(s) + 1] = e
  BY AppendProperties
<1>2. Len(s) \in Nat
  BY LenProperties
<1>3. ASSUME NEW t, Within(t, s)
      PROVE  Within(t, Append(s, e))
  <2>1. ASSUME NEW i \in 1 .. Len(t)
        PROVE  \E j \in 1 .. Len(Append(s, e)) : t[i] = Append(s, e)[j]
    <3>1. PICK j \in 1 .. Len(s) : t[i] = s[j]
      BY <1>3 DEF Within
    <3>2. j \in 1 .. Len(Append(s, e)) /\ t[i] = Append(s, e)[j]
      BY <1>1, <1>2, <3>1
    <3>. QED  BY <3>2
  <2>. QED  BY <2>1 DEF Within
<1>. QED  BY <1>1, <1>3

\* The empty sequence, and an element of t appended, stay within t.
LEMMA EmptyWithin ==
  ASSUME NEW S, NEW t
  PROVE  << >> \in Seq(S) /\ Within(<< >>, t)
BY DEF Within

LEMMA AppendWithin ==
  ASSUME NEW S, NEW s \in Seq(S), NEW e \in S, NEW t, Within(s, t),
         NEW j \in 1 .. Len(t), e = t[j]
  PROVE  Append(s, e) \in Seq(S) /\ Within(Append(s, e), t)
<1>1. /\ Append(s, e) \in Seq(S)
      /\ Len(s) \in Nat
      /\ Len(Append(s, e)) = Len(s) + 1
      /\ \A i \in 1 .. Len(s) : Append(s, e)[i] = s[i]
      /\ Append(s, e)[Len(s) + 1] = e
  BY AppendProperties, LenProperties
<1>2. ASSUME NEW i \in 1 .. Len(Append(s, e))
      PROVE  \E l \in 1 .. Len(t) : Append(s, e)[i] = t[l]
  <2>1. CASE i \in 1 .. Len(s)
    BY <1>1, <2>1 DEF Within
  <2>2. CASE i = Len(s) + 1
    BY <1>1, <2>2
  <2>. QED  BY <1>1, <2>1, <2>2
<1>. QED  BY <1>1, <1>2 DEF Within

\* Handing an event over keeps both sequences drawn from the log.
LEMMA MoveHead ==
  ASSUME NEW S, NEW from \in Seq(S), NEW to \in Seq(S), NEW all,
         from # << >>, Within(from, all), Within(to, all)
  PROVE  /\ Tail(from) \in Seq(S) /\ Within(Tail(from), all)
         /\ Append(to, Head(from)) \in Seq(S)
         /\ Within(Append(to, Head(from)), all)
<1>1. /\ Len(from) \in Nat /\ Len(from) >= 1
      /\ Head(from) = from[1] /\ Head(from) \in S
      /\ Tail(from) \in Seq(S) /\ Len(Tail(from)) = Len(from) - 1
      /\ \A i \in 1 .. Len(Tail(from)) : Tail(from)[i] = from[i + 1]
  BY LenProperties, EmptySeq, HeadTailProperties
<1>2. Within(Tail(from), all)
  <2>1. ASSUME NEW i \in 1 .. Len(Tail(from))
        PROVE  \E j \in 1 .. Len(all) : Tail(from)[i] = all[j]
    <3>1. i + 1 \in 1 .. Len(from)
      BY <1>1
    <3>. QED  BY <1>1, <3>1 DEF Within
  <2>. QED  BY <2>1 DEF Within
<1>3. PICK j \in 1 .. Len(all) : Head(from) = all[j]
  <2>1. 1 \in 1 .. Len(from)
    BY <1>1
  <2>. QED  BY <1>1, <2>1 DEF Within
<1>4. /\ Append(to, Head(from)) \in Seq(S)
      /\ Within(Append(to, Head(from)), all)
  BY <1>1, <1>3, AppendWithin
<1>. QED  BY <1>1, <1>2, <1>4

\* Cutting a sequence in two and putting the parts together again.
LEMMA CutAndJoin ==
  ASSUME NEW S, NEW s \in Seq(S), NEW k \in 1 .. Len(s)
  PROVE  /\ SubSeq(s, 1, k) \in Seq(S)
         /\ SubSeq(s, k + 1, Len(s)) \in Seq(S)
         /\ Within(SubSeq(s, 1, k), s)
         /\ Within(SubSeq(s, k + 1, Len(s)), s)
         /\ Len(SubSeq(s, 1, k)) = k
         /\ s = SubSeq(s, 1, k) \o SubSeq(s, k + 1, Len(s))
<1>0. Len(s) \in Nat
  BY LenProperties
<1> DEFINE a == SubSeq(s, 1, k)
           b == SubSeq(s, k + 1, Len(s))
<1>1. a \in Seq(S) /\ Within(a, s) /\ Len(a) = k
  <2>1. k \in 0 .. Len(s)
    BY <1>0
  <2>2. /\ a \in Seq(S) /\ Within(a, s)
        /\ Len(a) = IF 1 <= k THEN k - 1 + 1 ELSE 0
    BY <2>1, SubSeqWithin
  <2>. QED  BY <1>0, <2>2
<1>2. b \in Seq(S) /\ Within(b, s) /\ Len(b) = Len(s) - k
  <2>1. k + 1 \in Nat \ {0} /\ Len(s) \in 0 .. Len(s)
    BY <1>0
  <2>2. /\ b \in Seq(S) /\ Within(b, s)
        /\ Len(b) = IF k + 1 <= Len(s) THEN Len(s) - (k + 1) + 1 ELSE 0
    BY <2>1, SubSeqWithin
  <2>. QED  BY <1>0, <2>2
<1>3. s = a \o b
  BY <1>0, ConcatAdjacentSubSeq, SubSeqFull
<1>. QED  BY <1>1, <1>2, <1>3 DEF a, b
-----------------------------------------------------------------------------
\* The state with nothing in it.
LEMMA InitIInv == Init => IInv
<1>. SUFFICES ASSUME Init PROVE IInv
  OBVIOUS
<1>1. << >> \in Seq(Event) /\ Len(<< >>) = 0
  OBVIOUS
<1>2. NoJob \in Job
  BY <1>1 DEF NoJob, Job, JobStages, NoId
<1>3. NoMarker \in Marker
  BY DEF Marker, NoMarker, NoId
<1>4. TypeOK
  <2>1. /\ log \in Seq(Event) /\ inflight \in Seq(Event) /\ display \in Seq(Event)
        /\ job \in Job /\ marker \in Marker
    BY <1>1, <1>2, <1>3 DEF Init
  <2>2. /\ asked \in BOOLEAN /\ esc \in BOOLEAN /\ failed \in BOOLEAN
        /\ phase \in {"idle", "streaming", "confirming", "compressing"}
        /\ run \in RunStages /\ leftover \in RunStages
        /\ mishaps \subseteq Trouble
    BY DEF Init, RunStages
  <2>3. noAutoAfter \in Nat /\ gap \in 0 .. 2 /\ minGap \in 0 .. 2
    BY DEF Init
  <2>. QED  BY <2>1, <2>2, <2>3 DEF TypeOK
<1>5. LogNumbered /\ FromLog
  BY <1>1 DEF Init, LogNumbered, FromLog, NoJob, Within
<1>6. MarkerNames /\ JobNames /\ MarkReady /\ SnapshotIsCurrent
  BY DEF Init, MarkerNames, JobNames, MarkReady, SnapshotIsCurrent, NoMarker, NoJob
<1>. QED  BY <1>4, <1>5, <1>6 DEF IInv, Coherent

\* An event joins the log, and everything said of the log still holds.
LEMMA LogGrows ==
  ASSUME IInv, NEW kind \in Kinds, NEW covers \in SUBSET Nat,
         log' = Append(log, NewEvent(kind, covers))
  PROVE  /\ NewEvent(kind, covers) \in Event
         /\ log' \in Seq(Event)
         /\ Len(log') = Len(log) + 1
         /\ log'[Len(log) + 1] = NewEvent(kind, covers)
         /\ \A i \in 1 .. Len(log) : log'[i] = log[i]
         /\ LogNumbered'
         /\ \A t : Within(t, log) => Within(t, log')
<1>1. log \in Seq(Event) /\ Len(log) \in Nat
  BY LenProperties DEF IInv, TypeOK
<1>2. NewEvent(kind, covers) \in Event /\ NewEvent(kind, covers).id = Len(log) + 1
  BY <1>1 DEF NewEvent, Event
<1>3. /\ log' \in Seq(Event)
      /\ Len(log') = Len(log) + 1
      /\ \A i \in 1 .. Len(log) : log'[i] = log[i]
      /\ log'[Len(log) + 1] = NewEvent(kind, covers)
      /\ \A t : Within(t, log) => Within(t, log')
  BY <1>1, <1>2, AppendKeeps
<1>4. LogNumbered'
  <2>1. ASSUME NEW i \in 1 .. Len(log')
        PROVE  log'[i].id = i
    <3>1. CASE i \in 1 .. Len(log)
      BY <1>3, <3>1 DEF IInv, Coherent, LogNumbered
    <3>2. CASE i = Len(log) + 1
      BY <1>2, <1>3, <3>2
    <3>. QED  BY <1>1, <1>3, <3>1, <3>2
  <2>. QED  BY <2>1 DEF LogNumbered
<1>. QED  BY <1>2, <1>3, <1>4

\* startCompression hands over two stretches of the display that make it up.
LEMMA JobStarts ==
  ASSUME IInv, NEW auto \in BOOLEAN, NEW pending \in BOOLEAN,
         StartCompression(auto, pending)
  PROVE  /\ job' \in Job
         /\ job'.stage = "summarize"
         /\ Within(job'.covered, log)
         /\ Within(job'.tail, log)
         /\ Len(job'.covered) >= 1
         /\ display = job'.covered \o job'.tail
         /\ phase' = "compressing"
         /\ esc' = FALSE
<1>1. PICK k \in 1 .. Len(display) :
        /\ phase' = "compressing"
        /\ esc' = FALSE
        /\ job' = [stage |-> "summarize", auto |-> auto, pending |-> pending,
                   covered |-> SubSeq(display, 1, k),
                   tail |-> SubSeq(display, k + 1, Len(display)),
                   summary |-> NoId]
  BY DEF StartCompression
<1> DEFINE c == SubSeq(display, 1, k)
           t == SubSeq(display, k + 1, Len(display))
<1>2. display \in Seq(Event) /\ Within(display, log) /\ Len(display) \in Nat
  BY LenProperties DEF IInv, Coherent, TypeOK, FromLog
<1>3. /\ c \in Seq(Event) /\ t \in Seq(Event)
      /\ Within(c, display) /\ Within(t, display)
      /\ Len(c) = k
      /\ display = c \o t
  BY <1>2, CutAndJoin
<1>4. Within(c, log) /\ Within(t, log)
  BY <1>2, <1>3, WithinTransitive
<1>. HIDE DEF c, t
<1>5. job' = [stage |-> "summarize", auto |-> auto, pending |-> pending,
              covered |-> c, tail |-> t, summary |-> NoId]
  BY <1>1 DEF c, t
<1>6. job' \in Job
  BY <1>3, <1>5 DEF Job, JobStages, NoId
<1>7. Len(c) >= 1
  BY <1>2, <1>3
<1>8. job'.stage = "summarize" /\ job'.covered = c /\ job'.tail = t
  BY <1>5
<1>9. phase' = "compressing" /\ esc' = FALSE
  BY <1>1
<1>. QED  BY <1>3, <1>4, <1>6, <1>7, <1>8, <1>9

\* Reading the session yields events of its log.
LEMMA ViewFromLog ==
  ASSUME IInv
  PROVE  ModelView \in Seq(Event) /\ Within(ModelView, log)
BY ViewElements, BoundsAssumption DEF IInv, TypeOK, ModelView

\* A marker whose two identifiers are positions of the log resolves.
LEMMA NamedApplies ==
  ASSUME LogNumbered, MarkerNames, marker.summary # NoId
  PROVE  /\ Applies(log, marker)
         /\ log[At(log, marker.summary)] = log[marker.summary]
<1>1. /\ marker.summary \in 1 .. Len(log)
      /\ marker.coveredThrough \in 1 .. Len(log)
  BY DEF MarkerNames
<1>2. Has(log, marker.summary) /\ Has(log, marker.coveredThrough)
  BY <1>1 DEF Has, LogNumbered
<1>3. At(log, marker.summary) = marker.summary
  BY <1>2, AtFinds DEF LogNumbered
<1>. QED  BY <1>2, <1>3 DEF Applies
-----------------------------------------------------------------------------
\* A turn starts: whatever the state, nothing is under way yet.
LEMMA TurnStarts ==
  ASSUME NEW content \in RunStages, StartStream(content)
  PROVE  /\ phase' = "streaming" /\ run' \in RunStages
         /\ inflight' \in Seq(Event) /\ Within(inflight', log')
         /\ asked' \in BOOLEAN /\ esc' \in BOOLEAN /\ failed' \in BOOLEAN
<1>1. inflight' = << >> /\ phase' = "streaming" /\ run' = content
  BY DEF StartStream
<1>2. asked' \in BOOLEAN /\ esc' \in BOOLEAN /\ failed' \in BOOLEAN
  BY DEF StartStream
<1>. QED  BY <1>1, <1>2, EmptyWithin

\* The goroutine moves to another stage with what it was started with.
LEMMA JobMoves ==
  ASSUME IInv, NEW stage \in JobStages, Goto(stage)
  PROVE  /\ job' \in Job
         /\ job'.stage = stage
         /\ job'.covered = job.covered
         /\ job'.tail = job.tail
         /\ job'.summary = job.summary
BY DEF IInv, TypeOK, Goto, Job

\* The goroutine is done.
LEMMA JobStops ==
  ASSUME job' = NoJob
  PROVE  /\ job' \in Job /\ job'.stage = "none"
         /\ Within(job'.covered, log') /\ Within(job'.tail, log')
<1>1. NoJob \in Job
  BY DEF NoJob, Job, JobStages, NoId
<1>. QED  BY <1>1 DEF NoJob, Within

\* The first half of Compact leaves a job that knows where the summary is.
LEMMA JobAppends ==
  ASSUME IInv, job' = [job EXCEPT !.stage = "mark", !.summary = Len(log) + 1]
  PROVE  /\ job' \in Job
         /\ job'.stage = "mark"
         /\ job'.covered = job.covered
         /\ job'.tail = job.tail
         /\ job'.summary = Len(log) + 1
<1>1. job \in Job /\ Len(log) + 1 \in Nat
  BY LenProperties DEF IInv, TypeOK
<1>. QED  BY <1>1 DEF Job, JobStages

\* What a summary stands for is a set of identifiers.
LEMMA DigestType ==
  ASSUME IInv
  PROVE  Digest(job.covered) \in SUBSET Nat
<1>1. \A i \in 1 .. Len(job.covered) : job.covered[i] \in Event
  BY ElementOfSeq DEF IInv, TypeOK, Job
<1>. QED  BY <1>1 DEF Digest, StandsFor, Event

\* The last event the goroutine covers is an event of the log.
LEMMA LastCovered ==
  ASSUME IInv, job.stage # "none"
  PROVE  job.covered[Len(job.covered)].id \in 1 .. Len(log)
<1>1. job.covered \in Seq(Event) /\ log \in Seq(Event)
  BY DEF IInv, TypeOK, Job
<1>2. Len(job.covered) \in 1 .. Len(job.covered)
  BY <1>1, LenProperties DEF IInv, Coherent, JobNames
<1>3. PICK j \in 1 .. Len(log) : job.covered[Len(job.covered)] = log[j]
  BY <1>2 DEF IInv, Coherent, FromLog, Within
<1>. QED  BY <1>1, <1>3 DEF IInv, Coherent, LogNumbered

\* Every action of the model keeps the invariant.
LEMMA NextIInv == IInv /\ [Next]_vars => IInv'
<1>. SUFFICES ASSUME IInv, [Next]_vars PROVE IInv'
  OBVIOUS
<1>. USE DEF IInv, Coherent
<1>1. CASE SendPrompt
  <2>1. CASE StartStream("prompt") /\ job' = job
    <3>1. TypeOK'
      BY <1>1, <2>1, TurnStarts DEF SendPrompt, TypeOK, disk, hist, RunStages
    <3>2. Coherent'
      BY <1>1, <2>1, TurnStarts
         DEF SendPrompt, LogNumbered, FromLog, MarkerNames, JobNames,
             MarkReady, SnapshotIsCurrent, disk, RunStages
    <3>. QED  BY <3>1, <3>2
  <2>2. CASE /\ StartCompression(TRUE, TRUE)
             /\ UNCHANGED << run, inflight, asked, failed >>
    <3>1. TypeOK'
      BY <1>1, <2>2, JobStarts DEF SendPrompt, TypeOK, disk, hist
    <3>2. Coherent'
      BY <1>1, <2>2, JobStarts
         DEF SendPrompt, LogNumbered, FromLog, MarkerNames, JobNames,
             MarkReady, SnapshotIsCurrent, disk
    <3>. QED  BY <3>1, <3>2
  <2>. QED  BY <1>1, <2>1, <2>2 DEF SendPrompt
<1>2. CASE CompressCommand
  <2>1. TypeOK'
    BY <1>2, JobStarts DEF CompressCommand, TypeOK, disk, turn, hist
  <2>2. Coherent'
    BY <1>2, JobStarts
       DEF CompressCommand, LogNumbered, FromLog, MarkerNames, JobNames,
           MarkReady, SnapshotIsCurrent, disk, turn
  <2>. QED  BY <2>1, <2>2
<1>3. CASE AnswerConfirmation
  <2>1. TypeOK'
    BY <1>3, TurnStarts DEF AnswerConfirmation, TypeOK, disk, hist, RunStages
  <2>2. Coherent'
    BY <1>3, TurnStarts
       DEF AnswerConfirmation, LogNumbered, FromLog, MarkerNames, JobNames,
           MarkReady, SnapshotIsCurrent, disk, RunStages
  <2>. QED  BY <2>1, <2>2
<1>4. CASE CancelTurn
  <2>1. TypeOK'
    BY <1>4 DEF CancelTurn, Noted, TypeOK, disk, turn
  <2>2. Coherent'
    BY <1>4 DEF CancelTurn, LogNumbered, FromLog, MarkerNames, JobNames,
                MarkReady, SnapshotIsCurrent, disk, turn
  <2>. QED  BY <2>1, <2>2
<1>5. CASE CancelCompression
  <2>1. TypeOK'
    BY <1>5 DEF CancelCompression, Noted, TypeOK, disk, turn
  <2>2. Coherent'
    BY <1>5 DEF CancelCompression, LogNumbered, FromLog, MarkerNames, JobNames,
                MarkReady, SnapshotIsCurrent, disk, turn
  <2>. QED  BY <2>1, <2>2
<1>6. CASE RunAppends
  <2>1. PICK kind \in Kinds, next \in RunStages :
          /\ phase = "streaming"
          /\ AppendedBy(run, kind, next)
          /\ run' = next
          /\ inflight' = Append(inflight, NewEvent(kind, {}))
          /\ UNCHANGED << phase, leftover, display, asked, esc, failed,
                          noAutoAfter, job >>
    BY <1>6 DEF RunAppends
  <2>2. log' = Append(log, NewEvent(kind, {}))
    BY <2>1 DEF AppendedBy
  <2>3. /\ NewEvent(kind, {}) \in Event
        /\ log' \in Seq(Event)
        /\ Len(log') = Len(log) + 1
        /\ \A i \in 1 .. Len(log) : log'[i] = log[i]
        /\ log'[Len(log) + 1] = NewEvent(kind, {})
        /\ LogNumbered'
        /\ \A t : Within(t, log) => Within(t, log')
    BY <2>2, LogGrows
  <2>4. inflight' \in Seq(Event) /\ Within(inflight', log')
    <3>1. inflight \in Seq(Event) /\ Within(inflight, log')
      BY <2>3 DEF TypeOK, FromLog
    <3>2. Len(log) + 1 \in 1 .. Len(log')
      BY <2>3, LenProperties DEF TypeOK
    <3>. QED  BY <2>1, <2>3, <3>1, <3>2, AppendWithin
  <2>5. TypeOK'
    BY <2>1, <2>3, <2>4 DEF AppendedBy, TypeOK
  <2>6. FromLog'
    BY <2>1, <2>3, <2>4 DEF FromLog
  <2>7. Len(log) \in Nat
    BY LenProperties DEF TypeOK
  <2>8. (MarkerNames /\ JobNames /\ MarkReady)'
    BY <2>1, <2>3, <2>7 DEF AppendedBy, MarkerNames, JobNames, MarkReady
  <2>9. SnapshotIsCurrent'
    BY <2>1 DEF SnapshotIsCurrent
  <2>. QED  BY <2>3, <2>5, <2>6, <2>8, <2>9
<1>7. CASE RunFails
  <2>1. TypeOK'
    BY <1>7 DEF RunFails, TypeOK, disk, hist, RunStages
  <2>2. Coherent'
    BY <1>7 DEF RunFails, LogNumbered, FromLog, MarkerNames, JobNames,
                MarkReady, SnapshotIsCurrent, disk
  <2>. QED  BY <2>1, <2>2
<1>8. CASE HandleEvent
  <2>1. /\ display' \in Seq(Event) /\ Within(display', log)
        /\ inflight' \in Seq(Event) /\ Within(inflight', log)
    BY <1>8, MoveHead DEF HandleEvent, TypeOK, FromLog
  <2>2. TypeOK'
    BY <1>8, <2>1 DEF HandleEvent, TypeOK, disk, hist
  <2>3. Coherent'
    BY <1>8, <2>1
       DEF HandleEvent, LogNumbered, FromLog, MarkerNames, JobNames,
           MarkReady, SnapshotIsCurrent, disk
  <2>. QED  BY <2>2, <2>3
<1>9. CASE FinishTurn
  <2>1. CASE /\ phase' = IF asked THEN "confirming" ELSE "idle"
             /\ UNCHANGED << esc, job >>
    <3>1. TypeOK'
      BY <1>9, <2>1 DEF FinishTurn, TypeOK, disk, hist, RunStages
    <3>2. Coherent'
      BY <1>9, <2>1
         DEF FinishTurn, LogNumbered, FromLog, MarkerNames, JobNames,
             MarkReady, SnapshotIsCurrent, disk
    <3>. QED  BY <3>1, <3>2
  <2>2. ASSUME NEW queued \in BOOLEAN, StartCompression(TRUE, queued)
        PROVE  IInv'
    <3>1. TypeOK'
      BY <1>9, <2>2, JobStarts DEF FinishTurn, TypeOK, disk, hist, RunStages
    <3>2. Coherent'
      BY <1>9, <2>2, JobStarts
         DEF FinishTurn, LogNumbered, FromLog, MarkerNames, JobNames,
             MarkReady, SnapshotIsCurrent, disk
    <3>. QED  BY <3>1, <3>2
  <2>. QED  BY <1>9, <2>1, <2>2 DEF FinishTurn
<1>10. CASE CancelledTurnEnds
  <2>1. inflight' \in Seq(Event) /\ Within(inflight', log)
    BY <1>10 DEF CancelledTurnEnds, Within
  <2>2. TypeOK'
    BY <1>10, <2>1 DEF CancelledTurnEnds, TypeOK, disk, hist, RunStages
  <2>3. Coherent'
    BY <1>10, <2>1
       DEF CancelledTurnEnds, LogNumbered, FromLog, MarkerNames, JobNames,
           MarkReady, SnapshotIsCurrent, disk
  <2>. QED  BY <2>2, <2>3
<1>11. CASE LeftoverAppends
  <2>1. PICK kind \in Kinds, next \in RunStages :
          /\ AppendedBy(leftover, kind, next)
          /\ leftover' = next
          /\ UNCHANGED << phase, run, inflight, display, asked, esc, failed,
                          noAutoAfter, job >>
    BY <1>11 DEF LeftoverAppends
  <2>2. log' = Append(log, NewEvent(kind, {}))
    BY <2>1 DEF AppendedBy
  <2>3. /\ log' \in Seq(Event)
        /\ Len(log') = Len(log) + 1
        /\ \A i \in 1 .. Len(log) : log'[i] = log[i]
        /\ LogNumbered'
        /\ \A t : Within(t, log) => Within(t, log')
    BY <2>2, LogGrows
  <2>4. TypeOK'
    BY <2>1, <2>3 DEF AppendedBy, TypeOK
  <2>5. FromLog'
    BY <2>1, <2>3 DEF FromLog
  <2>6. Len(log) \in Nat
    BY LenProperties DEF TypeOK
  <2>7. (MarkerNames /\ JobNames /\ MarkReady)'
    BY <2>1, <2>3, <2>6 DEF AppendedBy, MarkerNames, JobNames, MarkReady
  <2>8. SnapshotIsCurrent'
    BY <2>1 DEF SnapshotIsCurrent
  <2>. QED  BY <2>3, <2>4, <2>5, <2>7, <2>8
<1>12. CASE LeftoverReturns
  <2>1. TypeOK'
    BY <1>12 DEF LeftoverReturns, TypeOK, disk, hist, RunStages
  <2>2. Coherent'
    BY <1>12 DEF LeftoverReturns, LogNumbered, FromLog, MarkerNames, JobNames,
                 MarkReady, SnapshotIsCurrent, disk
  <2>. QED  BY <2>1, <2>2
<1>13. CASE Summarize
  <2>1. PICK stage \in {"append", "failed", "aborted"} : Goto(stage)
    BY <1>13 DEF Summarize
  <2>2. /\ job' \in Job /\ job'.stage \in {"append", "failed", "aborted"}
        /\ job'.covered = job.covered /\ job'.tail = job.tail
    BY <2>1, JobMoves DEF JobStages
  <2>3. TypeOK'
    BY <1>13, <2>2 DEF Summarize, OnlyJobMoves, TypeOK, disk, turn
  <2>4. Coherent'
    BY <1>13, <2>2
       DEF Summarize, OnlyJobMoves, LogNumbered, FromLog, MarkerNames, JobNames,
           MarkReady, SnapshotIsCurrent, disk, turn
  <2>. QED  BY <2>3, <2>4
<1>14. CASE AppendSummary
  <2>1. Digest(job.covered) \in SUBSET Nat
    BY DigestType
  <2>2. /\ log' \in Seq(Event)
        /\ Len(log') = Len(log) + 1
        /\ log'[Len(log) + 1] = NewEvent("summary", Digest(job.covered))
        /\ LogNumbered'
        /\ \A t : Within(t, log) => Within(t, log')
    BY <1>14, <2>1, LogGrows DEF AppendSummary, Kinds
  <2>3. /\ job' \in Job /\ job'.stage = "mark"
        /\ job'.covered = job.covered /\ job'.tail = job.tail
        /\ job'.summary = Len(log) + 1
    BY <1>14, JobAppends DEF AppendSummary
  <2>4. TypeOK'
    BY <1>14, <2>2, <2>3 DEF AppendSummary, OnlyJobMoves, TypeOK, turn
  <2>5. FromLog'
    BY <1>14, <2>2, <2>3 DEF AppendSummary, OnlyJobMoves, FromLog, turn
  <2>6. Len(log) \in Nat
    BY LenProperties DEF TypeOK
  <2>7. (MarkerNames /\ JobNames)'
    BY <1>14, <2>2, <2>3, <2>6 DEF AppendSummary, MarkerNames, JobNames
  <2>8. SnapshotIsCurrent'
    BY <1>14, <2>3 DEF AppendSummary, OnlyJobMoves, SnapshotIsCurrent
  <2>9. MarkReady'
    <3>1. job.covered[Len(job.covered)].id \in 1 .. Len(log)
      BY <1>14, LastCovered DEF AppendSummary
    <3>2. marker' = marker /\ marker.summary \in Nat /\ marker.summary <= Len(log)
      BY <1>14, <2>6 DEF AppendSummary, TypeOK, Marker, MarkerNames, NoId
    <3>3. log'[Len(log) + 1].kind = "summary"
      BY <2>2 DEF NewEvent
    <3>. HIDE DEF IInv, Coherent
    <3>. QED  BY <2>3, <2>6, <3>1, <3>2, <3>3 DEF MarkReady
  <2>. QED  BY <2>2, <2>4, <2>5, <2>7, <2>8, <2>9
<1>15. CASE WriteMarker
  <2>1. /\ job' \in Job /\ job'.stage = "ready"
        /\ job'.covered = job.covered /\ job'.tail = job.tail
        /\ job'.summary = job.summary
    BY <1>15, JobMoves DEF WriteMarker, JobStages
  <2>2. /\ job.summary \in 1 .. Len(log)
        /\ job.covered[Len(job.covered)].id \in 1 .. Len(log)
    BY <1>15, LastCovered DEF WriteMarker, JobNames
  <2>3. marker' \in Marker /\ MarkerNames'
    BY <1>15, <2>2, LenProperties DEF WriteMarker, Marker, MarkerNames, TypeOK
  <2>4. TypeOK'
    BY <1>15, <2>1, <2>3 DEF WriteMarker, TypeOK, turn
  <2>5. (LogNumbered /\ FromLog /\ JobNames /\ MarkReady /\ SnapshotIsCurrent)'
    BY <1>15, <2>1 DEF WriteMarker, LogNumbered, FromLog, JobNames, MarkReady,
                       SnapshotIsCurrent, turn
  <2>. QED  BY <2>3, <2>4, <2>5
<1>16. CASE CompactFails
  <2>1. /\ job' \in Job /\ job'.stage = "failed"
        /\ job'.covered = job.covered /\ job'.tail = job.tail
    BY <1>16, JobMoves DEF CompactFails, JobStages
  <2>2. TypeOK'
    BY <1>16, <2>1 DEF CompactFails, OnlyJobMoves, Noted, TypeOK, disk, turn
  <2>3. Coherent'
    BY <1>16, <2>1
       DEF CompactFails, OnlyJobMoves, LogNumbered, FromLog, MarkerNames,
           JobNames, MarkReady, SnapshotIsCurrent, disk, turn
  <2>. QED  BY <2>2, <2>3
<1>17. CASE HandleSummary
  <2>1. /\ job' \in Job /\ job'.stage = "none"
        /\ Within(job'.covered, log') /\ Within(job'.tail, log')
    BY <1>17, JobStops DEF HandleSummary
  <2>2. display' \in Seq(Event) /\ Within(display', log)
    <3>1. /\ job.summary \in 1 .. Len(log)
          /\ log \in Seq(Event) /\ job.tail \in Seq(Event)
          /\ Within(job.tail, log)
      BY <1>17 DEF HandleSummary, JobNames, TypeOK, Job, FromLog
    <3>2. << log[job.summary] >> \in Seq(Event) /\ Within(<< log[job.summary] >>, log)
      BY <3>1, SingletonWithin
    <3>. QED  BY <1>17, <3>1, <3>2, ConcatWithin DEF HandleSummary
  <2>3. noAutoAfter' \in Nat
    <3>1. job.tail \in Seq(Event) /\ noAutoAfter \in Nat
      BY DEF TypeOK, Job
    <3>. QED  BY <1>17, <3>1, LenProperties DEF HandleSummary
  <2>4. /\ phase' \in {"streaming", "idle"} /\ run' \in RunStages
        /\ inflight' \in Seq(Event) /\ Within(inflight', log')
        /\ asked' \in BOOLEAN /\ esc' \in BOOLEAN /\ failed' \in BOOLEAN
    <3>1. CASE job.pending
      BY <1>17, <3>1, TurnStarts DEF HandleSummary, RunStages
    <3>2. CASE ~ job.pending
      BY <1>17, <3>2 DEF HandleSummary, TypeOK, FromLog, disk
    <3>. QED  BY <3>1, <3>2
  <2>5. TypeOK'
    BY <1>17, <2>1, <2>2, <2>3, <2>4 DEF HandleSummary, TypeOK, disk, hist
  <2>6. Coherent'
    BY <1>17, <2>1, <2>2, <2>4
       DEF HandleSummary, LogNumbered, FromLog, MarkerNames, JobNames,
           MarkReady, SnapshotIsCurrent, disk
  <2>. QED  BY <2>5, <2>6
<1>18. CASE HandleNoSummary
  <2>1. /\ job' \in Job /\ job'.stage = "none"
        /\ Within(job'.covered, log') /\ Within(job'.tail, log')
    BY <1>18, JobStops DEF HandleNoSummary
  <2>2. TypeOK'
    BY <1>18, <2>1 DEF HandleNoSummary, TypeOK, disk, turn, hist
  <2>3. Coherent'
    BY <1>18, <2>1
       DEF HandleNoSummary, LogNumbered, FromLog, MarkerNames, JobNames,
           MarkReady, SnapshotIsCurrent, disk, turn
  <2>. QED  BY <2>2, <2>3
<1>19. CASE Resume
  <2>1. ModelView \in Seq(Event) /\ Within(ModelView, log)
    BY ViewFromLog
  <2>2. TypeOK'
    BY <1>19, <2>1 DEF Resume, TypeOK, disk, turn, hist
  <2>3. Coherent'
    BY <1>19, <2>1
       DEF Resume, LogNumbered, FromLog, MarkerNames, JobNames,
           MarkReady, SnapshotIsCurrent, disk, turn
  <2>. QED  BY <2>2, <2>3
<1>20. CASE Restart
  <2>1. ModelView \in Seq(Event) /\ Within(ModelView, log)
    BY ViewFromLog
  <2>2. /\ job' \in Job /\ job'.stage = "none"
        /\ Within(job'.covered, log') /\ Within(job'.tail, log')
    BY <1>20, JobStops DEF Restart
  <2>3. inflight' \in Seq(Event) /\ Within(inflight', log)
    BY <1>20 DEF Restart, Within
  <2>4. TypeOK'
    BY <1>20, <2>1, <2>2, <2>3 DEF Restart, Noted, TypeOK, disk, RunStages
  <2>5. Coherent'
    BY <1>20, <2>1, <2>2, <2>3
       DEF Restart, LogNumbered, FromLog, MarkerNames, JobNames,
           MarkReady, SnapshotIsCurrent, disk
  <2>. QED  BY <2>4, <2>5
<1>21. CASE UNCHANGED vars
  <2>1. TypeOK'
    BY <1>21 DEF vars, disk, turn, hist, TypeOK
  <2>2. Coherent'
    BY <1>21 DEF vars, disk, turn, hist, LogNumbered, FromLog, MarkerNames,
                 JobNames, MarkReady, SnapshotIsCurrent
  <2>. QED  BY <2>1, <2>2
<1>. QED
  BY <1>1, <1>2, <1>3, <1>4, <1>5, <1>6, <1>7, <1>8, <1>9, <1>10, <1>11, <1>12,
     <1>13, <1>14, <1>15, <1>16, <1>17, <1>18, <1>19, <1>20, <1>21
     DEF Next, TurnStep, JobStep, HandleResult
-----------------------------------------------------------------------------
\* The state always has the types and the coherence stated by the invariant.
LEMMA Invariant == Spec => []IInv
<1>1. Init => IInv
  BY InitIInv
<1>2. IInv /\ [Next]_vars => IInv'
  BY NextIInv
<1>. QED  BY <1>1, <1>2, PTL DEF Spec

\* Every variable keeps its type, whatever the bounds, tools and mishaps.
THEOREM TypeCorrect == Spec => []TypeOK
<1>1. IInv => TypeOK
  BY DEF IInv
<1>. QED  BY <1>1, Invariant, PTL

\* A written marker names two events of the log: applyCompaction never has to
\* fall back to the raw history, for any number of compressions, cancelled
\* runs, failed writes and restarts.
THEOREM MarkerAlwaysResolves == Spec => []MarkerResolves
<1>1. IInv => MarkerResolves
  BY NamedApplies DEF IInv, Coherent, MarkerResolves
<1>. QED  BY <1>1, Invariant, PTL

\* Once there is a summary, what the model is shown begins with the latest one
\* and is no longer than the history limit, for every limit.
THEOREM SummaryAlwaysSticks == Spec => []SummarySticks
<1>1. ASSUME IInv PROVE SummarySticks
  <2>1. log \in Seq(Event) /\ HistoryLimit \in Int
    BY <1>1, BoundsAssumption DEF IInv, TypeOK
  <2>2. /\ ModelView \in Seq(Event)
        /\ HistoryLimit > 0 => Len(ModelView) <= HistoryLimit
        /\ Applies(log, marker) =>
             /\ Len(ModelView) >= 1
             /\ ModelView[1] = log[At(log, marker.summary)]
    BY <2>1, ViewElements DEF ModelView
  <2>3. marker.summary # NoId => Head(ModelView) = log[marker.summary]
    BY <1>1, <2>2, NamedApplies DEF IInv, Coherent
  <2>. QED  BY <2>2, <2>3 DEF SummarySticks
<1>. QED  BY <1>1, Invariant, PTL

\* What the goroutine was given is what the screen shows until its result is
\* handled, so replacing the display by the summary and the tail loses nothing
\* that was shown meanwhile.
THEOREM SnapshotStaysCurrent == Spec => []SnapshotIsCurrent
<1>1. IInv => SnapshotIsCurrent
  BY DEF IInv, Coherent
<1>. QED  BY <1>1, Invariant, PTL

\* Seen from outside, a session under compression is a ledger: each step of the
\* model records an event, marks a later summary, or leaves both alone.
THEOREM LedgerIsKept == Spec => KeepsLedger
<1>1. Init => Ledger!Init
  BY DEF Init, Ledger!Init, NoMarker, Ledger!NoMarker, NoId, Ledger!NoId
<1>2. ASSUME IInv, [Next]_vars
      PROVE  [Ledger!Next]_<< log, marker >>
  <2>0. log \in Seq(Event) /\ Len(log) \in Nat /\ marker \in Marker
    BY <1>2, LenProperties DEF IInv, TypeOK
  <2>1. ASSUME NEW e \in Event, log' = Append(log, e), marker' = marker
        PROVE  Ledger!Next
    BY <2>0, <2>1, AppendKeeps, Prefix DEF Ledger!Next, Ledger!Record
  <2>2. CASE UNCHANGED << log, marker >>
    BY <2>2
  <2>3. ASSUME NEW kind \in Kinds, NEW next \in RunStages, NEW stage,
               AppendedBy(stage, kind, next)
        PROVE  Ledger!Next
    <3>1. log' = Append(log, NewEvent(kind, {})) /\ marker' = marker
      BY <2>3 DEF AppendedBy
    <3>2. NewEvent(kind, {}) \in Event
      BY <1>2, <3>1, LogGrows
    <3>. QED  BY <2>1, <3>1, <3>2
  <2>4. CASE AppendSummary
    <3>1. NewEvent("summary", Digest(job.covered)) \in Event
      BY <1>2, DigestType, <2>4, LogGrows DEF AppendSummary, Kinds
    <3>. QED  BY <2>1, <2>4, <3>1 DEF AppendSummary
  <2>5. CASE WriteMarker
    <3> DEFINE s == job.summary
               c == job.covered[Len(job.covered)].id
    <3>1. s \in 1 .. Len(log) /\ c \in 1 .. Len(log)
      BY <1>2, <2>5, LastCovered DEF WriteMarker, IInv, Coherent, JobNames
    <3>2. log[s].kind = "summary" /\ s > marker.summary /\ c < s
      BY <1>2, <2>5 DEF WriteMarker, IInv, Coherent, MarkReady
    <3>3. log[s].id = s /\ log[c].id = c
      BY <1>2, <3>1 DEF IInv, Coherent, LogNumbered
    <3>4. marker' = [summary |-> s, coveredThrough |-> c] /\ log' = log
      BY <2>5 DEF WriteMarker
    <3>5. marker.summary = NoId \/ \E o \in 1 .. s - 1 : log[o].id = marker.summary
      <4>1. ASSUME marker.summary # NoId
            PROVE  /\ marker.summary \in 1 .. s - 1
                   /\ log[marker.summary].id = marker.summary
        <5>1. marker.summary \in 1 .. Len(log)
          BY <1>2, <4>1 DEF IInv, Coherent, MarkerNames
        <5>. QED  BY <1>2, <2>0, <3>1, <3>2, <5>1 DEF IInv, Coherent, LogNumbered
      <4>. QED  BY <4>1
    <3>. HIDE DEF s, c
    <3>. QED  BY <3>1, <3>2, <3>3, <3>4, <3>5
              DEF Ledger!Next, Ledger!Mark, Ledger!NoId, NoId
  <2>. QED
    BY <1>2, <2>2, <2>3, <2>4, <2>5
       DEF Next, TurnStep, JobStep, HandleResult, vars, disk, SendPrompt,
           CompressCommand, AnswerConfirmation, CancelTurn, CancelCompression,
           RunAppends, RunFails, HandleEvent, FinishTurn, CancelledTurnEnds,
           LeftoverAppends, LeftoverReturns, Summarize, CompactFails,
           HandleSummary, HandleNoSummary, Resume, Restart
<1>. QED  BY <1>1, <1>2, Invariant, PTL DEF Spec, KeepsLedger, Ledger!Spec
-----------------------------------------------------------------------------
(***************************************************************************)
(* Nothing is shown twice.                                                 *)
(***************************************************************************)
Apart(s, t) == \A i \in 1 .. Len(s), j \in 1 .. Len(t) : s[i].id # t[j].id

\* Where the elements of a stretch come from.
LEMMA Stretch ==
  ASSUME NEW S, NEW s \in Seq(S), NEW m \in Nat \ {0}, NEW n \in 0 .. Len(s)
  PROVE  /\ SubSeq(s, m, n) \in Seq(S) /\ Len(SubSeq(s, m, n)) \in Nat
         /\ \A i \in 1 .. Len(SubSeq(s, m, n)) :
              /\ m + i - 1 \in m .. n /\ m + i - 1 \in 1 .. Len(s)
              /\ SubSeq(s, m, n)[i] = s[m + i - 1]
<1>1. \A i \in m .. n : s[i] \in S
  BY ElementOfSeq
<1>2. /\ SubSeq(s, m, n) \in Seq(S)
      /\ Len(SubSeq(s, m, n)) = IF m <= n THEN n - m + 1 ELSE 0
      /\ \A i \in 1 .. n - m + 1 : SubSeq(s, m, n)[i] = s[m + i - 1]
  BY <1>1, SubSeqProperties
<1>3. Len(s) \in Nat
  BY LenProperties
<1>4. QED
  BY <1>2, <1>3

LEMMA StretchDistinct ==
  ASSUME NEW S, NEW s \in Seq(S), NEW m \in Nat \ {0}, NEW n \in 0 .. Len(s), Distinct(s)
  PROVE  Distinct(SubSeq(s, m, n))
<1>1. PICK t : t = SubSeq(s, m, n)
  OBVIOUS
<1>2. /\ Len(t) \in Nat
      /\ \A i \in 1 .. Len(t) : m + i - 1 \in 1 .. Len(s) /\ t[i] = s[m + i - 1]
  BY <1>1, Stretch
<1>3. ASSUME NEW i \in 1 .. Len(t), NEW j \in 1 .. Len(t), t[i].id = t[j].id PROVE i = j
  <2>1. m + i - 1 = m + j - 1
    BY <1>2, <1>3 DEF Distinct
  <2>2. QED
    BY <1>2, <2>1
<1>4. QED
  BY <1>1, <1>3 DEF Distinct

\* Two stretches, one after the other.
LEMMA StretchesApart ==
  ASSUME NEW S, NEW s \in Seq(S), Distinct(s),
         NEW a \in Nat \ {0}, NEW b \in 0 .. Len(s),
         NEW c \in Nat \ {0}, NEW d \in 0 .. Len(s), b < c
  PROVE  Apart(SubSeq(s, a, b), SubSeq(s, c, d))
<1>1. PICK t : t = SubSeq(s, a, b)
  OBVIOUS
<1>2. PICK u : u = SubSeq(s, c, d)
  OBVIOUS
<1>3. /\ \A i \in 1 .. Len(t) : a + i - 1 \in a .. b /\ a + i - 1 \in 1 .. Len(s) /\ t[i] = s[a + i - 1]
      /\ \A i \in 1 .. Len(u) : c + i - 1 \in c .. d /\ c + i - 1 \in 1 .. Len(s) /\ u[i] = s[c + i - 1]
  BY <1>1, <1>2, Stretch
<1>4. ASSUME NEW i \in 1 .. Len(t), NEW j \in 1 .. Len(u), t[i].id = u[j].id PROVE FALSE
  <2>1. PICK k \in 1 .. Len(s) : k = a + i - 1 /\ k \in a .. b /\ t[i] = s[k]
    BY <1>3
  <2>2. PICK l \in 1 .. Len(s) : l = c + j - 1 /\ l \in c .. d /\ u[j] = s[l]
    BY <1>3
  <2>3. k = l
    BY <1>4, <2>1, <2>2 DEF Distinct
  <2>4. QED
    BY <2>1, <2>2, <2>3
<1>5. QED
  BY <1>1, <1>2, <1>4 DEF Apart

\* One event and a stretch that leaves it out.
LEMMA HeadApart ==
  ASSUME NEW S, NEW s \in Seq(S), Distinct(s), NEW k \in 1 .. Len(s),
         NEW m \in Nat \ {0}, NEW n \in 0 .. Len(s), k \notin m .. n
  PROVE  Apart(<< s[k] >>, SubSeq(s, m, n))
<1>1. PICK u : u = SubSeq(s, m, n)
  OBVIOUS
<1>2. \A i \in 1 .. Len(u) : m + i - 1 \in m .. n /\ m + i - 1 \in 1 .. Len(s) /\ u[i] = s[m + i - 1]
  BY <1>1, Stretch
<1>3. ASSUME NEW j \in 1 .. Len(u), s[k].id = u[j].id PROVE FALSE
  <2>1. k = m + j - 1
    BY <1>2, <1>3 DEF Distinct
  <2>2. QED
    BY <1>2, <2>1
<1>4. Apart(<< s[k] >>, u)
  BY <1>3 DEF Apart
<1>5. QED
  BY <1>1, <1>4

LEMMA ConcatDistinct ==
  ASSUME NEW S, NEW s \in Seq(S), NEW t \in Seq(S), Distinct(s), Distinct(t), Apart(s, t)
  PROVE  /\ s \o t \in Seq(S) /\ Distinct(s \o t)
         /\ \A r : Apart(r, s) /\ Apart(r, t) => Apart(r, s \o t)
<1>1. /\ s \o t \in Seq(S) /\ Len(s \o t) = Len(s) + Len(t) /\ Len(s) \in Nat /\ Len(t) \in Nat
      /\ \A i \in 1 .. Len(s) + Len(t) : (s \o t)[i] = IF i <= Len(s) THEN s[i] ELSE t[i - Len(s)]
  BY ConcatProperties, LenProperties
<1>2. PICK u : u = s \o t
  OBVIOUS
<1>3. /\ u \in Seq(S) /\ Len(u) = Len(s) + Len(t)
      /\ \A i \in 1 .. Len(u) : u[i] = IF i <= Len(s) THEN s[i] ELSE t[i - Len(s)]
  BY <1>1, <1>2, Zenon
<1>4. \A i \in 1 .. Len(u) :
         \/ i \in 1 .. Len(s) /\ u[i] = s[i]
         \/ i - Len(s) \in 1 .. Len(t) /\ u[i] = t[i - Len(s)] /\ i > Len(s)
  BY <1>1, <1>3
<1>5. ASSUME NEW i \in 1 .. Len(u), NEW j \in 1 .. Len(u), u[i].id = u[j].id PROVE i = j
  <2>1. ASSUME i \in 1 .. Len(s), u[i] = s[i], j \in 1 .. Len(s), u[j] = s[j] PROVE i = j
    BY <1>5, <2>1 DEF Distinct
  <2>2. ASSUME i - Len(s) \in 1 .. Len(t), u[i] = t[i - Len(s)],
               j - Len(s) \in 1 .. Len(t), u[j] = t[j - Len(s)]
        PROVE  i = j
    <3>1. i - Len(s) = j - Len(s)
      BY <1>5, <2>2 DEF Distinct
    <3>2. QED
      BY <1>1, <1>3, <3>1
  <2>3. ASSUME NEW k \in 1 .. Len(s), NEW l \in 1 .. Len(t), s[k].id = t[l].id PROVE FALSE
    BY <2>3 DEF Apart
  <2>4. QED
    BY <1>4, <1>5, <2>1, <2>2, <2>3
<1>6. ASSUME NEW r, Apart(r, s), Apart(r, t) PROVE Apart(r, u)
  BY <1>4, <1>6 DEF Apart
<1>7. Distinct(u)
  BY <1>5 DEF Distinct
<1>8. QED
  BY <1>2, <1>3, <1>6, <1>7

LEMMA OneDistinct ==
  ASSUME NEW S, NEW s \in Seq(S), NEW k \in 1 .. Len(s)
  PROVE  << s[k] >> \in Seq(S) /\ Distinct(<< s[k] >>)
BY SingletonWithin DEF Distinct

\* What follows the covered prefix, and the summary before it.
LEMMA AfterDistinct ==
  ASSUME NEW S, NEW s \in Seq(S), Distinct(s),
         NEW covered \in 1 .. Len(s), NEW summary \in 1 .. Len(s)
  PROVE  /\ After(s, covered, summary) \in Seq(S) /\ Distinct(After(s, covered, summary))
         /\ Apart(<< s[summary] >>, After(s, covered, summary))
<1>1. Len(s) \in Nat /\ Len(s) \in 0 .. Len(s)
  BY LenProperties
<1>2. CASE summary > covered
  <2>1. /\ covered + 1 \in Nat \ {0} /\ summary - 1 \in 0 .. Len(s) /\ summary + 1 \in Nat \ {0}
        /\ summary - 1 < summary + 1
        /\ summary \notin covered + 1 .. summary - 1 /\ summary \notin summary + 1 .. Len(s)
    BY <1>1
  <2>2. PICK a \in Seq(S) : a = SubSeq(s, covered + 1, summary - 1)
    BY <2>1, Stretch
  <2>3. PICK b \in Seq(S) : b = SubSeq(s, summary + 1, Len(s))
    BY <1>1, <2>1, Stretch
  <2>4. Distinct(a) /\ Distinct(b)
    BY <1>1, <2>1, <2>2, <2>3, StretchDistinct
  <2>5. Apart(a, b)
    BY <1>1, <2>1, <2>2, <2>3, StretchesApart
  <2>6. Apart(<< s[summary] >>, a) /\ Apart(<< s[summary] >>, b)
    BY <1>1, <2>1, <2>2, <2>3, HeadApart
  <2>7. After(s, covered, summary) = a \o b
    BY <1>2, <2>2, <2>3, Zenon DEF After
  <2>8. a \o b \in Seq(S) /\ Distinct(a \o b) /\ Apart(<< s[summary] >>, a \o b)
    BY <2>4, <2>5, <2>6, ConcatDistinct
  <2>9. QED
    BY <2>7, <2>8
<1>3. CASE ~ (summary > covered)
  <2>1. covered + 1 \in Nat \ {0} /\ summary \notin covered + 1 .. Len(s)
    BY <1>1, <1>3
  <2>2. After(s, covered, summary) = SubSeq(s, covered + 1, Len(s))
    BY <1>3 DEF After
  <2>3. QED
    BY <1>1, <2>1, <2>2, Stretch, StretchDistinct, HeadApart
<1>4. QED
  BY <1>2, <1>3

LEMMA CompactedDistinct ==
  ASSUME NEW S, NEW s \in Seq(S), NEW m, Distinct(s)
  PROVE  ApplyCompaction(s, m) \in Seq(S) /\ Distinct(ApplyCompaction(s, m))
<1>1. CASE ~ Applies(s, m)
  BY <1>1 DEF ApplyCompaction
<1>2. CASE Applies(s, m)
  <2>1. PICK sm \in 1 .. Len(s) : sm = At(s, m.summary)
    BY <1>2, AtFinds DEF Applies
  <2>2. PICK cv \in 1 .. Len(s) : cv = At(s, m.coveredThrough)
    BY <1>2, AtFinds DEF Applies
  <2>3. ApplyCompaction(s, m) = << s[sm] >> \o After(s, cv, sm)
    BY <1>2, <2>1, <2>2 DEF ApplyCompaction
  <2>4. PICK h \in Seq(S) : h = << s[sm] >>
    BY OneDistinct
  <2>5. PICK a \in Seq(S) : a = After(s, cv, sm)
    BY AfterDistinct
  <2>6. Distinct(h) /\ Distinct(a) /\ Apart(h, a)
    BY <2>4, <2>5, OneDistinct, AfterDistinct
  <2>7. h \o a \in Seq(S) /\ Distinct(h \o a)
    BY <2>6, ConcatDistinct
  <2>8. ApplyCompaction(s, m) = h \o a
    BY <2>3, <2>4, <2>5, Zenon
  <2>9. QED
    BY <2>7, <2>8
<1>3. QED
  BY <1>1, <1>2

LEMMA CappedDistinct ==
  ASSUME NEW S, NEW s \in Seq(S), NEW limit \in Int, NEW protect \in BOOLEAN, Distinct(s)
  PROVE  Distinct(Cap(s, limit, protect))
<1>1. PICK n \in Nat : n = Len(s)
  BY LenProperties
<1>2. CASE ~ (limit > 0 /\ n > limit)
  BY <1>1, <1>2 DEF Cap
<1>3. CASE limit > 0 /\ n > limit /\ protect
  <2>1. /\ 1 \in 1 .. Len(s) /\ n - limit + 2 \in Nat \ {0} /\ n \in 0 .. Len(s)
        /\ 1 \notin n - limit + 2 .. n
    BY <1>1, <1>3
  <2>2. PICK h \in Seq(S) : h = << s[1] >>
    BY <2>1, OneDistinct
  <2>3. PICK a \in Seq(S) : a = SubSeq(s, n - limit + 2, n)
    BY <2>1, Stretch
  <2>4. Distinct(h) /\ Distinct(a) /\ Apart(h, a)
    BY <2>1, <2>2, <2>3, OneDistinct, StretchDistinct, HeadApart
  <2>5. Distinct(h \o a)
    BY <2>4, ConcatDistinct
  <2>6. Cap(s, limit, protect) = << s[1] >> \o SubSeq(s, n - limit + 2, n)
    BY <1>1, <1>3 DEF Cap
  <2>7. Cap(s, limit, protect) = h \o a
    BY <2>2, <2>3, <2>6, Zenon
  <2>8. QED
    BY <2>5, <2>7
<1>4. CASE limit > 0 /\ n > limit /\ ~ protect
  <2>1. n - limit + 1 \in Nat \ {0} /\ n \in 0 .. Len(s)
    BY <1>1, <1>4
  <2>2. Cap(s, limit, protect) = SubSeq(s, n - limit + 1, n)
    BY <1>1, <1>4 DEF Cap
  <2>3. QED
    BY <2>1, <2>2, StretchDistinct
<1>5. QED
  BY <1>2, <1>3, <1>4

LEMMA ViewDistinct ==
  ASSUME IInv
  PROVE  Distinct(log) /\ Distinct(ModelView)
<1>1. log \in Seq(Event) /\ HistoryLimit \in Int
  BY BoundsAssumption DEF IInv, TypeOK
<1>2. Distinct(log)
  BY DEF IInv, Coherent, LogNumbered, Distinct
<1>3. PICK a \in Seq(Event) : a = ApplyCompaction(log, marker) /\ Distinct(a)
  BY <1>1, <1>2, CompactedDistinct
<1>4. Applies(log, marker) \in BOOLEAN
  BY DEF Applies, Has
<1>5. Distinct(Cap(a, HistoryLimit, Applies(log, marker)))
  BY <1>1, <1>3, <1>4, CappedDistinct
<1>6. QED
  BY <1>2, <1>3, <1>5 DEF ModelView, ViewOf


\* The display, and what is on its way to it, have no event in common, and the
\* summary under way is not among the events it will be shown before.
Once ==
  /\ Distinct(display) /\ Distinct(inflight) /\ Apart(display, inflight)
  /\ Distinct(job.tail)
  /\ job.stage \in {"mark", "ready"} =>
       \A i \in 1 .. Len(job.tail) : job.tail[i].id # job.summary
  /\ phase # "streaming" => inflight = << >>
  /\ job.stage # "none" => phase = "compressing"

LEMMA NoneDistinct ==
  /\ Distinct(<< >>) /\ \A s : Apart(s, << >>) /\ Apart(<< >>, s)
BY DEF Distinct, Apart

\* Events drawn from the log are older than the next one.
LEMMA Older ==
  ASSUME IInv, NEW s, Within(s, log)
  PROVE  \A i \in 1 .. Len(s) : s[i].id \in Nat /\ s[i].id # Len(log) + 1
<1>1. Len(log) \in Nat
  BY LenProperties DEF IInv, TypeOK
<1>2. ASSUME NEW i \in 1 .. Len(s) PROVE s[i].id \in 1 .. Len(log)
  BY DEF Within, IInv, Coherent, LogNumbered
<1>3. QED
  BY <1>1, <1>2

\* An event joins the end of a sequence that does not have it.
LEMMA JoinDistinct ==
  ASSUME NEW S, NEW s \in Seq(S), NEW e \in S, Distinct(s), \A i \in 1 .. Len(s) : s[i].id # e.id
  PROVE  /\ Distinct(Append(s, e))
         /\ \A r : Apart(r, s) /\ (\A i \in 1 .. Len(r) : r[i].id # e.id) => Apart(r, Append(s, e))
<1>1. PICK t : t = Append(s, e)
  OBVIOUS
<1>2. /\ Len(t) = Len(s) + 1 /\ Len(s) \in Nat
      /\ \A i \in 1 .. Len(s) : t[i] = s[i]
      /\ t[Len(s) + 1] = e
  BY <1>1, AppendKeeps, LenProperties
<1>3. \A i \in 1 .. Len(t) : (i \in 1 .. Len(s) /\ t[i] = s[i]) \/ (i = Len(s) + 1 /\ t[i] = e)
  BY <1>2
<1>4. Distinct(t)
  BY <1>3 DEF Distinct
<1>5. ASSUME NEW r, Apart(r, s), \A i \in 1 .. Len(r) : r[i].id # e.id PROVE Apart(r, t)
  BY <1>3, <1>5 DEF Apart
<1>6. QED
  BY <1>1, <1>4, <1>5

\* The first event of one sequence moves to the end of another.
LEMMA HandOver ==
  ASSUME NEW S, NEW from \in Seq(S), NEW to \in Seq(S), from # << >>,
         Distinct(from), Distinct(to), Apart(to, from)
  PROVE  /\ Distinct(Append(to, Head(from))) /\ Distinct(Tail(from))
         /\ Apart(Append(to, Head(from)), Tail(from))
<1>1. /\ Len(from) \in Nat /\ Len(from) >= 1
      /\ Head(from) = from[1] /\ Head(from) \in S
      /\ Len(Tail(from)) = Len(from) - 1
      /\ \A i \in 1 .. Len(Tail(from)) : Tail(from)[i] = from[i + 1]
  BY LenProperties, EmptySeq, HeadTailProperties
<1>2. PICK rest : rest = Tail(from)
  OBVIOUS
<1>3. PICK e \in S : e = Head(from)
  BY <1>1
<1>4. /\ 1 \in 1 .. Len(from) /\ e = from[1]
      /\ \A i \in 1 .. Len(rest) : i + 1 \in 1 .. Len(from) /\ i + 1 # 1 /\ rest[i] = from[i + 1]
  BY <1>1, <1>2, <1>3
<1>5. Distinct(rest)
  <2>1. ASSUME NEW i \in 1 .. Len(rest), NEW j \in 1 .. Len(rest), rest[i].id = rest[j].id
        PROVE  i = j
    <3>1. i + 1 = j + 1
      BY <1>4, <2>1 DEF Distinct
    <3>2. QED
      BY <3>1
  <2>2. QED
    BY <2>1 DEF Distinct
<1>6. \A i \in 1 .. Len(to) : to[i].id # e.id
  BY <1>4 DEF Apart
<1>7. Distinct(Append(to, e))
  BY <1>6, JoinDistinct
<1>8. \A i \in 1 .. Len(rest) : rest[i].id # e.id
  BY <1>4 DEF Distinct
<1>9. Apart(Append(to, e), rest)
  <2>1. PICK t : t = Append(to, e)
    OBVIOUS
  <2>2. \A i \in 1 .. Len(t) : (i \in 1 .. Len(to) /\ t[i] = to[i]) \/ t[i] = e
    <3>1. /\ Len(t) = Len(to) + 1 /\ Len(to) \in Nat
          /\ \A i \in 1 .. Len(to) : t[i] = to[i]
          /\ t[Len(to) + 1] = e
      BY <2>1, AppendKeeps, LenProperties
    <3>2. QED
      BY <3>1
  <2>3. ASSUME NEW i \in 1 .. Len(to), NEW j \in 1 .. Len(rest), to[i].id = rest[j].id PROVE FALSE
    BY <1>4, <2>3 DEF Apart
  <2>4. Apart(t, rest)
    BY <1>8, <2>2, <2>3 DEF Apart
  <2>5. QED
    BY <2>1, <2>4
<1>10. QED
  BY <1>2, <1>3, <1>5, <1>7, <1>9

\* A compression starts: its tail is the end of the display.
LEMMA JobStartsOnce ==
  ASSUME IInv, Once, NEW auto, NEW pending, StartCompression(auto, pending)
  PROVE  Distinct(job'.tail) /\ job'.stage = "summarize" /\ phase' = "compressing"
<1>1. PICK k \in 1 .. Len(display) :
        /\ phase' = "compressing"
        /\ job' = [stage |-> "summarize", auto |-> auto, pending |-> pending,
                   covered |-> SubSeq(display, 1, k),
                   tail |-> SubSeq(display, k + 1, Len(display)),
                   summary |-> NoId]
  BY DEF StartCompression
<1>2. display \in Seq(Event) /\ Len(display) \in Nat
  BY LenProperties DEF IInv, TypeOK
<1>3. k + 1 \in Nat \ {0} /\ Len(display) \in 0 .. Len(display)
  BY <1>2
<1>4. Distinct(SubSeq(display, k + 1, Len(display)))
  BY <1>2, <1>3, StretchDistinct DEF Once
<1>5. QED
  BY <1>1, <1>4

LEMMA OnceInit == Init => Once
BY NoneDistinct DEF Init, Once, NoJob, Distinct, Apart

LEMMA OnceKept == IInv /\ Once /\ [Next]_vars => Once'
<1>0. SUFFICES ASSUME IInv, Once, [Next]_vars PROVE Once'
  OBVIOUS
<1>a. /\ display \in Seq(Event) /\ inflight \in Seq(Event) /\ job \in Job
      /\ job.tail \in Seq(Event) /\ log \in Seq(Event)
      /\ Within(display, log) /\ Within(inflight, log) /\ Within(job.tail, log)
  BY <1>0 DEF IInv, TypeOK, Coherent, FromLog, Job
<1>b. ASSUME NEW content, StartStream(content), phase \in {"idle", "confirming"},
             job' = job, display' = display
      PROVE  Once'
  BY <1>0, <1>b, NoneDistinct DEF Once, StartStream
<1>c. ASSUME NEW auto, NEW pending, StartCompression(auto, pending),
             inflight = << >>, inflight' = << >>, display' = display
      PROVE  Once'
  BY <1>0, <1>c, JobStartsOnce, NoneDistinct DEF Once
<1>1. CASE SendPrompt
  <2>1. CASE StartStream("prompt") /\ job' = job
    BY <1>1, <1>b, <2>1 DEF SendPrompt
  <2>2. CASE StartCompression(TRUE, TRUE) /\ UNCHANGED << run, inflight, asked, failed >>
    BY <1>0, <1>1, <1>c, <2>2 DEF SendPrompt, Once
  <2>3. QED
    BY <1>1, <2>1, <2>2 DEF SendPrompt
<1>2. CASE CompressCommand
  BY <1>0, <1>2, <1>c DEF CompressCommand, turn, Once
<1>3. CASE AnswerConfirmation
  BY <1>3, <1>b DEF AnswerConfirmation
<1>4. CASE RunAppends
  <2>1. PICK kind \in Kinds :
          /\ log' = Append(log, NewEvent(kind, {}))
          /\ inflight' = Append(inflight, NewEvent(kind, {}))
          /\ UNCHANGED << phase, display, job >> /\ phase = "streaming"
    BY <1>4 DEF RunAppends, AppendedBy
  <2>2. PICK e \in Event : e = NewEvent(kind, {}) /\ e.id = Len(log) + 1
    <3>1. NewEvent(kind, {}) \in Event
      BY <1>0, <2>1, LogGrows
    <3>2. QED
      BY <3>1 DEF NewEvent
  <2>3. /\ \A i \in 1 .. Len(inflight) : inflight[i].id # e.id
        /\ \A i \in 1 .. Len(display) : display[i].id # e.id
    BY <1>0, <1>a, <2>2, Older
  <2>4. Distinct(inflight') /\ Apart(display, inflight')
    BY <1>0, <1>a, <2>1, <2>2, <2>3, JoinDistinct DEF Once
  <2>5. QED
    BY <1>0, <2>1, <2>4 DEF Once
<1>5. CASE HandleEvent
  <2>1. Distinct(display') /\ Distinct(inflight') /\ Apart(display', inflight')
    BY <1>0, <1>5, <1>a, HandOver DEF HandleEvent, Once
  <2>2. QED
    BY <1>0, <1>5, <2>1 DEF HandleEvent, Once
<1>6. CASE FinishTurn
  <2>1. CASE phase' = (IF asked THEN "confirming" ELSE "idle") /\ UNCHANGED << esc, job >>
    BY <1>0, <1>6, <2>1, NoneDistinct DEF FinishTurn, Once
  <2>2. ASSUME NEW queued \in BOOLEAN, StartCompression(TRUE, queued) PROVE Once'
    BY <1>6, <1>c, <2>2 DEF FinishTurn
  <2>3. QED
    BY <1>6, <2>1, <2>2 DEF FinishTurn
<1>7. CASE CancelledTurnEnds
  BY <1>0, <1>7, NoneDistinct DEF CancelledTurnEnds, Once
<1>8. CASE CancelTurn \/ CancelCompression \/ RunFails \/ LeftoverReturns \/ LeftoverAppends
           \/ UNCHANGED vars
  BY <1>0, <1>8 DEF CancelTurn, CancelCompression, RunFails, LeftoverReturns, LeftoverAppends,
                    turn, vars, Once
<1>9. CASE Summarize \/ CompactFails \/ WriteMarker
  <2>1. PICK stage \in {"append", "failed", "aborted", "ready"} :
          Goto(stage) /\ (stage = "ready" => job.stage = "mark") /\ job.stage # "none"
    BY <1>9 DEF Summarize, CompactFails, WriteMarker
  <2>2. /\ job'.stage = stage /\ job'.tail = job.tail /\ job'.summary = job.summary
    BY <1>a, <2>1 DEF Goto, Job
  <2>3. UNCHANGED << phase, inflight, display >>
    BY <1>9 DEF Summarize, CompactFails, WriteMarker, OnlyJobMoves, turn
  <2>4. QED
    BY <1>0, <2>1, <2>2, <2>3 DEF Once
<1>10. CASE AppendSummary
  <2>1. /\ job'.stage = "mark" /\ job'.tail = job.tail /\ job'.summary = Len(log) + 1
        /\ job.stage # "none"
    BY <1>0, <1>10, <1>a DEF AppendSummary, Job
  <2>2. UNCHANGED << phase, inflight, display >>
    BY <1>10 DEF AppendSummary, OnlyJobMoves, turn
  <2>3. \A i \in 1 .. Len(job.tail) : job.tail[i].id # Len(log) + 1
    BY <1>0, <1>a, Older
  <2>4. QED
    BY <1>0, <2>1, <2>2, <2>3 DEF Once
<1>11. CASE HandleSummary
  <2>1. /\ job.stage = "ready" /\ display' = << log[job.summary] >> \o job.tail /\ job' = NoJob
        /\ inflight = << >> /\ phase = "compressing" /\ job.summary \in 1 .. Len(log)
    BY <1>0, <1>11 DEF HandleSummary, Once, IInv, Coherent, JobNames
  <2>2. PICK h \in Seq(Event) : h = << log[job.summary] >> /\ Distinct(h)
    BY <1>a, <2>1, OneDistinct
  <2>3. Apart(h, job.tail)
    BY <1>0, <2>1, <2>2 DEF Once, Apart, IInv, Coherent, LogNumbered
  <2>4. Distinct(h \o job.tail)
    BY <1>0, <1>a, <2>2, <2>3, ConcatDistinct DEF Once
  <2>5. display' = h \o job.tail
    BY <2>1, <2>2, Zenon
  <2>6. inflight' = << >> /\ phase' \in {"streaming", "idle"}
    BY <1>11, <2>1 DEF HandleSummary, StartStream
  <2>7. Distinct(display')
    BY <2>4, <2>5
  <2>8. job'.stage = "none" /\ job'.tail = << >>
    BY <2>1 DEF NoJob
  <2>9. QED
    BY <2>6, <2>7, <2>8, NoneDistinct DEF Once
<1>12. CASE HandleNoSummary \/ Resume \/ Restart
  <2>1. display' = display \/ display' = ModelView
    BY <1>12 DEF HandleNoSummary, Resume, Restart
  <2>2. Distinct(display')
    BY <1>0, <2>1, ViewDistinct DEF Once
  <2>3. CASE HandleNoSummary \/ Restart
    <3>1. job'.stage = "none" /\ job'.tail = << >> /\ phase' = "idle"
      BY <2>3 DEF HandleNoSummary, Restart, NoJob
    <3>2. inflight' = << >>
      BY <1>0, <2>3 DEF HandleNoSummary, Restart, Once, turn
    <3>3. QED
      BY <2>2, <3>1, <3>2, NoneDistinct DEF Once
  <2>4. CASE Resume
    <3>1. inflight' = << >> /\ phase' = phase /\ job' = job
      BY <1>0, <2>4 DEF Resume, Once, turn
    <3>2. QED
      BY <1>0, <2>2, <3>1, NoneDistinct DEF Once
  <2>5. QED
    BY <1>12, <2>3, <2>4
<1>13. QED
  BY <1>0, <1>1, <1>2, <1>3, <1>4, <1>5, <1>6, <1>7, <1>8, <1>9, <1>10, <1>11, <1>12
     DEF Next, TurnStep, JobStep, HandleResult

LEMMA AlwaysOnce == Spec => []Once
BY Invariant, OnceInit, OnceKept, PTL DEF Spec

\* No event is shown to the model twice and none is on screen twice, however turns,
\* compressions, kills and resumes follow one another.
\* About applyCompaction, trim, handleCompressResult and handleADK.
THEOREM ShownOnce == Spec => []NothingTwice
<1>1. IInv /\ Once => NothingTwice
  BY ViewDistinct DEF Once, NothingTwice
<1>2. QED
  BY <1>1, Invariant, AlwaysOnce, PTL

-----------------------------------------------------------------------------
(***************************************************************************)
(* Nothing is forgotten.  The display is in the order of the log, but for  *)
(* the summary at its head; it stands for the whole log, and so does what  *)
(* the marker leaves visible of the log.  A cut falls behind everything    *)
(* the last summary was shown before, once the user has said something.    *)
(***************************************************************************)
Ample ==
  /\ HistoryLimit <= 0 \/ MaxEvents < HistoryLimit
  /\ MaxEvents <= TranscriptBudget

Stands(x, s) == \E i \in 1 .. Len(s) : x = s[i].id \/ x \in s[i].covers

Rises(s, from) == \A i, j \in from .. Len(s) : i < j => s[i].id < s[j].id

\* Whatever goes wrong, what is shown is in the order of the log, but for a
\* summary at its head, and what is on its way comes after it.
InOrder ==
  /\ Rises(inflight, 1)
  /\ Rises(display, 2)
  /\ \A i \in 1 .. Len(display), j \in 1 .. Len(inflight) : display[i].id < inflight[j].id
  /\ marker.summary = NoId => \A j \in 2 .. Len(display) : display[1].id < display[j].id
  /\ marker.summary # NoId => marker.coveredThrough < marker.summary
  /\ Len(display) + Len(inflight) <= Len(log)
  /\ Len(log) <= MaxEvents + 1

JobInOrder ==
  /\ job.stage # "none" => /\ Len(job.covered) <= TranscriptBudget
                           /\ CutoffAt(display, Len(job.covered))
  /\ job.stage \in {"summarize", "append"} => Len(log) <= MaxEvents
  /\ job.stage \in {"mark", "ready"} => \A i \in 1 .. Len(display) : display[i].id < job.summary
  /\ job.stage = "ready" => marker.summary = job.summary

\* What the marker leaves visible of the log stands for all of it.
Visible(i) == marker.summary = NoId \/ i = marker.summary \/ i > marker.coveredThrough
Reachable ==
  \A x \in 1 .. Len(log) :
    \E i \in 1 .. Len(log) : Visible(i) /\ (x = i \/ x \in log[i].covers)

\* So does what is shown and on its way, but for the summary being written.
OnHand ==
  \A x \in 1 .. Len(log) :
    \/ Stands(x, display) \/ Stands(x, inflight)
    \/ job.stage \in {"mark", "ready"} /\ x = job.summary

Digested ==
  job.stage \in {"mark", "ready"} =>
    \A x \in 1 .. Len(log) : Stands(x, job.covered) => x \in log[job.summary].covers

\* Since the last summary: what the user has said is behind the event after it.
Since ==
  /\ job.stage = "ready" => gap = 0
  /\ marker.summary # NoId =>
       /\ marker.coveredThrough + 1 < marker.summary
       /\ gap > 0 => \E u \in marker.summary + 1 .. Len(log) : ByUser(log[u])
       /\ job.stage # "ready" =>
            /\ Len(display) >= 2
            /\ gap > 0 => \/ \E j \in 3 .. Len(display) : ByUser(display[j])
                          \/ \E j \in 1 .. Len(inflight) : ByUser(inflight[j])

Remembered ==
  /\ leftover = "none" /\ ~ esc
  /\ Reachable /\ OnHand /\ Digested /\ Since

Steady == Undisturbed /\ minGap > 0

Memory == InOrder /\ JobInOrder /\ (Steady => Remembered)
-----------------------------------------------------------------------------
LEMMA Parts ==
  ASSUME IInv
  PROVE  /\ log \in Seq(Event) /\ Len(log) \in Nat /\ \A i \in 1 .. Len(log) : log[i].id = i
         /\ display \in Seq(Event) /\ Len(display) \in Nat
         /\ inflight \in Seq(Event) /\ Len(inflight) \in Nat
         /\ job \in Job /\ job.covered \in Seq(Event) /\ job.tail \in Seq(Event)
         /\ Len(job.covered) \in Nat /\ Len(job.tail) \in Nat
         /\ marker \in Marker /\ marker.summary \in Nat /\ marker.coveredThrough \in Nat
         /\ gap \in Nat /\ minGap \in Nat
         /\ \A i \in 1 .. Len(display) :
              display[i].id \in 1 .. Len(log) /\ display[i] = log[display[i].id]
         /\ \A i \in 1 .. Len(inflight) :
              inflight[i].id \in 1 .. Len(log) /\ inflight[i] = log[inflight[i].id]
<1>1. /\ log \in Seq(Event) /\ display \in Seq(Event) /\ inflight \in Seq(Event) /\ job \in Job
      /\ marker \in Marker /\ gap \in Nat /\ minGap \in Nat
  BY DEF IInv, TypeOK
<1>2. job.covered \in Seq(Event) /\ job.tail \in Seq(Event)
  BY <1>1 DEF Job
<1>3. \A i \in 1 .. Len(log) : log[i].id = i
  BY DEF IInv, Coherent, LogNumbered
<1>4. ASSUME NEW s, Within(s, log)
      PROVE  \A i \in 1 .. Len(s) : s[i].id \in 1 .. Len(log) /\ s[i] = log[s[i].id]
  BY <1>3, <1>4 DEF Within
<1>5. QED
  BY <1>1, <1>2, <1>3, <1>4, LenProperties DEF Marker, IInv, Coherent, FromLog

LEMMA Joined ==
  ASSUME NEW S, NEW a \in Seq(S), NEW b \in Seq(S), NEW r, r = a \o b
  PROVE  /\ r \in Seq(S) /\ Len(a) \in Nat /\ Len(b) \in Nat
         /\ Len(r) = Len(a) + Len(b)
         /\ \A i \in 1 .. Len(a) : i \in 1 .. Len(r) /\ r[i] = a[i]
         /\ \A i \in 1 .. Len(b) : Len(a) + i \in 1 .. Len(r) /\ r[Len(a) + i] = b[i]
<1>1. /\ a \o b \in Seq(S)
      /\ Len(a \o b) = Len(a) + Len(b)
      /\ \A i \in 1 .. Len(a) + Len(b) : (a \o b)[i] = IF i <= Len(a) THEN a[i] ELSE b[i - Len(a)]
  BY ConcatProperties
<1>2. /\ r \in Seq(S)
      /\ Len(r) = Len(a) + Len(b)
      /\ \A i \in 1 .. Len(a) + Len(b) : r[i] = IF i <= Len(a) THEN a[i] ELSE b[i - Len(a)]
  BY <1>1, Zenon
<1>3. Len(a) \in Nat /\ Len(b) \in Nat
  BY LenProperties
<1>4. ASSUME NEW i \in 1 .. Len(a) PROVE i \in 1 .. Len(r) /\ r[i] = a[i]
  BY <1>2, <1>3, <1>4
<1>5. ASSUME NEW i \in 1 .. Len(b) PROVE Len(a) + i \in 1 .. Len(r) /\ r[Len(a) + i] = b[i]
  <2>1. /\ Len(a) + i \in 1 .. Len(a) + Len(b) /\ ~ (Len(a) + i <= Len(a))
        /\ Len(a) + i - Len(a) = i
    BY <1>3, <1>5
  <2>2. QED
    BY <1>2, <2>1
<1>6. QED
  BY <1>2, <1>3, <1>4, <1>5

\* The display under compression is the covered prefix and the tail.
LEMMA CutDisplay ==
  ASSUME IInv, Once, job.stage # "none"
  PROVE  /\ phase = "compressing" /\ inflight = << >> /\ Len(inflight) = 0
         /\ Len(job.covered) \in 1 .. Len(display)
         /\ Len(display) = Len(job.covered) + Len(job.tail)
         /\ \A i \in 1 .. Len(job.covered) : display[i] = job.covered[i]
         /\ \A i \in 1 .. Len(job.tail) :
              /\ Len(job.covered) + i \in 1 .. Len(display)
              /\ display[Len(job.covered) + i] = job.tail[i]
<1>1. PICK d : d = display
  OBVIOUS
<1>2. PICK a \in Seq(Event) : a = job.covered
  BY Parts
<1>3. PICK b \in Seq(Event) : b = job.tail
  BY Parts
<1>4. phase = "compressing" /\ inflight = << >>
  BY DEF Once
<1>5. display = job.covered \o job.tail /\ Len(job.covered) >= 1
  BY <1>4 DEF IInv, Coherent, SnapshotIsCurrent, JobNames
<1>6. d = a \o b
  BY <1>1, <1>2, <1>3, <1>5, Zenon
<1>7. /\ Len(a) \in Nat /\ Len(b) \in Nat
      /\ Len(d) = Len(a) + Len(b)
      /\ \A i \in 1 .. Len(a) : i \in 1 .. Len(d) /\ d[i] = a[i]
      /\ \A i \in 1 .. Len(b) : Len(a) + i \in 1 .. Len(d) /\ d[Len(a) + i] = b[i]
  BY <1>6, Joined
<1>8. Len(a) >= 1 /\ Len(inflight) = 0
  BY <1>2, <1>4, <1>5
<1>9. Len(a) \in 1 .. Len(d)
  BY <1>7, <1>8
<1>10. QED
  BY <1>1, <1>2, <1>3, <1>4, <1>7, <1>8, <1>9

\* What the marker leaves of the log: the summary, what it does not cover.
LEMMA ViewShape ==
  ASSUME IInv, marker.summary # NoId, marker.coveredThrough < marker.summary
  PROVE  /\ FullView \in Seq(Event)
         /\ marker.summary \in 1 .. Len(log) /\ marker.coveredThrough \in 1 .. Len(log)
         /\ Len(FullView) = Len(log) - marker.coveredThrough
         /\ FullView[1] = log[marker.summary]
         /\ \A j \in 2 .. marker.summary - marker.coveredThrough :
              FullView[j] = log[marker.coveredThrough + j - 1]
         /\ \A j \in marker.summary - marker.coveredThrough + 1 .. Len(log) - marker.coveredThrough :
              FullView[j] = log[marker.coveredThrough + j]
<1>1. Len(log) \in Nat /\ marker.summary \in 1 .. Len(log) /\ marker.coveredThrough \in 1 .. Len(log)
  BY Parts DEF IInv, Coherent, MarkerNames
<1>2. PICK n \in Nat : n = Len(log)
  BY <1>1
<1>3. PICK sm \in 1 .. n : sm = marker.summary
  BY <1>1, <1>2
<1>4. PICK cv \in 1 .. n : cv = marker.coveredThrough
  BY <1>1, <1>2
<1>5. PICK s \in Seq(Event) : s = log
  BY Parts
<1>6. cv < sm /\ n = Len(s)
  BY <1>2, <1>3, <1>4, <1>5
<1>7. \A i \in 1 .. n : s[i].id = i
  BY <1>2, <1>5, Parts
<1>8. Has(s, sm) /\ Has(s, cv) /\ Applies(log, marker)
  BY <1>3, <1>4, <1>5, <1>6, <1>7 DEF Has, Applies
<1>9. At(s, sm) = sm /\ At(s, cv) = cv
  BY <1>6, <1>7, <1>8, AtFinds
<1>10. FullView = << s[sm] >> \o After(s, cv, sm)
  BY <1>3, <1>4, <1>5, <1>8, <1>9, Zenon DEF FullView, ApplyCompaction
<1>11. /\ cv + 1 \in Nat \ {0} /\ sm - 1 \in 0 .. Len(s) /\ sm + 1 \in Nat \ {0} /\ n \in 0 .. Len(s)
  BY <1>6
<1>12. PICK a \in Seq(Event) : a = SubSeq(s, cv + 1, sm - 1)
  BY <1>11, SubSeqWithin
<1>13. PICK b \in Seq(Event) : b = SubSeq(s, sm + 1, n)
  BY <1>11, SubSeqWithin
<1>14. /\ Len(a) = sm - 1 - cv
       /\ \A i \in 1 .. Len(a) : a[i] = s[cv + i]
  <2>1. /\ Len(a) = IF cv + 1 <= sm - 1 THEN (sm - 1) - (cv + 1) + 1 ELSE 0
        /\ \A i \in 1 .. Len(a) : a[i] = s[cv + 1 + i - 1]
    BY <1>11, <1>12, Stretch, SubSeqWithin
  <2>2. Len(a) = sm - 1 - cv
    BY <1>6, <2>1
  <2>3. \A i \in 1 .. Len(a) : cv + 1 + i - 1 = cv + i
    BY <1>6, <2>2
  <2>4. QED
    BY <2>1, <2>2, <2>3
<1>15. /\ Len(b) = n - sm
       /\ \A i \in 1 .. Len(b) : b[i] = s[sm + i]
  <2>1. /\ Len(b) = IF sm + 1 <= n THEN n - (sm + 1) + 1 ELSE 0
        /\ \A i \in 1 .. Len(b) : b[i] = s[sm + 1 + i - 1]
    BY <1>11, <1>13, Stretch, SubSeqWithin
  <2>2. Len(b) = n - sm
    BY <1>6, <2>1
  <2>3. \A i \in 1 .. Len(b) : sm + 1 + i - 1 = sm + i
    BY <1>6, <2>2
  <2>4. QED
    BY <2>1, <2>2, <2>3
<1>16. PICK r : r = a \o b
  OBVIOUS
<1>17. /\ r \in Seq(Event) /\ Len(a) \in Nat /\ Len(b) \in Nat /\ Len(r) = Len(a) + Len(b)
       /\ \A i \in 1 .. Len(a) : i \in 1 .. Len(r) /\ r[i] = a[i]
       /\ \A i \in 1 .. Len(b) : Len(a) + i \in 1 .. Len(r) /\ r[Len(a) + i] = b[i]
  BY <1>16, Joined
<1>18. PICK h \in Seq(Event) : h = << s[sm] >>
  BY <1>6, SingletonWithin
<1>19. Len(h) = 1 /\ h[1] = s[sm]
  BY <1>18
<1>20. PICK v : v = h \o r
  OBVIOUS
<1>21. /\ v \in Seq(Event) /\ Len(v) = Len(h) + Len(r)
       /\ \A i \in 1 .. Len(h) : i \in 1 .. Len(v) /\ v[i] = h[i]
       /\ \A i \in 1 .. Len(r) : Len(h) + i \in 1 .. Len(v) /\ v[Len(h) + i] = r[i]
  <2>1. r \in Seq(Event)
    BY <1>17
  <2>2. QED
    BY <1>20, <2>1, Joined
<1>22. After(s, cv, sm) = r
  BY <1>6, <1>12, <1>13, <1>16, Zenon DEF After
<1>23. FullView = v
  BY <1>10, <1>18, <1>20, <1>22, Zenon
<1>24. Len(v) = n - cv /\ v[1] = s[sm]
  BY <1>6, <1>14, <1>15, <1>17, <1>19, <1>21
<1>25. ASSUME NEW j \in 2 .. sm - cv PROVE v[j] = s[cv + j - 1]
  <2>1. PICK i \in 1 .. Len(a) : i = j - 1
    BY <1>6, <1>14, <1>25
  <2>2. v[1 + i] = a[i] /\ a[i] = s[cv + i]
    BY <1>14, <1>17, <1>19, <1>21, <2>1
  <2>3. 1 + i = j /\ cv + i = cv + j - 1
    BY <2>1, <1>25
  <2>4. QED
    BY <2>2, <2>3
<1>26. ASSUME NEW j \in sm - cv + 1 .. n - cv PROVE v[j] = s[cv + j]
  <2>1. PICK i \in 1 .. Len(b) : i = j - (sm - cv)
    BY <1>6, <1>15, <1>26
  <2>2. v[1 + (Len(a) + i)] = b[i] /\ b[i] = s[sm + i]
    BY <1>15, <1>17, <1>19, <1>21, <2>1
  <2>3. 1 + (Len(a) + i) = j /\ sm + i = cv + j
    BY <1>6, <1>14, <2>1, <1>26
  <2>4. QED
    BY <2>2, <2>3
<1>27. QED
  BY <1>1, <1>2, <1>3, <1>4, <1>5, <1>21, <1>23, <1>24, <1>25, <1>26

-----------------------------------------------------------------------------
\* Nothing that is shown, written or on its way changes.
LEMMA Stays ==
  ASSUME IInv, Memory,
         log' = log, marker' = marker, display' = display, inflight' = inflight,
         gap' = gap, minGap' = minGap,
         job'.stage \in {"mark", "ready"} => job' = job,
         job'.stage \in {"summarize", "append"} => Len(log) <= MaxEvents,
         job'.stage # "none" => /\ Len(job'.covered) <= TranscriptBudget
                                /\ CutoffAt(display, Len(job'.covered)),
         mishaps' = {} => /\ mishaps = {}
                          /\ job.stage \in {"mark", "ready"} => job' = job
                          /\ leftover' \in {leftover, "none"} /\ (esc' => esc)
  PROVE  Memory'
<1>1. InOrder'
  BY DEF Memory, InOrder
<1>2. JobInOrder'
  BY DEF Memory, JobInOrder
<1>3. ASSUME Steady' PROVE Remembered'
  <2>1. Remembered /\ mishaps' = {}
    BY <1>3 DEF Memory, Steady, Undisturbed
  <2>a. leftover = "none" /\ ~ esc
    BY <2>1 DEF Remembered
  <2>b. leftover' = "none"
    BY <2>1, <2>a
  <2>c. ~ esc'
    BY <2>1, <2>a
  <2>2. leftover' = "none" /\ ~ esc'
    BY <2>b, <2>c
  <2>3. Reachable'
    BY <2>1 DEF Remembered, Reachable, Visible
  <2>4. OnHand'
    BY <2>1 DEF Remembered, OnHand, Stands
  <2>5. Digested'
    BY <2>1 DEF Remembered, Digested, Stands
  <2>6. Since'
    BY <2>1 DEF Remembered, Since
  <2>7. QED
    BY <2>2, <2>3, <2>4, <2>5, <2>6 DEF Remembered
<1>4. QED
  BY <1>1, <1>2, <1>3 DEF Memory

\* A compression starts.
LEMMA MemoryStarts ==
  ASSUME IInv, Once, Memory, Ample, Room, NEW auto, NEW pending, StartCompression(auto, pending),
         job.stage = "none", UNCHANGED << log, marker, display, inflight, gap, minGap, mishaps >>,
         leftover' = leftover
  PROVE  Memory'
<1>1. PICK k \in 1 .. Len(display) :
        /\ CutoffAt(display, k)
        /\ esc' = FALSE
        /\ job' = [stage |-> "summarize", auto |-> auto, pending |-> pending,
                   covered |-> SubSeq(display, 1, k),
                   tail |-> SubSeq(display, k + 1, Len(display)),
                   summary |-> NoId]
  BY DEF StartCompression
<1>2. Len(display) \in Nat /\ Len(log) \in Nat /\ Len(inflight) \in Nat /\ display \in Seq(Event)
  BY Parts
<1>3. Len(SubSeq(display, 1, k)) = k
  <2>1. 1 \in Nat \ {0} /\ k \in 0 .. Len(display) /\ 1 <= k
    BY <1>2
  <2>2. Len(SubSeq(display, 1, k)) = IF 1 <= k THEN k - 1 + 1 ELSE 0
    BY <1>2, <2>1, SubSeqWithin
  <2>3. QED
    BY <2>1, <2>2
<1>4. Len(display) + Len(inflight) <= Len(log)
  BY DEF Memory, InOrder
<1>5. Len(log) <= MaxEvents /\ k <= TranscriptBudget
  BY <1>2, <1>4, BoundsAssumption DEF Room, Ample
<1>6. job'.stage = "summarize" /\ Len(job'.covered) = k
  BY <1>1, <1>3
<1>7. esc' => esc
  BY <1>1
<1>8. QED
  BY <1>1, <1>5, <1>6, <1>7, Stays

\* The log grows by an event that is read by the screen, or by nobody.
LEMMA LongerLog ==
  ASSUME NEW s \in Seq(Event), NEW e \in Event, NEW t, t = Append(s, e)
  PROVE  /\ t \in Seq(Event) /\ Len(s) \in Nat /\ Len(t) = Len(s) + 1 /\ t[Len(s) + 1] = e
         /\ Len(s) + 1 \in 1 .. Len(t)
         /\ \A i \in 1 .. Len(s) : i \in 1 .. Len(t) /\ t[i] = s[i]
<1>1. /\ Append(s, e) \in Seq(Event) /\ Len(Append(s, e)) = Len(s) + 1
      /\ \A i \in 1 .. Len(s) : Append(s, e)[i] = s[i]
      /\ Append(s, e)[Len(s) + 1] = e
  BY AppendProperties
<1>2. /\ t \in Seq(Event) /\ Len(t) = Len(s) + 1
      /\ \A i \in 1 .. Len(s) : t[i] = s[i]
      /\ t[Len(s) + 1] = e
  BY <1>1, Zenon
<1>3. Len(s) \in Nat
  BY LenProperties
<1>4. QED
  BY <1>2, <1>3

\* The run appends an event, and the screen will read it.
LEMMA RunRemembers ==
  ASSUME IInv, Once, Memory, job.stage = "none", job' = job, Len(log) < MaxEvents,
         NEW e \in Event, e.id = Len(log) + 1,
         log' = Append(log, e), inflight' = Append(inflight, e),
         marker' = marker, display' = display, minGap' = minGap, mishaps' = mishaps,
         leftover' = leftover, esc' = esc,
         gap' > 0 => gap > 0 \/ ByUser(e)
  PROVE  Memory'
<1>1. PICK n \in Nat : n = Len(log)
  BY Parts
<1>2. PICK k \in Nat : k = Len(inflight)
  BY Parts
<1>3. /\ Len(log') = n + 1 /\ log'[n + 1] = e /\ \A i \in 1 .. n : log'[i] = log[i]
  BY <1>1, LongerLog, Parts
<1>4. /\ Len(inflight') = k + 1 /\ inflight'[k + 1] = e
      /\ \A i \in 1 .. k : inflight'[i] = inflight[i] /\ inflight[i].id \in 1 .. n
  BY <1>1, <1>2, LongerLog, Parts
<1>5. Len(display) \in Nat /\ \A i \in 1 .. Len(display) : display[i].id \in 1 .. n
  BY <1>1, Parts
<1>6. InOrder'
  <2>1. Rises(inflight', 1)
    <3>1. ASSUME NEW i \in 1 .. k + 1, NEW j \in 1 .. k + 1, i < j
          PROVE  inflight'[i].id < inflight'[j].id
      <4>1. CASE j = k + 1
        BY <1>1, <1>4, <3>1, <4>1
      <4>2. CASE j # k + 1
        <5>1. i \in 1 .. k /\ j \in 1 .. k
          BY <3>1, <4>2
        <5>2. QED
          BY <1>2, <1>4, <3>1, <5>1 DEF Memory, InOrder, Rises
      <4>3. QED
        BY <4>1, <4>2
    <3>2. QED
      BY <1>4, <3>1 DEF Rises
  <2>2. ASSUME NEW i \in 1 .. Len(display), NEW j \in 1 .. k + 1
        PROVE  display[i].id < inflight'[j].id
    <3>1. CASE j = k + 1
      BY <1>1, <1>4, <1>5, <3>1
    <3>2. CASE j # k + 1
      BY <1>2, <1>4, <3>2 DEF Memory, InOrder
    <3>3. QED
      BY <3>1, <3>2
  <2>3. Len(display) + (k + 1) <= n + 1 /\ n + 1 <= MaxEvents + 1
    BY <1>1, <1>2, <1>5, BoundsAssumption DEF Memory, InOrder
  <2>4. /\ Rises(display, 2)
        /\ marker.summary = NoId => \A j \in 2 .. Len(display) : display[1].id < display[j].id
        /\ marker.summary # NoId => marker.coveredThrough < marker.summary
    BY DEF Memory, InOrder
  <2>5. QED
    BY <1>3, <1>4, <2>1, <2>2, <2>3, <2>4 DEF InOrder
<1>7. JobInOrder'
  BY DEF JobInOrder
<1>8. ASSUME Steady' PROVE Remembered'
  <2>1. Remembered
    BY <1>8 DEF Memory, Steady, Undisturbed
  <2>2. leftover' = "none" /\ ~ esc'
    BY <2>1 DEF Remembered
  <2>3. Reachable'
    <3>1. Visible(n + 1)'
      <4>1. marker.coveredThrough \in Nat /\ (marker.summary # NoId => marker.coveredThrough <= n)
        BY <1>1, Parts DEF IInv, Coherent, MarkerNames
      <4>2. QED
        BY <4>1 DEF Visible
    <3>2. ASSUME NEW x \in 1 .. n + 1
          PROVE  \E i \in 1 .. n + 1 : Visible(i)' /\ (x = i \/ x \in log'[i].covers)
      <4>1. CASE x = n + 1
        BY <3>1, <4>1
      <4>2. CASE x # n + 1
        <5>1. PICK i \in 1 .. n : Visible(i) /\ (x = i \/ x \in log[i].covers)
          BY <1>1, <2>1, <4>2 DEF Remembered, Reachable
        <5>2. Visible(i)' /\ i \in 1 .. n + 1
          BY <5>1 DEF Visible
        <5>3. QED
          BY <1>3, <5>1, <5>2
      <4>3. QED
        BY <4>1, <4>2
    <3>3. QED
      BY <1>3, <3>2 DEF Reachable
  <2>4. OnHand'
    <3>1. ASSUME NEW x \in 1 .. n + 1 PROVE Stands(x, display') \/ Stands(x, inflight')
      <4>1. CASE x = n + 1
        BY <1>1, <1>4, <4>1 DEF Stands
      <4>2. CASE x # n + 1
        <5>1. Stands(x, display) \/ Stands(x, inflight)
          BY <1>1, <2>1, <4>2 DEF Remembered, OnHand
        <5>2. CASE Stands(x, inflight)
          <6>1. PICK i \in 1 .. k : x = inflight[i].id \/ x \in inflight[i].covers
            BY <1>2, <5>2 DEF Stands
          <6>2. i \in 1 .. k + 1 /\ inflight'[i] = inflight[i]
            BY <1>4, <6>1
          <6>3. QED
            BY <1>4, <6>1, <6>2 DEF Stands
        <5>3. QED
          BY <5>1, <5>2
      <4>3. QED
        BY <4>1, <4>2
    <3>2. QED
      BY <1>3, <3>1 DEF OnHand
  <2>5. Digested'
    BY DEF Digested
  <2>6. Since'
    <3>1. ASSUME marker.summary # NoId, gap' > 0
          PROVE  /\ \E u \in marker.summary + 1 .. n + 1 : ByUser(log'[u])
                 /\ \/ \E j \in 3 .. Len(display) : ByUser(display[j])
                    \/ \E j \in 1 .. k + 1 : ByUser(inflight'[j])
      <4>1. marker.summary \in 1 .. n
        BY <1>1, <3>1 DEF IInv, Coherent, MarkerNames
      <4>2. CASE ByUser(e)
        BY <1>3, <1>4, <4>1, <4>2
      <4>3. CASE gap > 0
        <5>1. PICK u \in marker.summary + 1 .. n : ByUser(log[u])
          BY <1>1, <2>1, <3>1, <4>3 DEF Remembered, Since
        <5>2. u \in marker.summary + 1 .. n + 1 /\ log'[u] = log[u]
          BY <1>3, <4>1, <5>1
        <5>3. \/ \E j \in 3 .. Len(display) : ByUser(display[j])
              \/ \E j \in 1 .. k : ByUser(inflight[j])
          BY <1>2, <2>1, <3>1, <4>3 DEF Remembered, Since
        <5>4. ByUser(log'[u])
          BY <5>1, <5>2
        <5>5. ASSUME NEW j \in 1 .. k, ByUser(inflight[j]) PROVE \E l \in 1 .. k + 1 : ByUser(inflight'[l])
          <6>1. j \in 1 .. k + 1 /\ inflight'[j] = inflight[j]
            BY <1>4
          <6>2. QED
            BY <5>5, <6>1
        <5>6. QED
          BY <5>2, <5>3, <5>4, <5>5
      <4>4. QED
        BY <3>1, <4>2, <4>3
    <3>2. marker.summary # NoId => marker.coveredThrough + 1 < marker.summary /\ Len(display) >= 2
      BY <2>1 DEF Remembered, Since
    <3>3. QED
      BY <1>3, <1>4, <3>1, <3>2 DEF Since
  <2>7. QED
    BY <2>2, <2>3, <2>4, <2>5, <2>6 DEF Remembered
<1>9. QED
  BY <1>6, <1>7, <1>8 DEF Memory

\* Nobody reads what a cancelled run appends: something went wrong already.
LEMMA LeftoverForgets ==
  ASSUME IInv, Memory, LeftoverAppends
  PROVE  Memory'
<1>1. PICK kind \in Kinds, next \in RunStages :
        AppendedBy(leftover, kind, next) /\ leftover' = next
        /\ UNCHANGED << phase, run, inflight, display, asked, esc, failed, noAutoAfter, job >>
  BY DEF LeftoverAppends
<1>2. PICK e \in Event : e = NewEvent(kind, {})
  <2>1. Len(log) + 1 \in Nat
    BY Parts
  <2>2. NewEvent(kind, {}) \in Event
    BY <2>1 DEF NewEvent, Event
  <2>3. QED
    BY <2>2
<1>3. log' = Append(log, e) /\ marker' = marker /\ minGap' = minGap /\ mishaps' = mishaps /\ Room
  BY <1>1, <1>2 DEF AppendedBy
<1>4. Len(log') = Len(log) + 1 /\ Len(log) \in Nat /\ Len(log) < MaxEvents
  BY <1>3, LongerLog, Parts DEF Room
<1>5. inflight' = inflight /\ display' = display /\ job' = job
  BY <1>1
<1>6. Len(display) \in Nat /\ Len(inflight) \in Nat /\ MaxEvents \in Nat
  BY Parts, BoundsAssumption
<1>7. Len(display) + Len(inflight) <= Len(log') /\ Len(log') <= MaxEvents + 1 /\ Len(log') <= MaxEvents
  BY <1>4, <1>6 DEF Memory, InOrder
<1>8. InOrder'
  BY <1>3, <1>5, <1>7 DEF Memory, InOrder
<1>9. JobInOrder'
  BY <1>3, <1>5, <1>7 DEF Memory, JobInOrder
<1>10. ~ Steady
  BY <1>1 DEF Memory, Remembered, AppendedBy, Appends
<1>11. ~ Steady'
  BY <1>3, <1>10 DEF Steady, Undisturbed
<1>12. QED
  BY <1>8, <1>9, <1>11 DEF Memory

\* The first event on its way is shown.
LEMMA ShownNext ==
  ASSUME NEW d \in Seq(Event), NEW s \in Seq(Event), s # << >>, NEW a, NEW b,
         a = Append(d, Head(s)), b = Tail(s)
  PROVE  /\ Len(d) \in Nat /\ Len(s) \in Nat \ {0} /\ Len(a) = Len(d) + 1 /\ Len(b) = Len(s) - 1
         /\ a[Len(d) + 1] = s[1]
         /\ \A i \in 1 .. Len(d) : a[i] = d[i]
         /\ \A i \in 1 .. Len(b) : i + 1 \in 1 .. Len(s) /\ b[i] = s[i + 1]
<1>1. Head(s) \in Event /\ Head(s) = s[1] /\ Len(s) \in Nat \ {0}
  BY HeadTailProperties, LenProperties, EmptySeq
<1>2. /\ Len(Tail(s)) = Len(s) - 1
      /\ \A i \in 1 .. Len(s) - 1 : Tail(s)[i] = s[i + 1]
  BY <1>1, HeadTailProperties
<1>3. /\ Len(b) = Len(s) - 1
      /\ \A i \in 1 .. Len(s) - 1 : b[i] = s[i + 1]
  BY <1>2
<1>4. PICK e \in Event : e = s[1]
  BY <1>1
<1>5. a = Append(d, e)
  BY <1>1, <1>4
<1>6. Len(d) \in Nat /\ Len(a) = Len(d) + 1 /\ a[Len(d) + 1] = e /\ \A i \in 1 .. Len(d) : a[i] = d[i]
  BY <1>5, LongerLog
<1>7. QED
  BY <1>1, <1>3, <1>4, <1>6

\* An event on its way joins the display.
LEMMA ShownRemembered ==
  ASSUME IInv, Once, Memory, HandleEvent
  PROVE  Memory'
<1>1. /\ inflight # << >> /\ display' = Append(display, Head(inflight)) /\ inflight' = Tail(inflight)
      /\ log' = log /\ marker' = marker /\ gap' = gap /\ minGap' = minGap /\ mishaps' = mishaps
      /\ leftover' = leftover /\ job' = job
  BY DEF HandleEvent, disk, hist
<1>a. esc' = esc
  BY DEF HandleEvent
<1>b. job.stage = "none"
  BY DEF HandleEvent, Once
<1>2. PICK d \in Seq(Event) : d = display
  BY Parts
<1>3. PICK s \in Seq(Event) : s = inflight
  BY Parts
<1>4. PICK a : a = Append(d, Head(s))
  OBVIOUS
<1>5. PICK b : b = Tail(s)
  OBVIOUS
<1>6. /\ Len(d) \in Nat /\ Len(s) \in Nat \ {0} /\ Len(a) = Len(d) + 1 /\ Len(b) = Len(s) - 1
      /\ a[Len(d) + 1] = s[1]
      /\ \A i \in 1 .. Len(d) : a[i] = d[i]
      /\ \A i \in 1 .. Len(b) : i + 1 \in 1 .. Len(s) /\ b[i] = s[i + 1]
  <2>1. s # << >>
    BY <1>1, <1>3
  <2>2. QED
    BY <1>4, <1>5, <2>1, ShownNext
<1>7. PICK k \in Nat : k = Len(d)
  BY <1>6
<1>8. PICK l \in Nat : l = Len(b)
  BY <1>6
<1>9. /\ Len(a) = k + 1 /\ Len(s) = l + 1 /\ a[k + 1] = s[1]
      /\ \A i \in 1 .. k : a[i] = d[i]
      /\ \A i \in 1 .. l : i + 1 \in 1 .. l + 1 /\ b[i] = s[i + 1]
  BY <1>6, <1>7, <1>8
<1>10. display' = a /\ inflight' = b
  BY <1>1, <1>2, <1>3, <1>4, <1>5
<1>11. /\ \A i \in 1 .. k : d[i].id \in Nat
       /\ \A i \in 1 .. l + 1 : s[i].id \in Nat
  BY <1>2, <1>3, <1>7, <1>9, Parts
<1>12. /\ \A i, j \in 1 .. l + 1 : i < j => s[i].id < s[j].id
       /\ \A i, j \in 2 .. k : i < j => d[i].id < d[j].id
       /\ \A i \in 1 .. k, j \in 1 .. l + 1 : d[i].id < s[j].id
       /\ marker.summary = NoId => \A j \in 2 .. k : d[1].id < d[j].id
       /\ marker.summary # NoId => marker.coveredThrough < marker.summary
       /\ k + (l + 1) <= Len(log) /\ Len(log) <= MaxEvents + 1
  BY <1>2, <1>3, <1>7, <1>9 DEF Memory, InOrder, Rises
<1>13. InOrder'
  <2>1. ASSUME NEW i \in 1 .. l, NEW j \in 1 .. l, i < j PROVE b[i].id < b[j].id
    <3>1. b[i] = s[i + 1] /\ b[j] = s[j + 1]
      BY <1>9
    <3>2. i + 1 \in 1 .. l + 1 /\ j + 1 \in 1 .. l + 1 /\ i + 1 < j + 1
      BY <2>1
    <3>3. QED
      BY <1>12, <3>1, <3>2
  <2>2. ASSUME NEW i \in 2 .. k + 1, NEW j \in 2 .. k + 1, i < j PROVE a[i].id < a[j].id
    <3>1. CASE j = k + 1
      BY <1>9, <1>12, <2>2, <3>1
    <3>2. CASE j # k + 1
      <4>1. i \in 2 .. k /\ j \in 2 .. k /\ a[i] = d[i] /\ a[j] = d[j]
        BY <1>9, <2>2, <3>2
      <4>2. QED
        BY <1>12, <2>2, <4>1
    <3>3. QED
      BY <3>1, <3>2
  <2>3. ASSUME NEW i \in 1 .. k + 1, NEW j \in 1 .. l PROVE a[i].id < b[j].id
    <3>1. CASE i = k + 1
      BY <1>9, <1>12, <3>1
    <3>2. CASE i # k + 1
      <4>1. i \in 1 .. k /\ a[i] = d[i] /\ b[j] = s[j + 1] /\ j + 1 \in 1 .. l + 1
        BY <1>9, <3>2
      <4>2. QED
        BY <1>12, <4>1
    <3>3. QED
      BY <3>1, <3>2
  <2>4. ASSUME marker.summary = NoId, NEW j \in 2 .. k + 1 PROVE a[1].id < a[j].id
    <3>1. 1 \in 1 .. k /\ a[1] = d[1]
      BY <1>9
    <3>2. CASE j = k + 1
      BY <1>9, <1>12, <3>1, <3>2
    <3>3. CASE j # k + 1
      <4>1. j \in 2 .. k /\ a[j] = d[j]
        BY <1>9, <3>3
      <4>2. QED
        BY <1>12, <2>4, <3>1, <4>1
    <3>4. QED
      BY <3>2, <3>3
  <2>5. (k + 1) + l <= Len(log)
    BY <1>12, Parts
  <2>6. /\ Rises(a, 2) /\ Rises(b, 1)
    BY <1>8, <1>9, <2>1, <2>2 DEF Rises
  <2>7. QED
    BY <1>1, <1>8, <1>9, <1>10, <1>12, <2>3, <2>4, <2>5, <2>6 DEF InOrder
<1>14. JobInOrder'
  BY <1>1, <1>b DEF JobInOrder
<1>15. ASSUME Steady' PROVE Remembered'
  <2>1. Remembered
    BY <1>1, <1>15 DEF Memory, Steady, Undisturbed
  <2>2. leftover' = "none" /\ ~ esc'
    BY <1>1, <1>a, <2>1 DEF Remembered
  <2>3. Reachable'
    BY <1>1, <2>1 DEF Remembered, Reachable, Visible
  <2>4. OnHand'
    <3>1. ASSUME NEW x \in 1 .. Len(log) PROVE Stands(x, a) \/ Stands(x, b)
      <4>1. Stands(x, d) \/ Stands(x, s)
        BY <1>2, <1>3, <1>b, <2>1 DEF Remembered, OnHand
      <4>2. CASE Stands(x, d)
        <5>1. PICK i \in 1 .. k : x = d[i].id \/ x \in d[i].covers
          BY <1>7, <4>2 DEF Stands
        <5>2. i \in 1 .. k + 1 /\ a[i] = d[i]
          BY <1>9, <5>1
        <5>3. QED
          BY <1>9, <5>1, <5>2 DEF Stands
      <4>3. CASE Stands(x, s)
        <5>1. PICK i \in 1 .. l + 1 : x = s[i].id \/ x \in s[i].covers
          BY <1>9, <4>3 DEF Stands
        <5>2. CASE i = 1
          BY <1>9, <5>1, <5>2 DEF Stands
        <5>3. CASE i # 1
          <6>1. PICK j \in 1 .. l : j = i - 1 /\ b[j] = s[i]
            BY <1>9, <5>1, <5>3
          <6>2. QED
            BY <1>8, <5>1, <6>1 DEF Stands
        <5>4. QED
          BY <5>2, <5>3
      <4>4. QED
        BY <4>1, <4>2, <4>3
    <3>2. QED
      BY <1>1, <1>10, <3>1 DEF OnHand
  <2>5. Digested'
    BY <1>1, <1>b DEF Digested
  <2>6. Since'
    <3>1. marker.summary # NoId =>
            /\ marker.coveredThrough + 1 < marker.summary
            /\ gap > 0 => \E u \in marker.summary + 1 .. Len(log) : ByUser(log[u])
            /\ k >= 2
            /\ gap > 0 => \/ \E j \in 3 .. k : ByUser(d[j])
                          \/ \E j \in 1 .. l + 1 : ByUser(s[j])
      BY <1>2, <1>3, <1>7, <1>9, <1>b, <2>1 DEF Remembered, Since
    <3>2. ASSUME k >= 2, NEW j \in 3 .. k, ByUser(d[j])
          PROVE  \E i \in 3 .. k + 1 : ByUser(a[i])
      <4>1. j \in 3 .. k + 1 /\ a[j] = d[j]
        BY <1>9
      <4>2. QED
        BY <3>2, <4>1
    <3>3. ASSUME k >= 2, NEW j \in 1 .. l + 1, ByUser(s[j])
          PROVE  \/ \E i \in 3 .. k + 1 : ByUser(a[i])
                 \/ \E i \in 1 .. l : ByUser(b[i])
      <4>1. CASE j = 1
        <5>1. k + 1 \in 3 .. k + 1 /\ ByUser(a[k + 1])
          BY <1>9, <3>3, <4>1
        <5>2. QED
          BY <5>1
      <4>2. CASE j # 1
        <5>1. PICK i \in 1 .. l : i = j - 1 /\ b[i] = s[j]
          BY <1>9, <3>3, <4>2
        <5>2. QED
          BY <3>3, <5>1
      <4>3. QED
        BY <4>1, <4>2
    <3>4. log' = log /\ marker' = marker /\ gap' = gap /\ job'.stage = "none"
      BY <1>1, <1>b
    <3>5. /\ marker.summary # NoId => k + 1 >= 2
          /\ marker.summary # NoId /\ gap > 0 =>
               \/ \E i \in 3 .. k + 1 : ByUser(a[i])
               \/ \E i \in 1 .. l : ByUser(b[i])
      <4>1. k >= 2 => k + 1 >= 2
        OBVIOUS
      <4>2. QED
        BY <3>1, <3>2, <3>3, <4>1
    <3>6. Len(display') = k + 1 /\ Len(inflight') = l
      BY <1>8, <1>9, <1>10
    <3>7. QED
      BY <1>10, <3>1, <3>4, <3>5, <3>6 DEF Since
  <2>7. QED
    BY <2>2, <2>3, <2>4, <2>5, <2>6 DEF Remembered
<1>16. QED
  BY <1>13, <1>14, <1>15 DEF Memory

\* Within the budget a digest leaves nothing out.
LEMMA WholeDigest ==
  ASSUME NEW s \in Seq(Event), Len(s) <= TranscriptBudget, NEW x, Stands(x, s)
  PROVE  x \in Digest(s)
<1>1. Len(s) \in Nat /\ TranscriptBudget \in Nat
  BY LenProperties, BoundsAssumption
<1>2. PICK i \in 1 .. Len(s) : x = s[i].id \/ x \in s[i].covers
  BY DEF Stands
<1>3. i > Len(s) - TranscriptBudget
  BY <1>1, <1>2
<1>4. s[i] \in { s[j] : j \in { l \in 1 .. Len(s) : l > Len(s) - TranscriptBudget } }
  BY <1>2, <1>3
<1>5. QED
  BY <1>2, <1>4 DEF Digest, StandsFor

\* The summary goes to the end of the log.
LEMMA SummaryRemembered ==
  ASSUME IInv, Once, Memory, AppendSummary
  PROVE  Memory'
<1>1. PICK n \in Nat : n = Len(log)
  BY Parts
<1>2. PICK e \in Event : e = NewEvent("summary", Digest(job.covered))
  <2>1. Digest(job.covered) \in SUBSET Nat /\ n + 1 \in Nat
    BY Parts, DigestType
  <2>2. NewEvent("summary", Digest(job.covered)) \in Event
    BY <1>1, <2>1 DEF NewEvent, Event, Kinds
  <2>3. QED
    BY <2>2
<1>3. /\ job.stage = "append" /\ log' = Append(log, e)
      /\ marker' = marker /\ gap' = gap /\ minGap' = minGap /\ mishaps' = mishaps
      /\ display' = display /\ inflight' = inflight /\ leftover' = leftover
  BY <1>2 DEF AppendSummary, OnlyJobMoves, turn
<1>a. esc' = esc
  BY DEF AppendSummary, OnlyJobMoves
<1>4. job'.stage = "mark" /\ job'.summary = n + 1 /\ job'.covered = job.covered
  BY <1>1, Parts DEF AppendSummary, Job
<1>5. e.id = n + 1 /\ e.covers = Digest(job.covered)
  BY <1>1, <1>2 DEF NewEvent
<1>6. Len(log') = n + 1 /\ log'[n + 1] = e /\ \A i \in 1 .. n : log'[i] = log[i]
  BY <1>1, <1>3, LongerLog, Parts
<1>7. Len(display) \in Nat /\ Len(inflight) \in Nat /\ MaxEvents \in Nat
      /\ \A i \in 1 .. Len(display) : display[i].id \in 1 .. n
  BY <1>1, Parts, BoundsAssumption
<1>8. n <= MaxEvents
  BY <1>1, <1>3 DEF Memory, JobInOrder
<1>9. InOrder'
  <2>1. Len(display) + Len(inflight) <= n + 1 /\ n + 1 <= MaxEvents + 1
    BY <1>1, <1>7, <1>8 DEF Memory, InOrder
  <2>2. QED
    BY <1>3, <1>6, <2>1 DEF Memory, InOrder
<1>10. JobInOrder'
  <2>1. Len(job.covered) <= TranscriptBudget /\ CutoffAt(display, Len(job.covered))
    BY <1>3 DEF Memory, JobInOrder
  <2>2. \A i \in 1 .. Len(display) : display[i].id < n + 1
    BY <1>7
  <2>3. QED
    BY <1>3, <1>4, <2>1, <2>2 DEF JobInOrder
<1>11. ASSUME Steady' PROVE Remembered'
  <2>1. Remembered
    BY <1>3, <1>11 DEF Memory, Steady, Undisturbed
  <2>2. leftover' = "none" /\ ~ esc'
    BY <1>3, <1>a, <2>1 DEF Remembered
  <2>3. Reachable'
    <3>1. Visible(n + 1)'
      <4>1. marker.coveredThrough \in Nat /\ (marker.summary # NoId => marker.coveredThrough <= n)
        BY <1>1, Parts DEF IInv, Coherent, MarkerNames
      <4>2. QED
        BY <1>3, <4>1 DEF Visible
    <3>2. ASSUME NEW x \in 1 .. n + 1
          PROVE  \E i \in 1 .. n + 1 : Visible(i)' /\ (x = i \/ x \in log'[i].covers)
      <4>1. CASE x = n + 1
        BY <3>1, <4>1
      <4>2. CASE x # n + 1
        <5>1. PICK i \in 1 .. n : Visible(i) /\ (x = i \/ x \in log[i].covers)
          <6>1. Reachable /\ x \in 1 .. Len(log)
            BY <1>1, <2>1, <4>2 DEF Remembered
          <6>2. QED
            BY <1>1, <6>1 DEF Reachable
        <5>2. Visible(i)' /\ i \in 1 .. n + 1
          BY <1>3, <5>1 DEF Visible
        <5>3. QED
          BY <1>6, <5>1, <5>2
      <4>3. QED
        BY <4>1, <4>2
    <3>3. QED
      BY <1>6, <3>2 DEF Reachable
  <2>4. OnHand'
    <3>1. ASSUME NEW x \in 1 .. n + 1, x # n + 1
          PROVE  Stands(x, display) \/ Stands(x, inflight)
      BY <1>1, <1>3, <2>1, <3>1 DEF Remembered, OnHand
    <3>2. QED
      BY <1>3, <1>4, <1>6, <3>1 DEF OnHand
  <2>5. Digested'
    <3>1. \A x \in 1 .. n + 1 : Stands(x, job.covered) => x \in Digest(job.covered)
      <4>1. Len(job.covered) <= TranscriptBudget /\ job.covered \in Seq(Event)
        BY <1>3, Parts DEF Memory, JobInOrder
      <4>2. QED
        BY <4>1, WholeDigest
    <3>2. QED
      BY <1>4, <1>5, <1>6, <3>1 DEF Digested
  <2>6. Since'
    <3>1. marker.summary # NoId =>
            /\ marker.coveredThrough + 1 < marker.summary
            /\ gap > 0 => \E u \in marker.summary + 1 .. n : ByUser(log[u])
            /\ Len(display) >= 2
            /\ gap > 0 => \/ \E j \in 3 .. Len(display) : ByUser(display[j])
                          \/ \E j \in 1 .. Len(inflight) : ByUser(inflight[j])
      BY <1>1, <1>3, <2>1 DEF Remembered, Since
    <3>2. ASSUME marker.summary # NoId, NEW u \in marker.summary + 1 .. n, ByUser(log[u])
          PROVE  u \in marker.summary + 1 .. n + 1 /\ ByUser(log'[u])
      <4>1. marker.summary \in 1 .. n
        BY <1>1, <3>2 DEF IInv, Coherent, MarkerNames
      <4>2. u \in marker.summary + 1 .. n + 1 /\ log'[u] = log[u]
        BY <1>6, <4>1
      <4>3. QED
        BY <3>2, <4>2
    <3>3. marker' = marker /\ gap' = gap /\ display' = display /\ inflight' = inflight
      BY <1>3
    <3>4. QED
      BY <1>4, <1>6, <3>1, <3>2, <3>3 DEF Since
  <2>7. QED
    BY <2>2, <2>3, <2>4, <2>5, <2>6 DEF Remembered
<1>12. QED
  BY <1>9, <1>10, <1>11 DEF Memory

\* The marker hides what the summary stands for, and nothing else: the cut is
\* behind what the last summary was shown before.
LEMMA MarkRemembered ==
  ASSUME IInv, Once, Memory, WriteMarker
  PROVE  Memory'
<1>1. PICK k \in 1 .. Len(display) : k = Len(job.covered) /\ CutoffAt(display, k)
  <2>1. Len(job.covered) \in 1 .. Len(display)
    BY CutDisplay DEF WriteMarker
  <2>2. QED
    BY <2>1 DEF WriteMarker, Memory, JobInOrder
<1>2. PICK d \in Nat : d = Len(display) /\ k \in 1 .. d - 1
  BY <1>1, Parts DEF CutoffAt
<1>3. PICK S \in 1 .. Len(log) : S = job.summary
  BY DEF WriteMarker, IInv, Coherent, JobNames
<1>4. PICK cv \in 1 .. Len(log) : cv = job.covered[k].id /\ cv = display[k].id
  <2>1. job.stage # "none" /\ k \in 1 .. Len(job.covered)
    BY <1>1, <1>2 DEF WriteMarker
  <2>2. display[k] = job.covered[k] /\ display[k].id \in 1 .. Len(log)
    BY <1>1, <2>1, CutDisplay, Parts
  <2>3. QED
    BY <2>2
<1>5. /\ job.stage = "mark" /\ log' = log /\ display' = display /\ inflight' = inflight
      /\ leftover' = leftover /\ mishaps' = mishaps /\ gap' = 0
      /\ inflight = << >> /\ Len(inflight) = 0
  BY CutDisplay DEF WriteMarker, turn
<1>a. esc' = esc
  BY DEF WriteMarker
<1>6. marker'.summary = S /\ marker'.coveredThrough = cv
  BY <1>1, <1>3, <1>4 DEF WriteMarker
<1>7. job'.stage = "ready" /\ job'.covered = job.covered /\ job'.summary = S
  BY <1>3, Parts DEF WriteMarker, Goto, Job
<1>8. cv < S /\ S # NoId /\ Len(log) \in Nat
  BY <1>1, <1>3, <1>4, Parts DEF WriteMarker, IInv, Coherent, MarkReady, NoId
<1>9. \A i \in 1 .. d : display[i].id < S
  BY <1>2, <1>3 DEF WriteMarker, Memory, JobInOrder
<1>10. InOrder'
  BY <1>5, <1>6, <1>8 DEF Memory, InOrder
<1>11. JobInOrder'
  <2>1. Len(job.covered) <= TranscriptBudget /\ CutoffAt(display, Len(job.covered))
    BY <1>5 DEF Memory, JobInOrder
  <2>2. QED
    BY <1>2, <1>5, <1>6, <1>7, <1>9, <2>1 DEF JobInOrder
<1>12. ASSUME Steady' PROVE Remembered'
  <2>1. Steady /\ gap > 0
    BY <1>5, <1>12, Parts DEF Steady, Undisturbed, WriteMarker
  <2>2. Remembered
    BY <2>1 DEF Memory
  <2>3. leftover' = "none" /\ ~ esc'
    BY <1>5, <1>a, <2>2 DEF Remembered
  <2>4. ASSUME NEW i \in k + 1 .. d PROVE display[i].id > cv
    <3>0. /\ i \in 2 .. d /\ k < i /\ display[i].id \in Nat /\ k \in 1 .. d
      BY <1>2, <2>4, Parts
    <3>1. CASE k >= 2
      BY <1>2, <1>4, <3>0, <3>1 DEF Memory, InOrder, Rises
    <3>2. CASE k = 1
      <4>1. marker.summary = NoId
        <5>1. SUFFICES ASSUME marker.summary # NoId PROVE FALSE
          OBVIOUS
        <5>2. \E j \in 3 .. d : ByUser(display[j])
          BY <1>2, <1>5, <2>1, <2>2, <5>1 DEF Remembered, Since
        <5>3. QED
          BY <1>1, <1>2, <3>2, <5>2 DEF CutoffAt
      <4>2. QED
        BY <1>2, <1>4, <3>0, <3>2, <4>1 DEF Memory, InOrder
    <3>3. QED
      BY <1>2, <3>1, <3>2
  <2>5. Reachable'
    <3>1. ASSUME NEW x \in 1 .. Len(log)
          PROVE  \E i \in 1 .. Len(log) : Visible(i)' /\ (x = i \/ x \in log[i].covers)
      <4>1. CASE x = S
        BY <1>6, <4>1 DEF Visible
      <4>2. CASE x # S
        <5>1. PICK j \in 1 .. d : x = display[j].id \/ x \in display[j].covers
          BY <1>2, <1>3, <1>5, <2>2, <4>2 DEF Remembered, OnHand, Stands
        <5>2. CASE j <= k
          <6>1. j \in 1 .. Len(job.covered) /\ display[j] = job.covered[j]
            BY <1>1, <1>2, <1>5, <5>2, CutDisplay
          <6>2. Stands(x, job.covered)
            BY <5>1, <6>1 DEF Stands
          <6>3. x \in log[S].covers
            BY <1>3, <1>5, <2>2, <6>2 DEF Remembered, Digested
          <6>4. QED
            BY <1>6, <6>3 DEF Visible
        <5>3. CASE j > k
          <6>1. PICK i \in 1 .. Len(log) : i = display[j].id /\ display[j] = log[i]
            BY <1>2, Parts
          <6>2. i > cv
            <7>1. j \in k + 1 .. d
              BY <1>2, <5>3
            <7>2. QED
              BY <2>4, <6>1, <7>1
          <6>3. QED
            BY <1>6, <5>1, <6>1, <6>2 DEF Visible
        <5>4. QED
          BY <1>2, <5>2, <5>3
      <4>3. QED
        BY <4>1, <4>2
    <3>2. QED
      BY <1>5, <3>1 DEF Reachable
  <2>6. OnHand'
    BY <1>3, <1>5, <1>7, <2>2 DEF Remembered, OnHand
  <2>7. Digested'
    BY <1>3, <1>5, <1>7, <2>2 DEF Remembered, Digested
  <2>8. Since'
    <3>1. k + 1 \in 1 .. d /\ k + 1 \in k + 1 .. d
      BY <1>2
    <3>2. display[k + 1].id > cv /\ display[k + 1].id < S /\ display[k + 1].id \in Nat
      BY <1>2, <1>9, <2>4, <3>1, Parts
    <3>3. cv + 1 < S
      BY <3>2
    <3>4. QED
      BY <1>5, <1>6, <1>7, <3>3 DEF Since
  <2>9. QED
    BY <2>3, <2>5, <2>6, <2>7, <2>8 DEF Remembered
<1>13. QED
  BY <1>10, <1>11, <1>12 DEF Memory

\* The new display begins with the summary, which stands for what it replaces.
LEMMA HandedOver ==
  ASSUME IInv, Once, Memory, HandleSummary
  PROVE  Memory'
<1>d. display' = << log[job.summary] >> \o job.tail
  BY DEF HandleSummary
<1>1. /\ job.stage = "ready" /\ job' = NoJob
      /\ log' = log /\ marker' = marker /\ gap' = gap /\ minGap' = minGap /\ mishaps' = mishaps
      /\ leftover' = leftover
  BY DEF HandleSummary, disk, hist
<1>a. ~ esc'
  BY DEF HandleSummary, StartStream
<1>2. inflight' = << >> /\ Len(inflight') = 0
  <2>1. inflight = << >>
    BY <1>1, CutDisplay
  <2>2. inflight' = << >>
    BY <2>1 DEF HandleSummary, StartStream
  <2>3. QED
    BY <2>2
<1>3. job'.stage = "none"
  BY <1>1 DEF NoJob
<1>4. PICK S \in 1 .. Len(log) : S = job.summary
  BY <1>1 DEF IInv, Coherent, JobNames
<1>5. marker.summary = S /\ marker.summary # NoId /\ Len(log) \in Nat
  BY <1>1, <1>4, Parts DEF Memory, JobInOrder, NoId
<1>6. PICK b \in Seq(Event) : b = job.tail
  BY Parts
<1>7. PICK s \in Seq(Event) : s = log
  BY Parts
<1>8. PICK h \in Seq(Event) : h = << s[S] >>
  BY <1>4, <1>7, SingletonWithin
<1>9. PICK v : v = h \o b
  OBVIOUS
<1>10. display' = v
  BY <1>d, <1>4, <1>6, <1>7, <1>8, <1>9
<1>11. Len(h) = 1 /\ h[1] = log[S]
  BY <1>7, <1>8
<1>12. /\ Len(b) \in Nat /\ Len(v) = Len(h) + Len(b)
       /\ \A i \in 1 .. Len(h) : i \in 1 .. Len(v) /\ v[i] = h[i]
       /\ \A i \in 1 .. Len(b) : Len(h) + i \in 1 .. Len(v) /\ v[Len(h) + i] = b[i]
  BY <1>9, Joined
<1>13. PICK l \in Nat : l = Len(b)
  BY <1>12
<1>14. /\ Len(v) = l + 1 /\ v[1] = log[S]
       /\ \A i \in 1 .. l : v[1 + i] = b[i]
  BY <1>11, <1>12, <1>13
<1>15. PICK k \in Nat : k = Len(job.covered)
  BY Parts
<1>16. /\ Len(display) = k + l /\ k >= 1 /\ Len(display) \in Nat
       /\ \A i \in 1 .. k : display[i] = job.covered[i]
       /\ \A i \in 1 .. l : display[k + i] = b[i]
  <2>1. /\ Len(job.covered) \in 1 .. Len(display)
        /\ Len(display) = Len(job.covered) + Len(job.tail)
        /\ \A i \in 1 .. Len(job.covered) : display[i] = job.covered[i]
        /\ \A i \in 1 .. Len(job.tail) : display[Len(job.covered) + i] = job.tail[i]
    BY <1>1, CutDisplay
  <2>a. Len(display) \in Nat
    BY Parts
  <2>2. k >= 1 /\ Len(display) = k + l
    BY <1>6, <1>13, <1>15, <2>1
  <2>3. \A i \in 1 .. l : display[k + i] = b[i]
    BY <1>6, <1>13, <1>15, <2>1
  <2>b. \A i \in 1 .. k : display[i] = job.covered[i]
    BY <1>15, <2>1
  <2>4. QED
    BY <2>2, <2>3, <2>a, <2>b
<1>e. \A i \in 1 .. l : v[1 + i] = display[k + i]
  BY <1>14, <1>16
<1>17. l >= 1
  <2>1. CutoffAt(display, k)
    BY <1>1, <1>15 DEF Memory, JobInOrder
  <2>2. k \in 1 .. k + l - 1
    BY <1>16, <2>1 DEF CutoffAt
  <2>3. QED
    BY <2>2
<1>18. InOrder'
  <2>1. ASSUME NEW i \in 2 .. l + 1, NEW j \in 2 .. l + 1, i < j PROVE v[i].id < v[j].id
    <3>1. PICK x \in 1 .. l : x = i - 1
      OBVIOUS
    <3>2. PICK y \in 1 .. l : y = j - 1
      OBVIOUS
    <3>b. 1 + x = i /\ 1 + y = j
      BY <3>1, <3>2
    <3>c. v[1 + x] = display[k + x] /\ v[1 + y] = display[k + y]
      BY <1>e
    <3>a. v[i] = display[k + x] /\ v[j] = display[k + y]
      BY <3>b, <3>c
    <3>3. k + x \in 2 .. Len(display) /\ k + y \in 2 .. Len(display) /\ k + x < k + y
      BY <1>16, <2>1, <3>1, <3>2
    <3>4. display[k + x].id < display[k + y].id
      BY <3>3 DEF Memory, InOrder, Rises
    <3>5. QED
      BY <3>a, <3>4
  <2>2. l + 1 <= Len(log) /\ Len(log) <= MaxEvents + 1
    <3>1. k + l <= Len(log) /\ Len(log) <= MaxEvents + 1
      BY <1>1, <1>16, CutDisplay, Parts DEF Memory, InOrder
    <3>2. QED
      BY <1>5, <1>16, <3>1
  <2>3. Rises(v, 2) /\ Rises(inflight', 1)
    BY <1>2, <1>14, <2>1 DEF Rises
  <2>4. marker.coveredThrough < marker.summary
    BY <1>5 DEF Memory, InOrder
  <2>5. Len(display') + Len(inflight') <= Len(log)
    BY <1>2, <1>10, <1>14, <2>2
  <2>6. \A i \in 1 .. Len(display'), j \in 1 .. Len(inflight') : display'[i].id < inflight'[j].id
    BY <1>2
  <2>7. marker'.summary # NoId /\ marker'.coveredThrough < marker'.summary
    BY <1>1, <1>5, <2>4
  <2>8. Rises(display', 2) /\ Len(log') = Len(log)
    BY <1>1, <1>10, <2>3
  <2>9. QED
    BY <2>2, <2>3, <2>5, <2>6, <2>7, <2>8 DEF InOrder
<1>19. JobInOrder'
  BY <1>3 DEF JobInOrder
<1>20. ASSUME Steady' PROVE Remembered'
  <2>1. Remembered
    BY <1>1, <1>20 DEF Memory, Steady, Undisturbed
  <2>2. leftover' = "none" /\ ~ esc'
    BY <1>1, <1>a, <2>1 DEF Remembered
  <2>3. Reachable'
    BY <1>1, <2>1 DEF Remembered, Reachable, Visible
  <2>4. OnHand'
    <3>1. ASSUME NEW x \in 1 .. Len(log) PROVE Stands(x, v)
      <4>1. CASE x = S
        <5>1. v[1].id = x
          BY <1>14, <4>1, Parts
        <5>2. QED
          BY <1>14, <5>1 DEF Stands
      <4>2. CASE x # S
        <5>1. Stands(x, display)
          <6>1. ~ Stands(x, inflight)
            BY <1>1, CutDisplay DEF Stands
          <6>2. QED
            BY <1>4, <2>1, <4>2, <6>1 DEF Remembered, OnHand
        <5>2. PICK i \in 1 .. k + l : x = display[i].id \/ x \in display[i].covers
          BY <1>16, <5>1 DEF Stands
        <5>3. CASE i <= k
          <6>1. i \in 1 .. k /\ display[i] = job.covered[i]
            BY <1>16, <5>3
          <6>2. Stands(x, job.covered)
            BY <1>15, <5>2, <6>1 DEF Stands
          <6>3. x \in v[1].covers
            BY <1>1, <1>4, <1>14, <2>1, <6>2 DEF Remembered, Digested
          <6>4. QED
            BY <1>14, <6>3 DEF Stands
        <5>4. CASE i > k
          <6>1. PICK y \in 1 .. l : y = i - k /\ k + y = i
            BY <1>16, <5>4
          <6>2. v[1 + y] = display[i] /\ 1 + y \in 1 .. l + 1
            <7>1. v[1 + y] = display[k + y]
              BY <1>e
            <7>2. QED
              BY <6>1, <7>1
          <6>3. QED
            BY <1>14, <5>2, <6>2 DEF Stands
        <5>5. QED
          BY <1>16, <5>3, <5>4
      <4>3. QED
        BY <4>1, <4>2
    <3>2. QED
      BY <1>1, <1>10, <3>1 DEF OnHand
  <2>5. Digested'
    BY <1>3 DEF Digested
  <2>6. Since'
    <3>1. gap = 0 /\ marker.coveredThrough + 1 < marker.summary
      BY <1>1, <1>5, <2>1 DEF Remembered, Since
    <3>2. Len(display') >= 2
      BY <1>10, <1>14, <1>17
    <3>3. ~ (gap' > 0) /\ marker' = marker
      BY <1>1, <3>1
    <3>4. QED
      BY <1>3, <3>1, <3>2, <3>3 DEF Since
  <2>7. QED
    BY <2>2, <2>3, <2>4, <2>5, <2>6 DEF Remembered
<1>21. QED
  BY <1>18, <1>19, <1>20 DEF Memory

\* What the model sees, when the history limit does not bite.
LEMMA WholeView ==
  ASSUME IInv, Memory, Ample
  PROVE  ModelView = FullView /\ (marker.summary = NoId => FullView = log)
<1>1. marker.summary = NoId => FullView = log
  BY DEF FullView, ApplyCompaction, Applies
<1>2. Len(FullView) <= Len(log) /\ Len(FullView) \in Nat /\ Len(log) <= MaxEvents + 1
  <2>1. Len(log) \in Nat /\ Len(log) <= MaxEvents + 1
    BY Parts DEF Memory, InOrder
  <2>2. CASE marker.summary = NoId
    BY <1>1, <2>1, <2>2
  <2>3. CASE marker.summary # NoId
    <3>1. marker.coveredThrough < marker.summary
      BY <2>3 DEF Memory, InOrder
    <3>2. Len(FullView) = Len(log) - marker.coveredThrough /\ marker.coveredThrough \in 1 .. Len(log)
      BY <2>3, <3>1, ViewShape
    <3>3. QED
      BY <2>1, <3>2
  <2>4. QED
    BY <2>2, <2>3
<1>3. ~ (HistoryLimit > 0 /\ Len(FullView) > HistoryLimit)
  BY <1>2, BoundsAssumption DEF Ample
<1>4. QED
  BY <1>1, <1>3 DEF ModelView, ViewOf, FullView, Cap

\* Coming back to the session shows all that the marker leaves of the log.
LEMMA ViewRemembered ==
  ASSUME IInv, Memory, Ample, display' = ModelView, inflight' = << >>, job'.stage = "none",
         log' = log, marker' = marker, gap' = gap, minGap' = minGap,
         mishaps' = {} => /\ mishaps = {} /\ leftover' = leftover /\ (esc' => esc)
  PROVE  Memory'
<1>1. PICK n \in Nat : n = Len(log) /\ n <= MaxEvents + 1
  BY Parts DEF Memory, InOrder
<1>2. PICK v \in Seq(Event) : v = FullView
  BY ViewShape, WholeView, Parts DEF Memory, InOrder
<1>3. display' = v /\ Len(inflight') = 0
  BY <1>2, WholeView
<1>4. \A i \in 1 .. n : log[i].id = i
  BY <1>1, Parts
<1>5. ASSUME marker.summary = NoId PROVE v = log /\ Len(v) = n
  BY <1>1, <1>2, <1>5, WholeView
<1>6. marker.summary # NoId => marker.coveredThrough < marker.summary
  BY DEF Memory, InOrder
<1>7. PICK sm \in Nat : sm = marker.summary
  BY Parts
<1>8. PICK cv \in Nat : cv = marker.coveredThrough
  BY Parts
<1>9. ASSUME marker.summary # NoId
      PROVE  /\ sm \in 1 .. n /\ cv \in 1 .. n /\ cv < sm
             /\ Len(v) = n - cv
             /\ v[1] = log[sm]
             /\ \A j \in 2 .. sm - cv : v[j] = log[cv + j - 1] /\ v[j].id = cv + j - 1
             /\ \A j \in sm - cv + 1 .. n - cv : v[j] = log[cv + j] /\ v[j].id = cv + j
  <2>1. /\ sm \in 1 .. n /\ cv \in 1 .. n /\ cv < sm
        /\ Len(v) = n - cv
        /\ v[1] = log[sm]
        /\ \A j \in 2 .. sm - cv : v[j] = log[cv + j - 1]
        /\ \A j \in sm - cv + 1 .. n - cv : v[j] = log[cv + j]
    BY <1>1, <1>2, <1>6, <1>7, <1>8, <1>9, ViewShape
  <2>2. /\ \A j \in 2 .. sm - cv : cv + j - 1 \in 1 .. n
        /\ \A j \in sm - cv + 1 .. n - cv : cv + j \in 1 .. n
    BY <2>1
  <2>3. QED
    BY <1>4, <2>1, <2>2
<1>10. InOrder'
  <2>1. ASSUME NEW i \in 2 .. Len(v), NEW j \in 2 .. Len(v), i < j PROVE v[i].id < v[j].id
    <3>1. CASE marker.summary = NoId
      <4>1. i \in 1 .. n /\ j \in 1 .. n
        BY <1>5, <2>1, <3>1
      <4>2. v[i].id = i /\ v[j].id = j
        BY <1>4, <1>5, <3>1, <4>1
      <4>3. QED
        BY <2>1, <4>2
    <3>2. CASE marker.summary # NoId
      <4>1. sm \in Nat /\ cv \in Nat /\ cv < sm /\ Len(v) = n - cv
        BY <1>9, <3>2
      <4>2. ASSUME NEW q \in 2 .. Len(v)
            PROVE  v[q].id = IF q <= sm - cv THEN cv + q - 1 ELSE cv + q
        <5>1. q \in 2 .. sm - cv \/ (q \in sm - cv + 1 .. n - cv /\ ~ (q <= sm - cv))
          BY <4>1
        <5>2. QED
          BY <1>9, <3>2, <5>1
      <4>3. v[i].id = IF i <= sm - cv THEN cv + i - 1 ELSE cv + i
        BY <4>2
      <4>4. v[j].id = IF j <= sm - cv THEN cv + j - 1 ELSE cv + j
        BY <4>2
      <4>5. i \in Nat /\ j \in Nat
        BY <4>1
      <4>6. QED
        BY <2>1, <4>1, <4>3, <4>4, <4>5
    <3>3. QED
      BY <3>1, <3>2
  <2>2. ASSUME marker.summary = NoId, NEW j \in 2 .. Len(v) PROVE v[1].id < v[j].id
    <3>1. 1 \in 1 .. n /\ j \in 1 .. n
      BY <1>5, <2>2
    <3>2. v[1].id = 1 /\ v[j].id = j
      BY <1>4, <1>5, <2>2, <3>1
    <3>3. QED
      BY <3>2
  <2>3. Len(v) <= n /\ Len(v) \in Nat
    BY <1>5, <1>9
  <2>4. Rises(v, 2) /\ Rises(inflight', 1)
    BY <1>3, <2>1 DEF Rises
  <2>5. Len(display') + Len(inflight') <= Len(log)
    BY <1>1, <1>3, <2>3
  <2>6. QED
    BY <1>1, <1>3, <1>6, <2>2, <2>4, <2>5 DEF InOrder
<1>11. JobInOrder'
  BY DEF JobInOrder
<1>12. ASSUME Steady' PROVE Remembered'
  <2>1. Remembered
    BY <1>12 DEF Memory, Steady, Undisturbed
  <2>2. leftover' = "none" /\ ~ esc'
    <3>1. mishaps' = {}
      BY <1>12 DEF Steady, Undisturbed
    <3>2. leftover' = leftover
      BY <3>1
    <3>3. esc' => esc
      BY <3>1
    <3>4. ~ esc'
      BY <2>1, <3>3 DEF Remembered
    <3>5. QED
      BY <2>1, <3>2, <3>4 DEF Remembered
  <2>3. Reachable'
    BY <2>1 DEF Remembered, Reachable, Visible
  <2>4. OnHand'
    <3>1. ASSUME NEW i \in 1 .. n, Visible(i) PROVE \E j \in 1 .. Len(v) : v[j] = log[i]
      <4>1. CASE marker.summary = NoId
        BY <1>5, <4>1
      <4>2. CASE marker.summary # NoId
        <5>1. CASE i = sm
          <6>1. 1 \in 1 .. Len(v) /\ v[1] = log[i]
            BY <1>9, <4>2, <5>1
          <6>2. QED
            BY <6>1
        <5>2. CASE i > cv /\ i < sm
          <6>1. PICK j \in 2 .. sm - cv : j = i - cv + 1 /\ cv + j - 1 = i
            BY <1>9, <4>2, <5>2
          <6>2. j \in 1 .. Len(v) /\ v[j] = log[i]
            BY <1>9, <4>2, <6>1
          <6>3. QED
            BY <6>2
        <5>3. CASE i > sm
          <6>1. PICK j \in sm - cv + 1 .. n - cv : j = i - cv /\ cv + j = i
            BY <1>9, <4>2, <5>3
          <6>2. j \in 1 .. Len(v) /\ v[j] = log[i]
            BY <1>9, <4>2, <6>1
          <6>3. QED
            BY <6>2
        <5>4. i = sm \/ i > cv
          BY <1>7, <1>8, <3>1, <4>2 DEF Visible
        <5>5. QED
          BY <1>9, <4>2, <5>1, <5>2, <5>3, <5>4
      <4>3. QED
        BY <4>1, <4>2
    <3>2. ASSUME NEW x \in 1 .. n PROVE Stands(x, v)
      <4>1. Reachable /\ x \in 1 .. Len(log)
        BY <1>1, <2>1 DEF Remembered
      <4>2. PICK i \in 1 .. n : Visible(i) /\ (x = i \/ x \in log[i].covers)
        BY <1>1, <4>1 DEF Reachable
      <4>3. PICK j \in 1 .. Len(v) : v[j] = log[i]
        BY <3>1, <4>2
      <4>4. x = v[j].id \/ x \in v[j].covers
        BY <1>4, <4>2, <4>3
      <4>5. QED
        BY <4>4 DEF Stands
    <3>3. QED
      BY <1>1, <1>3, <3>2 DEF OnHand
  <2>5. Digested'
    BY DEF Digested
  <2>6. Since'
    <3>1. ASSUME marker.summary # NoId
          PROVE  /\ cv + 1 < sm /\ Len(v) >= 2
                 /\ gap > 0 => /\ \E u \in sm + 1 .. n : ByUser(log[u])
                               /\ \E j \in 3 .. Len(v) : ByUser(v[j])
      <4>1. cv + 1 < sm
        BY <1>7, <1>8, <2>1, <3>1 DEF Remembered, Since
      <4>2. Len(v) >= 2
        BY <1>9, <3>1, <4>1
      <4>3. ASSUME gap > 0
            PROVE  /\ \E u \in sm + 1 .. n : ByUser(log[u])
                   /\ \E j \in 3 .. Len(v) : ByUser(v[j])
        <5>1. PICK u \in sm + 1 .. n : ByUser(log[u])
          BY <1>1, <1>7, <2>1, <3>1, <4>3 DEF Remembered, Since
        <5>2. PICK j \in sm - cv + 1 .. n - cv : j = u - cv /\ cv + j = u
          BY <1>9, <3>1, <5>1
        <5>3. j \in 3 .. Len(v) /\ v[j] = log[u]
          BY <1>9, <3>1, <4>1, <5>2
        <5>4. QED
          BY <5>1, <5>3
      <4>4. QED
        BY <4>1, <4>2, <4>3
    <3>2. QED
      BY <1>1, <1>3, <1>7, <1>8, <3>1 DEF Since
  <2>7. QED
    BY <2>2, <2>3, <2>4, <2>5, <2>6 DEF Remembered
<1>13. QED
  BY <1>10, <1>11, <1>12 DEF Memory

-----------------------------------------------------------------------------
LEMMA MemoryInit == Init => Memory
<1>1. SUFFICES ASSUME Init PROVE Memory
  OBVIOUS
<1>2. /\ log = << >> /\ display = << >> /\ inflight = << >> /\ marker.summary = NoId
      /\ job.stage = "none" /\ leftover = "none"
  BY <1>1 DEF Init, NoMarker, NoJob
<1>3. ~ esc
  BY <1>1 DEF Init
<1>4. Len(log) = 0 /\ Len(display) = 0 /\ Len(inflight) = 0 /\ 0 <= MaxEvents + 1
  BY <1>2, BoundsAssumption
<1>5. InOrder
  BY <1>2, <1>4 DEF InOrder, Rises
<1>6. JobInOrder
  BY <1>2 DEF JobInOrder
<1>7. Remembered
  BY <1>2, <1>3, <1>4 DEF Remembered, Reachable, OnHand, Digested, Since
<1>8. QED
  BY <1>5, <1>6, <1>7 DEF Memory

\* Esc was pressed, and what was on its way is dropped.
LEMMA DroppedForgets ==
  ASSUME IInv, Once, Memory, CancelledTurnEnds
  PROVE  Memory'
<1>1. /\ log' = log /\ marker' = marker /\ display' = display /\ job' = job /\ mishaps' = mishaps
      /\ minGap' = minGap /\ inflight' = << >>
  BY DEF CancelledTurnEnds, disk, hist
<1>2. Len(inflight') = 0 /\ Len(display) \in Nat /\ Len(inflight) \in Nat /\ Len(log) \in Nat
  BY <1>1, Parts
<1>3. Len(display) + 0 <= Len(log)
  BY <1>2 DEF Memory, InOrder
<1>4. InOrder'
  BY <1>1, <1>2, <1>3 DEF Memory, InOrder, Rises
<1>5. JobInOrder'
  BY <1>1 DEF Memory, JobInOrder
<1>6. ~ Steady
  BY DEF CancelledTurnEnds, Memory, Remembered
<1>7. ~ Steady'
  BY <1>1, <1>6 DEF Steady, Undisturbed
<1>8. QED
  BY <1>4, <1>5, <1>7 DEF Memory

LEMMA MemoryKept ==
  ASSUME Ample, IInv, Once, Memory, [Next]_vars
  PROVE  Memory'
<1>a. phase # "compressing" => job.stage = "none"
  BY DEF Once
<1>b. phase # "streaming" => inflight = << >>
  BY DEF Once
<1>c. job.stage # "none" =>
        Len(job.covered) <= TranscriptBudget /\ CutoffAt(display, Len(job.covered))
  BY DEF Memory, JobInOrder
<1>d. job.stage \in {"summarize", "append"} => Len(log) <= MaxEvents
  BY DEF Memory, JobInOrder
<1>e. ASSUME NEW content, StartStream(content), inflight = << >>, job' = job,
             log' = log, marker' = marker, display' = display, gap' = gap, minGap' = minGap,
             mishaps' = mishaps, leftover' = leftover
      PROVE  Memory'
  <2>1. inflight' = inflight
    BY <1>e DEF StartStream
  <2>2. esc' => esc
    BY <1>e DEF StartStream
  <2>3. QED
    BY <1>c, <1>d, <1>e, <2>1, <2>2, Stays
<1>1. CASE SendPrompt
  <2>1. /\ phase = "idle" /\ Room /\ leftover' = leftover
        /\ log' = log /\ marker' = marker /\ display' = display /\ gap' = gap /\ minGap' = minGap
        /\ mishaps' = mishaps
    BY <1>1 DEF SendPrompt, disk, hist
  <2>2. CASE StartStream("prompt") /\ job' = job
    BY <1>b, <1>e, <2>1, <2>2
  <2>3. CASE StartCompression(TRUE, TRUE) /\ UNCHANGED << run, inflight, asked, failed >>
    BY <1>a, <2>1, <2>3, MemoryStarts
  <2>4. QED
    BY <1>1, <2>2, <2>3 DEF SendPrompt
<1>2. CASE CompressCommand
  <2>1. /\ phase = "idle" /\ Room /\ leftover' = leftover /\ StartCompression(FALSE, FALSE)
        /\ log' = log /\ marker' = marker /\ display' = display /\ gap' = gap /\ minGap' = minGap
        /\ mishaps' = mishaps /\ inflight' = inflight
    BY <1>2 DEF CompressCommand, disk, hist, turn
  <2>2. QED
    BY <1>a, <2>1, MemoryStarts
<1>3. CASE AnswerConfirmation
  <2>1. /\ phase = "confirming" /\ leftover' = leftover /\ StartStream("answer") /\ job' = job
        /\ log' = log /\ marker' = marker /\ display' = display /\ gap' = gap /\ minGap' = minGap
        /\ mishaps' = mishaps
    BY <1>3 DEF AnswerConfirmation, disk, hist
  <2>2. QED
    BY <1>b, <1>e, <2>1
<1>4. CASE RunAppends
  <2>1. PICK kind \in Kinds :
          /\ log' = Append(log, NewEvent(kind, {}))
          /\ inflight' = Append(inflight, NewEvent(kind, {}))
          /\ marker' = marker /\ display' = display /\ minGap' = minGap /\ mishaps' = mishaps
          /\ leftover' = leftover /\ job' = job /\ phase = "streaming" /\ Room
          /\ gap' = IF kind \in UserKinds /\ gap < 2 THEN gap + 1 ELSE gap
    BY <1>4 DEF RunAppends, AppendedBy
  <2>2. esc' = esc
    BY <1>4 DEF RunAppends
  <2>3. PICK e \in Event : e = NewEvent(kind, {}) /\ e.id = Len(log) + 1 /\ e.kind = kind
    <3>1. NewEvent(kind, {}) \in Event
      BY <2>1, LogGrows
    <3>2. QED
      BY <3>1 DEF NewEvent
  <2>4. gap' > 0 => gap > 0 \/ ByUser(e)
    BY <2>1, <2>3 DEF ByUser
  <2>5. Len(log) < MaxEvents /\ job.stage = "none"
    BY <1>a, <2>1 DEF Room
  <2>6. log' = Append(log, e) /\ inflight' = Append(inflight, e)
    BY <2>1, <2>3
  <2>7. QED
    BY <2>1, <2>2, <2>3, <2>4, <2>5, <2>6, RunRemembers
<1>5. CASE HandleEvent
  BY <1>5, ShownRemembered
<1>6. CASE FinishTurn
  <2>1. /\ phase = "streaming" /\ leftover' = leftover
        /\ log' = log /\ marker' = marker /\ display' = display /\ gap' = gap /\ minGap' = minGap
        /\ mishaps' = mishaps /\ inflight' = inflight
    BY <1>6 DEF FinishTurn, disk, hist
  <2>2. CASE UNCHANGED << esc, job >>
    <3>1. job' = job /\ (esc' => esc)
      BY <2>2
    <3>2. QED
      BY <1>c, <1>d, <2>1, <3>1, Stays
  <2>3. ASSUME NEW queued \in BOOLEAN, StartCompression(TRUE, queued), Room PROVE Memory'
    BY <1>a, <2>1, <2>3, MemoryStarts
  <2>4. QED
    BY <1>6, <2>2, <2>3 DEF FinishTurn
<1>7. CASE CancelledTurnEnds
  BY <1>7, DroppedForgets
<1>8. CASE CancelTurn \/ CancelCompression \/ RunFails \/ LeftoverReturns \/ UNCHANGED vars
  <2>1. /\ log' = log /\ marker' = marker /\ display' = display /\ gap' = gap /\ minGap' = minGap
        /\ inflight' = inflight /\ job' = job
        /\ leftover' \in {leftover, "none"}
    BY <1>8 DEF CancelTurn, CancelCompression, RunFails, LeftoverReturns, vars, disk, hist, turn
  <2>2. mishaps' = {} => mishaps = {} /\ (esc' => esc)
    BY <1>8 DEF CancelTurn, CancelCompression, RunFails, LeftoverReturns, vars, hist, Noted
  <2>3. QED
    BY <1>c, <1>d, <2>1, <2>2, Stays
<1>9. CASE LeftoverAppends
  BY <1>9, LeftoverForgets
<1>10. CASE Summarize \/ CompactFails
  <2>1. /\ log' = log /\ marker' = marker /\ display' = display /\ gap' = gap /\ minGap' = minGap
        /\ inflight' = inflight /\ leftover' = leftover
    BY <1>10 DEF Summarize, CompactFails, OnlyJobMoves, disk, turn
  <2>a. esc' = esc
    BY <1>10 DEF Summarize, CompactFails, OnlyJobMoves
  <2>2. PICK stage \in {"append", "failed", "aborted"} :
          /\ Goto(stage) /\ job.stage \in {"summarize", "append", "mark"}
          /\ stage = "append" => job.stage = "summarize"
    BY <1>10 DEF Summarize, CompactFails
  <2>3. job'.stage = stage /\ job'.covered = job.covered
    BY <2>2, Parts DEF Goto, Job
  <2>4. mishaps' = {} => mishaps = {} /\ job.stage = "summarize"
    BY <1>10 DEF Summarize, CompactFails, Noted
  <2>5. QED
    BY <1>c, <1>d, <2>1, <2>2, <2>3, <2>4, <2>a, Stays
<1>11. CASE AppendSummary
  BY <1>11, SummaryRemembered
<1>12. CASE WriteMarker
  BY <1>12, MarkRemembered
<1>13. CASE HandleSummary
  BY <1>13, HandedOver
<1>14. CASE HandleNoSummary
  <2>1. /\ log' = log /\ marker' = marker /\ display' = display /\ gap' = gap /\ minGap' = minGap
        /\ inflight' = inflight /\ leftover' = leftover /\ mishaps' = mishaps
    BY <1>14 DEF HandleNoSummary, disk, hist, turn
  <2>2. ~ esc'
    BY <1>14 DEF HandleNoSummary
  <2>3. job'.stage = "none"
    BY <1>14 DEF HandleNoSummary, NoJob
  <2>4. CASE job.stage \in {"failed", "aborted"}
    BY <2>1, <2>2, <2>3, <2>4, Stays
  <2>5. CASE esc
    <3>1. ~ Steady
      BY <2>5 DEF Memory, Remembered
    <3>2. ~ Steady'
      BY <2>1, <3>1 DEF Steady, Undisturbed
    <3>3. InOrder'
      BY <2>1 DEF Memory, InOrder
    <3>4. JobInOrder'
      BY <2>3 DEF JobInOrder
    <3>5. QED
      BY <3>2, <3>3, <3>4 DEF Memory
  <2>6. QED
    BY <1>14, <2>4, <2>5 DEF HandleNoSummary
<1>15. CASE Resume
  <2>1. /\ log' = log /\ marker' = marker /\ gap' = gap /\ minGap' = minGap
        /\ leftover' = leftover /\ mishaps' = mishaps /\ display' = ModelView
        /\ inflight' = << >> /\ job' = job /\ job.stage = "none"
    BY <1>15, <1>a, <1>b DEF Resume, disk, hist, turn
  <2>2. esc' = esc
    BY <1>15 DEF Resume
  <2>3. QED
    BY <2>1, <2>2, ViewRemembered
<1>16. CASE Restart
  <2>1. /\ log' = log /\ marker' = marker /\ gap' = gap /\ minGap' = minGap
        /\ mishaps' # {} /\ display' = ModelView /\ inflight' = << >> /\ job'.stage = "none"
    BY <1>16 DEF Restart, disk, Noted, NoJob
  <2>2. QED
    BY <2>1, ViewRemembered
<1>17. QED
  BY <1>1, <1>2, <1>3, <1>4, <1>5, <1>6, <1>7, <1>8, <1>9, <1>10, <1>11, <1>12, <1>13, <1>14,
     <1>15, <1>16 DEF Next, TurnStep, JobStep, HandleResult

\* What the marker does not hide is before the model.
LEMMA VisibleIsSeen ==
  ASSUME IInv, marker.summary # NoId => marker.coveredThrough < marker.summary,
         NEW i \in 1 .. Len(log), Visible(i)
  PROVE  \E j \in 1 .. Len(FullView) : FullView[j] = log[i]
<1>1. PICK n \in Nat : n = Len(log)
  BY Parts
<1>2. CASE marker.summary = NoId
  <2>1. FullView = log
    BY <1>2 DEF FullView, ApplyCompaction, Applies
  <2>2. QED
    BY <2>1
<1>3. CASE marker.summary # NoId
  <2>1. PICK sm \in 1 .. n : sm = marker.summary
    BY <1>1, <1>3, ViewShape
  <2>2. PICK cv \in 1 .. n : cv = marker.coveredThrough
    BY <1>1, <1>3, ViewShape
  <2>3. /\ cv < sm
        /\ Len(FullView) = n - cv
        /\ FullView[1] = log[sm]
        /\ \A j \in 2 .. sm - cv : FullView[j] = log[cv + j - 1]
        /\ \A j \in sm - cv + 1 .. n - cv : FullView[j] = log[cv + j]
    BY <1>1, <1>3, <2>1, <2>2, ViewShape
  <2>4. CASE i = sm
    <3>1. 1 \in 1 .. Len(FullView) /\ FullView[1] = log[i]
      BY <2>3, <2>4
    <3>2. QED
      BY <3>1
  <2>5. CASE i > cv /\ i < sm
    <3>1. PICK j \in 2 .. sm - cv : j = i - cv + 1
      BY <2>3, <2>5
    <3>2. j \in 1 .. Len(FullView) /\ cv + j - 1 = i
      BY <2>3, <3>1
    <3>3. FullView[j] = log[i]
      BY <2>3, <3>2
    <3>4. QED
      BY <3>2, <3>3
  <2>6. CASE i > sm
    <3>1. PICK j \in sm - cv + 1 .. n - cv : j = i - cv
      BY <1>1, <2>3, <2>6
    <3>2. j \in 1 .. Len(FullView) /\ cv + j = i
      BY <2>3, <3>1
    <3>3. FullView[j] = log[i]
      BY <2>3, <3>2
    <3>4. QED
      BY <3>2, <3>3
  <2>7. i = sm \/ i > cv
    BY <1>3, <2>1, <2>2 DEF Visible
  <2>8. QED
    BY <2>3, <2>4, <2>5, <2>6, <2>7
<1>4. QED
  BY <1>2, <1>3

LEMMA MemorySuffices == IInv /\ Memory => NothingForgotten
<1>1. SUFFICES ASSUME IInv, Memory, Steady
               PROVE  Ids(log) \subseteq StandsFor({ FullView[i] : i \in 1 .. Len(FullView) })
  BY DEF NothingForgotten, Steady
<1>2. PICK n \in Nat : n = Len(log)
  BY <1>1, Parts
<1>3. ASSUME NEW x \in Ids(log) PROVE x \in 1 .. n
  BY <1>1, <1>2, <1>3, Parts DEF Ids
<1>4. ASSUME NEW i \in 1 .. n, Visible(i) PROVE \E j \in 1 .. Len(FullView) : FullView[j] = log[i]
  BY <1>1, <1>2, <1>4, VisibleIsSeen DEF Memory, InOrder
<1>5. ASSUME NEW x \in 1 .. n
      PROVE  x \in StandsFor({ FullView[i] : i \in 1 .. Len(FullView) })
  <2>1. Reachable /\ x \in 1 .. Len(log)
    BY <1>1, <1>2 DEF Memory, Remembered
  <2>2. PICK i \in 1 .. n : Visible(i) /\ (x = i \/ x \in log[i].covers)
    BY <1>2, <2>1 DEF Reachable
  <2>3. PICK j \in 1 .. Len(FullView) : FullView[j] = log[i]
    BY <1>4, <2>2
  <2>4. x = FullView[j].id \/ x \in FullView[j].covers
    BY <1>1, <1>2, <2>2, <2>3, Parts
  <2>5. FullView[j] \in { FullView[l] : l \in 1 .. Len(FullView) }
    OBVIOUS
  <2>6. QED
    BY <2>4, <2>5 DEF StandsFor
<1>6. QED
  BY <1>3, <1>5

\* As long as neither the history limit nor the summariser's budget bites, every
\* event of the log is before the model, itself or in a digest that is, however
\* many compressions there were, if nothing was interrupted and each came after a
\* new user event.
\* About PickCutoff, Transcript, Compact, applyCompaction and handleCompressResult.
THEOREM NothingLost ==
  ASSUME Ample
  PROVE  Spec => []NothingForgotten
<1>1. IInv /\ Once /\ Memory /\ [Next]_vars => Memory'
  BY MemoryKept
<1>2. QED
  BY <1>1, Invariant, AlwaysOnce, MemoryInit, MemorySuffices, PTL DEF Spec

-----------------------------------------------------------------------------
(***************************************************************************)
(* Calls and their results stay together.  As long as no turn is cut short *)
(* a result comes right after its call, in the log and on screen; and no   *)
(* cut falls between them, since what follows a cut is by the user.        *)
(***************************************************************************)

\* Whatever goes wrong, a marker names a summary and an event before it, and a
\* compression under way cuts the display where PickCutoff cuts.
Cuts ==
  /\ marker.summary # NoId => /\ marker.coveredThrough < marker.summary
                              /\ log[marker.summary].kind = "summary"
  /\ job.stage \in {"mark", "ready"} => log[job.summary].kind = "summary"
  /\ job.stage # "none" => CutoffAt(display, Len(job.covered))

\* No step rewrites the log.
LEMMA LogKept ==
  ASSUME IInv, [Next]_vars
  PROVE  /\ Len(log) \in Nat /\ Len(log') \in Nat /\ Len(log) <= Len(log')
         /\ \A i \in 1 .. Len(log) : log'[i] = log[i]
<1>1. CASE log' = log
  BY <1>1, Parts
<1>2. ASSUME NEW kind \in Kinds, NEW covers \in SUBSET Nat,
             log' = Append(log, NewEvent(kind, covers))
      PROVE  /\ Len(log) \in Nat /\ Len(log') \in Nat /\ Len(log) <= Len(log')
             /\ \A i \in 1 .. Len(log) : log'[i] = log[i]
  <2>1. Len(log') = Len(log) + 1 /\ Len(log) \in Nat
        /\ \A i \in 1 .. Len(log) : log'[i] = log[i]
    BY <1>2, LogGrows, Parts
  <2>2. QED
    BY <2>1
<1>3. CASE RunAppends \/ LeftoverAppends
  <2>1. PICK kind \in Kinds : log' = Append(log, NewEvent(kind, {}))
    BY <1>3 DEF RunAppends, LeftoverAppends, AppendedBy
  <2>2. QED
    BY <1>2, <2>1
<1>4. CASE AppendSummary
  <2>1. Digest(job.covered) \in SUBSET Nat
    BY DigestType
  <2>2. log' = Append(log, NewEvent("summary", Digest(job.covered))) /\ "summary" \in Kinds
    BY <1>4 DEF AppendSummary, Kinds
  <2>3. QED
    BY <1>2, <2>1, <2>2
<1>5. CASE \/ SendPrompt \/ CompressCommand \/ AnswerConfirmation
           \/ CancelTurn \/ CancelCompression
           \/ RunFails \/ HandleEvent \/ FinishTurn \/ CancelledTurnEnds \/ LeftoverReturns
  <2>1. log' = log
    BY <1>5 DEF SendPrompt, CompressCommand, AnswerConfirmation, CancelTurn, CancelCompression,
                RunFails, HandleEvent, FinishTurn, CancelledTurnEnds, LeftoverReturns, disk
  <2>2. QED
    BY <1>1, <2>1
<1>6. CASE \/ Summarize \/ WriteMarker \/ CompactFails \/ HandleSummary \/ HandleNoSummary
           \/ Resume \/ Restart \/ UNCHANGED vars
  <2>1. log' = log
    BY <1>6 DEF Summarize, WriteMarker, CompactFails, HandleSummary, HandleNoSummary,
                Resume, Restart, vars, disk
  <2>2. QED
    BY <1>1, <2>1
<1>7. QED
  BY <1>3, <1>4, <1>5, <1>6 DEF Next, TurnStep, JobStep, HandleResult

\* Where a compression is after a step, from where it was.
JobGoesOn ==
  /\ job.stage # "none" /\ job'.covered = job.covered /\ display' = display
  /\ job'.stage \in {"mark", "ready"} =>
       \/ job.stage \in {"mark", "ready"} /\ job'.summary = job.summary
       \/ AppendSummary /\ job'.summary = Len(log) + 1

LEMMA JobKept ==
  ASSUME IInv, Once, [Next]_vars
  PROVE  \/ job'.stage = "none"
         \/ /\ display' = display /\ marker' = marker /\ log' = log
            /\ \E auto, pending : StartCompression(auto, pending)
         \/ JobGoesOn
<1>1. CASE job' = job /\ display' = display
  BY <1>1 DEF JobGoesOn
<1>2. CASE SendPrompt \/ CompressCommand \/ FinishTurn
  <2>1. display' = display /\ marker' = marker /\ log' = log
    BY <1>2 DEF SendPrompt, CompressCommand, FinishTurn, disk
  <2>2. \/ \E auto, pending : StartCompression(auto, pending)
        \/ job' = job
    BY <1>2 DEF SendPrompt, CompressCommand, FinishTurn
  <2>3. QED
    BY <1>1, <2>1, <2>2
<1>3. CASE \/ AnswerConfirmation \/ CancelTurn \/ CancelCompression \/ RunAppends \/ RunFails
           \/ LeftoverAppends \/ LeftoverReturns \/ CancelledTurnEnds \/ UNCHANGED vars
  <2>1. job' = job /\ display' = display
    BY <1>3 DEF AnswerConfirmation, CancelTurn, CancelCompression, RunAppends, RunFails,
                LeftoverAppends, LeftoverReturns, CancelledTurnEnds, vars
  <2>2. QED
    BY <1>1, <2>1
<1>4. CASE HandleEvent \/ Resume
  <2>1. job' = job /\ phase # "compressing"
    BY <1>4 DEF HandleEvent, Resume
  <2>2. QED
    BY <2>1 DEF Once
<1>5. CASE HandleSummary \/ HandleNoSummary \/ Restart
  BY <1>5 DEF HandleSummary, HandleNoSummary, Restart, NoJob
<1>6. CASE Summarize \/ CompactFails \/ WriteMarker
  <2>1. display' = display /\ job.stage # "none"
    BY <1>6 DEF Summarize, CompactFails, WriteMarker, OnlyJobMoves
  <2>2. PICK stage \in {"append", "failed", "aborted", "ready"} :
          Goto(stage) /\ (stage = "ready" => job.stage = "mark")
    BY <1>6 DEF Summarize, CompactFails, WriteMarker
  <2>3. job'.stage = stage /\ job'.covered = job.covered /\ job'.summary = job.summary
    BY <2>2, JobMoves DEF JobStages
  <2>4. QED
    BY <2>1, <2>2, <2>3 DEF JobGoesOn
<1>7. CASE AppendSummary
  <2>1. display' = display /\ job.stage # "none"
    BY <1>7 DEF AppendSummary, OnlyJobMoves
  <2>2. job'.covered = job.covered /\ job'.summary = Len(log) + 1
    BY <1>7, JobAppends DEF AppendSummary
  <2>3. QED
    BY <1>7, <2>1, <2>2 DEF JobGoesOn
<1>8. QED
  BY <1>2, <1>3, <1>4, <1>5, <1>6, <1>7 DEF Next, TurnStep, JobStep, HandleResult

LEMMA MarkerKept ==
  ASSUME [Next]_vars, ~ WriteMarker
  PROVE  marker' = marker
<1>1. CASE \/ SendPrompt \/ CompressCommand \/ AnswerConfirmation
           \/ CancelTurn \/ CancelCompression
           \/ HandleEvent \/ FinishTurn \/ CancelledTurnEnds \/ RunFails \/ LeftoverReturns
  BY <1>1 DEF SendPrompt, CompressCommand, AnswerConfirmation, CancelTurn, CancelCompression,
              RunFails, HandleEvent, FinishTurn, CancelledTurnEnds, LeftoverReturns, disk
<1>2. CASE RunAppends \/ LeftoverAppends
  BY <1>2 DEF RunAppends, LeftoverAppends, AppendedBy
<1>3. CASE \/ Summarize \/ AppendSummary \/ CompactFails \/ HandleSummary \/ HandleNoSummary
           \/ Resume \/ Restart \/ UNCHANGED vars
  BY <1>3 DEF Summarize, AppendSummary, CompactFails, HandleSummary, HandleNoSummary,
              Resume, Restart, vars, disk
<1>4. QED
  BY <1>1, <1>2, <1>3 DEF Next, TurnStep, JobStep, HandleResult

\* startCompression cuts the display at k.
LEMMA JobCuts ==
  ASSUME IInv, NEW auto, NEW pending, StartCompression(auto, pending)
  PROVE  /\ Len(job'.covered) \in 1 .. Len(display)
         /\ CutoffAt(display, Len(job'.covered)) /\ job'.stage = "summarize"
<1>1. PICK k \in 1 .. Len(display) :
        /\ CutoffAt(display, k)
        /\ job' = [stage |-> "summarize", auto |-> auto, pending |-> pending,
                   covered |-> SubSeq(display, 1, k),
                   tail |-> SubSeq(display, k + 1, Len(display)),
                   summary |-> NoId]
  BY DEF StartCompression
<1>2. Len(display) \in Nat /\ display \in Seq(Event)
  BY Parts
<1>3. Len(SubSeq(display, 1, k)) = k
  <2>1. 1 \in Nat \ {0} /\ k \in 0 .. Len(display) /\ 1 <= k
    BY <1>2
  <2>2. Len(SubSeq(display, 1, k)) = IF 1 <= k THEN k - 1 + 1 ELSE 0
    BY <1>2, <2>1, SubSeqWithin
  <2>3. QED
    BY <2>1, <2>2
<1>4. Len(job'.covered) = k /\ job'.stage = "summarize"
  BY <1>1, <1>3
<1>5. QED
  BY <1>1, <1>4

LEMMA CutsInit == Init => Cuts
BY DEF Init, Cuts, NoMarker, NoJob

LEMMA CutsKept ==
  ASSUME IInv, Once, Cuts, [Next]_vars
  PROVE  Cuts'
<1>1. marker'.summary # NoId => /\ marker'.coveredThrough < marker'.summary
                                /\ log'[marker'.summary].kind = "summary"
  <2>1. CASE WriteMarker
    <3>1. job.stage = "mark" /\ log' = log /\ marker'.summary = job.summary
          /\ marker'.coveredThrough = job.covered[Len(job.covered)].id
      BY <2>1 DEF WriteMarker
    <3>2. QED
      BY <3>1 DEF IInv, Coherent, MarkReady
  <2>2. CASE ~ WriteMarker
    <3>1. marker' = marker
      BY <2>2, MarkerKept
    <3>2. ASSUME marker.summary # NoId PROVE log'[marker.summary] = log[marker.summary]
      BY <3>2, LogKept DEF IInv, Coherent, MarkerNames
    <3>3. QED
      BY <3>1, <3>2 DEF Cuts
  <2>3. QED
    BY <2>1, <2>2
<1>2. ASSUME job'.stage \in {"mark", "ready"} PROVE log'[job'.summary].kind = "summary"
  <2>1. ~ \E auto, pending : StartCompression(auto, pending)
    BY <1>2, JobCuts
  <2>2. JobGoesOn
    BY <1>2, <2>1, JobKept
  <2>3. CASE job.stage \in {"mark", "ready"} /\ job'.summary = job.summary
    <3>1. job.summary \in 1 .. Len(log)
      BY <2>3 DEF IInv, Coherent, JobNames
    <3>2. log'[job.summary] = log[job.summary]
      BY <3>1, LogKept
    <3>3. QED
      BY <2>3, <3>2 DEF Cuts
  <2>4. CASE AppendSummary /\ job'.summary = Len(log) + 1
    <3>1. Digest(job.covered) \in SUBSET Nat
      BY DigestType
    <3>2. log' = Append(log, NewEvent("summary", Digest(job.covered))) /\ "summary" \in Kinds
      BY <2>4 DEF AppendSummary, Kinds
    <3>3. log'[Len(log) + 1] = NewEvent("summary", Digest(job.covered))
      BY <3>1, <3>2, LogGrows
    <3>4. QED
      BY <2>4, <3>3 DEF NewEvent
  <2>5. QED
    BY <1>2, <2>2, <2>3, <2>4 DEF JobGoesOn
<1>3. ASSUME job'.stage # "none" PROVE CutoffAt(display', Len(job'.covered))
  <2>1. CASE JobGoesOn
    BY <2>1 DEF JobGoesOn, Cuts
  <2>2. CASE display' = display /\ \E auto, pending : StartCompression(auto, pending)
    BY <2>2, JobCuts
  <2>3. QED
    BY <1>3, <2>1, <2>2, JobKept
<1>4. QED
  BY <1>1, <1>2, <1>3 DEF Cuts

LEMMA AlwaysCuts == Spec => []Cuts
<1>1. IInv /\ Once /\ Cuts /\ [Next]_vars => Cuts'
  BY CutsKept
<1>2. QED
  BY <1>1, CutsInit, Invariant, AlwaysOnce, PTL DEF Spec

-----------------------------------------------------------------------------
\* What is shown and then what is on its way, as one sequence.
FedLen == Len(display) + Len(inflight)
Fed(i) == IF i <= Len(display) THEN display[i] ELSE inflight[i - Len(display)]

\* The event after q is the result of a call.
Results(q) == q + 1 \in 1 .. Len(log) /\ log[q + 1].kind = "result"

\* Nothing is cancelled, and nothing is asked.
Calm ==
  /\ leftover = "none" /\ phase # "confirming" /\ ~ esc /\ ~ asked
  /\ run \in {"none", "prompt", "model", "tool", "done"}
  /\ run # "none" => phase = "streaming"
  /\ \A i \in 1 .. Len(inflight) : inflight[i].kind # "ask"

ResultsFollow ==
  \A r \in 1 .. Len(log) : log[r].kind = "result" => r >= 2 /\ log[r - 1].kind = "call"

\* Between call and result the run has nothing else to append.
CallIsLast ==
  run = "tool" => /\ Len(log) >= 1 /\ log[Len(log)].kind = "call"
                  /\ \E i \in 1 .. FedLen : i = FedLen /\ Fed(i).id = Len(log)

Followed ==
  \A i \in 1 .. FedLen, q \in 1 .. Len(log) :
    Fed(i).kind = "call" /\ Fed(i).id = q /\ Results(q) =>
      \E j \in 1 .. FedLen : j = i + 1 /\ Fed(j).id = q + 1

CutOutside == marker.summary # NoId => ~ Results(marker.coveredThrough)

Paired == Calm /\ ResultsFollow /\ CallIsLast /\ Followed /\ CutOutside

LEMMA FeedParts ==
  ASSUME IInv
  PROVE  /\ FedLen \in Nat
         /\ \A i \in 1 .. FedLen : Fed(i).id \in 1 .. Len(log) /\ Fed(i) = log[Fed(i).id]
<1>1. Len(display) \in Nat /\ Len(inflight) \in Nat
  BY Parts
<1>2. ASSUME NEW i \in 1 .. FedLen
      PROVE  Fed(i).id \in 1 .. Len(log) /\ Fed(i) = log[Fed(i).id]
  <2>1. CASE i <= Len(display)
    <3>1. Fed(i) = display[i] /\ i \in 1 .. Len(display)
      BY <1>1, <1>2, <2>1 DEF Fed, FedLen
    <3>2. QED
      BY <3>1, Parts
  <2>2. CASE ~ (i <= Len(display))
    <3>1. Fed(i) = inflight[i - Len(display)] /\ i - Len(display) \in 1 .. Len(inflight)
      BY <1>1, <1>2, <2>2 DEF Fed, FedLen
    <3>2. QED
      BY <3>1, Parts
  <2>3. QED
    BY <2>1, <2>2
<1>3. QED
  BY <1>1, <1>2 DEF FedLen

\* No event is fed twice.
LEMMA FeedOnce ==
  ASSUME IInv, Once
  PROVE  \A i, j \in 1 .. FedLen : Fed(i).id = Fed(j).id => i = j
<1>1. Len(display) \in Nat /\ Len(inflight) \in Nat
  BY Parts
<1>2. ASSUME NEW i \in 1 .. FedLen
      PROVE  \/ Fed(i) = display[i] /\ i \in 1 .. Len(display)
             \/ Fed(i) = inflight[i - Len(display)] /\ i - Len(display) \in 1 .. Len(inflight)
  BY <1>1, <1>2 DEF Fed, FedLen
<1>3. ASSUME NEW i \in 1 .. FedLen, NEW j \in 1 .. FedLen, Fed(i).id = Fed(j).id
      PROVE  i = j
  <2>1. CASE i \in 1 .. Len(display) /\ j \in 1 .. Len(display)
             /\ Fed(i) = display[i] /\ Fed(j) = display[j]
    BY <1>3, <2>1 DEF Once, Distinct
  <2>2. CASE i - Len(display) \in 1 .. Len(inflight) /\ j - Len(display) \in 1 .. Len(inflight)
             /\ Fed(i) = inflight[i - Len(display)] /\ Fed(j) = inflight[j - Len(display)]
    <3>1. i - Len(display) = j - Len(display)
      BY <1>3, <2>2 DEF Once, Distinct
    <3>2. QED
      BY <1>1, <1>3, <3>1
  <2>3. CASE i \in 1 .. Len(display) /\ j - Len(display) \in 1 .. Len(inflight)
             /\ Fed(i) = display[i] /\ Fed(j) = inflight[j - Len(display)]
    BY <1>3, <2>3 DEF Once, Apart
  <2>4. CASE j \in 1 .. Len(display) /\ i - Len(display) \in 1 .. Len(inflight)
             /\ Fed(j) = display[j] /\ Fed(i) = inflight[i - Len(display)]
    BY <1>3, <2>4 DEF Once, Apart
  <2>5. QED
    BY <1>2, <2>1, <2>2, <2>3, <2>4
<1>4. QED
  BY <1>3

\* Handing an event over to the display leaves what is fed as it was.
LEMMA FeedSame ==
  ASSUME IInv, HandleEvent
  PROVE  FedLen' = FedLen /\ \A i \in 1 .. FedLen : Fed(i)' = Fed(i)
<1>1. inflight # << >> /\ display' = Append(display, Head(inflight)) /\ inflight' = Tail(inflight)
  BY DEF HandleEvent
<1>2. PICK d \in Seq(Event) : d = display
  BY Parts
<1>3. PICK s \in Seq(Event) : s = inflight
  BY Parts
<1>4. PICK a : a = Append(d, Head(s))
  OBVIOUS
<1>5. PICK b : b = Tail(s)
  OBVIOUS
<1>6. s # << >>
  BY <1>1, <1>3
<1>7. /\ Len(d) \in Nat /\ Len(s) \in Nat \ {0} /\ Len(a) = Len(d) + 1 /\ Len(b) = Len(s) - 1
      /\ a[Len(d) + 1] = s[1]
      /\ \A i \in 1 .. Len(d) : a[i] = d[i]
      /\ \A i \in 1 .. Len(b) : i + 1 \in 1 .. Len(s) /\ b[i] = s[i + 1]
  BY <1>4, <1>5, <1>6, ShownNext
<1>8. display' = a /\ inflight' = b
  BY <1>1, <1>2, <1>3, <1>4, <1>5
<1>9. FedLen' = FedLen
  <2>1. FedLen' = Len(a) + Len(b) /\ FedLen = Len(d) + Len(s)
    BY <1>2, <1>3, <1>8 DEF FedLen
  <2>2. QED
    BY <1>7, <2>1
<1>10. ASSUME NEW i \in 1 .. FedLen PROVE Fed(i)' = Fed(i)
  <2>1. CASE i <= Len(d)
    <3>1. i \in 1 .. Len(d) /\ i <= Len(a)
      BY <1>2, <1>3, <1>7, <1>10, <2>1 DEF FedLen
    <3>2. Fed(i)' = a[i] /\ Fed(i) = d[i]
      BY <1>2, <1>8, <2>1, <3>1 DEF Fed
    <3>3. QED
      BY <1>7, <3>1, <3>2
  <2>2. CASE i = Len(d) + 1
    <3>1. i <= Len(a) /\ ~ (i <= Len(d)) /\ i - Len(d) = 1
      BY <1>7, <2>2
    <3>2. Fed(i)' = a[i] /\ Fed(i) = s[i - Len(d)]
      BY <1>2, <1>3, <1>8, <3>1 DEF Fed
    <3>3. QED
      BY <1>7, <2>2, <3>1, <3>2
  <2>3. CASE i > Len(d) + 1
    <3>1. /\ ~ (i <= Len(a)) /\ ~ (i <= Len(d))
          /\ i - Len(a) \in 1 .. Len(b) /\ (i - Len(a)) + 1 = i - Len(d)
      BY <1>2, <1>3, <1>7, <1>10, <2>3 DEF FedLen
    <3>2. Fed(i)' = b[i - Len(a)] /\ Fed(i) = s[i - Len(d)]
      BY <1>2, <1>3, <1>8, <3>1 DEF Fed
    <3>3. QED
      BY <1>7, <3>1, <3>2
  <2>4. QED
    BY <1>7, <1>10, <2>1, <2>2, <2>3 DEF FedLen
<1>11. QED
  BY <1>9, <1>10

\* What the run appends is fed last.
LEMMA FeedGrows ==
  ASSUME IInv, NEW e \in Event, inflight' = Append(inflight, e), display' = display
  PROVE  /\ FedLen' = FedLen + 1
         /\ \A i \in 1 .. FedLen : Fed(i)' = Fed(i)
         /\ \A i : i = FedLen + 1 => Fed(i)' = e
<1>1. PICK s \in Seq(Event) : s = inflight
  BY Parts
<1>2. PICK t : t = Append(s, e)
  OBVIOUS
<1>3. /\ Len(s) \in Nat /\ Len(t) = Len(s) + 1 /\ t[Len(s) + 1] = e
      /\ \A i \in 1 .. Len(s) : t[i] = s[i]
  BY <1>2, LongerLog
<1>4. inflight' = t /\ Len(display) \in Nat
  BY <1>1, <1>2, Parts
<1>5. FedLen' = FedLen + 1 /\ FedLen = Len(display) + Len(s)
  BY <1>1, <1>3, <1>4 DEF FedLen
<1>6. ASSUME NEW i \in 1 .. FedLen PROVE Fed(i)' = Fed(i)
  <2>1. CASE i <= Len(display)
    BY <2>1 DEF Fed
  <2>2. CASE ~ (i <= Len(display))
    <3>1. i - Len(display) \in 1 .. Len(s)
      BY <1>3, <1>4, <1>5, <1>6, <2>2
    <3>2. Fed(i)' = t[i - Len(display)] /\ Fed(i) = s[i - Len(display)]
      BY <1>1, <1>4, <2>2 DEF Fed
    <3>3. QED
      BY <1>3, <3>1, <3>2
  <2>3. QED
    BY <2>1, <2>2
<1>7. ASSUME NEW i, i = FedLen + 1 PROVE Fed(i)' = e
  <2>1. ~ (i <= Len(display)) /\ i - Len(display) = Len(s) + 1
    BY <1>3, <1>4, <1>5, <1>7
  <2>2. QED
    BY <1>3, <1>4, <2>1 DEF Fed
<1>8. QED
  BY <1>5, <1>6, <1>7

-----------------------------------------------------------------------------
\* What the run can append when no tool asks.
LEMMA AppendsFree ==
  ASSUME ToolKinds \subseteq {"free"}, NEW stage \in {"none", "prompt", "model", "tool", "done"},
         NEW kind, NEW next, Appends(stage, kind, next)
  PROVE  /\ next \in {"model", "tool", "done"} /\ kind # "ask"
         /\ kind = "result" => stage = "tool"
         /\ stage = "tool" => kind = "result"
         /\ next = "tool" => kind = "call"
BY DEF Appends

LEMMA CalmKept ==
  ASSUME ToolKinds \subseteq {"free"}, IInv, Once, Calm, [Next]_vars, mishaps' = {}
  PROVE  Calm'
<1>1. CASE SendPrompt
  <2>1. leftover' = leftover
    BY <1>1 DEF SendPrompt
  <2>2. CASE StartStream("prompt")
    <3>1. /\ phase' = "streaming" /\ run' = "prompt" /\ ~ esc' /\ ~ asked'
          /\ \A i \in 1 .. Len(inflight') : inflight'[i].kind # "ask"
      BY <2>2 DEF StartStream
    <3>2. QED
      BY <2>1, <3>1 DEF Calm
  <2>3. CASE StartCompression(TRUE, TRUE) /\ UNCHANGED << run, inflight, asked, failed >>
    <3>1. phase' = "compressing" /\ ~ esc' /\ run' = run /\ inflight' = inflight
          /\ phase = "idle"
      BY <1>1, <2>3 DEF StartCompression, SendPrompt
    <3>2. ~ asked'
      BY <2>3 DEF Calm
    <3>3. QED
      BY <2>1, <3>1, <3>2 DEF Calm
  <2>4. QED
    BY <1>1, <2>2, <2>3 DEF SendPrompt
<1>2. CASE CompressCommand
  <2>1. phase' = "compressing" /\ ~ esc' /\ run' = run /\ inflight' = inflight /\ leftover' = leftover
        /\ phase = "idle"
    BY <1>2 DEF CompressCommand, StartCompression, turn
  <2>2. ~ asked'
    BY <1>2 DEF CompressCommand, turn, Calm
  <2>3. QED
    BY <2>1, <2>2 DEF Calm
<1>3. CASE AnswerConfirmation \/ LeftoverAppends \/ LeftoverReturns \/ CancelledTurnEnds
  <2>1. ~ AnswerConfirmation /\ ~ LeftoverReturns
    BY DEF AnswerConfirmation, LeftoverReturns, Calm
  <2>2. ~ CancelledTurnEnds
    BY DEF CancelledTurnEnds, Calm
  <2>3. ~ LeftoverAppends
    BY DEF LeftoverAppends, AppendedBy, Appends, Calm
  <2>4. QED
    BY <1>3, <2>1, <2>2, <2>3
<1>4. CASE CancelTurn \/ CancelCompression \/ Restart \/ CompactFails
  BY <1>4 DEF CancelTurn, CancelCompression, Restart, CompactFails, Noted
<1>5. CASE RunAppends
  <2>1. PICK kind \in Kinds, next \in RunStages :
          /\ phase = "streaming" /\ phase' = phase /\ leftover' = leftover
          /\ Appends(run, kind, next) /\ run' = next
          /\ inflight' = Append(inflight, NewEvent(kind, {}))
          /\ log' = Append(log, NewEvent(kind, {}))
    BY <1>5 DEF RunAppends, AppendedBy
  <2>2. ~ esc'
    BY <1>5 DEF RunAppends, Calm
  <2>3. ~ asked'
    BY <1>5 DEF RunAppends, Calm
  <2>4. next \in {"model", "tool", "done"} /\ kind # "ask"
    BY <2>1, AppendsFree DEF Calm
  <2>5. PICK e \in Event : e = NewEvent(kind, {}) /\ e.kind = kind
    <3>1. NewEvent(kind, {}) \in Event
      BY <2>1, LogGrows
    <3>2. QED
      BY <3>1 DEF NewEvent
  <2>6. /\ Len(inflight') = Len(inflight) + 1 /\ Len(inflight) \in Nat
        /\ inflight'[Len(inflight) + 1] = e
        /\ \A i \in 1 .. Len(inflight) : inflight'[i] = inflight[i]
    BY <2>1, <2>5, LongerLog, Parts
  <2>7. \A i \in 1 .. Len(inflight') : i \in 1 .. Len(inflight) \/ i = Len(inflight) + 1
    BY <2>6
  <2>8. \A i \in 1 .. Len(inflight') : inflight'[i].kind # "ask"
    BY <2>4, <2>5, <2>6, <2>7 DEF Calm
  <2>9. QED
    BY <2>1, <2>2, <2>3, <2>4, <2>8 DEF Calm
<1>6. CASE RunFails
  <2>1. ~ esc'
    BY <1>6 DEF RunFails, Calm
  <2>2. ~ asked'
    BY <1>6 DEF RunFails, Calm
  <2>3. phase' = phase /\ leftover' = leftover /\ inflight' = inflight /\ run' = "done"
        /\ phase = "streaming"
    BY <1>6 DEF RunFails
  <2>4. QED
    BY <2>1, <2>2, <2>3 DEF Calm
<1>7. CASE HandleEvent
  <2>1. ~ esc'
    BY <1>7 DEF HandleEvent, Calm
  <2>2. phase' = phase /\ leftover' = leftover /\ run' = run
        /\ inflight # << >> /\ inflight' = Tail(inflight)
    BY <1>7 DEF HandleEvent
  <2>3. /\ Head(inflight) = inflight[1] /\ Len(inflight) \in Nat \ {0}
        /\ Len(Tail(inflight)) = Len(inflight) - 1
        /\ \A i \in 1 .. Len(inflight) - 1 : Tail(inflight)[i] = inflight[i + 1]
    BY <2>2, Parts, HeadTailProperties, LenProperties, EmptySeq
  <2>4. 1 \in 1 .. Len(inflight)
    BY <2>3
  <2>5. Head(inflight).kind # "ask"
    BY <2>3, <2>4 DEF Calm
  <2>6. ~ asked'
    BY <1>7, <2>5 DEF HandleEvent, Calm
  <2>7. ASSUME NEW i \in 1 .. Len(inflight') PROVE inflight'[i].kind # "ask"
    <3>1. PICK b : b = Tail(inflight)
      OBVIOUS
    <3>2. /\ inflight' = b /\ Len(b) = Len(inflight) - 1
          /\ \A j \in 1 .. Len(inflight) - 1 : b[j] = inflight[j + 1]
      BY <2>2, <2>3, <3>1
    <3>3. i \in 1 .. Len(inflight) - 1 /\ i + 1 \in 1 .. Len(inflight) /\ inflight'[i] = b[i]
      BY <2>3, <2>7, <3>2
    <3>4. inflight'[i] = inflight[i + 1]
      BY <3>2, <3>3
    <3>5. QED
      BY <3>3, <3>4 DEF Calm
  <2>8. QED
    BY <2>1, <2>2, <2>6, <2>7 DEF Calm
<1>8. CASE FinishTurn
  <2>1. run' = "none" /\ leftover' = leftover /\ inflight' = inflight
    BY <1>8 DEF FinishTurn
  <2>2. ~ asked'
    BY <1>8 DEF FinishTurn, Calm
  <2>3. CASE phase' = (IF asked THEN "confirming" ELSE "idle") /\ UNCHANGED << esc, job >>
    <3>1. phase' = "idle"
      BY <2>3 DEF Calm
    <3>2. ~ esc'
      BY <2>3 DEF Calm
    <3>3. QED
      BY <2>1, <2>2, <3>1, <3>2 DEF Calm
  <2>4. CASE \E queued \in BOOLEAN : StartCompression(TRUE, queued)
    <3>1. phase' = "compressing" /\ ~ esc'
      BY <2>4 DEF StartCompression
    <3>2. QED
      BY <2>1, <2>2, <3>1 DEF Calm
  <2>5. QED
    BY <1>8, <2>3, <2>4 DEF FinishTurn
<1>9. CASE Summarize \/ AppendSummary \/ WriteMarker \/ UNCHANGED vars
  <2>1. phase' = phase /\ leftover' = leftover /\ run' = run /\ inflight' = inflight
    BY <1>9 DEF Summarize, AppendSummary, WriteMarker, OnlyJobMoves, turn, vars
  <2>2. ~ esc'
    BY <1>9 DEF Summarize, AppendSummary, WriteMarker, OnlyJobMoves, vars, Calm
  <2>3. ~ asked'
    BY <1>9 DEF Summarize, AppendSummary, WriteMarker, OnlyJobMoves, turn, vars, Calm
  <2>4. QED
    BY <2>1, <2>2, <2>3 DEF Calm
<1>10. CASE HandleSummary
  <2>1. leftover' = leftover /\ job.stage = "ready"
    BY <1>10 DEF HandleSummary
  <2>2. CASE StartStream("prompt")
    <3>1. /\ phase' = "streaming" /\ run' = "prompt" /\ ~ esc' /\ ~ asked'
          /\ \A i \in 1 .. Len(inflight') : inflight'[i].kind # "ask"
      BY <2>2 DEF StartStream
    <3>2. QED
      BY <2>1, <3>1 DEF Calm
  <2>3. CASE phase' = "idle" /\ esc' = FALSE /\ UNCHANGED << run, inflight, asked, failed >>
    <3>1. phase = "compressing" /\ ~ esc' /\ run' = run /\ inflight' = inflight
      BY <2>1, <2>3 DEF Once
    <3>2. ~ asked'
      BY <2>3 DEF Calm
    <3>3. QED
      BY <2>1, <2>3, <3>1, <3>2 DEF Calm
  <2>4. QED
    BY <1>10, <2>2, <2>3 DEF HandleSummary
<1>11. CASE HandleNoSummary
  <2>1. phase' = "idle" /\ ~ esc' /\ run' = run /\ inflight' = inflight /\ leftover' = leftover
    BY <1>11 DEF HandleNoSummary, turn
  <2>2. ~ asked'
    BY <1>11 DEF HandleNoSummary, turn, Calm
  <2>3. job.stage # "none"
    BY <1>11 DEF HandleNoSummary
  <2>4. phase = "compressing"
    BY <2>3 DEF Once
  <2>5. QED
    BY <2>1, <2>2, <2>4 DEF Calm
<1>12. CASE Resume
  <2>1. phase' = phase /\ run' = run /\ inflight' = inflight /\ leftover' = leftover
    BY <1>12 DEF Resume, turn
  <2>2. ~ esc'
    BY <1>12 DEF Resume, Calm
  <2>3. ~ asked'
    BY <1>12 DEF Resume, turn, Calm
  <2>4. QED
    BY <2>1, <2>2, <2>3 DEF Calm
<1>13. QED
  BY <1>1, <1>2, <1>3, <1>4, <1>5, <1>6, <1>7, <1>8, <1>9, <1>10, <1>11, <1>12
     DEF Next, TurnStep, JobStep, HandleResult

-----------------------------------------------------------------------------
\* What the model sees has the result of a call right after the call.
Pairs(s) ==
  \A i \in 1 .. Len(s) :
    s[i].kind = "call" /\ Results(s[i].id) =>
      i + 1 \in 1 .. Len(s) /\ s[i + 1].id = s[i].id + 1

LEMMA FullViewPairs ==
  ASSUME IInv, Cuts
  PROVE  /\ FullView \in Seq(Event) /\ Pairs(FullView)
         /\ marker.summary # NoId => Len(FullView) >= 1 /\ FullView[1].kind = "summary"
<1>1. PICK n \in Nat : n = Len(log)
  BY Parts
<1>2. \A i \in 1 .. n : log[i].id = i
  BY <1>1, Parts
<1>3. CASE marker.summary = NoId
  <2>1. FullView = log
    BY <1>3 DEF FullView, ApplyCompaction, Applies
  <2>2. ASSUME NEW i \in 1 .. n, Results(i) PROVE i + 1 \in 1 .. n
    BY <1>1, <2>2 DEF Results
  <2>3. QED
    BY <1>1, <1>2, <1>3, <2>1, <2>2, Parts DEF Pairs
<1>4. CASE marker.summary # NoId
  <2>1. PICK sm \in 1 .. n : sm = marker.summary /\ log[sm].kind = "summary"
    BY <1>1, <1>4 DEF IInv, Coherent, MarkerNames, Cuts
  <2>2. PICK cv \in 1 .. n : cv = marker.coveredThrough /\ cv < sm
    BY <1>1, <1>4, <2>1 DEF IInv, Coherent, MarkerNames, Cuts
  <2>3. PICK v \in Seq(Event) : v = FullView
    BY <1>4, <2>1, <2>2, ViewShape
  <2>4. /\ Len(v) = n - cv
        /\ v[1] = log[sm]
        /\ \A j \in 2 .. sm - cv : v[j] = log[cv + j - 1]
        /\ \A j \in sm - cv + 1 .. n - cv : v[j] = log[cv + j]
    BY <1>1, <1>4, <2>1, <2>2, <2>3, ViewShape
  <2>5. /\ \A j \in 2 .. sm - cv : v[j].id = cv + j - 1
        /\ \A j \in sm - cv + 1 .. n - cv : v[j].id = cv + j
    <3>1. /\ \A j \in 2 .. sm - cv : cv + j - 1 \in 1 .. n
          /\ \A j \in sm - cv + 1 .. n - cv : cv + j \in 1 .. n
      BY <2>4
    <3>2. QED
      BY <1>2, <2>4, <3>1
  <2>6. ASSUME NEW i \in 1 .. Len(v), v[i].kind = "call", Results(v[i].id)
        PROVE  i + 1 \in 1 .. Len(v) /\ v[i + 1].id = v[i].id + 1
    <3>1. i # 1
      BY <2>1, <2>4, <2>6
    <3>2. v[i].id + 1 \in 1 .. n /\ log[v[i].id + 1].kind = "result"
      BY <1>1, <2>6 DEF Results
    <3>3. CASE i \in 2 .. sm - cv
      <4>1. v[i].id = cv + i - 1
        BY <2>5, <3>3
      <4>2. v[i].id + 1 # sm
        BY <2>1, <3>2
      <4>3. i + 1 \in 2 .. sm - cv
        BY <2>2, <3>3, <4>1, <4>2
      <4>4. v[i + 1].id = cv + (i + 1) - 1
        BY <2>5, <4>3
      <4>5. i + 1 \in 1 .. n - cv /\ cv + (i + 1) - 1 = (cv + i - 1) + 1
        BY <4>3
      <4>6. QED
        BY <2>4, <4>1, <4>4, <4>5
    <3>4. CASE i \in sm - cv + 1 .. n - cv
      <4>1. v[i].id = cv + i
        BY <2>5, <3>4
      <4>2. i + 1 \in sm - cv + 1 .. n - cv
        BY <3>2, <3>4, <4>1
      <4>3. v[i + 1].id = cv + (i + 1)
        BY <2>5, <4>2
      <4>4. QED
        BY <2>4, <3>4, <4>1, <4>2, <4>3
    <3>5. QED
      BY <2>4, <3>1, <3>3, <3>4
  <2>7. Len(v) >= 1 /\ v[1].kind = "summary"
    BY <2>1, <2>2, <2>4
  <2>8. QED
    BY <2>3, <2>6, <2>7 DEF Pairs
<1>5. QED
  BY <1>3, <1>4

LEMMA ModelViewPairs ==
  ASSUME IInv, Cuts
  PROVE  ModelView \in Seq(Event) /\ Pairs(ModelView)
<1>1. PICK v \in Seq(Event) : v = FullView
  BY FullViewPairs
<1>2. PICK protect \in BOOLEAN : protect = Applies(log, marker)
  BY DEF Applies
<1>3. PICK r : r = Cap(v, HistoryLimit, protect)
  OBVIOUS
<1>4. PICK d : d = CapDrops(v, HistoryLimit)
  OBVIOUS
<1>5. ModelView = r
  BY <1>1, <1>2, <1>3 DEF ModelView, ViewOf, FullView
<1>6. protect => Len(v) >= 1 /\ v[1].kind = "summary"
  BY <1>1, <1>2, FullViewPairs DEF Applies
<1>7. /\ d \in Nat /\ Len(v) \in Nat /\ r \in Seq(Event) /\ Len(r) = Len(v) - d
      /\ \A i \in 1 .. Len(r) : i > 1 \/ ~ protect => r[i] = v[i + d]
      /\ protect /\ Len(v) >= 1 => Len(r) >= 1 /\ r[1] = v[1]
  BY <1>3, <1>4, BoundsAssumption, CapShape
<1>8. ASSUME NEW i \in 1 .. Len(r), r[i].kind = "call", Results(r[i].id)
      PROVE  i + 1 \in 1 .. Len(r) /\ r[i + 1].id = r[i].id + 1
  <2>1. i > 1 \/ ~ protect
    BY <1>6, <1>7, <1>8
  <2>2. r[i] = v[i + d] /\ i + d \in 1 .. Len(v)
    BY <1>7, <2>1
  <2>3. (i + d) + 1 \in 1 .. Len(v) /\ v[(i + d) + 1].id = v[i + d].id + 1
    BY <1>1, <1>8, <2>2, FullViewPairs DEF Pairs
  <2>4. i + 1 \in 1 .. Len(r) /\ i + 1 > 1 /\ (i + 1) + d = (i + d) + 1
    BY <1>7, <2>3, SMTT(30)
  <2>5. r[i + 1] = v[(i + 1) + d]
    BY <1>7, <2>4
  <2>6. QED
    BY <2>2, <2>3, <2>4, <2>5
<1>9. QED
  BY <1>5, <1>7, <1>8 DEF Pairs

-----------------------------------------------------------------------------
\* What is said of an event and the one after it stays.
LEMMA ResultsKept ==
  ASSUME IInv, [Next]_vars
  PROVE  /\ \A q : q + 1 \in 1 .. Len(log) => (Results(q)' <=> Results(q))
         /\ log' = log => \A q : Results(q)' <=> Results(q)
<1>1. /\ Len(log) \in Nat /\ Len(log') \in Nat /\ Len(log) <= Len(log')
      /\ \A i \in 1 .. Len(log) : log'[i] = log[i]
  BY LogKept
<1>2. ASSUME NEW q, q + 1 \in 1 .. Len(log) PROVE Results(q)' <=> Results(q)
  <2>1. q + 1 \in 1 .. Len(log') /\ log'[q + 1] = log[q + 1]
    BY <1>1, <1>2
  <2>2. QED
    BY <1>2, <2>1 DEF Results
<1>3. ASSUME log' = log, NEW q PROVE Results(q)' <=> Results(q)
  BY <1>3 DEF Results
<1>4. QED
  BY <1>2, <1>3

\* Once written, a marker does not come to lie between a call and its result.
LEMMA CutStaysOutside ==
  ASSUME IInv, Cuts, [Next]_vars, CutOutside, marker' = marker
  PROVE  CutOutside'
<1>1. SUFFICES ASSUME marker.summary # NoId PROVE ~ Results(marker.coveredThrough)'
  BY DEF CutOutside
<1>2. /\ marker.summary \in 1 .. Len(log) /\ marker.coveredThrough \in 1 .. Len(log)
      /\ marker.coveredThrough < marker.summary /\ Len(log) \in Nat
  BY <1>1, Parts DEF IInv, Coherent, MarkerNames, Cuts
<1>3. PICK q \in Nat : q = marker.coveredThrough /\ q + 1 \in 1 .. Len(log)
  BY <1>2
<1>4. ~ Results(q)
  BY <1>1, <1>3 DEF CutOutside
<1>5. ~ Results(q)'
  BY <1>3, <1>4, ResultsKept
<1>6. QED
  BY <1>3, <1>5

\* Neither log nor marker changes, nor what is fed.
LEMMA PairsStay ==
  ASSUME IInv, Cuts, [Next]_vars, Paired, Calm', log' = log, marker' = marker,
         FedLen' = FedLen, \A i \in 1 .. FedLen : Fed(i)' = Fed(i), run' = "tool" => run = "tool"
  PROVE  Paired'
<1>1. ResultsFollow'
  BY DEF Paired, ResultsFollow
<1>2. \A q : Results(q)' <=> Results(q)
  BY ResultsKept
<1>3. CutOutside'
  BY CutStaysOutside DEF Paired
<1>4. Followed'
  <2>1. ASSUME NEW i \in 1 .. FedLen, NEW q \in 1 .. Len(log),
               Fed(i)'.kind = "call", Fed(i)'.id = q, Results(q)'
        PROVE  \E j \in 1 .. FedLen : j = i + 1 /\ Fed(j)'.id = q + 1
    <3>1. Fed(i)' = Fed(i) /\ Results(q)
      BY <1>2, <2>1
    <3>2. PICK j \in 1 .. FedLen : j = i + 1 /\ Fed(j).id = q + 1
      BY <2>1, <3>1 DEF Paired, Followed
    <3>3. Fed(j)' = Fed(j)
      OBVIOUS
    <3>4. QED
      BY <3>2, <3>3
  <2>2. QED
    BY <2>1 DEF Followed
<1>5. CallIsLast'
  <2>1. ASSUME run' = "tool"
        PROVE  /\ Len(log) >= 1 /\ log[Len(log)].kind = "call"
               /\ \E i \in 1 .. FedLen : i = FedLen /\ Fed(i)'.id = Len(log)
    BY <2>1 DEF Paired, CallIsLast
  <2>2. QED
    BY <2>1 DEF CallIsLast
<1>6. QED
  BY <1>1, <1>3, <1>4, <1>5 DEF Paired

\* The run appends a call, its result or something else.
LEMMA PairsGrow ==
  ASSUME ToolKinds \subseteq {"free"}, IInv, Once, Cuts, Paired, Calm', RunAppends
  PROVE  Paired'
<1>1. PICK kind \in Kinds, next \in RunStages :
        /\ Appends(run, kind, next) /\ run' = next /\ marker' = marker /\ display' = display
        /\ log' = Append(log, NewEvent(kind, {}))
        /\ inflight' = Append(inflight, NewEvent(kind, {}))
  BY DEF RunAppends, AppendedBy
<1>2. /\ kind = "result" => run = "tool"
      /\ run = "tool" => kind = "result"
      /\ run' = "tool" => kind = "call"
  BY <1>1, AppendsFree DEF Paired, Calm
<1>3. PICK n \in Nat : n = Len(log)
  BY Parts
<1>4. PICK e \in Event : e = NewEvent(kind, {}) /\ e.kind = kind /\ e.id = n + 1
  <2>1. NewEvent(kind, {}) \in Event
    BY <1>1, LogGrows
  <2>2. QED
    BY <1>3, <2>1 DEF NewEvent
<1>5. Len(log') = n + 1 /\ log'[n + 1] = e /\ \A i \in 1 .. n : log'[i] = log[i]
  BY <1>1, <1>3, <1>4, LongerLog, Parts
<1>6. PICK f \in Nat : f = FedLen
  BY FeedParts
<1>7. FedLen' = f + 1 /\ (\A i \in 1 .. f : Fed(i)' = Fed(i)) /\ Fed(f + 1)' = e
  BY <1>1, <1>4, <1>6, FeedGrows
<1>8. [Next]_vars
  BY DEF Next, TurnStep
<1>9. CutOutside'
  BY <1>1, <1>8, CutStaysOutside DEF Paired
<1>10. run = "tool" => /\ n >= 1 /\ log[n].kind = "call" /\ f >= 1 /\ Fed(f).id = n
  BY <1>3, <1>6 DEF Paired, CallIsLast
<1>11. ResultsFollow'
  <2>1. ASSUME NEW r \in 1 .. n + 1, log'[r].kind = "result"
        PROVE  r >= 2 /\ log'[r - 1].kind = "call"
    <3>1. CASE r \in 1 .. n
      <4>1. r >= 2 /\ log[r - 1].kind = "call"
        BY <1>3, <1>5, <2>1, <3>1 DEF Paired, ResultsFollow
      <4>2. r - 1 \in 1 .. n
        BY <3>1, <4>1
      <4>3. QED
        BY <1>5, <4>1, <4>2
    <3>2. CASE r = n + 1
      <4>1. run = "tool"
        BY <1>2, <1>4, <1>5, <2>1, <3>2
      <4>2. n \in 1 .. n /\ r - 1 = n /\ r >= 2
        BY <1>10, <3>2, <4>1
      <4>3. QED
        BY <1>5, <1>10, <4>1, <4>2
    <3>3. QED
      BY <3>1, <3>2
  <2>2. QED
    BY <1>5, <2>1 DEF ResultsFollow
<1>12. Followed'
  <2>1. ASSUME NEW i \in 1 .. f + 1, NEW q \in 1 .. n + 1,
               Fed(i)'.kind = "call", Fed(i)'.id = q, q + 1 \in 1 .. n + 1,
               log'[q + 1].kind = "result"
        PROVE  \E j \in 1 .. f + 1 : j = i + 1 /\ Fed(j)'.id = q + 1
    <3>1. i \in 1 .. f
      <4>1. i # f + 1
        BY <1>4, <1>7, <2>1
      <4>2. QED
        BY <4>1
    <3>2. Fed(i).id = q /\ Fed(i).kind = "call" /\ q \in 1 .. n
      BY <1>7, <2>1, <3>1
    <3>3. CASE q + 1 \in 1 .. n
      <4>1. Results(q)
        BY <1>3, <1>5, <2>1, <3>3 DEF Results
      <4>2. PICK j \in 1 .. f : j = i + 1 /\ Fed(j).id = q + 1
        BY <1>3, <1>6, <3>1, <3>2, <4>1 DEF Paired, Followed
      <4>3. j \in 1 .. f + 1 /\ Fed(j)' = Fed(j)
        BY <1>7, <4>2
      <4>4. QED
        BY <4>2, <4>3
    <3>4. CASE q = n
      <4>1. run = "tool"
        BY <1>2, <1>4, <1>5, <2>1, <3>4
      <4>2. f \in 1 .. f /\ Fed(f).id = Fed(i).id
        BY <1>10, <3>2, <3>4, <4>1
      <4>3. i = f
        BY <1>6, <3>1, <4>2, FeedOnce
      <4>4. f + 1 \in 1 .. f + 1 /\ f + 1 = i + 1 /\ Fed(f + 1)'.id = q + 1
        BY <1>4, <1>7, <3>4, <4>3
      <4>5. QED
        BY <4>4
    <3>5. QED
      BY <2>1, <3>3, <3>4
  <2>2. QED
    BY <1>5, <1>7, <2>1 DEF Followed, Results
<1>13. CallIsLast'
  <2>1. ASSUME run' = "tool" PROVE log'[n + 1].kind = "call"
    BY <1>2, <1>4, <1>5, <2>1
  <2>2. f + 1 \in 1 .. f + 1 /\ f + 1 = FedLen' /\ Fed(f + 1)'.id = n + 1
    BY <1>4, <1>7
  <2>3. n + 1 >= 1
    BY <1>3
  <2>4. QED
    BY <1>5, <1>7, <2>1, <2>2, <2>3 DEF CallIsLast
<1>14. QED
  BY <1>9, <1>11, <1>12, <1>13 DEF Paired

\* The summary is no result.
LEMMA PairsSummarized ==
  ASSUME IInv, Once, Cuts, Paired, Calm', AppendSummary
  PROVE  Paired'
<1>1. /\ log' = Append(log, NewEvent("summary", Digest(job.covered))) /\ marker' = marker
      /\ display' = display /\ inflight' = inflight /\ run' = run /\ job.stage # "none"
  BY DEF AppendSummary, OnlyJobMoves, turn
<1>2. PICK n \in Nat : n = Len(log)
  BY Parts
<1>3. PICK e \in Event : e = NewEvent("summary", Digest(job.covered)) /\ e.kind = "summary"
  <2>1. Digest(job.covered) \in SUBSET Nat /\ "summary" \in Kinds
    BY DigestType DEF Kinds
  <2>2. NewEvent("summary", Digest(job.covered)) \in Event
    BY <1>1, <2>1, LogGrows
  <2>3. QED
    BY <2>2 DEF NewEvent
<1>4. Len(log') = n + 1 /\ log'[n + 1] = e /\ \A i \in 1 .. n : log'[i] = log[i]
  BY <1>1, <1>2, <1>3, LongerLog, Parts
<1>5. PICK f \in Nat : f = FedLen
  BY FeedParts
<1>6. FedLen' = f /\ \A i \in 1 .. f : Fed(i)' = Fed(i)
  BY <1>1, <1>5 DEF FedLen, Fed
<1>7. [Next]_vars
  BY DEF Next, JobStep
<1>8. CutOutside'
  BY <1>1, <1>7, CutStaysOutside DEF Paired
<1>9. phase = "compressing" /\ run = "none"
  BY <1>1 DEF Once, Paired, Calm
<1>10. CallIsLast'
  BY <1>1, <1>9 DEF CallIsLast
<1>11. ResultsFollow'
  <2>1. ASSUME NEW r \in 1 .. n + 1, log'[r].kind = "result"
        PROVE  r >= 2 /\ log'[r - 1].kind = "call"
    <3>1. r \in 1 .. n
      BY <1>3, <1>4, <2>1
    <3>2. r >= 2 /\ log[r - 1].kind = "call"
      BY <1>2, <1>4, <2>1, <3>1 DEF Paired, ResultsFollow
    <3>3. r - 1 \in 1 .. n
      BY <3>1, <3>2
    <3>4. QED
      BY <1>4, <3>2, <3>3
  <2>2. QED
    BY <1>4, <2>1 DEF ResultsFollow
<1>12. Followed'
  <2>1. ASSUME NEW i \in 1 .. f, NEW q \in 1 .. n + 1,
               Fed(i)'.kind = "call", Fed(i)'.id = q, q + 1 \in 1 .. n + 1,
               log'[q + 1].kind = "result"
        PROVE  \E j \in 1 .. f : j = i + 1 /\ Fed(j)'.id = q + 1
    <3>1. q # n
      BY <1>3, <1>4, <2>1
    <3>2. q \in 1 .. n /\ q + 1 \in 1 .. n
      BY <2>1, <3>1
    <3>3. Results(q) /\ Fed(i).kind = "call" /\ Fed(i).id = q
      BY <1>2, <1>4, <1>6, <2>1, <3>2 DEF Results
    <3>4. PICK j \in 1 .. f : j = i + 1 /\ Fed(j).id = q + 1
      BY <1>2, <1>5, <3>2, <3>3 DEF Paired, Followed
    <3>5. QED
      BY <1>6, <3>4
  <2>2. QED
    BY <1>4, <1>6, <2>1 DEF Followed, Results
<1>13. QED
  BY <1>8, <1>10, <1>11, <1>12 DEF Paired

\* What follows the cut is by the user, and so is no result.
LEMMA PairsMarked ==
  ASSUME IInv, Once, Cuts, Paired, Calm', WriteMarker
  PROVE  Paired'
<1>1. /\ job.stage = "mark" /\ log' = log /\ display' = display /\ inflight' = inflight /\ run' = run
      /\ marker'.coveredThrough = job.covered[Len(job.covered)].id
  BY DEF WriteMarker, turn
<1>2. PICK k \in Nat : k = Len(job.covered)
  BY Parts
<1>3. /\ k \in 1 .. Len(display) - 1 /\ ByUser(display[k + 1])
  BY <1>1, <1>2 DEF Cuts, CutoffAt
<1>4. k \in 1 .. Len(display) /\ k + 1 \in 1 .. Len(display) /\ Len(display) \in Nat
  BY <1>3, Parts
<1>5. PICK q \in 1 .. Len(log) : q = display[k].id /\ display[k] = log[q]
  BY <1>4, Parts
<1>6. marker'.coveredThrough = q
  <2>1. k \in 1 .. Len(job.covered)
    BY <1>2, <1>4
  <2>2. display[k] = job.covered[k]
    BY <1>1, <2>1, CutDisplay
  <2>3. QED
    BY <1>1, <1>2, <1>5, <2>2
<1>7. ~ Results(q)
  <2>1. SUFFICES ASSUME q + 1 \in 1 .. Len(log), log[q + 1].kind = "result", Results(q) PROVE FALSE
    BY DEF Results
  <2>2. PICK p \in 1 .. Len(log) : p = q + 1
    BY <2>1
  <2>a. p - 1 = q
    BY <2>2
  <2>3. log[p].kind = "result" /\ p - 1 = q
    BY <2>1, <2>2, <2>a
  <2>4. log[q].kind = "call"
    BY <2>2, <2>3 DEF Paired, ResultsFollow
  <2>5. k \in 1 .. FedLen /\ Fed(k) = display[k] /\ Fed(k + 1) = display[k + 1]
    BY <1>4, Parts DEF FedLen, Fed
  <2>6. Fed(k + 1).id = q + 1
    BY <1>5, <2>1, <2>4, <2>5 DEF Paired, Followed
  <2>7. display[k + 1] = log[q + 1]
    BY <1>4, <2>5, <2>6, Parts
  <2>8. QED
    BY <1>3, <2>1, <2>7 DEF ByUser, UserKinds
<1>8. ~ Results(q)'
  BY <1>1, <1>7 DEF Results
<1>9. CutOutside'
  BY <1>6, <1>8 DEF CutOutside
<1>10. ResultsFollow' /\ CallIsLast' /\ Followed'
  BY <1>1 DEF Paired, ResultsFollow, CallIsLast, Followed, FedLen, Fed, Results
<1>11. QED
  BY <1>9, <1>10 DEF Paired

\* A display that is rebuilt has pairs, and nothing is on its way to it.
LEMMA PairsRebuilt ==
  ASSUME IInv, Paired, Calm', log' = log, marker' = marker, inflight' = << >>,
         NEW s \in Seq(Event), Pairs(s), display' = s, run' # "tool"
  PROVE  Paired'
<1>1. Len(inflight') = 0 /\ Len(s) \in Nat /\ Len(log) \in Nat
  BY Parts, LenProperties
<1>2. FedLen' = Len(s) /\ \A i \in 1 .. Len(s) : Fed(i)' = s[i]
  <2>1. FedLen' = Len(s) + 0
    BY <1>1 DEF FedLen
  <2>2. ASSUME NEW i \in 1 .. Len(s) PROVE Fed(i)' = s[i]
    <3>1. i <= Len(s)
      BY <1>1
    <3>2. QED
      BY <3>1 DEF Fed
  <2>3. QED
    BY <1>1, <2>1, <2>2
<1>3. ResultsFollow' /\ CutOutside'
  BY DEF Paired, ResultsFollow, CutOutside, Results
<1>4. CallIsLast'
  BY DEF CallIsLast
<1>5. Followed'
  <2>1. ASSUME NEW i \in 1 .. Len(s), NEW q \in 1 .. Len(log),
               s[i].kind = "call", s[i].id = q, Results(q)
        PROVE  \E j \in 1 .. Len(s) : j = i + 1 /\ s[j].id = q + 1
    BY <2>1 DEF Pairs
  <2>2. QED
    BY <1>2, <2>1 DEF Followed, Results
<1>6. QED
  BY <1>3, <1>4, <1>5 DEF Paired

LEMMA PairsHandedOver ==
  ASSUME IInv, Once, Cuts, Paired, Calm', HandleSummary
  PROVE  Paired'
<1>1. job.stage = "ready" /\ log' = log /\ marker' = marker
      /\ display' = << log[job.summary] >> \o job.tail
  BY DEF HandleSummary, disk
<1>2. phase = "compressing" /\ inflight = << >> /\ run = "none"
  BY <1>1, CutDisplay DEF Paired, Calm
<1>3. inflight' = << >> /\ run' # "tool"
  BY <1>2 DEF HandleSummary, StartStream
<1>4. PICK S \in 1 .. Len(log) : S = job.summary /\ log[S].kind = "summary"
  BY <1>1 DEF IInv, Coherent, JobNames, Cuts
<1>5. PICK a \in Seq(Event) : a = << log[S] >>
  BY Parts, SingletonWithin
<1>6. Len(a) = 1 /\ a[1] = log[S]
  BY <1>5
<1>7. PICK b \in Seq(Event) : b = job.tail
  BY Parts
<1>8. PICK r : r = a \o b
  OBVIOUS
<1>9. /\ r \in Seq(Event) /\ Len(b) \in Nat /\ Len(r) = Len(a) + Len(b)
      /\ \A i \in 1 .. Len(a) : i \in 1 .. Len(r) /\ r[i] = a[i]
      /\ \A i \in 1 .. Len(b) : Len(a) + i \in 1 .. Len(r) /\ r[Len(a) + i] = b[i]
  BY <1>8, Joined
<1>10. display' = r
  BY <1>1, <1>4, <1>5, <1>7, <1>8, Zenon
<1>11. PICK k \in Nat : k = Len(job.covered)
  BY Parts
<1>12. /\ Len(display) = k + Len(b) /\ Len(display) \in Nat /\ FedLen = k + Len(b)
       /\ \A i \in 1 .. Len(b) : k + i \in 1 .. FedLen /\ Fed(k + i) = b[i]
  <2>1. /\ Len(display) = k + Len(b) /\ Len(display) \in Nat /\ Len(inflight) = 0
        /\ \A i \in 1 .. Len(b) : k + i \in 1 .. Len(display) /\ display[k + i] = b[i]
    BY <1>1, <1>7, <1>11, CutDisplay, Parts
  <2>2. FedLen = k + Len(b)
    BY <1>9, <2>1 DEF FedLen
  <2>3. ASSUME NEW i \in 1 .. Len(b) PROVE k + i \in 1 .. FedLen /\ Fed(k + i) = b[i]
    <3>1. k + i <= Len(display) /\ k + i \in 1 .. FedLen
      BY <1>9, <2>1, <2>2
    <3>2. QED
      BY <2>1, <3>1 DEF Fed
  <2>4. QED
    BY <2>1, <2>2, <2>3
<1>13. ASSUME NEW i \in 1 .. Len(r), r[i].kind = "call", Results(r[i].id)
       PROVE  i + 1 \in 1 .. Len(r) /\ r[i + 1].id = r[i].id + 1
  <2>1. i # 1
    BY <1>4, <1>6, <1>9, <1>13
  <2>2. PICK j \in 1 .. Len(b) : 1 + j = i
    <3>1. i - 1 \in 1 .. Len(b) /\ 1 + (i - 1) = i
      BY <1>6, <1>9, <2>1
    <3>2. QED
      BY <3>1
  <2>3. r[i] = b[j] /\ b[j] = Fed(k + j) /\ k + j \in 1 .. FedLen
    BY <1>6, <1>9, <1>12, <2>2
  <2>4. PICK q \in 1 .. Len(log) : q = Fed(k + j).id
    BY <2>3, FeedParts
  <2>5. PICK l \in 1 .. FedLen : l = (k + j) + 1 /\ Fed(l).id = q + 1
    BY <1>13, <2>3, <2>4, SMTT(30) DEF Paired, Followed
  <2>6. j + 1 \in 1 .. Len(b) /\ k + (j + 1) = l
    <3>1. PICK m \in Nat : m = Len(b)
      BY <1>9
    <3>2. l \in 1 .. k + m /\ j \in 1 .. m /\ l = (k + j) + 1
      BY <1>12, <2>5, <3>1
    <3>3. j + 1 \in 1 .. m /\ k + (j + 1) = l
      BY <3>2
    <3>4. QED
      BY <3>1, <3>3
  <2>7. b[j + 1] = Fed(l)
    BY <1>12, <2>6
  <2>8. 1 + (j + 1) \in 1 .. Len(r) /\ r[1 + (j + 1)] = b[j + 1]
    BY <1>6, <1>9, <2>6
  <2>9. 1 + (j + 1) = i + 1
    BY <2>2
  <2>10. QED
    BY <2>3, <2>4, <2>5, <2>7, <2>8, <2>9
<1>14. Pairs(r)
  BY <1>13 DEF Pairs
<1>15. QED
  BY <1>1, <1>3, <1>9, <1>10, <1>14, PairsRebuilt

LEMMA PairedInit == Init => Paired
BY DEF Init, Paired, Calm, ResultsFollow, CallIsLast, Followed, CutOutside, NoMarker, Results

LEMMA PairedKept ==
  ASSUME ToolKinds \subseteq {"free"}, IInv, Once, Cuts, Undisturbed => Paired, [Next]_vars
  PROVE  (Undisturbed => Paired)'
<1>1. SUFFICES ASSUME mishaps' = {} PROVE Paired'
  BY DEF Undisturbed
<1>2. mishaps = {}
  <2>1. CASE RunAppends \/ LeftoverAppends
    BY <1>1, <2>1 DEF RunAppends, LeftoverAppends, AppendedBy
  <2>2. CASE CancelTurn \/ CancelCompression \/ Restart \/ CompactFails
    BY <1>1, <2>2 DEF CancelTurn, CancelCompression, Restart, CompactFails, Noted
  <2>3. CASE \/ SendPrompt \/ CompressCommand \/ AnswerConfirmation
             \/ RunFails \/ HandleEvent \/ FinishTurn \/ CancelledTurnEnds \/ LeftoverReturns
    BY <1>1, <2>3 DEF SendPrompt, CompressCommand, AnswerConfirmation, RunFails, HandleEvent,
                      FinishTurn, CancelledTurnEnds, LeftoverReturns, hist
  <2>4. CASE \/ Summarize \/ AppendSummary \/ WriteMarker \/ HandleSummary \/ HandleNoSummary
             \/ Resume \/ UNCHANGED vars
    BY <1>1, <2>4 DEF Summarize, AppendSummary, WriteMarker, HandleSummary, HandleNoSummary,
                      Resume, vars, hist
  <2>5. QED
    BY <2>1, <2>2, <2>3, <2>4 DEF Next, TurnStep, JobStep, HandleResult
<1>3. Paired
  BY <1>2 DEF Undisturbed
<1>4. Calm'
  BY <1>1, <1>3, CalmKept DEF Paired
<1>5. ASSUME log' = log, marker' = marker, display' = display, inflight' = inflight,
             run' = "tool" => run = "tool"
      PROVE  Paired'
  <2>1. FedLen' = FedLen /\ \A i \in 1 .. FedLen : Fed(i)' = Fed(i)
    BY <1>5 DEF FedLen, Fed
  <2>2. QED
    BY <1>3, <1>4, <1>5, <2>1, PairsStay
<1>6. CASE SendPrompt \/ CompressCommand \/ FinishTurn
  <2>1. log' = log /\ marker' = marker /\ display' = display
    BY <1>6 DEF SendPrompt, CompressCommand, FinishTurn, disk
  <2>2. inflight' = inflight
    BY <1>6 DEF SendPrompt, CompressCommand, FinishTurn, turn, StartStream, Once
  <2>3. run' = "tool" => run = "tool"
    BY <1>6 DEF SendPrompt, CompressCommand, FinishTurn, turn, StartStream
  <2>4. QED
    BY <1>5, <2>1, <2>2, <2>3
<1>7. CASE Summarize \/ RunFails \/ HandleNoSummary \/ UNCHANGED vars
  <2>1. log' = log /\ marker' = marker /\ display' = display /\ inflight' = inflight
        /\ (run' = "tool" => run = "tool")
    BY <1>7 DEF Summarize, RunFails, HandleNoSummary, OnlyJobMoves, vars, disk, turn
  <2>2. QED
    BY <1>5, <2>1
<1>8. CASE HandleEvent
  <2>1. log' = log /\ marker' = marker /\ run' = run
    BY <1>8 DEF HandleEvent, disk
  <2>2. FedLen' = FedLen /\ \A i \in 1 .. FedLen : Fed(i)' = Fed(i)
    BY <1>8, FeedSame
  <2>3. QED
    BY <1>3, <1>4, <2>1, <2>2, PairsStay
<1>9. CASE Resume
  <2>1. log' = log /\ marker' = marker /\ run' = run /\ inflight' = inflight /\ phase = "idle"
        /\ display' = ModelView
    BY <1>9 DEF Resume, disk, turn
  <2>2. inflight' = << >> /\ run' # "tool"
    BY <1>3, <2>1 DEF Once, Paired, Calm
  <2>3. PICK v \in Seq(Event) : v = ModelView /\ Pairs(v)
    BY ModelViewPairs
  <2>4. display' = v
    BY <2>1, <2>3
  <2>5. QED
    BY <1>3, <1>4, <2>1, <2>2, <2>3, <2>4, PairsRebuilt
<1>10. CASE AnswerConfirmation \/ LeftoverAppends \/ LeftoverReturns \/ CancelledTurnEnds
  <2>1. ~ AnswerConfirmation /\ ~ LeftoverReturns
    BY <1>3 DEF AnswerConfirmation, LeftoverReturns, Paired, Calm
  <2>2. ~ CancelledTurnEnds
    BY <1>3 DEF CancelledTurnEnds, Paired, Calm
  <2>3. ~ LeftoverAppends
    BY <1>3 DEF LeftoverAppends, AppendedBy, Appends, Paired, Calm
  <2>4. QED
    BY <1>10, <2>1, <2>2, <2>3
<1>11. CASE CancelTurn \/ CancelCompression \/ Restart \/ CompactFails
  BY <1>1, <1>11 DEF CancelTurn, CancelCompression, Restart, CompactFails, Noted
<1>12. QED
  BY <1>3, <1>4, <1>6, <1>7, <1>8, <1>9, <1>10, <1>11, PairsGrow, PairsSummarized, PairsMarked,
     PairsHandedOver DEF Next, TurnStep, JobStep, HandleResult


\* An event that the marker leaves is one of the log, and visible.
LEMMA SeenIsVisible ==
  ASSUME IInv, Cuts, NEW i \in 1 .. Len(FullView)
  PROVE  /\ FullView[i].id \in 1 .. Len(log) /\ FullView[i] = log[FullView[i].id]
         /\ Visible(FullView[i].id)
<1>1. PICK n \in Nat : n = Len(log)
  BY Parts
<1>2. \A q \in 1 .. n : log[q].id = q
  BY <1>1, Parts
<1>3. CASE marker.summary = NoId
  <2>1. FullView = log
    BY <1>3 DEF FullView, ApplyCompaction, Applies
  <2>2. QED
    BY <1>1, <1>2, <1>3, <2>1 DEF Visible
<1>4. CASE marker.summary # NoId
  <2>0. marker.coveredThrough < marker.summary
    BY <1>4 DEF Cuts
  <2>1. PICK sm \in 1 .. n : sm = marker.summary
    BY <1>1, <1>4, <2>0, ViewShape
  <2>2. PICK cv \in 1 .. n : cv = marker.coveredThrough
    BY <1>1, <1>4, <2>0, ViewShape
  <2>3. /\ cv < sm
        /\ Len(FullView) = n - cv
        /\ FullView[1] = log[sm]
        /\ \A j \in 2 .. sm - cv : FullView[j] = log[cv + j - 1]
        /\ \A j \in sm - cv + 1 .. n - cv : FullView[j] = log[cv + j]
    BY <1>1, <1>4, <2>0, <2>1, <2>2, ViewShape
  <2>4. i \in 1 .. n - cv
    BY <2>3
  <2>5. PICK q \in 1 .. n : FullView[i] = log[q] /\ (q = sm \/ q > cv)
    <3>1. CASE i = 1
      BY <2>3, <3>1
    <3>2. CASE i \in 2 .. sm - cv
      <4>1. FullView[i] = log[cv + i - 1] /\ cv + i - 1 \in 1 .. n /\ cv + i - 1 > cv
        BY <2>3, <3>2
      <4>2. QED
        BY <4>1
    <3>3. CASE i \in sm - cv + 1 .. n - cv
      <4>1. FullView[i] = log[cv + i] /\ cv + i \in 1 .. n /\ cv + i > cv
        BY <2>3, <3>3
      <4>2. QED
        BY <4>1
    <3>4. QED
      BY <2>3, <2>4, <3>1, <3>2, <3>3
  <2>6. QED
    BY <1>1, <1>2, <2>1, <2>2, <2>5 DEF Visible
<1>5. QED
  BY <1>3, <1>4

LEMMA PairedSuffices == IInv /\ Cuts /\ (Undisturbed => Paired) => PairsIntact
<1> DEFINE CallOf(view, r) ==
      CHOOSE c \in 1 .. view[r].id :
        log[c].kind = "call" /\ \A b \in c + 1 .. view[r].id : log[b].kind # "call"
<1>1. SUFFICES ASSUME IInv, Cuts, Paired, NEW r \in 1 .. Len(FullView),
                      FullView[r].kind = "result"
               PROVE  CallOf(FullView, r) \in Ids(FullView)
  BY DEF PairsIntact
<1>2. PICK q \in 1 .. Len(log) : q = FullView[r].id /\ FullView[r] = log[q] /\ Visible(q)
  BY <1>1, SeenIsVisible
<1>3. q >= 2 /\ log[q - 1].kind = "call" /\ log[q].kind = "result"
  BY <1>1, <1>2 DEF Paired, ResultsFollow
<1>4. PICK c \in 1 .. Len(log) : c = q - 1 /\ c + 1 = q /\ c < q
  BY <1>3, Parts
<1>5. CallOf(FullView, r) = c
  <2>1. c \in 1 .. q /\ log[c].kind = "call"
    BY <1>3, <1>4
  <2>2. \A b \in c + 1 .. q : log[b].kind # "call"
    BY <1>3, <1>4
  <2>3. ASSUME NEW x \in 1 .. q, log[x].kind = "call", \A b \in x + 1 .. q : log[b].kind # "call"
        PROVE  x = c
    <3>1. ~ (c \in x + 1 .. q)
      BY <2>1, <2>3
    <3>2. x # q
      BY <1>3, <2>3
    <3>3. QED
      BY <1>4, <3>1, <3>2
  <2>4. CallOf(FullView, r) =
          CHOOSE x \in 1 .. q : log[x].kind = "call" /\ \A b \in x + 1 .. q : log[b].kind # "call"
    BY <1>2
  <2>5. QED
    BY <2>1, <2>2, <2>3, <2>4
<1>6. Visible(c)
  <2>1. CASE marker.summary = NoId
    BY <2>1 DEF Visible
  <2>2. CASE marker.summary # NoId
    <3>1. q # marker.summary
      BY <1>1, <1>3, <2>2 DEF Cuts
    <3>2. q > marker.coveredThrough /\ marker.coveredThrough \in 1 .. Len(log)
      BY <1>1, <1>2, <2>2, <3>1 DEF Visible, IInv, Coherent, MarkerNames
    <3>3. c # marker.coveredThrough
      BY <1>1, <1>2, <1>3, <1>4, <2>2 DEF Paired, CutOutside, Results
    <3>4. c > marker.coveredThrough
      BY <1>4, <3>2, <3>3
    <3>5. QED
      BY <3>4 DEF Visible
  <2>3. QED
    BY <2>1, <2>2
<1>7. PICK j \in 1 .. Len(FullView) : FullView[j] = log[c]
  BY <1>1, <1>6, VisibleIsSeen DEF Cuts
<1>8. log[c].id = c
  BY <1>1, Parts
<1>9. QED
  BY <1>5, <1>7, <1>8 DEF Ids

\* When no tool asks for a confirmation the model never sees a tool result whose
\* call was summarised away, whatever else the session goes through, as long as no
\* turn was cut short.
\* About PickCutoff, Compact, applyCompaction, handleADK and handleCompressResult.
THEOREM PairsStayTogether ==
  ASSUME ToolKinds \subseteq {"free"}
  PROVE  Spec => []PairsIntact
<1>1. IInv /\ Once /\ Cuts /\ (Undisturbed => Paired) /\ [Next]_vars => (Undisturbed => Paired)'
  BY PairedKept
<1>2. QED
  BY <1>1, PairedInit, PairedSuffices, Invariant, AlwaysOnce, AlwaysCuts, PTL DEF Spec

-----------------------------------------------------------------------------
(***************************************************************************)
(* The display agrees with what the model sees.  The marker leaves of the  *)
(* log the summary, what is between the cut and it, and what is after it;  *)
(* the screen is fed the same, but for a stretch after the summary that    *)
(* the history limit left out when the session was resumed.                *)
(***************************************************************************)

\* What is at position j of what the marker leaves, behind the summary.
Place(j) ==
  IF marker.summary = NoId THEN j
  ELSE IF j <= marker.summary - marker.coveredThrough THEN marker.coveredThrough + j - 1
  ELSE marker.coveredThrough + j

ViewLen == IF marker.summary = NoId THEN Len(log) ELSE Len(log) - marker.coveredThrough

\* What is fed is what the marker leaves, without d events that the limit left
\* out, and without the summary that is being written.
FedView(d) ==
  /\ FedLen + d + (IF job.stage = "mark" THEN 1 ELSE 0) = ViewLen
  /\ marker.summary # NoId => FedLen >= 1
  /\ \A i \in 1 .. FedLen :
       Fed(i).id = IF i = 1 /\ marker.summary # NoId THEN marker.summary ELSE Place(i + d)
  /\ d > 0 => HistoryLimit > 0 /\ FedLen >= HistoryLimit

\* The same of the tail, which will be shown behind the summary.
TailView(d) ==
  /\ Len(job.tail) + 1 + d = ViewLen
  /\ \A i \in 1 .. Len(job.tail) : job.tail[i].id = Place(i + 1 + d)
  /\ d > 0 => HistoryLimit > 0 /\ Len(job.tail) + 1 >= HistoryLimit

Faithful ==
  /\ leftover = "none" /\ ~ esc
  /\ job.stage \in {"mark", "ready"} => job.summary = Len(log)
  /\ job.stage = "ready" => marker.summary = job.summary
  /\ job.stage # "ready" => \E d \in Nat : FedView(d)
  /\ job.stage = "ready" => \E d \in Nat : TailView(d)

Spaced == Undisturbed /\ minGap = 2

\* What the user said since the last summary.
Says(u) == log[u].kind \in {"prompt", "answer"}

Spoken ==
  marker.summary # NoId =>
    /\ gap > 0 => \E u \in marker.summary + 1 .. Len(log) : Says(u)
    /\ gap > 1 => \E u, w \in marker.summary + 1 .. Len(log) : u < w /\ Says(u) /\ Says(w)

LEMMA SpokenKept ==
  ASSUME IInv, Spoken, [Next]_vars
  PROVE  Spoken'
<1>1. /\ Len(log) \in Nat /\ Len(log') \in Nat /\ Len(log) <= Len(log')
      /\ \A i \in 1 .. Len(log) : log'[i] = log[i]
  BY LogKept
<1>2. marker \in Marker /\ marker.summary \in Nat /\ gap \in Nat
      /\ (marker.summary # NoId => marker.summary \in 1 .. Len(log))
  BY Parts DEF IInv, Coherent, MarkerNames
<1>3. CASE marker' = marker /\ gap' = gap
  <2>1. \A u \in marker.summary + 1 .. Len(log) :
          u \in marker.summary + 1 .. Len(log') /\ log'[u] = log[u]
    BY <1>1, <1>2
  <2>2. QED
    BY <1>3, <2>1 DEF Spoken, Says
<1>4. CASE WriteMarker
  <2>1. gap' = 0
    BY <1>4 DEF WriteMarker
  <2>2. QED
    BY <2>1 DEF Spoken
<1>5. ASSUME NEW stage, NEW kind \in Kinds, NEW next, AppendedBy(stage, kind, next)
      PROVE  Spoken'
  <2>1. PICK n \in Nat : n = Len(log)
    BY <1>1
  <2>2. PICK sm \in Nat : sm = marker.summary /\ sm = marker'.summary
    BY <1>2, <1>5 DEF AppendedBy
  <2>3. /\ log' = Append(log, NewEvent(kind, {}))
        /\ gap' = IF kind \in UserKinds /\ gap < 2 THEN gap + 1 ELSE gap
        /\ kind # "summary"
    BY <1>5 DEF AppendedBy, Appends
  <2>4. Len(log') = n + 1 /\ log'[n + 1].kind = kind /\ \A i \in 1 .. n : log'[i] = log[i]
    BY <2>1, <2>3, LogGrows DEF NewEvent
  <2>5. SUFFICES ASSUME sm # NoId
        PROVE  /\ gap' > 0 => \E u \in sm + 1 .. n + 1 : log'[u].kind \in {"prompt", "answer"}
               /\ gap' > 1 => \E u, w \in sm + 1 .. n + 1 :
                                /\ u < w
                                /\ log'[u].kind \in {"prompt", "answer"}
                                /\ log'[w].kind \in {"prompt", "answer"}
    BY <2>2, <2>4 DEF Spoken, Says
  <2>6. /\ gap > 0 => \E u \in sm + 1 .. n : log[u].kind \in {"prompt", "answer"}
        /\ gap > 1 => \E u, w \in sm + 1 .. n :
                        /\ u < w
                        /\ log[u].kind \in {"prompt", "answer"}
                        /\ log[w].kind \in {"prompt", "answer"}
    BY <2>1, <2>2, <2>5 DEF Spoken, Says
  <2>7. \A u \in sm + 1 .. n : u \in sm + 1 .. n + 1 /\ u < n + 1 /\ log'[u] = log[u]
    BY <2>2, <2>4
  <2>8. CASE kind \in UserKinds
    <3>1. n + 1 \in sm + 1 .. n + 1 /\ log'[n + 1].kind \in {"prompt", "answer"}
      BY <1>2, <2>1, <2>2, <2>3, <2>4, <2>5, <2>8 DEF UserKinds
    <3>2. gap' > 1 => gap > 0
      BY <1>2, <2>3
    <3>3. ASSUME gap > 0
          PROVE  \E u, w \in sm + 1 .. n + 1 :
                   /\ u < w
                   /\ log'[u].kind \in {"prompt", "answer"}
                   /\ log'[w].kind \in {"prompt", "answer"}
      <4>1. PICK u \in sm + 1 .. n : log[u].kind \in {"prompt", "answer"}
        BY <2>6, <3>3
      <4>2. u \in sm + 1 .. n + 1 /\ u < n + 1 /\ log'[u].kind \in {"prompt", "answer"}
        BY <2>7, <4>1
      <4>3. QED
        BY <3>1, <4>2
    <3>4. QED
      BY <3>1, <3>2, <3>3
  <2>9. CASE kind \notin UserKinds
    <3>1. gap' = gap
      BY <2>3, <2>9
    <3>2. QED
      BY <2>6, <2>7, <3>1
  <2>10. QED
    BY <2>8, <2>9
<1>6. CASE RunAppends \/ LeftoverAppends
  BY <1>5, <1>6 DEF RunAppends, LeftoverAppends
<1>7. CASE \/ SendPrompt \/ CompressCommand \/ AnswerConfirmation \/ CancelTurn \/ CancelCompression
           \/ RunFails \/ HandleEvent \/ FinishTurn \/ CancelledTurnEnds \/ LeftoverReturns
  <2>1. marker' = marker /\ gap' = gap
    BY <1>7 DEF SendPrompt, CompressCommand, AnswerConfirmation, CancelTurn, CancelCompression,
                RunFails, HandleEvent, FinishTurn, CancelledTurnEnds, LeftoverReturns, disk, hist
  <2>2. QED
    BY <1>3, <2>1
<1>8. CASE \/ Summarize \/ AppendSummary \/ CompactFails \/ HandleSummary \/ HandleNoSummary
           \/ Resume \/ Restart \/ UNCHANGED vars
  <2>1. marker' = marker /\ gap' = gap
    BY <1>8 DEF Summarize, AppendSummary, CompactFails, HandleSummary, HandleNoSummary,
                Resume, Restart, vars, disk, hist
  <2>2. QED
    BY <1>3, <2>1
<1>9. QED
  BY <1>4, <1>6, <1>7, <1>8 DEF Next, TurnStep, JobStep, HandleResult

LEMMA AlwaysSpoken == Spec => []Spoken
<1>1. Init => Spoken
  BY DEF Init, Spoken, NoMarker
<1>2. IInv /\ Spoken /\ [Next]_vars => Spoken'
  BY SpokenKept
<1>3. QED
  BY <1>1, <1>2, Invariant, PTL DEF Spec

\* FullView, position by position.
LEMMA ViewPlaces ==
  ASSUME IInv, Cuts
  PROVE  /\ FullView \in Seq(Event) /\ Len(FullView) = ViewLen /\ ViewLen \in Nat
         /\ marker.summary # NoId => ViewLen >= 1 /\ FullView[1] = log[marker.summary]
         /\ \A j \in 1 .. ViewLen :
              j > 1 \/ marker.summary = NoId =>
                FullView[j] = log[Place(j)] /\ Place(j) \in 1 .. Len(log)
<1>1. PICK n \in Nat : n = Len(log)
  BY Parts
<1>2. CASE marker.summary = NoId
  <2>1. FullView = log /\ ViewLen = n
    BY <1>1, <1>2 DEF FullView, ApplyCompaction, Applies, ViewLen
  <2>2. \A j \in 1 .. n : Place(j) = j
    BY <1>2 DEF Place
  <2>3. QED
    BY <1>1, <1>2, <2>1, <2>2, Parts
<1>3. CASE marker.summary # NoId
  <2>0. marker.coveredThrough < marker.summary
    BY <1>3 DEF Cuts
  <2>1. PICK sm \in 1 .. n : sm = marker.summary
    BY <1>1, <1>3, <2>0, ViewShape
  <2>2. PICK cv \in 1 .. n : cv = marker.coveredThrough
    BY <1>1, <1>3, <2>0, ViewShape
  <2>3. /\ cv < sm
        /\ FullView \in Seq(Event)
        /\ Len(FullView) = n - cv
        /\ FullView[1] = log[sm]
        /\ \A j \in 2 .. sm - cv : FullView[j] = log[cv + j - 1]
        /\ \A j \in sm - cv + 1 .. n - cv : FullView[j] = log[cv + j]
    BY <1>1, <1>3, <2>0, <2>1, <2>2, ViewShape
  <2>4. ViewLen = n - cv /\ n - cv >= 1
    BY <1>1, <1>3, <2>2, <2>1, <2>3 DEF ViewLen
  <2>5. ASSUME NEW j \in 2 .. n - cv PROVE FullView[j] = log[Place(j)] /\ Place(j) \in 1 .. n
    <3>1. CASE j \in 2 .. sm - cv
      <4>1. Place(j) = cv + j - 1 /\ cv + j - 1 \in 1 .. n
        BY <1>3, <2>1, <2>2, <2>3, <3>1 DEF Place
      <4>2. QED
        BY <2>3, <3>1, <4>1
    <3>2. CASE j \in sm - cv + 1 .. n - cv
      <4>1. ~ (j <= sm - cv) /\ cv + j \in 1 .. n
        BY <2>3, <3>2
      <4>2. Place(j) = cv + j
        BY <1>3, <2>1, <2>2, <4>1 DEF Place
      <4>3. QED
        BY <2>3, <3>2, <4>1, <4>2
    <3>3. QED
      BY <2>3, <2>5, <3>1, <3>2
  <2>6. QED
    BY <1>1, <1>3, <2>1, <2>3, <2>4, <2>5
<1>4. QED
  BY <1>2, <1>3

-----------------------------------------------------------------------------
\* The log, the marker and what is fed stay, and no summary is being written.
LEMMA FaithStays ==
  ASSUME IInv, Faithful, log' = log, marker' = marker, leftover' = "none", ~ esc',
         FedLen' = FedLen, \A i \in 1 .. FedLen : Fed(i)' = Fed(i),
         job.stage \notin {"mark", "ready"}, job'.stage \notin {"mark", "ready"}
  PROVE  Faithful'
<1>1. PICK d \in Nat : FedView(d)
  BY DEF Faithful
<1>2. /\ FedLen + d + 0 = ViewLen
      /\ marker.summary # NoId => FedLen >= 1
      /\ \A i \in 1 .. FedLen :
           Fed(i).id = IF i = 1 /\ marker.summary # NoId THEN marker.summary ELSE Place(i + d)
      /\ d > 0 => HistoryLimit > 0 /\ FedLen >= HistoryLimit
  BY <1>1 DEF FedView
<1>3. ViewLen' = ViewLen /\ \A j : Place(j)' = Place(j)
  BY DEF ViewLen, Place
<1>4. FedView(d)'
  BY <1>2, <1>3 DEF FedView
<1>5. QED
  BY <1>4 DEF Faithful

\* The run appends an event, and it is fed last.
LEMMA FaithGrows ==
  ASSUME IInv, Cuts, Faithful, RunAppends, job.stage = "none"
  PROVE  Faithful'
<1>1. PICK kind \in Kinds :
        /\ marker' = marker /\ display' = display /\ leftover' = leftover /\ job' = job
        /\ log' = Append(log, NewEvent(kind, {}))
        /\ inflight' = Append(inflight, NewEvent(kind, {}))
  BY DEF RunAppends, AppendedBy
<1>2. leftover' = "none" /\ ~ esc'
  BY <1>1 DEF Faithful, RunAppends
<1>3. PICK n \in Nat : n = Len(log)
  BY Parts
<1>4. PICK e \in Event : e = NewEvent(kind, {}) /\ e.id = n + 1
  <2>1. NewEvent(kind, {}) \in Event
    BY <1>1, LogGrows
  <2>2. QED
    BY <1>3, <2>1 DEF NewEvent
<1>5. Len(log') = n + 1
  BY <1>1, <1>3, LogGrows
<1>6. PICK f \in Nat : f = FedLen
  BY FeedParts
<1>7. FedLen' = f + 1 /\ (\A i \in 1 .. f : Fed(i)' = Fed(i)) /\ Fed(f + 1)' = e
  BY <1>1, <1>4, <1>6, FeedGrows
<1>8. PICK d \in Nat : FedView(d)
  BY DEF Faithful
<1>9. /\ f + d = ViewLen
      /\ marker.summary # NoId => f >= 1
      /\ \A i \in 1 .. f :
           Fed(i).id = IF i = 1 /\ marker.summary # NoId THEN marker.summary ELSE Place(i + d)
      /\ d > 0 => HistoryLimit > 0 /\ f >= HistoryLimit
  BY <1>6, <1>8 DEF FedView
<1>10. \A j : Place(j)' = Place(j)
  BY <1>1 DEF Place
<1>11. ViewLen' = f + d + 1 /\ Place(f + d + 1) = n + 1 /\ (marker.summary # NoId => f + 1 # 1)
  <2>1. CASE marker.summary = NoId
    BY <1>1, <1>3, <1>5, <1>9, <2>1 DEF ViewLen, Place
  <2>2. CASE marker.summary # NoId
    <3>1. PICK sm \in 1 .. n : sm = marker.summary
      BY <1>3, <2>2 DEF IInv, Coherent, MarkerNames
    <3>2. PICK cv \in 1 .. n : cv = marker.coveredThrough /\ cv < sm
      BY <1>3, <2>2, <3>1 DEF IInv, Coherent, MarkerNames, Cuts
    <3>3. ViewLen = n - cv /\ ViewLen' = n + 1 - cv
      BY <1>1, <1>3, <1>5, <2>2, <3>2, SMTT(30) DEF ViewLen
    <3>4. f + d + 1 = n + 1 - cv
      BY <1>9, <3>3
    <3>5. ~ (f + d + 1 <= sm - cv) /\ cv + (f + d + 1) = n + 1
      BY <3>4
    <3>6. Place(f + d + 1) = cv + (f + d + 1)
      BY <2>2, <3>1, <3>2, <3>5 DEF Place
    <3>7. f + 1 # 1
      BY <1>9, <2>2
    <3>8. QED
      BY <3>3, <3>4, <3>5, <3>6, <3>7
  <2>3. QED
    BY <2>1, <2>2
<1>12. FedView(d)'
  <2>1. job'.stage # "mark"
    BY <1>1
  <2>2. FedLen' + d + 0 = ViewLen'
    BY <1>7, <1>11
  <2>3. ASSUME NEW i \in 1 .. f + 1
        PROVE  Fed(i)'.id = IF i = 1 /\ marker.summary # NoId THEN marker.summary ELSE Place(i + d)
    <3>1. CASE i \in 1 .. f
      BY <1>7, <1>9, <3>1
    <3>2. CASE i = f + 1
      <4>1. i + d = f + d + 1 /\ ~ (i = 1 /\ marker.summary # NoId)
        BY <1>11, <3>2
      <4>2. Fed(i)'.id = n + 1
        BY <1>4, <1>7, <3>2
      <4>3. QED
        BY <1>11, <4>1, <4>2
    <3>3. QED
      BY <3>1, <3>2
  <2>4. FedLen' >= 1 /\ (d > 0 => FedLen' >= HistoryLimit)
    BY <1>7, <1>9, BoundsAssumption
  <2>5. QED
    BY <1>1, <1>7, <1>9, <1>10, <2>1, <2>2, <2>3, <2>4 DEF FedView
<1>13. QED
  BY <1>1, <1>2, <1>12 DEF Faithful

\* The summary joins the log; it will be shown when the marker is written.
LEMMA FaithSummarized ==
  ASSUME IInv, Once, Faithful, AppendSummary
  PROVE  Faithful'
<1>1. /\ log' = Append(log, NewEvent("summary", Digest(job.covered))) /\ marker' = marker
      /\ display' = display /\ inflight' = inflight /\ leftover' = leftover /\ job.stage = "append"
  BY DEF AppendSummary, OnlyJobMoves, turn
<1>2. leftover' = "none" /\ ~ esc'
  BY <1>1 DEF Faithful, AppendSummary, OnlyJobMoves
<1>3. PICK n \in Nat : n = Len(log)
  BY Parts
<1>4. job'.stage = "mark" /\ job'.summary = n + 1
  BY <1>3, JobAppends DEF AppendSummary
<1>5. Len(log') = n + 1
  <2>1. Digest(job.covered) \in SUBSET Nat /\ "summary" \in Kinds
    BY DigestType DEF Kinds
  <2>2. QED
    BY <1>1, <1>3, <2>1, LogGrows
<1>6. PICK f \in Nat : f = FedLen
  BY FeedParts
<1>7. FedLen' = f /\ \A i \in 1 .. f : Fed(i)' = Fed(i)
  BY <1>1, <1>6 DEF FedLen, Fed
<1>8. PICK d \in Nat : FedView(d)
  BY <1>1 DEF Faithful
<1>a. FedLen + d + 0 = ViewLen
  BY <1>1, <1>8 DEF FedView
<1>9. /\ f + d = ViewLen
      /\ marker.summary # NoId => f >= 1
      /\ \A i \in 1 .. f :
           Fed(i).id = IF i = 1 /\ marker.summary # NoId THEN marker.summary ELSE Place(i + d)
      /\ d > 0 => HistoryLimit > 0 /\ f >= HistoryLimit
  BY <1>6, <1>8, <1>a DEF FedView
<1>10. \A j : Place(j)' = Place(j)
  BY <1>1 DEF Place
<1>11. ViewLen' = f + d + 1
  <2>1. marker \in Marker /\ marker.coveredThrough \in Nat
    BY Parts
  <2>2. ViewLen' = IF marker.summary = NoId THEN n + 1 ELSE (n + 1) - marker.coveredThrough
    BY <1>1, <1>5 DEF ViewLen
  <2>3. ViewLen = IF marker.summary = NoId THEN n ELSE n - marker.coveredThrough
    BY <1>3 DEF ViewLen
  <2>4. QED
    BY <1>9, <2>1, <2>2, <2>3
<1>12. FedView(d)'
  BY <1>1, <1>4, <1>7, <1>9, <1>10, <1>11 DEF FedView
<1>13. QED
  BY <1>2, <1>4, <1>5, <1>12 DEF Faithful

\* Coming back shows the view, but for what the limit leaves out.
LEMMA FaithResumed ==
  ASSUME IInv, Once, Cuts, log' = log, marker' = marker, display' = ModelView, inflight' = << >>,
         leftover' = "none", ~ esc', job'.stage = "none"
  PROVE  Faithful'
<1>1. PICK v \in Seq(Event) : v = FullView
  BY ViewPlaces
<1>2. PICK protect \in BOOLEAN : protect = Applies(log, marker)
  BY DEF Applies
<1>3. PICK r : r = Cap(v, HistoryLimit, protect)
  OBVIOUS
<1>4. PICK d : d = CapDrops(v, HistoryLimit)
  OBVIOUS
<1>5. display' = r
  BY <1>1, <1>2, <1>3 DEF ModelView, ViewOf, FullView
<1>6. protect <=> marker.summary # NoId
  BY <1>2, NamedApplies DEF Applies, IInv, Coherent
<1>7. /\ d \in Nat /\ Len(v) \in Nat /\ r \in Seq(Event) /\ Len(r) = Len(v) - d /\ d <= Len(v)
      /\ \A i \in 1 .. Len(r) : i > 1 \/ ~ protect => r[i] = v[i + d]
      /\ protect /\ Len(v) >= 1 => Len(r) >= 1 /\ r[1] = v[1]
  BY <1>3, <1>4, BoundsAssumption, CapShape
<1>8. d > 0 => HistoryLimit > 0 /\ Len(r) = HistoryLimit
  BY <1>4, <1>7, BoundsAssumption DEF CapDrops
<1>9. /\ Len(v) = ViewLen /\ ViewLen \in Nat
      /\ protect => ViewLen >= 1 /\ v[1] = log[marker.summary] /\ marker.summary \in 1 .. Len(log)
      /\ \A j \in 1 .. ViewLen :
           j > 1 \/ ~ protect => v[j] = log[Place(j)] /\ Place(j) \in 1 .. Len(log)
  BY <1>1, <1>6, ViewPlaces DEF IInv, Coherent, MarkerNames
<1>10. FedLen' = Len(r) /\ \A i \in 1 .. Len(r) : Fed(i)' = r[i]
  <2>1. Len(inflight') = 0 /\ Len(r) \in Nat
    BY <1>7
  <2>2. FedLen' = Len(r) + 0
    BY <1>5, <2>1 DEF FedLen
  <2>3. ASSUME NEW i \in 1 .. Len(r) PROVE Fed(i)' = r[i]
    <3>1. i <= Len(r)
      BY <2>1
    <3>2. QED
      BY <1>5, <3>1 DEF Fed
  <2>4. QED
    BY <2>1, <2>2, <2>3
<1>11. ASSUME NEW i \in 1 .. Len(r)
       PROVE  r[i].id = IF i = 1 /\ marker.summary # NoId THEN marker.summary ELSE Place(i + d)
  <2>1. CASE i = 1 /\ marker.summary # NoId
    <3>1. r[i] = log[marker.summary] /\ marker.summary \in 1 .. Len(log)
      BY <1>6, <1>7, <1>9, <2>1
    <3>2. QED
      BY <2>1, <3>1, Parts
  <2>2. CASE ~ (i = 1 /\ marker.summary # NoId)
    <3>1. i > 1 \/ ~ protect
      BY <1>6, <1>7, <2>2
    <3>2. i + d \in 1 .. ViewLen /\ (i + d > 1 \/ ~ protect)
      BY <1>7, <1>9, <3>1
    <3>3. r[i] = v[i + d]
      BY <1>7, <3>1
    <3>4. v[i + d] = log[Place(i + d)] /\ Place(i + d) \in 1 .. Len(log)
      BY <1>9, <3>2
    <3>5. QED
      BY <2>2, <3>3, <3>4, Parts
  <2>3. QED
    BY <2>1, <2>2
<1>12. ViewLen' = ViewLen /\ \A j : Place(j)' = Place(j)
  BY DEF ViewLen, Place
<1>13. FedView(d)'
  <2>1. FedLen' + d + 0 = ViewLen
    BY <1>7, <1>9, <1>10
  <2>2. marker.summary # NoId => FedLen' >= 1
    BY <1>6, <1>7, <1>9, <1>10
  <2>3. d > 0 => HistoryLimit > 0 /\ FedLen' >= HistoryLimit
    BY <1>8, <1>10, BoundsAssumption
  <2>4. QED
    BY <1>10, <1>11, <1>12, <2>1, <2>2, <2>3 DEF FedView
<1>14. QED
  BY <1>7, <1>13 DEF Faithful

-----------------------------------------------------------------------------
\* The marker moves to the new summary, and the tail is what it leaves.
LEMMA FaithMarked ==
  ASSUME IInv, Once, Cuts, Spoken, Faithful, WriteMarker, minGap' = 2
  PROVE  Faithful'
<1>1. /\ job.stage = "mark" /\ log' = log /\ leftover' = leftover
      /\ marker' = [summary |-> job.summary,
                    coveredThrough |-> job.covered[Len(job.covered)].id]
  BY DEF WriteMarker, turn
<1>2. leftover' = "none" /\ ~ esc'
  BY <1>1 DEF Faithful, WriteMarker
<1>3. job'.stage = "ready" /\ job'.tail = job.tail /\ job'.summary = job.summary
  BY JobMoves DEF WriteMarker, JobStages
<1>4. gap > 1
  BY Parts DEF WriteMarker
<1>5. PICK n \in Nat : n = Len(log) /\ n = job.summary
  BY <1>1, Parts DEF Faithful
<1>6. log[n].kind = "summary" /\ n \in 1 .. Len(log)
  BY <1>1, <1>5 DEF Cuts, IInv, Coherent, JobNames
<1>7. PICK k \in Nat : k = Len(job.covered)
  BY Parts
<1>8. PICK t \in Seq(Event) : t = job.tail
  BY Parts
<1>9. PICK s \in Seq(Event) : s = display
  BY Parts
<1>10. PICK f \in Nat : f = Len(s)
  BY LenProperties
<1>11. /\ k >= 1 /\ k < f /\ Len(t) = f - k
       /\ \A i \in k + 2 .. f : ~ ByUser(s[i])
       /\ s[k] = job.covered[k]
       /\ \A i \in 1 .. f - k : t[i] = s[k + i]
  <2>1. CutoffAt(s, k)
    BY <1>1, <1>7, <1>9 DEF Cuts
  <2>2. /\ f = k + Len(t) /\ Len(t) \in Nat
        /\ \A i \in 1 .. k : s[i] = job.covered[i]
        /\ \A i \in 1 .. Len(t) : s[k + i] = t[i]
    BY <1>1, <1>7, <1>8, <1>9, <1>10, CutDisplay, Parts
  <2>3. k \in 1 .. f - 1 /\ \A i \in k + 2 .. f : ~ ByUser(s[i])
    BY <1>10, <2>1 DEF CutoffAt
  <2>4. k >= 1 /\ k < f /\ Len(t) = f - k /\ k \in 1 .. k
    BY <2>2, <2>3
  <2>5. QED
    BY <2>2, <2>3, <2>4
<1>12. f = FedLen /\ \A i \in 1 .. f : Fed(i) = s[i]
  <2>1. Len(inflight) = 0
    BY <1>1, CutDisplay
  <2>2. FedLen = f + 0
    BY <1>9, <1>10, <2>1 DEF FedLen
  <2>3. ASSUME NEW i \in 1 .. f PROVE Fed(i) = s[i]
    BY <1>9, <1>10, <2>3 DEF Fed
  <2>4. QED
    BY <2>2, <2>3
<1>13. PICK d \in Nat : FedView(d)
  BY <1>1 DEF Faithful
<1>14. FedLen + d + 1 = ViewLen
  BY <1>1, <1>13 DEF FedView
<1>15. /\ f + d + 1 = ViewLen
       /\ \A i \in 1 .. f :
            s[i].id = IF i = 1 /\ marker.summary # NoId THEN marker.summary ELSE Place(i + d)
       /\ d > 0 => HistoryLimit > 0 /\ f >= HistoryLimit
  BY <1>12, <1>13, <1>14 DEF FedView
<1>16. marker'.summary = n /\ marker'.coveredThrough = s[k].id
  BY <1>1, <1>5, <1>7, <1>11
<1>17. s[k].id \in 1 .. n /\ s[k].id < n
  <2>1. job.covered[Len(job.covered)].id < job.summary
    BY <1>1 DEF IInv, Coherent, MarkReady
  <2>2. job.covered[Len(job.covered)].id \in 1 .. Len(log)
    BY <1>1, LastCovered
  <2>3. QED
    BY <1>5, <1>7, <1>11, <2>1, <2>2
<1>a. PICK z \in Nat : z = s[k].id /\ z < n
  BY <1>17
<1>b. k >= 1 /\ k < f
  BY <1>11
<1>c. z \in Nat /\ z < n
  BY <1>a
<1>18. /\ ViewLen' = n - z
       /\ \A j \in 1 .. n - z : Place(j)' = z + j - 1
  <2>1. n # NoId
    BY <1>17 DEF NoId
  <2>2. QED
    BY <1>1, <1>5, <1>16, <1>a, <2>1 DEF ViewLen, Place
\* It is enough to say which positions follow the cut.
<1>19. ASSUME NEW c \in Nat, z <= c, c + (f - k) + 1 = n,
              \A i \in 1 .. f - k : s[k + i].id = c + i,
              c > z => d > 0 /\ k = 1
       PROVE  Faithful'
  <2>1. PICK e \in Nat : e = c - z
    BY <1>a, <1>19
  <2>a. c + (f - k) + 1 = n
    BY <1>19
  <2>2. (f - k) + 1 + e = n - z
    BY <1>b, <1>c, <2>a, <2>1
  <2>b. \A i \in 1 .. f - k : t[i].id = c + i
    BY <1>11, <1>19
  <2>3. ASSUME NEW i \in 1 .. f - k PROVE t[i].id = Place(i + 1 + e)'
    <3>1. i + 1 + e \in 1 .. n - z /\ z + (i + 1 + e) - 1 = c + i
      BY <1>b, <1>c, <2>a, <2>1, <2>2
    <3>2. PICK j \in 1 .. n - z : j = i + 1 + e
      BY <3>1
    <3>3. Place(j)' = z + j - 1
      BY <1>18
    <3>4. t[i].id = c + i
      BY <2>b
    <3>5. QED
      BY <3>1, <3>2, <3>3, <3>4
  <2>4. e > 0 => HistoryLimit > 0 /\ (f - k) + 1 >= HistoryLimit
    <3>1. SUFFICES ASSUME e > 0 PROVE HistoryLimit > 0 /\ (f - k) + 1 >= HistoryLimit
      OBVIOUS
    <3>2. c > z
      BY <1>a, <2>1, <3>1
    <3>3. d > 0 /\ k = 1
      BY <1>19, <3>2
    <3>4. (f - k) + 1 = f
      BY <1>b, <3>3
    <3>5. QED
      BY <1>15, <3>3, <3>4
  <2>5. TailView(e)'
    <3>1. job'.tail = t /\ Len(t) = f - k
      BY <1>3, <1>8, <1>11
    <3>2. Len(t) + 1 + e = n - z
      BY <2>2, <3>1
    <3>3. QED
      BY <1>18, <2>3, <2>4, <3>1, <3>2 DEF TailView
  <2>6. QED
    BY <1>1, <1>2, <1>3, <1>5, <1>16, <2>5 DEF Faithful
<1>20. CASE marker.summary = NoId
  <2>1. ViewLen = n /\ \A i \in 1 .. f : s[i].id = i + d
    BY <1>5, <1>15, <1>20 DEF ViewLen, Place
  <2>2. PICK c \in Nat : c = k + d
    OBVIOUS
  <2>a. f + d + 1 = n
    BY <1>15, <2>1
  <2>3. c + (f - k) + 1 = n
    BY <1>b, <2>2, <2>a
  <2>b. z = c
    <3>1. k \in 1 .. f
      BY <1>b
    <3>2. QED
      BY <1>a, <2>1, <2>2, <3>1
  <2>4. ASSUME NEW i \in 1 .. f - k PROVE s[k + i].id = c + i
    <3>1. k + i \in 1 .. f /\ (k + i) + d = c + i
      BY <1>b, <2>2, <2>4
    <3>2. QED
      BY <2>1, <3>1
  <2>c. z <= c /\ ~ (c > z)
    BY <1>a, <2>b
  <2>5. QED
    BY <1>19, <2>3, <2>4, <2>c
<1>21. CASE marker.summary # NoId
  <2>1. PICK sm \in 1 .. n : sm = marker.summary
    BY <1>5, <1>21 DEF IInv, Coherent, MarkerNames
  <2>2. PICK cv \in 1 .. n : cv = marker.coveredThrough /\ cv < sm
    BY <1>5, <1>21, <2>1 DEF IInv, Coherent, MarkerNames, Cuts
  <2>3. ViewLen = n - cv
    BY <1>5, <1>21, <2>2 DEF ViewLen
  <2>4. s[1].id = sm
    BY <1>11, <1>15, <1>21, <2>1
  <2>5. ASSUME NEW i \in 2 .. f
        PROVE  s[i].id = IF i + d <= sm - cv THEN cv + (i + d) - 1 ELSE cv + (i + d)
    <3>1. i \in 1 .. f /\ i # 1
      BY <2>5
    <3>2. s[i].id = Place(i + d)
      BY <1>15, <3>1
    <3>3. QED
      BY <1>21, <2>1, <2>2, <3>2 DEF Place
  <2>6. PICK u \in sm + 1 .. n, w \in sm + 1 .. n : u < w /\ Says(u) /\ Says(w)
    BY <1>4, <1>5, <1>21, <2>1 DEF Spoken
  <2>7. u \in sm + 1 .. n - 1 /\ w \in sm + 1 .. n - 1
    <3>1. u # n /\ w # n
      BY <1>6, <2>6 DEF Says
    <3>2. QED
      BY <2>6, <3>1
  <2>8. PICK said : said = { x \in 1 .. n : Says(x) }
    OBVIOUS
  <2>9. w \in said
    BY <2>6, <2>8
  <2>10. ASSUME NEW i \in k + 2 .. f PROVE s[i].id \notin said
    <3>1. i \in 1 .. f /\ ~ ByUser(s[i])
      BY <1>11, <2>10
    <3>2. s[i] = log[s[i].id]
      BY <1>9, <1>10, <3>1, Parts
    <3>3. QED
      BY <2>8, <3>1, <3>2 DEF Says, ByUser, UserKinds
  <2>11. f + d + 1 = n - cv
    BY <1>15, <2>3
  <2>d. sm \in Nat /\ cv \in Nat /\ cv < sm
    BY <2>1, <2>2
\* The user has spoken twice since the last summary, and the cut is made before
\* the last event of the user: it falls behind the summary, or right after the
\* head when the limit left out what the user said first.
  <2>12. k + d + 1 > sm - cv /\ (k >= 2 => k + d > sm - cv) /\ (k = 1 => d > 0)
    <3>0. /\ u \in Int /\ w \in Int /\ u < w /\ w <= n - 1 /\ u >= sm + 1
      BY <2>d, <2>6, <2>7
    <3>1. PICK i \in Int : i = w - cv - d
      BY <2>d, <3>0
    <3>2. PICK j \in Int : j = u - cv - d
      BY <2>d, <3>0
    <3>3. i > j /\ i <= f /\ i + d > sm - cv /\ cv + (i + d) = w
      BY <1>b, <2>d, <2>11, <3>0, <3>1, <3>2
    <3>4. ~ (i >= k + 2)
      <4>1. SUFFICES ASSUME i >= k + 2 PROVE FALSE
        OBVIOUS
      <4>2. i \in 2 .. f /\ i \in k + 2 .. f /\ ~ (i + d <= sm - cv)
        BY <1>b, <2>d, <3>3, <4>1
      <4>3. s[i].id = cv + (i + d)
        BY <2>5, <4>2
      <4>4. s[i].id = w
        BY <3>3, <4>3
      <4>5. QED
        BY <2>9, <2>10, <4>2, <4>4
    <3>5. j <= k
      BY <3>3, <3>4
    <3>6. u - cv <= k + d /\ u - cv > sm - cv
      BY <2>d, <3>0, <3>2, <3>5
    <3>7. QED
      BY <2>d, <3>0, <3>6
  <2>13. PICK c \in Nat : c = cv + k + d
    BY <2>2
  <2>14. c + (f - k) + 1 = n
    BY <1>b, <2>d, <2>11, <2>13
  <2>15. ASSUME NEW i \in 1 .. f - k PROVE s[k + i].id = c + i
    <3>1. k + i \in 2 .. f /\ ~ ((k + i) + d <= sm - cv) /\ cv + ((k + i) + d) = c + i
      BY <1>b, <2>d, <2>12, <2>13, <2>15
    <3>2. QED
      BY <2>5, <3>1
  <2>16. z <= c /\ (c > z => d > 0 /\ k = 1)
    <3>1. CASE k = 1
      <4>1. z = sm /\ sm <= c
        BY <1>a, <2>1, <2>2, <2>4, <2>12, <2>13, <3>1, SMTT(30)
      <4>2. d > 0
        BY <2>12, <3>1
      <4>3. QED
        BY <3>1, <4>1, <4>2
    <3>2. CASE k >= 2
      <4>1. k \in 2 .. f /\ ~ (k + d <= sm - cv) /\ cv + (k + d) = c
        BY <1>b, <2>d, <2>12, <2>13, <3>2
      <4>2. z = c
        BY <1>a, <2>5, <4>1
      <4>3. QED
        BY <1>a, <4>2
    <3>3. QED
      BY <1>b, <3>1, <3>2
  <2>17. QED
    BY <1>19, <2>14, <2>15, <2>16
<1>22. QED
  BY <1>20, <1>21

\* The display is rebuilt from the summary and the tail.
LEMMA FaithHandedOver ==
  ASSUME IInv, Once, Faithful, HandleSummary
  PROVE  Faithful'
<1>1. job.stage = "ready" /\ log' = log /\ marker' = marker /\ leftover' = leftover
      /\ display' = << log[job.summary] >> \o job.tail
      /\ job' = NoJob
  BY DEF HandleSummary, disk
<1>2. leftover' = "none" /\ job'.stage = "none"
  BY <1>1 DEF Faithful, NoJob
<1>a. ~ esc'
  BY DEF HandleSummary, StartStream
<1>3. inflight' = << >> /\ Len(inflight') = 0
  <2>1. inflight = << >>
    BY <1>1, CutDisplay
  <2>2. QED
    BY <2>1 DEF HandleSummary, StartStream
<1>4. PICK S \in 1 .. Len(log) : S = job.summary /\ S = marker.summary /\ log[S].id = S
  BY <1>1, Parts DEF IInv, Coherent, JobNames, Faithful
<1>5. PICK a \in Seq(Event) : a = << log[S] >>
  BY Parts, SingletonWithin
<1>6. Len(a) = 1 /\ a[1] = log[S]
  BY <1>5
<1>7. PICK b \in Seq(Event) : b = job.tail
  BY Parts
<1>8. PICK r : r = a \o b
  OBVIOUS
<1>9. /\ r \in Seq(Event) /\ Len(b) \in Nat /\ Len(r) = Len(a) + Len(b)
      /\ \A i \in 1 .. Len(a) : i \in 1 .. Len(r) /\ r[i] = a[i]
      /\ \A i \in 1 .. Len(b) : Len(a) + i \in 1 .. Len(r) /\ r[Len(a) + i] = b[i]
  BY <1>8, Joined
<1>10. display' = r
  BY <1>1, <1>4, <1>5, <1>7, <1>8, Zenon
<1>11. PICK m \in Nat : m = Len(b)
  BY <1>9
<1>12. FedLen' = m + 1 /\ \A i \in 1 .. m + 1 : Fed(i)' = r[i]
  <2>1. Len(r) = m + 1
    BY <1>6, <1>9, <1>11
  <2>2. FedLen' = Len(r) + 0
    BY <1>3, <1>10, <2>1 DEF FedLen
  <2>3. ASSUME NEW i \in 1 .. m + 1 PROVE Fed(i)' = r[i]
    <3>1. i <= Len(r)
      BY <2>1
    <3>2. QED
      BY <1>10, <3>1 DEF Fed
  <2>4. QED
    BY <2>1, <2>2, <2>3
<1>13. PICK d \in Nat : TailView(d)
  BY <1>1 DEF Faithful
<1>14. /\ m + 1 + d = ViewLen
       /\ \A i \in 1 .. m : b[i].id = Place(i + 1 + d)
       /\ d > 0 => HistoryLimit > 0 /\ m + 1 >= HistoryLimit
  BY <1>7, <1>11, <1>13 DEF TailView
<1>15. ASSUME NEW i \in 1 .. m + 1
       PROVE  r[i].id = IF i = 1 /\ marker.summary # NoId THEN marker.summary ELSE Place(i + d)
  <2>1. marker.summary # NoId
    BY <1>4 DEF NoId
  <2>2. CASE i = 1
    <3>1. 1 \in 1 .. Len(a)
      BY <1>6
    <3>2. r[1].id = S
      BY <1>4, <1>6, <1>9, <3>1
    <3>3. QED
      BY <1>4, <2>1, <2>2, <3>2
  <2>3. CASE i # 1
    <3>1. PICK j \in 1 .. m : j + 1 = i /\ j + 1 + d = i + d
      <4>1. i - 1 \in 1 .. m /\ (i - 1) + 1 = i
        BY <2>3
      <4>2. QED
        BY <4>1
    <3>2. j \in 1 .. Len(b) /\ Len(a) + j = i
      BY <1>6, <1>11, <3>1
    <3>3. r[i] = b[j]
      BY <1>9, <3>2
    <3>4. b[j].id = Place(i + d)
      BY <1>14, <3>1
    <3>5. QED
      BY <2>3, <3>3, <3>4
  <2>4. QED
    BY <2>2, <2>3
<1>16. ViewLen' = ViewLen /\ \A j : Place(j)' = Place(j)
  BY <1>1 DEF ViewLen, Place
<1>17. FedView(d)'
  <2>1. FedLen' + d + 0 = ViewLen /\ FedLen' >= 1
    BY <1>12, <1>14
  <2>2. d > 0 => HistoryLimit > 0 /\ FedLen' >= HistoryLimit
    BY <1>12, <1>14
  <2>3. QED
    BY <1>1, <1>2, <1>12, <1>15, <1>16, <2>1, <2>2 DEF FedView
<1>18. QED
  BY <1>2, <1>a, <1>17 DEF Faithful

LEMMA FaithInit == Init => Faithful
<1>1. SUFFICES ASSUME Init PROVE Faithful
  OBVIOUS
<1>2. /\ log = << >> /\ display = << >> /\ inflight = << >> /\ marker.summary = NoId
      /\ leftover = "none" /\ job.stage = "none"
  BY <1>1 DEF Init, NoMarker, NoJob
<1>a. ~ esc
  BY <1>1 DEF Init
<1>3. FedLen = 0 /\ ViewLen = 0
  BY <1>2 DEF FedLen, ViewLen
<1>4. FedView(0)
  BY <1>2, <1>3 DEF FedView
<1>5. QED
  BY <1>2, <1>a, <1>4 DEF Faithful

LEMMA FaithKept ==
  ASSUME IInv, Once, Cuts, Spoken, Spaced => Faithful, [Next]_vars
  PROVE  (Spaced => Faithful)'
<1>1. SUFFICES ASSUME mishaps' = {}, minGap' = 2 PROVE Faithful'
  BY DEF Spaced, Undisturbed
<1>2. mishaps = {} /\ minGap = 2
  <2>1. CASE RunAppends \/ LeftoverAppends
    BY <1>1, <2>1 DEF RunAppends, LeftoverAppends, AppendedBy
  <2>2. CASE CancelTurn \/ CancelCompression \/ Restart \/ CompactFails
    BY <1>1, <2>2 DEF CancelTurn, CancelCompression, Restart, CompactFails, Noted
  <2>3. CASE \/ SendPrompt \/ CompressCommand \/ AnswerConfirmation
             \/ RunFails \/ HandleEvent \/ FinishTurn \/ CancelledTurnEnds \/ LeftoverReturns
    BY <1>1, <2>3 DEF SendPrompt, CompressCommand, AnswerConfirmation, RunFails, HandleEvent,
                      FinishTurn, CancelledTurnEnds, LeftoverReturns, hist
  <2>4. CASE \/ Summarize \/ AppendSummary \/ HandleSummary \/ HandleNoSummary
             \/ Resume \/ UNCHANGED vars
    BY <1>1, <2>4 DEF Summarize, AppendSummary, HandleSummary, HandleNoSummary,
                      OnlyJobMoves, Resume, vars, hist
  <2>5. CASE WriteMarker
    <3>1. gap \in 0 .. 2 /\ minGap \in 0 .. 2
      BY DEF IInv, TypeOK
    <3>2. mishaps' = mishaps /\ minGap' = IF gap < minGap THEN gap ELSE minGap
      BY <2>5 DEF WriteMarker
    <3>3. QED
      BY <1>1, <3>1, <3>2
  <2>6. QED
    BY <2>1, <2>2, <2>3, <2>4, <2>5 DEF Next, TurnStep, JobStep, HandleResult
<1>3. Faithful /\ leftover = "none"
  BY <1>2 DEF Spaced, Undisturbed, Faithful
<1>a. ~ esc
  BY <1>3 DEF Faithful
<1>4. /\ phase # "compressing" => job.stage = "none"
      /\ phase # "streaming" => inflight = << >>
  BY DEF Once
<1>5. ASSUME log' = log, marker' = marker, display' = display, inflight' = inflight,
             leftover' = leftover, ~ esc',
             job.stage \notin {"mark", "ready"}, job'.stage \notin {"mark", "ready"}
      PROVE  Faithful'
  <2>1. FedLen' = FedLen /\ \A i \in 1 .. FedLen : Fed(i)' = Fed(i)
    BY <1>5 DEF FedLen, Fed
  <2>2. QED
    BY <1>3, <1>5, <2>1, FaithStays
<1>6. CASE SendPrompt \/ CompressCommand \/ AnswerConfirmation
  <2>1. log' = log /\ marker' = marker /\ display' = display /\ leftover' = leftover
        /\ phase \in {"idle", "confirming"}
    <3>1. CASE SendPrompt
      BY <3>1 DEF SendPrompt, disk
    <3>2. CASE CompressCommand
      BY <3>2 DEF CompressCommand, disk, turn
    <3>3. CASE AnswerConfirmation
      BY <3>3 DEF AnswerConfirmation, disk
    <3>4. QED
      BY <1>6, <3>1, <3>2, <3>3
  <2>a. inflight = << >>
    BY <1>4, <2>1
  <2>2. inflight' = inflight
    <3>1. CASE SendPrompt
      BY <2>a, <3>1 DEF SendPrompt, StartStream
    <3>2. CASE CompressCommand
      BY <3>2 DEF CompressCommand, turn
    <3>3. CASE AnswerConfirmation
      BY <2>a, <3>3 DEF AnswerConfirmation, StartStream
    <3>4. QED
      BY <1>6, <3>1, <3>2, <3>3
  <2>3. job.stage = "none" /\ job'.stage \in {"none", "summarize"}
    BY <1>4, <1>6, <2>1 DEF SendPrompt, CompressCommand, AnswerConfirmation, StartCompression
  <2>4. ~ esc'
    BY <1>6 DEF SendPrompt, CompressCommand, AnswerConfirmation, StartStream, StartCompression
  <2>5. QED
    BY <1>5, <2>1, <2>2, <2>3, <2>4
<1>7. CASE FinishTurn
  <2>1. log' = log /\ marker' = marker /\ display' = display /\ leftover' = leftover
        /\ inflight' = inflight /\ phase = "streaming"
    BY <1>7 DEF FinishTurn, disk
  <2>2. job.stage = "none" /\ job'.stage \in {"none", "summarize"}
    BY <1>4, <1>7, <2>1 DEF FinishTurn, StartCompression
  <2>3. ~ esc'
    BY <1>7, <1>a DEF FinishTurn, StartCompression
  <2>4. QED
    BY <1>5, <2>1, <2>2, <2>3
<1>8. CASE RunFails
  <2>1. log' = log /\ marker' = marker /\ display' = display /\ leftover' = leftover
        /\ inflight' = inflight /\ phase = "streaming" /\ job' = job
    BY <1>8 DEF RunFails, disk
  <2>2. ~ esc'
    BY <1>8, <1>a DEF RunFails
  <2>3. QED
    BY <1>4, <1>5, <2>1, <2>2
<1>9. CASE HandleEvent
  <2>1. log' = log /\ marker' = marker /\ leftover' = leftover /\ phase = "streaming" /\ job' = job
    BY <1>9 DEF HandleEvent, disk
  <2>2. ~ esc'
    BY <1>9, <1>a DEF HandleEvent
  <2>3. FedLen' = FedLen /\ \A i \in 1 .. FedLen : Fed(i)' = Fed(i)
    BY <1>9, FeedSame
  <2>4. QED
    BY <1>3, <1>4, <2>1, <2>2, <2>3, FaithStays
<1>10. CASE Summarize
  <2>1. log' = log /\ marker' = marker /\ display' = display /\ leftover' = leftover
        /\ inflight' = inflight /\ job.stage = "summarize"
    BY <1>10 DEF Summarize, OnlyJobMoves, disk, turn
  <2>2. ~ esc'
    BY <1>10, <1>a DEF Summarize, OnlyJobMoves
  <2>3. job'.stage \in {"append", "failed", "aborted"}
    <3>1. PICK stage \in {"append", "failed", "aborted"} : Goto(stage)
      BY <1>10 DEF Summarize
    <3>2. QED
      BY <3>1, JobMoves DEF JobStages
  <2>4. QED
    BY <1>5, <2>1, <2>2, <2>3
<1>11. CASE HandleNoSummary
  <2>1. log' = log /\ marker' = marker /\ display' = display /\ leftover' = leftover
        /\ inflight' = inflight /\ job'.stage = "none"
    BY <1>11 DEF HandleNoSummary, disk, turn, NoJob
  <2>2. ~ esc'
    BY <1>11 DEF HandleNoSummary
  <2>3. job.stage \in {"failed", "aborted"}
    BY <1>11, <1>a DEF HandleNoSummary
  <2>4. QED
    BY <1>5, <2>1, <2>2, <2>3
<1>12. CASE UNCHANGED vars
  <2>1. /\ log' = log /\ marker' = marker /\ display' = display /\ inflight' = inflight
        /\ leftover' = leftover /\ job' = job
    BY <1>12 DEF vars, disk, turn
  <2>2. ~ esc'
    BY <1>12, <1>a DEF vars
  <2>3. ViewLen' = ViewLen /\ \A j : Place(j)' = Place(j)
    BY <2>1 DEF ViewLen, Place
  <2>4. FedLen' = FedLen /\ \A i : Fed(i)' = Fed(i)
    BY <2>1 DEF FedLen, Fed
  <2>5. \A d : (FedView(d)' <=> FedView(d)) /\ (TailView(d)' <=> TailView(d))
    BY <2>1, <2>3, <2>4 DEF FedView, TailView
  <2>6. QED
    BY <1>3, <2>1, <2>2, <2>5 DEF Faithful
<1>13. CASE Resume
  <2>1. log' = log /\ marker' = marker /\ inflight' = inflight /\ phase = "idle"
        /\ display' = ModelView /\ leftover' = leftover /\ job' = job
    BY <1>13 DEF Resume, disk, turn
  <2>2. ~ esc'
    BY <1>13, <1>a DEF Resume
  <2>3. QED
    BY <1>3, <1>4, <2>1, <2>2, FaithResumed
<1>14. CASE RunAppends
  <2>1. job.stage = "none"
    BY <1>4, <1>14 DEF RunAppends
  <2>2. QED
    BY <1>3, <1>14, <2>1, FaithGrows
<1>15. ~ LeftoverAppends /\ ~ LeftoverReturns /\ ~ CancelledTurnEnds
  <2>1. ~ LeftoverReturns
    BY <1>3 DEF LeftoverReturns
  <2>2. ~ CancelledTurnEnds
    BY <1>a DEF CancelledTurnEnds
  <2>3. ~ LeftoverAppends
    BY <1>3 DEF LeftoverAppends, AppendedBy, Appends
  <2>4. QED
    BY <2>1, <2>2, <2>3
<1>16. CASE CancelTurn \/ CancelCompression \/ Restart \/ CompactFails
  BY <1>1, <1>16 DEF CancelTurn, CancelCompression, Restart, CompactFails, Noted
<1>17. QED
  BY <1>1, <1>3, <1>6, <1>7, <1>8, <1>9, <1>10, <1>11, <1>12, <1>13, <1>14, <1>15, <1>16,
     FaithSummarized, FaithMarked, FaithHandedOver DEF Next, TurnStep, JobStep, HandleResult

\* Capped, the display is the view: what the limit left out of the display, it
\* leaves out of the view as well.
LEMMA FaithSuffices == IInv /\ Once /\ Cuts /\ (Spaced => Faithful) => DisplayAgrees
<1>1. SUFFICES ASSUME IInv, Once, Cuts, Faithful, phase \in {"idle", "confirming"}
               PROVE  SeenAsShown
  BY DEF DisplayAgrees, Spaced
<1>2. job.stage = "none" /\ inflight = << >> /\ Len(inflight) = 0
  BY <1>1 DEF Once
<1>3. PICK s \in Seq(Event) : s = display
  BY <1>1, Parts
<1>4. PICK v \in Seq(Event) : v = FullView
  BY <1>1, ViewPlaces
<1>5. PICK f \in Nat : f = Len(s)
  BY LenProperties
<1>6. PICK n \in Nat : n = Len(v)
  BY LenProperties
<1>7. f = FedLen /\ \A i \in 1 .. f : Fed(i) = s[i]
  BY <1>2, <1>3, <1>5 DEF FedLen, Fed
<1>8. PICK d \in Nat : FedView(d)
  BY <1>1, <1>2 DEF Faithful
<1>9. FedLen + d + 0 = ViewLen
  BY <1>2, <1>8 DEF FedView
<1>10. n = ViewLen
  BY <1>1, <1>4, <1>6, ViewPlaces
<1>11. /\ f + d = n
       /\ d > 0 => HistoryLimit > 0 /\ f >= HistoryLimit
       /\ marker.summary # NoId => f >= 1
       /\ \A i \in 1 .. f :
            s[i].id = IF i = 1 /\ marker.summary # NoId THEN marker.summary ELSE Place(i + d)
  BY <1>7, <1>8, <1>9, <1>10 DEF FedView
<1>12. PICK protect \in BOOLEAN : protect = Applies(log, marker)
  BY DEF Applies
<1>13. protect <=> marker.summary # NoId
  BY <1>1, <1>12, NamedApplies DEF Applies, IInv, Coherent
<1>14. protect <=> marker.summary # NoId /\ Has(display, marker.summary)
  <2>1. SUFFICES ASSUME marker.summary # NoId PROVE Has(display, marker.summary)
    BY <1>13
  <2>2. 1 \in 1 .. f
    BY <1>11, <2>1
  <2>3. s[1].id = marker.summary
    BY <1>11, <2>1, <2>2
  <2>4. QED
    BY <1>3, <1>5, <2>2, <2>3 DEF Has
<1>15. PICK r : r = Cap(s, HistoryLimit, protect)
  OBVIOUS
<1>16. PICK x : x = Cap(v, HistoryLimit, protect)
  OBVIOUS
<1>17. PICK a : a = CapDrops(s, HistoryLimit)
  OBVIOUS
<1>18. PICK b : b = CapDrops(v, HistoryLimit)
  OBVIOUS
<1>19. /\ a \in Nat /\ a <= f /\ r \in Seq(Event) /\ Len(r) = f - a
       /\ \A i \in 1 .. Len(r) : i > 1 \/ ~ protect => r[i] = s[i + a]
       /\ protect /\ f >= 1 => Len(r) >= 1 /\ r[1] = s[1]
  BY <1>5, <1>15, <1>17, BoundsAssumption, CapShape
<1>20. /\ b \in Nat /\ b <= n /\ x \in Seq(Event) /\ Len(x) = n - b
       /\ \A i \in 1 .. Len(x) : i > 1 \/ ~ protect => x[i] = v[i + b]
       /\ protect /\ n >= 1 => Len(x) >= 1 /\ x[1] = v[1]
  BY <1>6, <1>16, <1>18, BoundsAssumption, CapShape
<1>21. b = a + d
  <2>1. a = IF HistoryLimit > 0 /\ f > HistoryLimit THEN f - HistoryLimit ELSE 0
    BY <1>5, <1>17 DEF CapDrops
  <2>2. b = IF HistoryLimit > 0 /\ n > HistoryLimit THEN n - HistoryLimit ELSE 0
    BY <1>6, <1>18 DEF CapDrops
  <2>3. f + d = n /\ (d > 0 => HistoryLimit > 0 /\ f >= HistoryLimit)
    BY <1>11
  <2>4. QED
    BY <2>1, <2>2, <2>3, BoundsAssumption
<1>22. PICK l \in Nat : l = Len(r) /\ l = Len(x) /\ l = f - a
  <2>1. f - a \in Nat /\ f - a = n - b
    <3>1. f + d = n
      BY <1>11
    <3>2. a \in Nat /\ a <= f
      BY <1>19
    <3>3. QED
      BY <1>21, <3>1, <3>2
  <2>2. QED
    BY <1>19, <1>20, <2>1
<1>23. /\ \A j \in 1 .. f : s[j] = log[s[j].id]
       /\ \A j \in 1 .. n : j > 1 \/ ~ protect => v[j] = log[Place(j)]
       /\ protect => v[1] = log[marker.summary] /\ n >= 1 /\ f >= 1
  <2>1. \A j \in 1 .. f : s[j] = log[s[j].id]
    BY <1>1, <1>3, <1>5, Parts
  <2>2. /\ \A j \in 1 .. n : j > 1 \/ ~ protect => v[j] = log[Place(j)]
        /\ protect => v[1] = log[marker.summary] /\ n >= 1
    BY <1>1, <1>4, <1>10, <1>13, ViewPlaces
  <2>3. QED
    BY <1>11, <1>13, <2>1, <2>2
<1>24. ASSUME NEW i \in 1 .. l PROVE r[i] = x[i]
  <2>1. CASE protect /\ i = 1
    <3>1. 1 \in 1 .. f /\ s[1].id = marker.summary
      BY <1>11, <1>13, <1>23, <2>1
    <3>2. s[1] = v[1]
      BY <1>23, <2>1, <3>1
    <3>3. QED
      BY <1>19, <1>20, <1>23, <2>1, <3>2
  <2>2. CASE ~ (protect /\ i = 1)
    <3>1. i > 1 \/ ~ protect
      BY <2>2
    <3>2. PICK j \in 1 .. f : j = i + a
      BY <1>19, <1>22
    <3>3. PICK k \in 1 .. n : k = i + b /\ k = j + d
      <4>1. f + d = n
        BY <1>11
      <4>2. a \in Nat /\ b \in Nat
        BY <1>19, <1>20
      <4>3. i + b = j + d /\ j + d \in 1 .. n
        BY <1>21, <3>2, <4>1, <4>2
      <4>4. QED
        BY <4>3
    <3>4. j > 1 \/ ~ protect
      BY <1>19, <3>1, <3>2
    <3>5. k > 1 \/ ~ protect
      BY <3>3, <3>4
    <3>6. r[i] = s[j] /\ x[i] = v[k]
      BY <1>19, <1>20, <1>22, <3>1, <3>2, <3>3
    <3>7. ~ (j = 1 /\ marker.summary # NoId)
      BY <1>13, <3>4
    <3>8. s[j].id = Place(k)
      BY <1>11, <3>3, <3>7
    <3>9. QED
      BY <1>23, <3>5, <3>6, <3>8
  <2>3. QED
    BY <2>1, <2>2
<1>25. r = x
  BY <1>19, <1>20, <1>22, <1>24, SeqEqual
<1>26. ModelView = x
  BY <1>4, <1>12, <1>16 DEF ModelView, ViewOf, FullView
<1>27. Cap(display, HistoryLimit, marker.summary # NoId /\ Has(display, marker.summary)) = r
  <2>1. protect = (marker.summary # NoId /\ Has(display, marker.summary))
    BY <1>14 DEF Has
  <2>2. QED
    BY <1>3, <1>15, <2>1
<1>28. QED
  BY <1>25, <1>26, <1>27 DEF SeenAsShown

\* Between turns the user sees what the model will see, however turns,
\* compressions and resumes follow one another, as long as nothing was interrupted
\* and each compression came two user events after the last one.
\* About handleADK, handleCompressResult, resumeSession, Compact, applyCompaction
\* and trim.
THEOREM ShownIsSeen == Spec => []DisplayAgrees
<1>1. Init => (Spaced => Faithful)
  BY FaithInit
<1>2. IInv /\ Once /\ Cuts /\ Spoken /\ (Spaced => Faithful) /\ [Next]_vars
        => (Spaced => Faithful)'
  BY FaithKept
<1>3. QED
  BY <1>1, <1>2, FaithSuffices, Invariant, AlwaysOnce, AlwaysCuts, AlwaysSpoken, PTL DEF Spec

=============================================================================
