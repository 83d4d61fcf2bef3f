--------------------------- MODULE ViewCacheProofs --------------------------
(***************************************************************************)
(* The conversation on screen, for every height, every number of events,   *)
(* chunks, info blocks and resizes.                                        *)
(*                                                                         *)
(* Every handler of Update prepares a screen and has updateViewport bring  *)
(* it up to date.  What a handler has to leave for that is Prepared: the   *)
(* view is empty, or what it holds is where the parts begin, or there are  *)
(* fewer parts than it holds; or an info block is shown.  What the update  *)
(* makes of such a screen is Settled.                                      *)
(***************************************************************************)
EXTENDS ViewCache, OperatorProofs

Kinds == { "none", "blank", "indicator", "thoughts", "waiting", "tail", "run", "palette", "sessions" }
Tall == { "tail", "thoughts" }

\* The parts that are rendered again with the window, and those that may be on
\* screen in one of width w.
EventParts(w) == { p \in Parts : p.kind = "event" /\ p.width = w }
ChunkParts(w) == { p \in Parts : p.kind = "chunk" /\ p.width = w }
OwnParts == { p \in Parts : p.kind \notin { "event", "chunk" } }
ScreenParts(w) == { p \in Parts : p.kind \in { "event", "chunk" } => p.width = w }

Event == [id : 1 .. MaxEvents, call : BOOLEAN]
SubRecord == [call : 1 .. MaxEvents, running : BOOLEAN, dirty : BOOLEAN, part : Seq(OwnParts)]

Screen ==
  [events : Seq(Event), rendered : Seq(Parts),
   thoughts : BOOLEAN, block : Seq(OwnParts), frozen : BOOLEAN,
   chunks : Seq(Parts), tail : BOOLEAN,
   ephemeral : Seq(OwnParts), subs : Seq(SubRecord),
   active : BOOLEAN, streaming : BOOLEAN, generating : BOOLEAN,
   compressing : BOOLEAN, pending : BOOLEAN, queued : BOOLEAN,
   overlay : { "none", "palette", "sessions" },
   lines : Seq(Parts), committed : Nat, live : Kinds, offset : Nat,
   width : 1 .. MaxResizes + 1, thinking : BOOLEAN, expanded : BOOLEAN]

\* Nothing of a response is kept when none is being streamed or was stopped, and
\* what is kept has the width of the window.
StreamFits(s) ==
  /\ s.chunks \in Seq(ChunkParts(s.width)) /\ Len(s.chunks) <= MaxChunks
  /\ ~ s.active => s.chunks = << >> /\ s.block = << >> /\ ~ s.tail /\ ~ s.thoughts /\ ~ s.frozen
Fits(s) ==
  /\ s.rendered \in Seq(EventParts(s.width)) /\ Len(s.rendered) = Len(s.events)
  /\ StreamFits(s)

\* A run has one record, and its block is kept when it is shown.
OneRecordEach(s) ==
  \A i, j \in 1 .. Len(s.subs) : s.subs[i].call = s.subs[j].call => i = j
Clean(s) ==
  \A i \in 1 .. Len(s.subs) : i \in Ended(s) /\ Anchored(s, i) => ~ s.subs[i].dirty

\* The lines hold as many parts as were committed to them.
Viewed(s) ==
  /\ s.lines \in Seq(ScreenParts(s.width)) /\ s.committed = Len(s.lines)

\* The lines are the parts, but for those under an info block.
Synced(s) ==
  /\ s.committed = Len(stableParts(s))
  /\ s.ephemeral = << >> => s.lines = stableParts(s)

\* Only Enter with nothing to show leaves a view behind, which the next update
\* starts over.
Settled(s) ==
  \/ Synced(s)
  \/ /\ ~ s.streaming /\ ~ s.compressing
     /\ s.ephemeral = << >> /\ s.committed > Len(stableParts(s))

\* Only streamed text and thoughts may be higher than the window, and they stay in
\* the live slot until the view is built anew.
Window(s) ==
  /\ s.offset <= Len(s.lines) + (IF s.live \in Tall THEN TailLines ELSE 0)
  /\ s.live \in Tall => s.active

LiveTold(s) ==
  s.active /\ s.tail /\ ~ s.streaming /\ ~ s.compressing => s.live = "tail"

Steady(s) ==
  /\ s \in Screen /\ Fits(s) /\ OneRecordEach(s) /\ Clean(s)
  /\ Viewed(s) /\ Settled(s) /\ Window(s) /\ LiveTold(s)

IInv ==
  nextEvent \in 1 .. MaxEvents + 1 /\ nextInfo \in 1 .. MaxInfos + 1 /\ Steady(screen)

-----------------------------------------------------------------------------
(***************************************************************************)
(* What updateViewport does.                                               *)
(***************************************************************************)
\* The same conversation, response and settings.
RestSame(s, t) ==
  /\ t.events = s.events /\ t.rendered = s.rendered /\ t.thoughts = s.thoughts
  /\ t.block = s.block /\ t.frozen = s.frozen /\ t.chunks = s.chunks /\ t.tail = s.tail
  /\ t.ephemeral = s.ephemeral /\ t.active = s.active /\ t.streaming = s.streaming
  /\ t.generating = s.generating /\ t.compressing = s.compressing /\ t.pending = s.pending
  /\ t.queued = s.queued /\ t.overlay = s.overlay /\ t.width = s.width
  /\ t.thinking = s.thinking /\ t.expanded = s.expanded

ViewSame(s, t) ==
  t.lines = s.lines /\ t.committed = s.committed /\ t.live = s.live /\ t.offset = s.offset

LEMMA RestTransitive ==
  ASSUME NEW s, NEW t, NEW u, RestSame(s, t), RestSame(t, u)
  PROVE  RestSame(s, u)
BY DEF RestSame

LEMMA ResetIs ==
  ASSUME NEW s \in Screen, NEW t, t = resetView(s)
  PROVE  /\ t \in Screen /\ RestSame(s, t) /\ t.subs = s.subs
         /\ t.lines = << >> /\ t.committed = 0 /\ t.live = "none" /\ t.offset = 0
<1>1. << >> \in Seq(Parts) /\ 0 \in Nat /\ "none" \in Kinds
  BY EmptySeq DEF Kinds
<1>2. t = [s EXCEPT !.committed = 0, !.lines = << >>, !.live = "none", !.offset = 0]
  BY DEF resetView
<1>3. t \in Screen
  BY <1>1, <1>2 DEF Screen
<1>4. RestSame(s, t) /\ t.subs = s.subs
  BY <1>2 DEF Screen, RestSame
<1>5. t.lines = << >> /\ t.committed = 0 /\ t.live = "none" /\ t.offset = 0
  BY <1>2 DEF Screen
<1>6. QED
  BY <1>3, <1>4, <1>5

WithLines(s, ls) == [s EXCEPT !.lines = ls, !.committed = Len(ls)]

LEMMA FilledIs ==
  ASSUME NEW s \in Screen, NEW ls \in Seq(Parts), NEW t, t = WithLines(s, ls)
  PROVE  /\ t \in Screen /\ RestSame(s, t) /\ t.subs = s.subs
         /\ t.lines = ls /\ t.committed = Len(ls) /\ t.live = s.live /\ t.offset = s.offset
<1>1. PICK c : c = Len(ls)
  OBVIOUS
<1>2. c \in Nat
  BY <1>1, LenProperties
<1>3. t = [s EXCEPT !.lines = ls, !.committed = c]
  BY <1>1 DEF WithLines
<1>4. t \in Screen
  BY <1>2, <1>3 DEF Screen
<1>5. RestSame(s, t) /\ t.subs = s.subs
  BY <1>3 DEF Screen, RestSame
<1>6. t.lines = ls /\ t.committed = c /\ t.live = s.live /\ t.offset = s.offset
  BY <1>3 DEF Screen
<1>7. QED
  BY <1>1, <1>4, <1>5, <1>6

\* As many lines as the live slot has, and how far one can scroll.
LEMMA Reach ==
  ASSUME NEW s \in Screen
  PROVE  /\ LiveLines(s) \in Nat /\ LineCount(s) \in Nat /\ MaxScroll(s) \in Nat
         /\ MaxScroll(s) <= Len(s.lines) + (IF s.live \in Tall THEN TailLines ELSE 0)
         /\ LineCount(s) >= Len(s.lines) + (IF s.live \in Tall THEN TailLines ELSE 0)
<1>1. s.live \in Kinds /\ Len(s.lines) \in Nat /\ s.queued \in BOOLEAN
  BY LenProperties DEF Screen
<1>2. PICK n \in Nat : n = Len(s.lines)
  BY <1>1
<1>3. Rows(s) \in Nat \ {0}
  BY <1>1, ViewAssumption DEF Rows
<1>4. PICK h \in Nat \ {0} : h = Rows(s)
  BY <1>3
<1>5. PICK l \in Nat : /\ l = LiveLines(s)
                       /\ s.live \in Tall => l = TailLines
                       /\ s.live \notin Tall => l <= h
  <2>1. CASE s.live \in Tall
    BY <2>1, ViewAssumption DEF LiveLines, Tall
  <2>2. CASE s.live \notin Tall
    <3>1. LiveLines(s) \in { 0, 1, h - 1 } /\ LiveLines(s) \in Nat
      BY <1>1, <1>4, <2>2 DEF LiveLines, Tall, Kinds
    <3>2. LiveLines(s) <= h
      BY <3>1
    <3>3. QED
      BY <2>2, <3>1, <3>2
  <2>3. QED
    BY <2>1, <2>2
<1>6. LineCount(s) = n + l
  BY <1>2, <1>5 DEF LineCount
<1>7. PICK tall \in Nat : /\ tall = IF s.live \in Tall THEN TailLines ELSE 0
                          /\ tall <= l /\ (l <= h \/ l <= tall)
  <2>1. CASE s.live \in Tall
    BY <1>5, <2>1, ViewAssumption
  <2>2. CASE s.live \notin Tall
    BY <1>5, <2>2
  <2>3. QED
    BY <2>1, <2>2
<1>8. MaxScroll(s) = IF n + l > h THEN n + l - h ELSE 0
  BY <1>4, <1>6 DEF MaxScroll
<1>9. MaxScroll(s) \in Nat /\ MaxScroll(s) <= n + tall
  BY <1>7, <1>8
<1>10. Len(s.lines) + (IF s.live \in Tall THEN TailLines ELSE 0) = n + tall
  BY <1>2, <1>7, Zenon
<1>11. LineCount(s) \in Nat /\ LineCount(s) >= n + tall /\ LiveLines(s) \in Nat
  <2>1. n + l >= n + tall /\ n + l \in Nat
    BY <1>7
  <2>2. QED
    BY <1>5, <1>6, <2>1
<1>12. QED
  BY <1>9, <1>10, <1>11

\* The scroll position is moved, but never further down.
LEMMA ClampIs ==
  ASSUME NEW s \in Screen, NEW t, t = clamp(s)
  PROVE  /\ t \in Screen /\ RestSame(s, t) /\ t.subs = s.subs
         /\ t.lines = s.lines /\ t.committed = s.committed /\ t.live = s.live
         /\ t.offset <= s.offset /\ t.offset <= MaxScroll(s)
<1>1. MaxScroll(s) \in Nat /\ s.offset \in Nat
  BY Reach DEF Screen
<1>2. CASE s.offset > MaxScroll(s)
  <2>1. t = [s EXCEPT !.offset = MaxScroll(s)]
    BY <1>2 DEF clamp
  <2>2. t \in Screen
    BY <1>1, <2>1 DEF Screen
  <2>3. RestSame(s, t) /\ t.subs = s.subs
    BY <2>1 DEF Screen, RestSame
  <2>4. t.lines = s.lines /\ t.committed = s.committed /\ t.live = s.live /\ t.offset = MaxScroll(s)
    BY <2>1 DEF Screen
  <2>5. QED
    BY <1>1, <1>2, <2>2, <2>3, <2>4
<1>3. CASE ~ (s.offset > MaxScroll(s))
  <2>1. t = s
    BY <1>3 DEF clamp
  <2>2. QED
    BY <1>1, <1>3, <2>1 DEF RestSame
<1>4. QED
  BY <1>2, <1>3

LEMMA LiveIs ==
  ASSUME NEW s \in Screen, NEW kind \in Kinds, NEW t,
         t = IF kind = "none" THEN clearLive(s) ELSE setLive(s, kind)
  PROVE  /\ t \in Screen /\ RestSame(s, t) /\ t.subs = s.subs
         /\ t.lines = s.lines /\ t.committed = s.committed /\ t.live = kind
         /\ t.offset <= s.offset
         /\ kind # "none" => t.offset <= Len(t.lines) + (IF kind \in Tall THEN TailLines ELSE 0)
<1>1. PICK u : u = [s EXCEPT !.live = kind]
  OBVIOUS
<1>2. /\ u \in Screen /\ RestSame(s, u) /\ u.subs = s.subs
      /\ u.lines = s.lines /\ u.committed = s.committed /\ u.live = kind /\ u.offset = s.offset
  <2>1. u \in Screen
    BY <1>1 DEF Screen
  <2>2. RestSame(s, u) /\ u.subs = s.subs
    BY <1>1 DEF Screen, RestSame
  <2>3. u.lines = s.lines /\ u.committed = s.committed /\ u.live = kind /\ u.offset = s.offset
    BY <1>1 DEF Screen
  <2>4. QED
    BY <2>1, <2>2, <2>3
<1>3. s.offset \in Nat
  BY DEF Screen
<1>4. CASE kind = "none"
  <2>1. t = u
    BY <1>1, <1>4 DEF clearLive
  <2>2. QED
    BY <1>2, <1>3, <1>4, <2>1
<1>5. CASE kind # "none"
  <2>1. t = clamp(u)
    BY <1>1, <1>5 DEF setLive
  <2>2. /\ t \in Screen /\ RestSame(u, t) /\ t.subs = u.subs
        /\ t.lines = u.lines /\ t.committed = u.committed /\ t.live = u.live
        /\ t.offset <= u.offset /\ t.offset <= MaxScroll(u)
    BY <1>2, <2>1, ClampIs
  <2>3. RestSame(s, t)
    BY <1>2, <2>2, RestTransitive
  <2>4. PICK bound \in Nat : bound = Len(u.lines) + (IF kind \in Tall THEN TailLines ELSE 0)
    BY <1>2, ViewAssumption, LenProperties DEF Screen
  <2>5. MaxScroll(u) \in Nat /\ MaxScroll(u) <= bound
    BY <1>2, <2>4, Reach
  <2>6. t.offset \in Nat
    BY <2>2 DEF Screen
  <2>7. t.offset <= bound
    BY <2>2, <2>5, <2>6
  <2>8. QED
    BY <1>2, <2>2, <2>3, <2>4, <2>7
<1>6. QED
  BY <1>4, <1>5

-----------------------------------------------------------------------------
(***************************************************************************)
(* The parts.                                                              *)
(***************************************************************************)
\* The events with the blocks of the runs they started.
Shown(s) == FlattenSeq([e \in DOMAIN s.events |-> << s.rendered[e] >> \o BlocksAfter(s, e)])

LEMMA StableIs ==
  ASSUME NEW s
  PROVE  stableParts(s) = Shown(s) \o s.block \o s.chunks \o s.ephemeral
BY DEF stableParts, Shown

LEMMA Domains ==
  ASSUME NEW s \in Screen
  PROVE  /\ s.events \in Seq(Event) /\ Len(s.events) \in Nat /\ DOMAIN s.events = 1 .. Len(s.events)
         /\ s.subs \in Seq(SubRecord) /\ Len(s.subs) \in Nat /\ DOMAIN s.subs = 1 .. Len(s.subs)
         /\ \A i \in 1 .. Len(s.subs) : s.subs[i] \in SubRecord
<1>1. s.events \in Seq(Event) /\ s.subs \in Seq(SubRecord)
  BY DEF Screen
<1>2. QED
  BY <1>1, LenProperties, ElementOfSeq

LEMMA FunctionIsSeq ==
  ASSUME NEW S, NEW n \in Nat, NEW f, DOMAIN f = 1 .. n, f = [i \in 1 .. n |-> f[i]],
         \A i \in 1 .. n : f[i] \in S
  PROVE  f \in Seq(S) /\ Len(f) = n
<1>1. f \in [1 .. n -> S]
  OBVIOUS
<1>2. QED
  BY <1>1

LEMMA TwoJoined ==
  ASSUME NEW S, NEW a \in Seq(S), NEW b \in Seq(S)
  PROVE  a \o b \in Seq(S) /\ Len(a \o b) = Len(a) + Len(b)
BY ConcatProperties

LEMMA BlocksType ==
  ASSUME NEW S, NEW s \in Screen, \A i \in 1 .. Len(s.subs) : s.subs[i].part \in Seq(S), NEW e
  PROVE  BlocksAfter(s, e) \in Seq(S)
<1>1. PICK f : f = [i \in DOMAIN s.subs |->
        IF i \in Ended(s) /\ s.events[e] = [id |-> s.subs[i].call, call |-> TRUE]
        THEN s.subs[i].part ELSE << >>]
  OBVIOUS
<1>2. << >> \in Seq(S)
  BY EmptySeq
<1>3. f \in Seq(Seq(S))
  <2>1. DOMAIN f = 1 .. Len(s.subs) /\ Len(s.subs) \in Nat
    BY <1>1, Domains
  <2>2. f = [i \in 1 .. Len(s.subs) |-> f[i]]
    BY <1>1, <2>1
  <2>3. \A i \in 1 .. Len(s.subs) : f[i] \in Seq(S)
    BY <1>1, <1>2, <2>1
  <2>4. QED
    BY <2>1, <2>2, <2>3, FunctionIsSeq
<1>4. FlattenSeq(f) \in Seq(S)
  BY <1>3, FlattenType
<1>5. QED
  BY <1>1, <1>4 DEF BlocksAfter

LEMMA ShownType ==
  ASSUME NEW S, NEW s \in Screen, s.rendered \in Seq(S), Len(s.rendered) = Len(s.events),
         \A i \in 1 .. Len(s.subs) : s.subs[i].part \in Seq(S)
  PROVE  Shown(s) \in Seq(S)
<1>1. PICK f : f = [e \in DOMAIN s.events |-> << s.rendered[e] >> \o BlocksAfter(s, e)]
  OBVIOUS
<1>2. DOMAIN s.events = 1 .. Len(s.events) /\ Len(s.events) \in Nat
  BY Domains
<1>3. ASSUME NEW e \in 1 .. Len(s.events) PROVE << s.rendered[e] >> \o BlocksAfter(s, e) \in Seq(S)
  <2>1. s.rendered[e] \in S
    BY <1>2, ElementOfSeq
  <2>2. PICK a : a = << s.rendered[e] >>
    OBVIOUS
  <2>3. a \in Seq(S)
    BY <2>1, <2>2
  <2>4. BlocksAfter(s, e) \in Seq(S)
    BY BlocksType
  <2>5. QED
    BY <2>2, <2>3, <2>4, TwoJoined
<1>4. f \in Seq(Seq(S))
  <2>1. DOMAIN f = 1 .. Len(s.events)
    BY <1>1, <1>2
  <2>2. f = [e \in 1 .. Len(s.events) |-> f[e]]
    BY <1>1, <2>1
  <2>3. \A e \in 1 .. Len(s.events) : f[e] \in Seq(S)
    BY <1>1, <1>2, <1>3
  <2>4. QED
    BY <1>2, <2>1, <2>2, <2>3, FunctionIsSeq
<1>5. FlattenSeq(f) \in Seq(S)
  BY <1>4, FlattenType
<1>6. QED
  BY <1>1, <1>5 DEF Shown

LEMMA StableType ==
  ASSUME NEW S, NEW s \in Screen, s.rendered \in Seq(S), Len(s.rendered) = Len(s.events),
         \A i \in 1 .. Len(s.subs) : s.subs[i].part \in Seq(S),
         s.block \in Seq(S), s.chunks \in Seq(S), s.ephemeral \in Seq(S)
  PROVE  /\ stableParts(s) \in Seq(S) /\ Shown(s) \in Seq(S)
         /\ Len(Shown(s)) \in Nat /\ Len(s.block) \in Nat /\ Len(s.chunks) \in Nat
         /\ Len(s.ephemeral) \in Nat
         /\ Len(stableParts(s)) = Len(Shown(s)) + Len(s.block) + Len(s.chunks) + Len(s.ephemeral)
<1>1. Shown(s) \in Seq(S)
  BY ShownType
<1>2. PICK a \in Seq(S) : a = Shown(s)
  BY <1>1
<1>3. PICK b \in Seq(S) : b = a \o s.block /\ Len(b) = Len(a) + Len(s.block)
  BY TwoJoined
<1>4. PICK c \in Seq(S) : c = b \o s.chunks /\ Len(c) = Len(b) + Len(s.chunks)
  BY TwoJoined
<1>5. PICK d \in Seq(S) : d = c \o s.ephemeral /\ Len(d) = Len(c) + Len(s.ephemeral)
  BY TwoJoined
<1>6. stableParts(s) = d
  BY <1>2, <1>3, <1>4, <1>5, StableIs
<1>7. /\ Len(a) \in Nat /\ Len(b) \in Nat /\ Len(c) \in Nat
      /\ Len(s.block) \in Nat /\ Len(s.chunks) \in Nat /\ Len(s.ephemeral) \in Nat
  BY LenProperties
<1>8. QED
  BY <1>1, <1>2, <1>3, <1>4, <1>5, <1>6, <1>7

\* The same runs, with the same blocks.
SubsLike(q, r) ==
  /\ Len(r) = Len(q)
  /\ \A i \in 1 .. Len(q) : /\ r[i].call = q[i].call /\ r[i].running = q[i].running
                            /\ r[i].part = q[i].part

LEMMA ShownSame ==
  ASSUME NEW s \in Screen, NEW t \in Screen, t.events = s.events, t.rendered = s.rendered,
         SubsLike(s.subs, t.subs)
  PROVE  Shown(t) = Shown(s)
<1>1. /\ DOMAIN s.events = 1 .. Len(s.events) /\ DOMAIN t.events = 1 .. Len(s.events)
      /\ DOMAIN s.subs = 1 .. Len(s.subs) /\ DOMAIN t.subs = 1 .. Len(s.subs)
  BY Domains DEF SubsLike
<1>2. ASSUME NEW e PROVE BlocksAfter(t, e) = BlocksAfter(s, e)
  <2>1. PICK f : f = [i \in DOMAIN s.subs |->
          IF i \in Ended(s) /\ s.events[e] = [id |-> s.subs[i].call, call |-> TRUE]
          THEN s.subs[i].part ELSE << >>]
    OBVIOUS
  <2>2. PICK g : g = [i \in DOMAIN t.subs |->
          IF i \in Ended(t) /\ t.events[e] = [id |-> t.subs[i].call, call |-> TRUE]
          THEN t.subs[i].part ELSE << >>]
    OBVIOUS
  <2>3. ASSUME NEW i \in 1 .. Len(s.subs)
        PROVE  /\ t.subs[i].call = s.subs[i].call /\ t.subs[i].part = s.subs[i].part
               /\ i \in Ended(t) <=> i \in Ended(s)
    BY <1>1 DEF SubsLike, Ended
  <2>4. f = g
    BY <1>1, <2>1, <2>2, <2>3
  <2>5. QED
    BY <2>1, <2>2, <2>4 DEF BlocksAfter
<1>3. PICK f : f = [e \in DOMAIN s.events |-> << s.rendered[e] >> \o BlocksAfter(s, e)]
  OBVIOUS
<1>4. PICK g : g = [e \in DOMAIN t.events |-> << t.rendered[e] >> \o BlocksAfter(t, e)]
  OBVIOUS
<1>5. f = g
  <2>1. DOMAIN f = 1 .. Len(s.events) /\ DOMAIN g = 1 .. Len(s.events)
    BY <1>1, <1>3, <1>4
  <2>2. ASSUME NEW e \in 1 .. Len(s.events) PROVE f[e] = g[e]
    <3>1. f[e] = << s.rendered[e] >> \o BlocksAfter(s, e)
      BY <1>1, <1>3, Zenon
    <3>2. g[e] = << t.rendered[e] >> \o BlocksAfter(t, e)
      BY <1>1, <1>4, Zenon
    <3>3. QED
      BY <1>2, <3>1, <3>2, Zenon
  <2>3. QED
    BY <1>3, <1>4, <2>1, <2>2
<1>6. QED
  BY <1>3, <1>4, <1>5 DEF Shown

LEMMA StableSame ==
  ASSUME NEW s \in Screen, NEW t \in Screen, t.events = s.events, t.rendered = s.rendered,
         SubsLike(s.subs, t.subs),
         t.block = s.block, t.chunks = s.chunks, t.ephemeral = s.ephemeral
  PROVE  stableParts(t) = stableParts(s)
<1>1. Shown(t) = Shown(s)
  BY ShownSame
<1>2. QED
  BY <1>1, StableIs, Zenon

\* subBlock renders what is shown and dirty.
LEMMA SubBlockIs ==
  ASSUME NEW s \in Screen, NEW t, t = subBlock(s)
  PROVE  /\ t \in Screen /\ RestSame(s, t) /\ ViewSame(s, t)
         /\ Len(t.subs) = Len(s.subs)
         /\ \A i \in 1 .. Len(s.subs) :
              /\ t.subs[i].call = s.subs[i].call /\ t.subs[i].running = s.subs[i].running
              /\ t.subs[i] = s.subs[i] \/ s.subs[i].dirty
         /\ Clean(t)
<1>1. PICK q : q = [i \in DOMAIN s.subs |->
        IF i \in Ended(s) /\ Anchored(s, i) /\ s.subs[i].dirty
        THEN [s.subs[i] EXCEPT !.dirty = FALSE,
                               !.part = << Part("sub", s.subs[i].call, s.width, s.expanded) >>]
        ELSE s.subs[i]]
  OBVIOUS
<1>2. t = [s EXCEPT !.subs = q]
  BY <1>1 DEF subBlock
<1>3. /\ DOMAIN s.subs = 1 .. Len(s.subs) /\ Len(s.subs) \in Nat
      /\ \A i \in 1 .. Len(s.subs) : s.subs[i] \in SubRecord
  BY Domains
<1>4. ASSUME NEW i \in 1 .. Len(s.subs)
      PROVE  /\ q[i] \in SubRecord
             /\ q[i].call = s.subs[i].call /\ q[i].running = s.subs[i].running
             /\ q[i] = s.subs[i] \/ s.subs[i].dirty
             /\ i \in Ended(s) /\ Anchored(s, i) => ~ q[i].dirty
  <2>1. CASE i \in Ended(s) /\ Anchored(s, i) /\ s.subs[i].dirty
    <3>1. PICK part : part = << Part("sub", s.subs[i].call, s.width, s.expanded) >>
      OBVIOUS
    <3>2. part \in Seq(OwnParts)
      <4>1. Part("sub", s.subs[i].call, s.width, s.expanded) \in Parts
        <5>1. s.subs[i].call \in 1 .. MaxEvents /\ s.width \in 1 .. MaxResizes + 1
              /\ s.expanded \in BOOLEAN
          BY <1>3 DEF SubRecord, Screen
        <5>2. s.subs[i].call \in 0 .. MaxEvents + MaxChunks + MaxInfos
              /\ s.width \in 0 .. MaxResizes + 1
          BY <5>1, ViewAssumption
        <5>3. QED
          BY <5>1, <5>2 DEF Part, Parts, PartKinds
      <4>2. Part("sub", s.subs[i].call, s.width, s.expanded) \in OwnParts
        BY <4>1 DEF OwnParts, Part
      <4>3. QED
        BY <3>1, <4>2
    <3>3. q[i] = [s.subs[i] EXCEPT !.dirty = FALSE, !.part = part]
      BY <1>1, <1>3, <2>1, <3>1
    <3>4. q[i] \in SubRecord /\ q[i].dirty = FALSE
          /\ q[i].call = s.subs[i].call /\ q[i].running = s.subs[i].running
      BY <1>3, <3>2, <3>3 DEF SubRecord
    <3>5. QED
      BY <2>1, <3>4
  <2>2. CASE ~ (i \in Ended(s) /\ Anchored(s, i) /\ s.subs[i].dirty)
    BY <1>1, <1>3, <2>2
  <2>3. QED
    BY <2>1, <2>2
<1>5. q \in Seq(SubRecord) /\ Len(q) = Len(s.subs) /\ DOMAIN q = 1 .. Len(s.subs)
  <2>1. DOMAIN q = 1 .. Len(s.subs)
    BY <1>1, <1>3
  <2>2. q = [i \in 1 .. Len(s.subs) |-> q[i]]
    BY <1>1, <2>1
  <2>3. QED
    BY <1>3, <1>4, <2>1, <2>2, FunctionIsSeq
<1>6. t \in Screen
  BY <1>2, <1>5 DEF Screen
<1>7. t.subs = q
  BY <1>2 DEF Screen
<1>8. RestSame(s, t) /\ ViewSame(s, t)
  BY <1>2 DEF Screen, RestSame, ViewSame
<1>9. Clean(t)
  <2>1. SUFFICES ASSUME NEW i \in 1 .. Len(t.subs), i \in Ended(t), Anchored(t, i)
                 PROVE  ~ t.subs[i].dirty
    BY DEF Clean
  <2>2. i \in 1 .. Len(s.subs)
    BY <1>5, <1>7
  <2>3. i \in Ended(s)
    BY <1>3, <1>4, <1>7, <2>1, <2>2 DEF Ended
  <2>4. Anchored(s, i)
    BY <1>4, <1>7, <1>8, <2>1, <2>2, ZenonT(60) DEF Anchored, RestSame
  <2>5. QED
    BY <1>4, <1>7, <2>2, <2>3, <2>4
<1>10. QED
  BY <1>4, <1>5, <1>6, <1>7, <1>8, <1>9

\* There is nothing to render.
LEMMA SubBlockClean ==
  ASSUME NEW s \in Screen, NEW t, t = subBlock(s), Clean(s)
  PROVE  t.subs = s.subs /\ stableParts(t) = stableParts(s)
<1>1. /\ DOMAIN s.subs = 1 .. Len(s.subs) /\ Len(s.subs) \in Nat
  BY Domains
<1>2. PICK q : q = [i \in DOMAIN s.subs |->
        IF i \in Ended(s) /\ Anchored(s, i) /\ s.subs[i].dirty
        THEN [s.subs[i] EXCEPT !.dirty = FALSE,
                               !.part = << Part("sub", s.subs[i].call, s.width, s.expanded) >>]
        ELSE s.subs[i]]
  OBVIOUS
<1>3. \A i \in DOMAIN s.subs : ~ (i \in Ended(s) /\ Anchored(s, i) /\ s.subs[i].dirty)
  BY <1>1 DEF Clean
<1>4. q = [i \in DOMAIN s.subs |-> s.subs[i]]
  BY <1>2, <1>3
<1>5. s.subs = [i \in DOMAIN s.subs |-> s.subs[i]]
  <2>1. s.subs \in [1 .. Len(s.subs) -> SubRecord]
    BY Domains, LenProperties
  <2>2. QED
    BY <2>1
<1>6. t = [s EXCEPT !.subs = q]
  BY <1>2 DEF subBlock
<1>7. t.subs = s.subs
  BY <1>4, <1>5, <1>6 DEF Screen
<1>8. t \in Screen /\ RestSame(s, t)
  BY SubBlockIs
<1>9. QED
  BY <1>7, <1>8, StableSame DEF RestSame, SubsLike

LEMMA Wider ==
  ASSUME NEW S, NEW T, S \subseteq T, NEW s \in Seq(S)
  PROVE  s \in Seq(T)
<1>1. Len(s) \in Nat /\ s \in [1 .. Len(s) -> S]
  BY LenProperties
<1>2. s \in [1 .. Len(s) -> T]
  BY <1>1
<1>3. QED
  BY <1>1, <1>2

LEMMA StablePlain ==
  ASSUME NEW s \in Screen, Len(s.rendered) = Len(s.events)
  PROVE  /\ stableParts(s) \in Seq(Parts) /\ Shown(s) \in Seq(Parts)
         /\ Len(Shown(s)) \in Nat /\ Len(s.block) \in Nat /\ Len(s.chunks) \in Nat
         /\ Len(s.ephemeral) \in Nat
         /\ Len(stableParts(s)) = Len(Shown(s)) + Len(s.block) + Len(s.chunks) + Len(s.ephemeral)
<1>1. OwnParts \subseteq Parts
  BY DEF OwnParts
<1>2. \A i \in 1 .. Len(s.subs) : s.subs[i].part \in Seq(Parts)
  <2>1. ASSUME NEW i \in 1 .. Len(s.subs) PROVE s.subs[i].part \in Seq(Parts)
    <3>1. s.subs[i].part \in Seq(OwnParts)
      BY Domains DEF SubRecord
    <3>2. QED
      BY <1>1, <3>1, Wider
  <2>2. QED
    BY <2>1
<1>3. s.block \in Seq(OwnParts) /\ s.ephemeral \in Seq(OwnParts)
      /\ s.rendered \in Seq(Parts) /\ s.chunks \in Seq(Parts)
  BY DEF Screen
<1>4. s.block \in Seq(Parts) /\ s.ephemeral \in Seq(Parts)
  BY <1>1, <1>3, Wider
<1>5. QED
  BY <1>2, <1>3, <1>4, StableType

LEMMA LiveKindType ==
  ASSUME NEW s \in Screen
  PROVE  LiveKind(s) \in Kinds
<1>1. s.overlay \in Kinds
  BY DEF Screen, Kinds
<1>2. QED
  BY <1>1 DEF LiveKind, Kinds

LEMMA LiveKindSame ==
  ASSUME NEW s \in Screen, NEW t \in Screen, RestSame(s, t), Len(t.subs) = Len(s.subs),
         \A i \in 1 .. Len(s.subs) : t.subs[i].running = s.subs[i].running
  PROVE  LiveKind(t) = LiveKind(s)
<1>1. subRunning(t) <=> subRunning(s)
  BY Domains DEF subRunning, RestSame
<1>2. QED
  BY <1>1 DEF LiveKind, RestSame

\* The parts that are missing are appended.
Continued(ls, st, ns) ==
  /\ ns \in Seq(Parts) /\ Len(ns) = Len(st) /\ Len(ls) \in Nat
  /\ \A k \in 1 .. Len(ls) : ns[k] = ls[k]
  /\ \A k \in 1 .. Len(st) : k > Len(ls) => ns[k] = st[k]

LEMMA Completes ==
  ASSUME NEW ls \in Seq(Parts), NEW st \in Seq(Parts), Len(ls) <= Len(st),
         NEW ns, ns = ls \o SubSeq(st, Len(ls) + 1, Len(st))
  PROVE  Continued(ls, st, ns)
<1>1. PICK a \in Nat : a = Len(ls)
  BY LenProperties
<1>2. PICK n \in Nat : n = Len(st)
  BY LenProperties
<1>3. PICK u : u = SubSeq(st, a + 1, n)
  OBVIOUS
<1>4. /\ u \in Seq(Parts) /\ Len(u) = n - a
      /\ \A i \in 1 .. n - a : u[i] = st[a + i]
  <2>1. a <= n
    BY <1>1, <1>2
  <2>2. \A i \in a + 1 .. n : st[i] \in Parts
    BY <1>2, <2>1, ElementOfSeq
  <2>3. /\ SubSeq(st, a + 1, n) \in Seq(Parts)
        /\ Len(SubSeq(st, a + 1, n)) = IF a + 1 <= n THEN n - (a + 1) + 1 ELSE 0
        /\ \A i \in 1 .. n - (a + 1) + 1 : SubSeq(st, a + 1, n)[i] = st[a + 1 + i - 1]
    BY <1>2, <2>1, <2>2, SubSeqProperties
  <2>4. n - (a + 1) + 1 = n - a /\ (IF a + 1 <= n THEN n - (a + 1) + 1 ELSE 0) = n - a
    BY <2>1
  <2>5. \A i \in 1 .. n - a : a + 1 + i - 1 = a + i
    OBVIOUS
  <2>6. QED
    BY <1>3, <2>3, <2>4, <2>5
<1>5. ns = ls \o u
  BY <1>1, <1>2, <1>3
<1>6. /\ ns \in Seq(Parts) /\ Len(ns) = Len(ls) + Len(u)
      /\ \A i \in 1 .. Len(ls) + Len(u) : ns[i] = IF i <= Len(ls) THEN ls[i] ELSE u[i - Len(ls)]
  <2>1. /\ ls \o u \in Seq(Parts) /\ Len(ls \o u) = Len(ls) + Len(u)
        /\ \A i \in 1 .. Len(ls) + Len(u) :
             (ls \o u)[i] = IF i <= Len(ls) THEN ls[i] ELSE u[i - Len(ls)]
    BY <1>4, ConcatProperties
  <2>2. QED
    BY <1>5, <2>1, Zenon
<1>7. Len(ns) = n
  BY <1>1, <1>2, <1>4, <1>6
<1>8. ASSUME NEW k \in 1 .. a PROVE ns[k] = ls[k]
  BY <1>1, <1>2, <1>4, <1>6
<1>9. ASSUME NEW k \in 1 .. n, k > a PROVE ns[k] = st[k]
  <2>1. k - a \in 1 .. n - a /\ a + (k - a) = k
    BY <1>9
  <2>2. u[k - a] = st[k]
    BY <1>4, <2>1
  <2>3. ns[k] = u[k - a]
    BY <1>1, <1>4, <1>6, <1>9
  <2>4. QED
    BY <2>2, <2>3
<1>10. QED
  BY <1>1, <1>2, <1>6, <1>7, <1>8, <1>9 DEF Continued

LEMMA UpdateIs ==
  ASSUME NEW s \in Screen, Len(s.rendered) = Len(s.events), s.committed = Len(s.lines),
         NEW t, t = updateViewport(s), NEW st, st = stableParts(subBlock(s))
  PROVE  /\ t \in Screen /\ RestSame(s, t) /\ Clean(t)
         /\ Len(t.subs) = Len(s.subs)
         /\ \A i \in 1 .. Len(s.subs) : t.subs[i].call = s.subs[i].call
         /\ stableParts(t) = st /\ st \in Seq(Parts)
         /\ t.committed = Len(st) /\ Len(t.lines) = Len(st)
         /\ s.committed > Len(st) => t.lines = st /\ t.offset <= 0
         /\ s.committed <= Len(st) =>
              /\ t.offset <= s.offset
              /\ \A k \in 1 .. Len(s.lines) : t.lines[k] = s.lines[k]
              /\ \A k \in 1 .. Len(st) : k > Len(s.lines) => t.lines[k] = st[k]
         /\ t.live = LiveKind(s)
         /\ t.live # "none" =>
              t.offset <= Len(t.lines) + (IF t.live \in Tall THEN TailLines ELSE 0)
<1>1. PICK b : b = subBlock(s)
  OBVIOUS
<1>2. /\ b \in Screen /\ RestSame(s, b) /\ ViewSame(s, b) /\ Clean(b)
      /\ Len(b.subs) = Len(s.subs)
      /\ \A i \in 1 .. Len(s.subs) :
           b.subs[i].call = s.subs[i].call /\ b.subs[i].running = s.subs[i].running
  BY <1>1, SubBlockIs
<1>3. st = stableParts(b) /\ st \in Seq(Parts) /\ Len(st) \in Nat
  <2>1. Len(b.rendered) = Len(b.events)
    BY <1>2 DEF RestSame
  <2>2. QED
    BY <1>1, <1>2, <2>1, StablePlain, LenProperties
<1>4. PICK kept : kept = IF b.committed > Len(st) THEN resetView(b) ELSE b
  OBVIOUS
<1>5. /\ kept \in Screen /\ RestSame(b, kept) /\ kept.subs = b.subs
      /\ kept.committed = Len(kept.lines) /\ kept.committed <= Len(st) /\ kept.committed \in Nat
      /\ IF s.committed > Len(st) THEN kept.lines = << >> /\ kept.offset = 0
         ELSE kept.lines = s.lines /\ kept.offset = s.offset
  <2>1. b.committed = s.committed /\ b.lines = s.lines /\ b.offset = s.offset /\ s.committed \in Nat
    BY <1>2 DEF ViewSame, Screen
  <2>2. CASE b.committed > Len(st)
    <3>1. kept = resetView(b)
      BY <1>4, <2>2
    <3>2. /\ kept \in Screen /\ RestSame(b, kept) /\ kept.subs = b.subs
          /\ kept.lines = << >> /\ kept.committed = 0 /\ kept.offset = 0
      BY <1>2, <3>1, ResetIs
    <3>3. Len(<< >>) = 0
      OBVIOUS
    <3>4. QED
      BY <1>3, <2>1, <2>2, <3>2, <3>3
  <2>3. CASE ~ (b.committed > Len(st))
    <3>1. kept = b
      BY <1>4, <2>3
    <3>2. RestSame(b, kept)
      BY <3>1 DEF RestSame
    <3>3. QED
      BY <1>2, <1>3, <2>1, <2>3, <3>1, <3>2
  <2>4. QED
    BY <2>2, <2>3
<1>6. PICK ls : ls = kept.lines \o SubSeq(st, Len(kept.lines) + 1, Len(st))
  OBVIOUS
<1>7. /\ ls \in Seq(Parts) /\ Len(ls) = Len(st) /\ Len(kept.lines) \in Nat
      /\ \A k \in 1 .. Len(kept.lines) : ls[k] = kept.lines[k]
      /\ \A k \in 1 .. Len(st) : k > Len(kept.lines) => ls[k] = st[k]
  <2>1. kept.lines \in Seq(Parts)
    BY <1>5 DEF Screen
  <2>2. Len(kept.lines) <= Len(st)
    BY <1>5
  <2>3. Continued(kept.lines, st, ls)
    BY <1>3, <1>6, <2>1, <2>2, Completes, Zenon
  <2>4. QED
    BY <2>3 DEF Continued
<1>8. PICK filled : filled = WithLines(kept, ls)
  OBVIOUS
<1>9. /\ filled \in Screen /\ RestSame(kept, filled) /\ filled.subs = kept.subs
      /\ filled.lines = ls /\ filled.committed = Len(st) /\ filled.offset = kept.offset
  <2>1. kept \in Screen /\ ls \in Seq(Parts)
    BY <1>5, <1>7
  <2>2. /\ filled \in Screen /\ RestSame(kept, filled) /\ filled.subs = kept.subs
        /\ filled.lines = ls /\ filled.committed = Len(ls) /\ filled.offset = kept.offset
    BY <1>8, <2>1, FilledIs
  <2>3. QED
    BY <1>7, <2>2
<1>10. PICK kind \in Kinds : kind = LiveKind(b)
  BY <1>2, LiveKindType
<1>11. kind = LiveKind(s)
  BY <1>2, <1>10, LiveKindSame
<1>12. t = IF kind = "none" THEN clearLive(filled) ELSE setLive(filled, kind)
  <2>1. filled = [kept EXCEPT !.lines = @ \o SubSeq(st, kept.committed + 1, Len(st)), !.committed = Len(st)]
    <3>1. kept.committed = Len(kept.lines)
      BY <1>5
    <3>2. QED
      BY <1>6, <1>7, <1>8, <3>1, Zenon DEF WithLines
  <2>2. QED
    BY <1>1, <1>3, <1>4, <1>10, <2>1, Zenon DEF updateViewport
<1>13. /\ t \in Screen /\ RestSame(filled, t) /\ t.subs = filled.subs
       /\ t.lines = ls /\ t.committed = Len(st) /\ t.live = kind
       /\ t.offset <= kept.offset
       /\ kind # "none" => t.offset <= Len(t.lines) + (IF kind \in Tall THEN TailLines ELSE 0)
  <2>1. /\ t \in Screen /\ RestSame(filled, t) /\ t.subs = filled.subs
        /\ t.lines = filled.lines /\ t.committed = filled.committed /\ t.live = kind
        /\ t.offset <= filled.offset
        /\ kind # "none" => t.offset <= Len(t.lines) + (IF kind \in Tall THEN TailLines ELSE 0)
    BY <1>9, <1>10, <1>12, LiveIs
  <2>2. QED
    BY <1>9, <2>1
<1>14. RestSame(b, t) /\ RestSame(s, t) /\ t.subs = b.subs
  BY <1>2, <1>5, <1>9, <1>13 DEF RestSame
<1>15. stableParts(t) = st
  <2>1. SubsLike(b.subs, t.subs)
    BY <1>14 DEF SubsLike
  <2>2. QED
    BY <1>2, <1>3, <1>13, <1>14, <2>1, StableSame DEF RestSame
<1>16. Clean(t)
  BY <1>2, <1>13, <1>14, Domains DEF Clean, Ended, Anchored, RestSame
<1>17. CASE s.committed > Len(st)
  <2>1. kept.lines = << >> /\ kept.offset = 0 /\ Len(<< >>) = 0
    BY <1>5, <1>17
  <2>2. \A k \in 1 .. Len(st) : ls[k] = st[k]
    BY <1>3, <1>7, <2>1
  <2>3. ls = st
    BY <1>3, <1>7, <2>2, SeqEqual
  <2>4. ~ (s.committed <= Len(st))
    BY <1>3, <1>17 DEF Screen
  <2>5. t.lines = st /\ t.offset <= 0
    BY <1>13, <2>1, <2>3
  <2>6. QED
    BY <1>2, <1>3, <1>7, <1>11, <1>13, <1>14, <1>15, <1>16, <2>4, <2>5
<1>18. CASE ~ (s.committed > Len(st))
  <2>1. kept.lines = s.lines /\ kept.offset = s.offset
    BY <1>5, <1>18
  <2>2. QED
    BY <1>2, <1>3, <1>7, <1>11, <1>13, <1>14, <1>15, <1>16, <1>18, <2>1
<1>19. QED
  BY <1>17, <1>18

-----------------------------------------------------------------------------
(***************************************************************************)
(* What a handler leaves for updateViewport, and what that makes of it.    *)
(***************************************************************************)
\* Where no info block is shown and nothing has to go, the lines are the first of
\* the parts.
Begun(s) ==
  s.ephemeral = << >> /\ s.committed <= Len(stableParts(subBlock(s)))
    => \A k \in 1 .. Len(s.lines) : s.lines[k] = stableParts(subBlock(s))[k]

\* A scroll position within a tall live slot is one of a response that is shown.
Scrolled(s) ==
  /\ s.offset <= Len(s.lines) + (IF s.live \in Tall THEN TailLines ELSE 0)
  /\ s.live \in Tall => s.active \/ s.offset <= Len(s.lines)

Prepared(s) ==
  /\ s \in Screen /\ Fits(s) /\ OneRecordEach(s)
  /\ Viewed(s) /\ Begun(s) /\ Scrolled(s)

LEMMA ScreenPartsOf ==
  ASSUME NEW w
  PROVE  /\ EventParts(w) \subseteq ScreenParts(w) /\ ChunkParts(w) \subseteq ScreenParts(w)
         /\ OwnParts \subseteq ScreenParts(w) /\ ScreenParts(w) \subseteq Parts
         /\ EventParts(w) \subseteq Parts /\ ChunkParts(w) \subseteq Parts /\ OwnParts \subseteq Parts
BY DEF EventParts, ChunkParts, OwnParts, ScreenParts

LEMMA StableFits ==
  ASSUME NEW s \in Screen, Fits(s)
  PROVE  stableParts(s) \in Seq(ScreenParts(s.width))
<1>1. PICK w : w = s.width
  OBVIOUS
<1>2. s.rendered \in Seq(ScreenParts(w)) /\ s.chunks \in Seq(ScreenParts(w))
  BY <1>1, ScreenPartsOf, Wider DEF Fits, StreamFits
<1>3. s.block \in Seq(ScreenParts(w)) /\ s.ephemeral \in Seq(ScreenParts(w))
  <2>1. s.block \in Seq(OwnParts) /\ s.ephemeral \in Seq(OwnParts)
    BY DEF Screen
  <2>2. QED
    BY <2>1, ScreenPartsOf, Wider
<1>4. \A i \in 1 .. Len(s.subs) : s.subs[i].part \in Seq(ScreenParts(w))
  <2>1. ASSUME NEW i \in 1 .. Len(s.subs) PROVE s.subs[i].part \in Seq(ScreenParts(w))
    <3>1. s.subs[i].part \in Seq(OwnParts)
      BY Domains DEF SubRecord
    <3>2. QED
      BY <3>1, ScreenPartsOf, Wider
  <2>2. QED
    BY <2>1
<1>5. Len(s.rendered) = Len(s.events)
  BY DEF Fits
<1>6. QED
  BY <1>1, <1>2, <1>3, <1>4, <1>5, StableType

LEMMA RestFits ==
  ASSUME NEW s, NEW t, RestSame(s, t)
  PROVE  (Fits(s) <=> Fits(t)) /\ (StreamFits(s) <=> StreamFits(t))
<1>1. StreamFits(s) <=> StreamFits(t)
  BY DEF RestSame, StreamFits
<1>2. QED
  BY <1>1 DEF RestSame, Fits

LEMMA CallsKept ==
  ASSUME NEW s, NEW t, OneRecordEach(s), Len(t.subs) = Len(s.subs),
         \A i \in 1 .. Len(s.subs) : t.subs[i].call = s.subs[i].call
  PROVE  OneRecordEach(t)
BY DEF OneRecordEach

\* updateViewport makes a steady screen of a prepared one.
LEMMA Updated ==
  ASSUME NEW s, Prepared(s), NEW t, t = updateViewport(s)
  PROVE  Steady(t) /\ Synced(t) /\ RestSame(s, t)
<1>1. s \in Screen /\ Fits(s) /\ OneRecordEach(s) /\ Viewed(s) /\ Begun(s) /\ Scrolled(s)
  BY DEF Prepared
<1>2. PICK st : st = stableParts(subBlock(s))
  OBVIOUS
<1>3. Len(s.rendered) = Len(s.events) /\ s.committed = Len(s.lines)
  BY <1>1 DEF Fits, Viewed
<1>4. /\ t \in Screen /\ RestSame(s, t) /\ Clean(t)
      /\ Len(t.subs) = Len(s.subs)
      /\ \A i \in 1 .. Len(s.subs) : t.subs[i].call = s.subs[i].call
      /\ stableParts(t) = st /\ st \in Seq(Parts)
      /\ t.committed = Len(st) /\ Len(t.lines) = Len(st)
      /\ s.committed > Len(st) => t.lines = st /\ t.offset <= 0
      /\ s.committed <= Len(st) =>
           /\ t.offset <= s.offset
           /\ \A k \in 1 .. Len(s.lines) : t.lines[k] = s.lines[k]
           /\ \A k \in 1 .. Len(st) : k > Len(s.lines) => t.lines[k] = st[k]
      /\ t.live = LiveKind(s)
      /\ t.live # "none" =>
           t.offset <= Len(t.lines) + (IF t.live \in Tall THEN TailLines ELSE 0)
  BY <1>1, <1>2, <1>3, UpdateIs
<1>5. Fits(t) /\ OneRecordEach(t)
  BY <1>1, <1>4, RestFits, CallsKept
<1>6. /\ Len(st) \in Nat /\ Len(s.lines) \in Nat /\ s.committed \in Nat
      /\ t.lines \in Seq(Parts) /\ s.lines \in Seq(Parts)
  BY <1>1, <1>4, LenProperties DEF Screen
<1>7. Synced(t)
  <2>1. SUFFICES ASSUME t.ephemeral = << >> PROVE t.lines = st
    BY <1>4 DEF Synced
  <2>2. s.ephemeral = << >>
    BY <1>4, <2>1 DEF RestSame
  <2>3. CASE s.committed > Len(st)
    BY <1>4, <2>3
  <2>4. CASE ~ (s.committed > Len(st))
    <3>1. s.committed <= Len(st)
      BY <1>6, <2>4
    <3>2. \A k \in 1 .. Len(s.lines) : s.lines[k] = st[k]
      BY <1>1, <1>2, <2>2, <3>1 DEF Begun
    <3>3. \A k \in 1 .. Len(st) : t.lines[k] = st[k]
      BY <1>4, <1>6, <3>1, <3>2
    <3>4. QED
      BY <1>4, <1>6, <3>3, SeqEqual
  <2>5. QED
    BY <2>3, <2>4
<1>8. Viewed(t)
  <2>1. PICK w : w = t.width
    OBVIOUS
  <2>2. st \in Seq(ScreenParts(w))
    BY <1>4, <1>5, <2>1, StableFits
  <2>3. s.lines \in Seq(ScreenParts(w))
    BY <1>1, <1>4, <2>1 DEF Viewed, RestSame
  <2>4. CASE s.committed > Len(st)
    BY <1>4, <2>1, <2>2, <2>4 DEF Viewed
  <2>5. CASE ~ (s.committed > Len(st))
    <3>1. s.committed <= Len(st)
      BY <1>6, <2>5
    <3>2. ASSUME NEW k \in 1 .. Len(st) PROVE t.lines[k] \in ScreenParts(w)
      <4>1. CASE k <= Len(s.lines)
        <5>1. k \in 1 .. Len(s.lines)
          BY <1>6, <4>1
        <5>2. s.lines[k] \in ScreenParts(w)
          BY <2>3, <5>1, ElementOfSeq
        <5>3. QED
          BY <1>4, <3>1, <5>1, <5>2
      <4>2. CASE k > Len(s.lines)
        <5>1. st[k] \in ScreenParts(w)
          BY <2>2, ElementOfSeq
        <5>2. QED
          BY <1>4, <3>1, <4>2, <5>1
      <4>3. QED
        BY <1>6, <4>1, <4>2
    <3>3. t.lines \in Seq(ScreenParts(w))
      <4>1. t.lines \in [1 .. Len(st) -> Parts]
        BY <1>4, <1>6, LenProperties
      <4>2. DOMAIN t.lines = 1 .. Len(st) /\ t.lines = [k \in 1 .. Len(st) |-> t.lines[k]]
        BY <4>1
      <4>3. QED
        BY <1>6, <3>2, <4>2, FunctionIsSeq
    <3>4. QED
      BY <1>4, <2>1, <3>3 DEF Viewed
  <2>6. QED
    BY <2>4, <2>5
<1>9. s.active \in BOOLEAN /\ s.streaming \in BOOLEAN /\ s.thoughts \in BOOLEAN /\ s.tail \in BOOLEAN
      /\ s.overlay \in { "none", "palette", "sessions" } /\ s.compressing \in BOOLEAN
      /\ s.generating \in BOOLEAN
  BY <1>1 DEF Screen
<1>10. /\ t.live \in Tall => t.active
       /\ t.live = "none" => ~ s.active
       /\ LiveTold(t)
  <2>1. ~ s.active => ~ s.thoughts
    BY <1>1 DEF Fits, StreamFits
  <2>2. LiveKind(s) \in Tall => s.active
    BY <1>9, <2>1 DEF LiveKind, Tall
  <2>3. LiveKind(s) = "none" => ~ s.active
    BY <1>9 DEF LiveKind
  <2>4. s.active /\ s.tail /\ ~ s.streaming /\ ~ s.compressing => LiveKind(s) = "tail"
    BY <1>9 DEF LiveKind
  <2>5. QED
    BY <1>4, <2>2, <2>3, <2>4 DEF LiveTold, RestSame
<1>11. Window(t)
  <2>1. CASE t.live # "none"
    BY <1>4, <1>10, <2>1 DEF Window
  <2>2. CASE t.live = "none"
    <3>1. t.live \notin Tall
      BY <2>2 DEF Tall
    <3>2. t.offset \in Nat /\ s.offset \in Nat
      BY <1>1, <1>4 DEF Screen
    <3>3. s.offset <= Len(s.lines)
      BY <1>1, <1>6, <1>10, <2>2, <3>2 DEF Scrolled
    <3>4. t.offset <= Len(st)
      BY <1>3, <1>4, <1>6, <3>2, <3>3
    <3>5. QED
      BY <1>4, <1>6, <3>1, <3>2, <3>4 DEF Window
  <2>3. QED
    BY <2>1, <2>2
<1>12. QED
  BY <1>4, <1>5, <1>7, <1>8, <1>10, <1>11 DEF Steady, Settled

LEMMA ResetPrepared ==
  ASSUME NEW s \in Screen, Fits(s), OneRecordEach(s), NEW t, t = resetView(s)
  PROVE  Prepared(t) /\ RestSame(s, t)
<1>1. /\ t \in Screen /\ RestSame(s, t) /\ t.subs = s.subs
      /\ t.lines = << >> /\ t.committed = 0 /\ t.live = "none" /\ t.offset = 0
  BY ResetIs
<1>2. Fits(t) /\ OneRecordEach(t)
  BY <1>1, RestFits, CallsKept
<1>3. Len(t.lines) = 0 /\ t.lines \in Seq(ScreenParts(t.width))
  BY <1>1, EmptySeq
<1>4. Viewed(t)
  BY <1>1, <1>3 DEF Viewed
<1>5. Begun(t)
  BY <1>3 DEF Begun
<1>6. Scrolled(t)
  BY <1>1, <1>3 DEF Scrolled, Tall
<1>7. QED
  BY <1>1, <1>2, <1>4, <1>5, <1>6 DEF Prepared

\* What is left of the parts when the response or the info blocks go.
LEMMA KeptPrepared ==
  ASSUME NEW s, Steady(s), NEW x \in Screen, Fits(x), OneRecordEach(x), Clean(x),
         x.width = s.width, x.lines = s.lines, x.committed = s.committed,
         Shown(x) = Shown(s), x.block \in { s.block, << >> }, x.chunks \in { s.chunks, << >> },
         x.ephemeral \in { s.ephemeral, << >> }, Scrolled(x)
  PROVE  Prepared(x)
<1>1. s \in Screen /\ Fits(s) /\ Viewed(s) /\ Settled(s)
  BY DEF Steady
<1>2. Viewed(x)
  BY <1>1 DEF Viewed
<1>3. stableParts(subBlock(x)) = stableParts(x)
  BY SubBlockClean
<1>4. ASSUME x.ephemeral = << >>, x.committed <= Len(stableParts(x))
      PROVE  x.lines = stableParts(x)
  <2>1. /\ Len(Shown(s)) \in Nat /\ Len(s.block) \in Nat /\ Len(s.chunks) \in Nat
        /\ Len(s.ephemeral) \in Nat
        /\ Len(stableParts(s)) = Len(Shown(s)) + Len(s.block) + Len(s.chunks) + Len(s.ephemeral)
    BY <1>1, StablePlain DEF Fits
  <2>2. Len(stableParts(x)) = Len(Shown(s)) + Len(x.block) + Len(x.chunks) + Len(x.ephemeral)
    BY StablePlain DEF Fits
  <2>3. s.committed \in Nat /\ s.committed >= Len(stableParts(s))
    BY <1>1, <2>1, SMTT(30) DEF Settled, Synced, Screen
  <2>4. /\ Len(x.block) \in { Len(s.block), 0 } /\ Len(x.chunks) \in { Len(s.chunks), 0 }
        /\ Len(x.ephemeral) = 0 /\ Len(<< >>) = 0
    BY <1>4
  <2>5. /\ s.committed = Len(stableParts(s)) /\ Len(x.block) = Len(s.block)
        /\ Len(x.chunks) = Len(s.chunks) /\ Len(s.ephemeral) = 0
    <3>1. PICK sh \in Nat, b \in Nat, c \in Nat, i \in Nat :
            sh = Len(Shown(s)) /\ b = Len(s.block) /\ c = Len(s.chunks) /\ i = Len(s.ephemeral)
      BY <2>1
    <3>2. PICK b2 \in { b, 0 }, c2 \in { c, 0 } : b2 = Len(x.block) /\ c2 = Len(x.chunks)
      BY <2>4, <3>1
    <3>3. PICK n \in Nat : n = s.committed
      BY <2>3
    <3>4. n <= sh + b2 + c2 + 0
      BY <1>4, <2>2, <2>4, <3>1, <3>2, <3>3
    <3>5. n >= sh + b + c + i
      BY <2>1, <2>3, <3>1, <3>3
    <3>6. b2 \in Nat /\ c2 \in Nat /\ b2 <= b /\ c2 <= c
      BY <3>2
    <3>7. n = sh + b + c + i /\ b2 = b /\ c2 = c /\ i = 0
      BY <3>4, <3>5, <3>6
    <3>8. QED
      BY <2>1, <3>1, <3>2, <3>3, <3>7
  <2>6. s.block \in Seq(OwnParts) /\ s.chunks \in Seq(Parts) /\ s.ephemeral \in Seq(OwnParts)
    BY <1>1 DEF Screen
  <2>7. s.ephemeral = << >> /\ x.block = s.block /\ x.chunks = s.chunks
    BY <2>4, <2>5, <2>6, EmptySeq
  <2>8. stableParts(x) = stableParts(s)
    BY <1>4, <2>7, StableIs, Zenon
  <2>9. ~ (s.committed > Len(stableParts(s)))
    BY <2>3, <2>5
  <2>10. QED
    BY <1>1, <2>7, <2>8, <2>9 DEF Settled, Synced
<1>5. Begun(x)
  BY <1>3, <1>4 DEF Begun
<1>6. QED
  BY <1>2, <1>5 DEF Prepared

LEMMA CleanSame ==
  ASSUME NEW s \in Screen, NEW t \in Screen, Clean(s), t.events = s.events, t.subs = s.subs
  PROVE  Clean(t)
BY DEF Clean, Ended, Anchored

LEMMA KeptPlain ==
  ASSUME NEW s, Steady(s), NEW x \in Screen, x.events = s.events, x.rendered = s.rendered,
         x.subs = s.subs, x.width = s.width, x.lines = s.lines, x.committed = s.committed,
         StreamFits(x), x.block \in { s.block, << >> }, x.chunks \in { s.chunks, << >> },
         x.ephemeral \in { s.ephemeral, << >> }, Scrolled(x)
  PROVE  Prepared(x)
<1>1. s \in Screen /\ Fits(s) /\ OneRecordEach(s) /\ Clean(s)
  BY DEF Steady
<1>2. Fits(x)
  BY <1>1 DEF Fits
<1>3. OneRecordEach(x)
  BY <1>1 DEF OneRecordEach
<1>4. Clean(x)
  BY <1>1, CleanSame
<1>5. Shown(x) = Shown(s)
  BY <1>1, ShownSame DEF SubsLike
<1>6. QED
  BY <1>2, <1>3, <1>4, <1>5, KeptPrepared

LEMMA BottomIs ==
  ASSUME NEW s \in Screen, NEW t, t = gotoBottom(s)
  PROVE  /\ t \in Screen /\ RestSame(s, t) /\ t.subs = s.subs
         /\ t.lines = s.lines /\ t.committed = s.committed /\ t.offset = 0
         /\ Scrolled(t)
<1>1. t = [s EXCEPT !.offset = 0] /\ 0 \in Nat
  BY DEF gotoBottom
<1>2. t \in Screen
  BY <1>1 DEF Screen
<1>3. RestSame(s, t) /\ t.subs = s.subs
  BY <1>1 DEF Screen, RestSame
<1>4. t.lines = s.lines /\ t.committed = s.committed /\ t.offset = 0
  BY <1>1 DEF Screen
<1>5. PICK n \in Nat : n = Len(t.lines)
  BY <1>2, LenProperties DEF Screen
<1>6. Scrolled(t)
  <2>1. PICK tall \in Nat : tall = IF t.live \in Tall THEN TailLines ELSE 0
    BY ViewAssumption
  <2>2. 0 <= n + tall /\ 0 <= n
    OBVIOUS
  <2>3. QED
    BY <1>4, <1>5, <2>1, <2>2 DEF Scrolled
<1>7. QED
  BY <1>2, <1>3, <1>4, <1>6

LEMMA WindowScrolled ==
  ASSUME NEW s \in Screen, Window(s), NEW x \in Screen,
         x.lines = s.lines, x.live = s.live, x.offset <= s.offset, x.active = s.active
  PROVE  Scrolled(x)
<1>1. PICK bound \in Nat : bound = Len(s.lines) + (IF s.live \in Tall THEN TailLines ELSE 0)
  <2>1. PICK n \in Nat : n = Len(s.lines)
    BY LenProperties DEF Screen
  <2>2. PICK tall \in Nat : tall = IF s.live \in Tall THEN TailLines ELSE 0
    BY ViewAssumption
  <2>3. n + tall \in Nat
    OBVIOUS
  <2>4. QED
    BY <2>1, <2>2, <2>3, Zenon
<1>2. s.offset \in Nat /\ x.offset \in Nat
  BY DEF Screen
<1>3. s.offset <= bound
  BY <1>1 DEF Window
<1>4. x.offset <= bound
  BY <1>2, <1>3
<1>5. QED
  BY <1>1, <1>4 DEF Scrolled, Window

LEMMA DroppedIs ==
  ASSUME NEW s \in Screen, NEW t, t = dropStream(s)
  PROVE  /\ t \in Screen /\ StreamFits(t)
         /\ t.events = s.events /\ t.rendered = s.rendered /\ t.subs = s.subs
         /\ t.block = << >> /\ t.chunks = << >> /\ t.ephemeral = s.ephemeral
         /\ t.streaming = s.streaming /\ t.compressing = s.compressing
         /\ t.width = s.width /\ t.lines = s.lines /\ t.committed = s.committed
         /\ t.expanded = s.expanded /\ t.generating = s.generating
<1>1. << >> \in Seq(Parts) /\ << >> \in Seq(OwnParts) /\ << >> \in Seq(ChunkParts(t.width))
      /\ Len(<< >>) = 0
  BY EmptySeq
<1>2. t = [s EXCEPT !.active = FALSE, !.chunks = << >>, !.tail = FALSE,
                    !.thoughts = FALSE, !.block = << >>, !.frozen = FALSE]
  BY DEF dropStream
<1>3. t \in Screen
  BY <1>1, <1>2 DEF Screen
<1>4. /\ t.active = FALSE /\ t.chunks = << >> /\ t.tail = FALSE /\ t.thoughts = FALSE
      /\ t.block = << >> /\ t.frozen = FALSE
  BY <1>2 DEF Screen
<1>5. /\ t.events = s.events /\ t.rendered = s.rendered /\ t.subs = s.subs
      /\ t.ephemeral = s.ephemeral /\ t.streaming = s.streaming /\ t.compressing = s.compressing
      /\ t.width = s.width /\ t.lines = s.lines /\ t.committed = s.committed
      /\ t.expanded = s.expanded /\ t.generating = s.generating
  BY <1>2 DEF Screen
<1>6. StreamFits(t)
  BY <1>1, <1>4, ViewAssumption DEF StreamFits
<1>7. QED
  BY <1>3, <1>4, <1>5, <1>6

LEMMA StreamStarted ==
  ASSUME NEW s, Steady(s), NEW t, t = startStream(s)
  PROVE  Steady(t)
<1>1. s \in Screen
  BY DEF Steady
<1>2. PICK d : d = dropStream(s)
  OBVIOUS
<1>3. /\ d \in Screen /\ StreamFits(d)
      /\ d.events = s.events /\ d.rendered = s.rendered /\ d.subs = s.subs
      /\ d.block = << >> /\ d.chunks = << >> /\ d.ephemeral = s.ephemeral
      /\ d.width = s.width /\ d.lines = s.lines /\ d.committed = s.committed
  BY <1>1, <1>2, DroppedIs
<1>4. PICK u : u = [d EXCEPT !.streaming = TRUE, !.generating = TRUE]
  OBVIOUS
<1>5. /\ u \in Screen
      /\ u.events = s.events /\ u.rendered = s.rendered /\ u.subs = s.subs
      /\ u.block = << >> /\ u.chunks = << >> /\ u.ephemeral = s.ephemeral
      /\ u.width = s.width /\ u.lines = s.lines /\ u.committed = s.committed
  BY <1>3, <1>4 DEF Screen
<1>6. StreamFits(u)
  BY <1>3, <1>4 DEF Screen, StreamFits
<1>7. PICK x : x = gotoBottom(u)
  OBVIOUS
<1>8. /\ x \in Screen /\ RestSame(u, x) /\ x.subs = u.subs
      /\ x.lines = u.lines /\ x.committed = u.committed /\ Scrolled(x)
  BY <1>5, <1>7, BottomIs
<1>9. StreamFits(x)
  BY <1>6, <1>8, RestFits
<1>10. Prepared(x)
  BY <1>5, <1>8, <1>9, KeptPlain DEF RestSame
<1>11. t = updateViewport(x)
  BY <1>2, <1>4, <1>7 DEF startStream
<1>12. QED
  BY <1>10, <1>11, Updated

LEMMA CompressionStarted ==
  ASSUME NEW s, Steady(s), NEW pending \in BOOLEAN, NEW t, t = startCompression(s, pending)
  PROVE  Steady(t)
<1>1. s \in Screen /\ StreamFits(s)
  BY DEF Steady, Fits
<1>2. PICK u : u = [s EXCEPT !.compressing = TRUE, !.pending = pending]
  OBVIOUS
<1>3. /\ u \in Screen
      /\ u.events = s.events /\ u.rendered = s.rendered /\ u.subs = s.subs
      /\ u.block = s.block /\ u.chunks = s.chunks /\ u.ephemeral = s.ephemeral
      /\ u.width = s.width /\ u.lines = s.lines /\ u.committed = s.committed
  BY <1>1, <1>2 DEF Screen
<1>4. StreamFits(u)
  BY <1>1, <1>2 DEF Screen, StreamFits
<1>5. PICK x : x = gotoBottom(u)
  OBVIOUS
<1>6. /\ x \in Screen /\ RestSame(u, x) /\ x.subs = u.subs
      /\ x.lines = u.lines /\ x.committed = u.committed /\ Scrolled(x)
  BY <1>3, <1>5, BottomIs
<1>7. StreamFits(x)
  BY <1>4, <1>6, RestFits
<1>8. Prepared(x)
  BY <1>3, <1>6, <1>7, KeptPlain DEF RestSame
<1>9. t = updateViewport(x)
  BY <1>2, <1>5 DEF startCompression
<1>10. QED
  BY <1>8, <1>9, Updated

LEMMA InfoAdded ==
  ASSUME NEW s, Steady(s), nextInfo \in 1 .. MaxInfos, NEW t, t = addInfo(s)
  PROVE  Steady(t) /\ t.compressing = s.compressing /\ t.streaming = s.streaming
<1>1. s \in Screen /\ Fits(s) /\ OneRecordEach(s) /\ Viewed(s) /\ Window(s)
  BY DEF Steady
<1>2. PICK info : info = Part("info", nextInfo, s.width, FALSE)
  OBVIOUS
<1>3. info \in OwnParts
  <2>1. s.width \in 1 .. MaxResizes + 1
    BY <1>1 DEF Screen
  <2>2. nextInfo \in 0 .. MaxEvents + MaxChunks + MaxInfos /\ s.width \in 0 .. MaxResizes + 1
    BY <2>1, ViewAssumption
  <2>3. info \in Parts
    BY <1>2, <2>2 DEF Part, Parts, PartKinds
  <2>4. QED
    BY <1>2, <2>3 DEF OwnParts, Part
<1>4. PICK infos : infos = Append(s.ephemeral, info)
  OBVIOUS
<1>5. infos \in Seq(OwnParts) /\ infos # << >>
  <2>1. s.ephemeral \in Seq(OwnParts)
    BY <1>1 DEF Screen
  <2>2. infos \in Seq(OwnParts) /\ Len(infos) = Len(s.ephemeral) + 1
    BY <1>3, <1>4, <2>1, AppendProperties
  <2>3. Len(s.ephemeral) + 1 # 0 /\ Len(<< >>) = 0
    BY <2>1, LenProperties
  <2>4. QED
    BY <2>2, <2>3
<1>6. PICK x : x = [s EXCEPT !.ephemeral = infos]
  OBVIOUS
<1>7. /\ x \in Screen /\ x.ephemeral = infos /\ x.lines = s.lines /\ x.live = s.live
      /\ x.offset = s.offset /\ x.active = s.active /\ x.committed = s.committed
      /\ x.width = s.width /\ x.subs = s.subs /\ x.compressing = s.compressing
      /\ x.streaming = s.streaming
  BY <1>1, <1>5, <1>6 DEF Screen
<1>8. Fits(x)
  BY <1>1, <1>6 DEF Screen, Fits, StreamFits
<1>9. Scrolled(x)
  <2>1. s.offset \in Nat
    BY <1>1 DEF Screen
  <2>2. x.offset <= s.offset
    BY <1>7, <2>1
  <2>3. QED
    BY <1>1, <1>7, <2>2, WindowScrolled
<1>10. Prepared(x)
  BY <1>1, <1>5, <1>7, <1>8, <1>9 DEF Prepared, Viewed, Begun, OneRecordEach
<1>11. t = updateViewport(x)
  BY <1>2, <1>4, <1>6 DEF addInfo
<1>12. QED
  BY <1>7, <1>10, <1>11, Updated DEF RestSame

-----------------------------------------------------------------------------
(***************************************************************************)
(* The handlers.                                                           *)
(***************************************************************************)
SameButRendered(s, t) ==
  /\ t.events = s.events /\ t.thoughts = s.thoughts
  /\ t.block = s.block /\ t.frozen = s.frozen /\ t.chunks = s.chunks /\ t.tail = s.tail
  /\ t.ephemeral = s.ephemeral /\ t.active = s.active /\ t.streaming = s.streaming
  /\ t.compressing = s.compressing /\ t.width = s.width /\ t.thinking = s.thinking

\* renderAll renders every event in the width there is, and leaves a steady screen
\* when the chunks have that width too.
LEMMA RenderedIs ==
  ASSUME NEW s \in Screen, OneRecordEach(s), NEW t, t = renderAll(s)
  PROVE  /\ t \in Screen /\ SameButRendered(s, t) /\ OneRecordEach(t)
         /\ t.rendered \in Seq(EventParts(t.width)) /\ Len(t.rendered) = Len(t.events)
         /\ StreamFits(s) => Steady(t)
<1>1. PICK q : q = [e \in DOMAIN s.events |-> renderEvent(s, s.events[e])]
  OBVIOUS
<1>2. /\ DOMAIN s.events = 1 .. Len(s.events) /\ Len(s.events) \in Nat
      /\ \A e \in 1 .. Len(s.events) : s.events[e] \in Event
  BY Domains, ElementOfSeq
<1>3. q \in Seq(EventParts(s.width)) /\ Len(q) = Len(s.events)
  <2>1. ASSUME NEW e \in 1 .. Len(s.events) PROVE q[e] \in EventParts(s.width)
    <3>1. s.events[e].id \in 0 .. MaxEvents + MaxChunks + MaxInfos
      <4>1. s.events[e].id \in 1 .. MaxEvents
        BY <1>2 DEF Event
      <4>2. QED
        BY <4>1, ViewAssumption
    <3>2. s.width \in 0 .. MaxResizes + 1
      <4>1. s.width \in 1 .. MaxResizes + 1
        BY DEF Screen
      <4>2. QED
        BY <4>1, ViewAssumption
    <3>3. q[e] = Part("event", s.events[e].id, s.width, FALSE)
      BY <1>1, <1>2 DEF renderEvent
    <3>4. QED
      BY <3>1, <3>2, <3>3 DEF EventParts, Part, Parts, PartKinds
  <2>2. DOMAIN q = 1 .. Len(s.events)
    BY <1>1, <1>2
  <2>3. q = [e \in 1 .. Len(s.events) |-> q[e]]
    BY <1>1, <2>2
  <2>4. QED
    BY <1>2, <2>1, <2>2, <2>3, FunctionIsSeq
<1>4. q \in Seq(Parts)
  BY <1>3, ScreenPartsOf, Wider
<1>5. PICK r : r = [s EXCEPT !.rendered = q]
  OBVIOUS
<1>6. r \in Screen
  BY <1>4, <1>5 DEF Screen
<1>7. SameButRendered(s, r) /\ r.rendered = q /\ r.subs = s.subs
  BY <1>5 DEF Screen, SameButRendered
<1>8. PICK u : u = resetView(r)
  OBVIOUS
<1>9. /\ u \in Screen /\ RestSame(r, u) /\ u.subs = r.subs
      /\ u.lines = << >> /\ u.committed = 0
  BY <1>6, <1>8, ResetIs
<1>10. t = updateViewport(u)
  BY <1>1, <1>5, <1>8 DEF renderAll
<1>11. /\ t \in Screen /\ RestSame(u, t) /\ Len(t.subs) = Len(u.subs)
       /\ \A i \in 1 .. Len(u.subs) : t.subs[i].call = u.subs[i].call
  <2>1. Len(u.rendered) = Len(u.events)
    BY <1>3, <1>7, <1>9 DEF RestSame, SameButRendered
  <2>2. u.committed = Len(u.lines)
    BY <1>9
  <2>3. PICK st : st = stableParts(subBlock(u))
    OBVIOUS
  <2>4. QED
    BY <1>9, <1>10, <2>1, <2>2, <2>3, UpdateIs
<1>12. SameButRendered(s, t) /\ t.rendered = q
  BY <1>7, <1>9, <1>11 DEF RestSame, SameButRendered
<1>13. OneRecordEach(t)
  BY <1>7, <1>9, <1>11, CallsKept
<1>14. ASSUME StreamFits(s) PROVE Steady(t)
  <2>1. OneRecordEach(r)
    BY <1>7 DEF OneRecordEach
  <2>2. Fits(r)
    BY <1>3, <1>7, <1>14 DEF Fits, StreamFits, SameButRendered
  <2>3. Prepared(u)
    BY <1>6, <1>8, <2>1, <2>2, ResetPrepared
  <2>4. QED
    BY <1>10, <2>3, Updated
<1>15. QED
  BY <1>3, <1>11, <1>12, <1>13, <1>14 DEF SameButRendered

\* What Enter clears may leave fewer parts than are committed.
LEMMA Cleared ==
  ASSUME NEW s, Steady(s), ~ s.streaming, ~ s.compressing,
         NEW x, x = [s EXCEPT !.ephemeral = << >>, !.overlay = "none"]
  PROVE  Steady(x) /\ x.events = s.events /\ ~ x.streaming /\ ~ x.compressing
<1>1. s \in Screen /\ Fits(s) /\ OneRecordEach(s) /\ Clean(s) /\ Viewed(s) /\ Settled(s)
      /\ Window(s) /\ LiveTold(s)
  BY DEF Steady
<1>2. << >> \in Seq(OwnParts) /\ Len(<< >>) = 0
  BY EmptySeq
<1>3. x \in Screen
  BY <1>1, <1>2 DEF Screen
<1>4. /\ x.ephemeral = << >> /\ x.events = s.events /\ x.rendered = s.rendered
      /\ x.subs = s.subs /\ x.block = s.block /\ x.chunks = s.chunks
      /\ x.lines = s.lines /\ x.committed = s.committed /\ x.live = s.live
      /\ x.offset = s.offset /\ x.active = s.active /\ x.width = s.width
      /\ x.tail = s.tail /\ x.thoughts = s.thoughts /\ x.frozen = s.frozen
      /\ x.streaming = s.streaming /\ x.compressing = s.compressing
  BY <1>1 DEF Screen
<1>5. Fits(x) /\ OneRecordEach(x) /\ Viewed(x) /\ Window(x) /\ LiveTold(x)
  BY <1>1, <1>4 DEF Fits, StreamFits, OneRecordEach, Viewed, Window, LiveTold
<1>6. Clean(x)
  BY <1>1, <1>3, <1>4, CleanSame
<1>7. Shown(x) = Shown(s)
  BY <1>1, <1>3, <1>4, ShownSame DEF SubsLike
<1>8. Settled(x)
  <2>1. CASE s.ephemeral = << >>
    <3>1. stableParts(x) = stableParts(s)
      BY <1>4, <1>7, <2>1, StableIs, Zenon
    <3>2. QED
      BY <1>1, <1>4, <2>1, <3>1 DEF Settled, Synced
  <2>2. CASE s.ephemeral # << >>
    <3>1. s.committed = Len(stableParts(s))
      BY <1>1, <2>2 DEF Settled, Synced
    <3>2. PICK sh \in Nat, b \in Nat, c \in Nat, i \in Nat :
            sh = Len(Shown(s)) /\ b = Len(s.block) /\ c = Len(s.chunks) /\ i = Len(s.ephemeral)
      BY <1>1, StablePlain DEF Fits
    <3>3. Len(stableParts(s)) = sh + b + c + i
      BY <1>1, <3>2, StablePlain DEF Fits
    <3>4. Len(stableParts(x)) = sh + b + c + 0
      BY <1>2, <1>3, <1>4, <1>5, <1>7, <3>2, StablePlain DEF Fits
    <3>5. i # 0
      <4>1. s.ephemeral \in Seq(OwnParts)
        BY <1>1 DEF Screen
      <4>2. QED
        BY <2>2, <3>2, <4>1, EmptySeq
    <3>6. sh + b + c + i > sh + b + c + 0
      BY <3>5
    <3>7. x.committed > Len(stableParts(x))
      BY <1>4, <3>1, <3>3, <3>4, <3>6
    <3>8. QED
      BY <1>4, <3>7 DEF Settled
  <2>3. QED
    BY <2>1, <2>2
<1>9. QED
  BY <1>3, <1>4, <1>5, <1>6, <1>8 DEF Steady

\* esc, "/" and the list of sessions change what is open; the end of a turn or of
\* a compression what is going on.
LEMMA OtherwiseSame ==
  ASSUME NEW s, Steady(s), NEW x \in Screen, x.events = s.events, x.rendered = s.rendered,
         x.subs = s.subs, x.block = s.block, x.chunks = s.chunks, x.ephemeral = s.ephemeral,
         x.width = s.width, x.lines = s.lines, x.committed = s.committed, x.live = s.live,
         x.offset <= s.offset, x.active = s.active, x.tail = s.tail, x.thoughts = s.thoughts,
         x.frozen = s.frozen
  PROVE  Prepared(x)
<1>1. s \in Screen /\ StreamFits(s) /\ Window(s)
  BY DEF Steady, Fits
<1>2. StreamFits(x)
  BY <1>1 DEF StreamFits
<1>3. Scrolled(x)
  BY <1>1, WindowScrolled
<1>4. QED
  BY <1>2, <1>3, KeptPlain

LEMMA Again ==
  ASSUME NEW s, Steady(s), NEW t, t = updateViewport(s)
  PROVE  Steady(t) /\ RestSame(s, t)
<1>1. s \in Screen
  BY DEF Steady
<1>2. s.offset \in Nat
  BY <1>1 DEF Screen
<1>3. s.offset <= s.offset
  BY <1>2
<1>4. Prepared(s)
  BY <1>1, <1>3, OtherwiseSame
<1>5. QED
  BY <1>4, Updated

LEMMA SendSteady ==
  ASSUME IInv, Send
  PROVE  IInv'
<1>1. /\ nextEvent \in 1 .. MaxEvents + 1 /\ nextInfo \in 1 .. MaxInfos + 1 /\ Steady(screen)
      /\ ~ screen.streaming /\ ~ screen.compressing /\ nextEvent' = nextEvent
  BY DEF IInv, Send, Idle
<1>2. PICK s : s = [screen EXCEPT !.ephemeral = << >>, !.overlay = "none"]
  OBVIOUS
<1>3. Steady(s) /\ ~ s.streaming /\ ~ s.compressing
  BY <1>1, <1>2, Cleared
<1>4. \/ screen' = startStream(s) /\ nextInfo' = nextInfo
      \/ \E pending \in BOOLEAN : screen' = startCompression(s, pending) /\ nextInfo' = nextInfo
      \/ nextInfo <= MaxInfos /\ screen' = addInfo(s) /\ nextInfo' = nextInfo + 1
      \/ screen' = updateViewport([s EXCEPT !.overlay = "sessions"]) /\ nextInfo' = nextInfo
      \/ screen' = s /\ nextInfo' = nextInfo
  BY <1>2 DEF Send
<1>5. CASE screen' = startStream(s) /\ nextInfo' = nextInfo
  BY <1>1, <1>3, <1>5, StreamStarted DEF IInv
<1>6. CASE \E pending \in BOOLEAN : screen' = startCompression(s, pending) /\ nextInfo' = nextInfo
  BY <1>1, <1>3, <1>6, CompressionStarted DEF IInv
<1>7. CASE nextInfo <= MaxInfos /\ screen' = addInfo(s) /\ nextInfo' = nextInfo + 1
  <2>1. nextInfo \in 1 .. MaxInfos /\ nextInfo' \in 1 .. MaxInfos + 1
    BY <1>1, <1>7, ViewAssumption
  <2>2. QED
    BY <1>1, <1>3, <1>7, <2>1, InfoAdded DEF IInv
<1>8. CASE screen' = updateViewport([s EXCEPT !.overlay = "sessions"]) /\ nextInfo' = nextInfo
  <2>1. PICK x : x = [s EXCEPT !.overlay = "sessions"]
    OBVIOUS
  <2>2. s \in Screen
    BY <1>3 DEF Steady
  <2>3. /\ x \in Screen /\ x.events = s.events /\ x.rendered = s.rendered
        /\ x.subs = s.subs /\ x.block = s.block /\ x.chunks = s.chunks /\ x.ephemeral = s.ephemeral
        /\ x.width = s.width /\ x.lines = s.lines /\ x.committed = s.committed /\ x.live = s.live
        /\ x.offset = s.offset /\ x.active = s.active /\ x.tail = s.tail /\ x.thoughts = s.thoughts
        /\ x.frozen = s.frozen
    BY <2>1, <2>2 DEF Screen
  <2>4. x.offset <= s.offset
    BY <2>2, <2>3 DEF Screen
  <2>5. Prepared(x)
    BY <1>3, <2>3, <2>4, OtherwiseSame
  <2>6. QED
    BY <1>1, <1>8, <2>1, <2>5, Updated DEF IInv
<1>9. CASE screen' = s /\ nextInfo' = nextInfo
  BY <1>1, <1>3, <1>9 DEF IInv
<1>10. QED
  BY <1>4, <1>5, <1>6, <1>7, <1>8, <1>9

LEMMA OverlaySteady ==
  ASSUME IInv, NEW kind \in { "palette", "none" }, Overlay(kind)
  PROVE  IInv'
<1>1. PICK s : s = screen
  OBVIOUS
<1>2. Steady(s) /\ s \in Screen
  BY <1>1 DEF IInv, Steady
<1>3. PICK x : x = [s EXCEPT !.overlay = kind]
  OBVIOUS
<1>4. /\ x \in Screen /\ x.events = s.events /\ x.rendered = s.rendered
      /\ x.subs = s.subs /\ x.block = s.block /\ x.chunks = s.chunks /\ x.ephemeral = s.ephemeral
      /\ x.width = s.width /\ x.lines = s.lines /\ x.committed = s.committed /\ x.live = s.live
      /\ x.offset = s.offset /\ x.active = s.active /\ x.tail = s.tail /\ x.thoughts = s.thoughts
      /\ x.frozen = s.frozen
  BY <1>2, <1>3 DEF Screen
<1>5. x.offset <= s.offset
  BY <1>2, <1>4 DEF Screen
<1>6. Prepared(x)
  BY <1>2, <1>4, <1>5, OtherwiseSame
<1>7. screen' = updateViewport(x) /\ UNCHANGED << nextEvent, nextInfo >>
  BY <1>1, <1>3 DEF Overlay
<1>8. QED
  BY <1>6, <1>7, Updated DEF IInv

LEMMA CompressionFailedSteady ==
  ASSUME IInv, CompressionFailed
  PROVE  IInv'
<1>1. PICK s : s = screen
  OBVIOUS
<1>2. Steady(s) /\ s \in Screen
  BY <1>1 DEF IInv, Steady
<1>3. PICK x : x = [s EXCEPT !.compressing = FALSE, !.pending = FALSE]
  OBVIOUS
<1>4. /\ x \in Screen /\ x.events = s.events /\ x.rendered = s.rendered
      /\ x.subs = s.subs /\ x.block = s.block /\ x.chunks = s.chunks /\ x.ephemeral = s.ephemeral
      /\ x.width = s.width /\ x.lines = s.lines /\ x.committed = s.committed /\ x.live = s.live
      /\ x.offset = s.offset /\ x.active = s.active /\ x.tail = s.tail /\ x.thoughts = s.thoughts
      /\ x.frozen = s.frozen
  BY <1>2, <1>3 DEF Screen
<1>5. x.offset <= s.offset
  BY <1>2, <1>4 DEF Screen
<1>6. Prepared(x)
  BY <1>2, <1>4, <1>5, OtherwiseSame
<1>7. screen' = updateViewport(x) /\ UNCHANGED << nextEvent, nextInfo >>
  BY <1>1, <1>3 DEF CompressionFailed
<1>8. QED
  BY <1>6, <1>7, Updated DEF IInv

\* The composer takes another row, or gives it back.
LEMMA QueueChanged ==
  ASSUME NEW s, Steady(s), NEW queued \in BOOLEAN, NEW x, x = clamp([s EXCEPT !.queued = queued])
  PROVE  Steady(x)
<1>1. s \in Screen /\ Fits(s) /\ OneRecordEach(s) /\ Clean(s) /\ Viewed(s) /\ Settled(s)
      /\ Window(s) /\ LiveTold(s)
  BY DEF Steady
<1>2. PICK q : q = [s EXCEPT !.queued = queued]
  OBVIOUS
<1>3. q \in Screen
  BY <1>1, <1>2 DEF Screen
<1>4. /\ q.events = s.events /\ q.rendered = s.rendered /\ q.thoughts = s.thoughts
      /\ q.block = s.block /\ q.frozen = s.frozen /\ q.chunks = s.chunks /\ q.tail = s.tail
      /\ q.ephemeral = s.ephemeral /\ q.active = s.active /\ q.streaming = s.streaming
      /\ q.compressing = s.compressing /\ q.width = s.width
      /\ q.subs = s.subs /\ q.lines = s.lines /\ q.committed = s.committed /\ q.live = s.live
      /\ q.offset = s.offset
  BY <1>1, <1>2 DEF Screen
<1>5. /\ x \in Screen /\ RestSame(q, x) /\ x.subs = q.subs
      /\ x.lines = q.lines /\ x.committed = q.committed /\ x.live = q.live
      /\ x.offset <= q.offset
  BY <1>2, <1>3, ClampIs
<1>6. /\ x.events = s.events /\ x.rendered = s.rendered /\ x.thoughts = s.thoughts
      /\ x.block = s.block /\ x.frozen = s.frozen /\ x.chunks = s.chunks /\ x.tail = s.tail
      /\ x.ephemeral = s.ephemeral /\ x.active = s.active /\ x.streaming = s.streaming
      /\ x.compressing = s.compressing /\ x.width = s.width
      /\ x.subs = s.subs /\ x.lines = s.lines /\ x.committed = s.committed /\ x.live = s.live
      /\ x.offset <= s.offset
  BY <1>4, <1>5 DEF RestSame
<1>7. Fits(x) /\ OneRecordEach(x) /\ Viewed(x) /\ LiveTold(x)
  BY <1>1, <1>6, SMTT(30) DEF Fits, StreamFits, OneRecordEach, Viewed, LiveTold
<1>8. Clean(x)
  BY <1>1, <1>5, <1>6, CleanSame
<1>9. stableParts(x) = stableParts(s)
  BY <1>1, <1>5, <1>6, StableSame DEF SubsLike
<1>10. Settled(x)
  BY <1>1, <1>6, <1>9 DEF Settled, Synced
<1>11. Window(x)
  <2>1. Scrolled(x)
    BY <1>1, <1>5, <1>6, WindowScrolled
  <2>2. QED
    BY <1>1, <1>6, <2>1 DEF Window, Scrolled
<1>12. QED
  BY <1>5, <1>7, <1>8, <1>10, <1>11 DEF Steady

LEMMA QueueWhileBusySteady ==
  ASSUME IInv, QueueWhileBusy
  PROVE  IInv'
<1>1. PICK s : s = screen
  OBVIOUS
<1>2. Steady(s)
  BY <1>1 DEF IInv
<1>3. PICK x : x = clamp([s EXCEPT !.queued = TRUE])
  OBVIOUS
<1>4. Steady(x)
  BY <1>2, <1>3, QueueChanged
<1>5. screen' = updateViewport(x) /\ UNCHANGED << nextEvent, nextInfo >>
  BY <1>1, <1>3 DEF QueueWhileBusy
<1>6. QED
  BY <1>4, <1>5, Again DEF IInv

LEMMA ScrollSteady ==
  ASSUME IInv, Scroll
  PROVE  IInv'
<1>1. PICK s : s = screen
  OBVIOUS
<1>2. Steady(s) /\ s \in Screen
  BY <1>1 DEF IInv, Steady
<1>3. PICK to \in 0 .. MaxScroll(s) :
        screen' = [s EXCEPT !.offset = to] /\ UNCHANGED << nextEvent, nextInfo >>
  BY <1>1 DEF Scroll
<1>4. PICK x : x = [s EXCEPT !.offset = to]
  OBVIOUS
<1>5. PICK bound : bound = Len(s.lines) + (IF s.live \in Tall THEN TailLines ELSE 0)
  OBVIOUS
<1>6. /\ MaxScroll(s) \in Nat /\ MaxScroll(s) <= bound
  BY <1>2, <1>5, Reach
<1>7. to \in Nat /\ to <= bound
  <2>1. bound \in Nat
    <3>1. PICK n \in Nat : n = Len(s.lines)
      BY <1>2, LenProperties DEF Screen
    <3>2. PICK tall \in Nat : tall = IF s.live \in Tall THEN TailLines ELSE 0
      BY ViewAssumption
    <3>3. n + tall \in Nat
      OBVIOUS
    <3>4. QED
      BY <1>5, <3>1, <3>2, <3>3, Zenon
  <2>2. QED
    BY <1>3, <1>6, <2>1
<1>8. x \in Screen
  BY <1>2, <1>4, <1>7 DEF Screen
<1>9. RestSame(s, x)
  BY <1>2, <1>4 DEF Screen, RestSame
<1>10. /\ x.subs = s.subs /\ x.lines = s.lines /\ x.committed = s.committed
       /\ x.live = s.live /\ x.offset = to
  BY <1>2, <1>4 DEF Screen
<1>11. Fits(s) /\ OneRecordEach(s) /\ Clean(s) /\ Viewed(s) /\ Settled(s) /\ Window(s) /\ LiveTold(s)
  BY <1>2 DEF Steady
<1>12. Fits(x) /\ OneRecordEach(x) /\ Viewed(x) /\ LiveTold(x) /\ Window(x)
  <2>1. Fits(x)
    BY <1>9, <1>11, RestFits
  <2>2. QED
    BY <1>5, <1>7, <1>9, <1>10, <1>11, <2>1
       DEF OneRecordEach, Viewed, LiveTold, Window, RestSame
<1>13. Clean(x)
  BY <1>2, <1>8, <1>9, <1>10, <1>11, CleanSame DEF RestSame
<1>14. stableParts(x) = stableParts(s)
  BY <1>2, <1>8, <1>9, <1>10, StableSame DEF RestSame, SubsLike
<1>15. Settled(x)
  BY <1>9, <1>10, <1>11, <1>14 DEF Settled, Synced, RestSame
<1>16. QED
  BY <1>3, <1>4, <1>8, <1>12, <1>13, <1>15 DEF IInv, Steady

\* Chunks that follow the others continue the parts.
LEMMA ChunksContinue ==
  ASSUME NEW s \in Screen, Len(s.rendered) = Len(s.events),
         NEW x \in Screen, Len(x.rendered) = Len(x.events), Shown(x) = Shown(s), x.block = s.block,
         NEW new \in Seq(Parts), x.chunks = s.chunks \o new,
         s.ephemeral = << >>, x.ephemeral = << >>
  PROVE  \A k \in 1 .. Len(stableParts(s)) : stableParts(x)[k] = stableParts(s)[k]
<1>1. PICK a \in Seq(Parts) : a = Shown(s)
  BY StablePlain
<1>2. s.block \in Seq(Parts) /\ s.chunks \in Seq(Parts) /\ << >> \in Seq(Parts)
  <2>1. s.block \in Seq(OwnParts) /\ s.chunks \in Seq(Parts)
    BY DEF Screen
  <2>2. QED
    BY <2>1, ScreenPartsOf, Wider, EmptySeq
<1>3. PICK b \in Seq(Parts) : b = a \o s.block
  BY <1>2, TwoJoined
<1>4. PICK c \in Seq(Parts) : c = b \o s.chunks
  BY <1>2, TwoJoined
<1>5. stableParts(s) = c
  <2>1. stableParts(s) = ((Shown(s) \o s.block) \o s.chunks) \o s.ephemeral
    BY StableIs
  <2>2. stableParts(s) = c \o << >>
    BY <1>1, <1>3, <1>4, <2>1, Zenon
  <2>3. QED
    BY <2>2, ConcatEmptySeq
<1>6. stableParts(x) = c \o new
  <2>1. stableParts(x) = ((Shown(x) \o x.block) \o x.chunks) \o x.ephemeral
    BY StableIs
  <2>2. stableParts(x) = (b \o (s.chunks \o new)) \o << >>
    BY <1>1, <1>3, <2>1, Zenon
  <2>3. PICK d \in Seq(Parts) : d = s.chunks \o new
    BY <1>2, TwoJoined
  <2>4. PICK e \in Seq(Parts) : e = b \o d
    BY TwoJoined
  <2>5. e \o << >> = e
    BY ConcatEmptySeq
  <2>6. stableParts(x) = e
    BY <2>2, <2>3, <2>4, <2>5, Zenon
  <2>7. b \o d = c \o new
    <3>1. PICK g : g = s.chunks
      OBVIOUS
    <3>2. g \in Seq(Parts) /\ b \in Seq(Parts) /\ d = g \o new /\ c = b \o g
      BY <1>2, <1>3, <1>4, <2>3, <3>1, Zenon
    <3>3. Regroups(b, g, new)
      BY <3>2, Regroup
    <3>4. QED
      BY <3>2, <3>3, Zenon DEF Regroups
  <2>8. QED
    BY <2>4, <2>6, <2>7, Zenon
<1>7. \A k \in 1 .. Len(c) + Len(new) :
        (c \o new)[k] = IF k <= Len(c) THEN c[k] ELSE new[k - Len(c)]
  BY ConcatProperties
<1>8. PICK n \in Nat, m \in Nat : n = Len(c) /\ m = Len(new)
  BY LenProperties
<1>9. ASSUME NEW k \in 1 .. n PROVE (c \o new)[k] = c[k]
  <2>1. k \in 1 .. n + m /\ k <= n
    OBVIOUS
  <2>2. QED
    BY <1>7, <1>8, <2>1
<1>10. QED
  BY <1>5, <1>6, <1>8, <1>9

LEMMA FlushSteady ==
  ASSUME IInv, NEW thought \in BOOLEAN, NEW text \in BOOLEAN, NEW tail \in BOOLEAN,
         NEW chunks \in 0 .. 1, Flush(thought, text, chunks, tail)
  PROVE  IInv'
<1>1. PICK s : s = screen
  OBVIOUS
<1>2. Steady(s)
  BY <1>1 DEF IInv
<1>3. s \in Screen /\ Fits(s) /\ OneRecordEach(s) /\ Clean(s) /\ Viewed(s) /\ Settled(s) /\ Window(s)
  BY <1>2 DEF Steady
<1>4. s.streaming /\ Len(s.chunks) + chunks <= MaxChunks
  BY <1>1 DEF Flush
<1>5. PICK new : new = [c \in 1 .. chunks |-> Part("chunk", Len(s.chunks) + c, s.width, FALSE)]
  OBVIOUS
<1>6. PICK old \in Nat : old = Len(s.chunks)
  BY <1>3, LenProperties DEF Screen
<1>7. new \in Seq(ChunkParts(s.width)) /\ Len(new) = chunks
  <2>1. ASSUME NEW c \in 1 .. chunks PROVE new[c] \in ChunkParts(s.width)
    <3>1. old + c \in 0 .. MaxEvents + MaxChunks + MaxInfos
      BY <1>4, <1>6, ViewAssumption
    <3>2. s.width \in 0 .. MaxResizes + 1
      <4>1. s.width \in 1 .. MaxResizes + 1
        BY <1>3 DEF Screen
      <4>2. QED
        BY <4>1, ViewAssumption
    <3>3. new[c] = Part("chunk", old + c, s.width, FALSE)
      BY <1>5, <1>6
    <3>4. QED
      BY <3>1, <3>2, <3>3 DEF ChunkParts, Part, Parts, PartKinds
  <2>2. DOMAIN new = 1 .. chunks /\ new = [c \in 1 .. chunks |-> new[c]] /\ chunks \in Nat
    BY <1>5
  <2>3. QED
    BY <2>1, <2>2, FunctionIsSeq
<1>8. PICK all : all = s.chunks \o new
  OBVIOUS
<1>9. all \in Seq(ChunkParts(s.width)) /\ Len(all) <= MaxChunks /\ all \in Seq(Parts)
  <2>1. s.chunks \in Seq(ChunkParts(s.width))
    BY <1>3 DEF Fits, StreamFits
  <2>2. all \in Seq(ChunkParts(s.width)) /\ Len(all) = Len(s.chunks) + chunks
    BY <1>7, <1>8, <2>1, TwoJoined
  <2>3. QED
    BY <1>4, <2>2, ScreenPartsOf, Wider
<1>10. PICK generating \in BOOLEAN, thoughts \in BOOLEAN :
          generating = (s.generating /\ ~ text) /\ thoughts = (s.thoughts \/ thought)
  <2>1. (s.generating /\ ~ text) \in BOOLEAN /\ (s.thoughts \/ thought) \in BOOLEAN
    BY <1>3 DEF Screen
  <2>2. QED
    BY <2>1, Zenon
<1>11. PICK x : x = [s EXCEPT !.active = TRUE, !.generating = generating,
                              !.chunks = all, !.tail = tail, !.thoughts = thoughts]
  OBVIOUS
<1>12. x \in Screen
  <2>1. generating \in BOOLEAN /\ thoughts \in BOOLEAN /\ TRUE \in BOOLEAN
    BY <1>10
  <2>2. all \in Seq(Parts) /\ s \in Screen
    BY <1>3, <1>9
  <2>3. QED
    BY <1>11, <2>1, <2>2, ZenonT(60) DEF Screen
<1>13. /\ x.active = TRUE /\ x.chunks = all
       /\ x.events = s.events /\ x.rendered = s.rendered /\ x.subs = s.subs /\ x.block = s.block
       /\ x.ephemeral = s.ephemeral /\ x.width = s.width /\ x.lines = s.lines
       /\ x.committed = s.committed /\ x.live = s.live /\ x.offset = s.offset
       /\ x.frozen = s.frozen
  BY <1>3, <1>11 DEF Screen
<1>14. Fits(x) /\ OneRecordEach(x)
  BY <1>3, <1>9, <1>13 DEF Fits, StreamFits, OneRecordEach
<1>15. /\ screen' = updateViewport(IF text /\ ~ x.frozen /\ x.thoughts THEN freezeThinking(x) ELSE x)
       /\ UNCHANGED << nextEvent, nextInfo >>
  BY <1>1, <1>5, <1>8, <1>10, <1>11, Zenon DEF Flush
<1>16. CASE text /\ ~ x.frozen /\ x.thoughts
  <2>1. PICK block : block = ThinkingBlock(x)
    OBVIOUS
  <2>2. block \in Seq(OwnParts)
    <3>1. PICK p : p = Part("thinking", 0, 0, x.thinking)
      OBVIOUS
    <3>2. 0 \in 0 .. MaxEvents + MaxChunks + MaxInfos /\ 0 \in 0 .. MaxResizes + 1
          /\ x.thinking \in BOOLEAN
      BY <1>12, ViewAssumption DEF Screen
    <3>3. p \in OwnParts
      BY <3>1, <3>2 DEF Part, Parts, PartKinds, OwnParts
    <3>4. block = << p >>
      BY <1>16, <2>1, <3>1 DEF ThinkingBlock
    <3>5. QED
      BY <3>3, <3>4
  <2>3. PICK f : f = [x EXCEPT !.block = block, !.frozen = TRUE]
    OBVIOUS
  <2>4. f \in Screen
    BY <1>12, <2>2, <2>3 DEF Screen
  <2>5. /\ f.active = TRUE /\ f.chunks = x.chunks /\ f.rendered = x.rendered
        /\ f.events = x.events /\ f.width = x.width /\ f.subs = x.subs
    BY <1>12, <1>13, <2>3 DEF Screen
  <2>6. Fits(f) /\ OneRecordEach(f)
    BY <1>14, <2>5 DEF Fits, StreamFits, OneRecordEach
  <2>7. PICK r : r = resetView(f)
    OBVIOUS
  <2>8. Prepared(r)
    BY <2>4, <2>6, <2>7, ResetPrepared
  <2>9. screen' = updateViewport(r)
    BY <1>15, <1>16, <2>1, <2>3, <2>7 DEF freezeThinking
  <2>10. QED
    BY <1>15, <2>8, <2>9, Updated DEF IInv
<1>17. CASE ~ (text /\ ~ x.frozen /\ x.thoughts)
  <2>1. screen' = updateViewport(x)
    BY <1>15, <1>17
  <2>2. Viewed(x)
    BY <1>3, <1>13 DEF Viewed
  <2>3. Scrolled(x)
    BY <1>3, <1>13 DEF Scrolled, Window
  <2>4. stableParts(subBlock(x)) = stableParts(x)
    BY <1>3, <1>12, <1>13, CleanSame, SubBlockClean
  <2>5. ASSUME x.ephemeral = << >>
        PROVE  \A k \in 1 .. Len(x.lines) : x.lines[k] = stableParts(x)[k]
    <3>1. s.lines = stableParts(s)
      BY <1>3, <1>4, <1>13, <2>5 DEF Settled, Synced
    <3>2. Shown(x) = Shown(s)
      BY <1>3, <1>12, <1>13, ShownSame DEF SubsLike
    <3>3. new \in Seq(Parts)
      BY <1>7, ScreenPartsOf, Wider
    <3>4. \A k \in 1 .. Len(stableParts(s)) : stableParts(x)[k] = stableParts(s)[k]
      BY <1>3, <1>8, <1>12, <1>13, <1>14, <2>5, <3>2, <3>3, ChunksContinue DEF Fits
    <3>5. QED
      BY <1>13, <3>1, <3>4
  <2>6. Begun(x)
    BY <2>4, <2>5 DEF Begun
  <2>7. Prepared(x)
    BY <1>12, <1>14, <2>2, <2>3, <2>6 DEF Prepared
  <2>8. QED
    BY <1>15, <2>1, <2>7, Updated DEF IInv
<1>18. QED
  BY <1>16, <1>17

LEMMA EventFits ==
  ASSUME NEW id \in 1 .. MaxEvents, NEW call \in BOOLEAN, NEW w \in 1 .. MaxResizes + 1
  PROVE  [id |-> id, call |-> call] \in Event /\ Part("event", id, w, FALSE) \in EventParts(w)
<1>1. id \in 0 .. MaxEvents + MaxChunks + MaxInfos /\ w \in 0 .. MaxResizes + 1
  BY ViewAssumption
<1>2. Part("event", id, w, FALSE) \in Parts
  BY <1>1 DEF Part, Parts, PartKinds
<1>3. QED
  BY <1>2 DEF Event, EventParts, Part

LEMMA CompletedSteady ==
  ASSUME IInv, NEW kind \in { "user", "reply", "call", "result" }, Completed(kind)
  PROVE  IInv'
<1>1. PICK s : s = screen
  OBVIOUS
<1>2. s \in Screen /\ Fits(s) /\ OneRecordEach(s)
  BY <1>1 DEF IInv, Steady
<1>3. PICK d : d = dropStream(s)
  OBVIOUS
<1>4. /\ d \in Screen /\ StreamFits(d)
      /\ d.events = s.events /\ d.rendered = s.rendered /\ d.subs = s.subs /\ d.width = s.width
  BY <1>2, <1>3, DroppedIs
<1>5. nextEvent \in 1 .. MaxEvents
  BY DEF IInv, Completed
<1>6. PICK ev : ev = [id |-> nextEvent, call |-> kind = "call"]
  OBVIOUS
<1>7. PICK p : p = renderEvent(d, ev)
  OBVIOUS
<1>8. ev \in Event /\ p \in EventParts(s.width)
  <2>1. s.width \in 1 .. MaxResizes + 1
    BY <1>2 DEF Screen
  <2>2. PICK call \in BOOLEAN : call = (kind = "call")
    OBVIOUS
  <2>3. p = Part("event", nextEvent, s.width, FALSE)
    BY <1>4, <1>6, <1>7 DEF renderEvent
  <2>4. QED
    BY <1>5, <1>6, <2>1, <2>2, <2>3, EventFits
<1>9. PICK events : events = Append(s.events, ev)
  OBVIOUS
<1>10. PICK rendered : rendered = Append(s.rendered, p)
  OBVIOUS
<1>11. /\ events \in Seq(Event) /\ rendered \in Seq(EventParts(s.width)) /\ rendered \in Seq(Parts)
       /\ Len(rendered) = Len(events)
  <2>1. s.events \in Seq(Event) /\ s.rendered \in Seq(EventParts(s.width))
        /\ Len(s.rendered) = Len(s.events)
    BY <1>2 DEF Screen, Fits
  <2>2. events \in Seq(Event) /\ Len(events) = Len(s.events) + 1
    BY <1>8, <1>9, <2>1, AppendProperties
  <2>3. rendered \in Seq(EventParts(s.width)) /\ Len(rendered) = Len(s.rendered) + 1
    BY <1>8, <1>10, <2>1, AppendProperties
  <2>4. QED
    BY <2>1, <2>2, <2>3, ScreenPartsOf, Wider
<1>12. PICK generating \in BOOLEAN : generating = CASE kind = "result" -> TRUE
                                                    [] kind = "user" -> d.generating
                                                    [] OTHER -> FALSE
  <2>1. d.generating \in BOOLEAN
    BY <1>4 DEF Screen
  <2>2. QED
    BY <2>1
<1>13. PICK x : x = [d EXCEPT !.events = events, !.rendered = rendered, !.generating = generating]
  OBVIOUS
<1>14. x \in Screen
  BY <1>4, <1>11, <1>12, <1>13 DEF Screen
<1>15. /\ x.events = events /\ x.rendered = rendered /\ x.subs = s.subs /\ x.width = s.width
       /\ x.chunks = d.chunks /\ x.active = d.active /\ x.block = d.block /\ x.tail = d.tail
       /\ x.thoughts = d.thoughts /\ x.frozen = d.frozen
  BY <1>4, <1>13 DEF Screen
<1>16. Fits(x) /\ OneRecordEach(x)
  BY <1>2, <1>4, <1>11, <1>15 DEF Fits, StreamFits, OneRecordEach
<1>17. PICK r : r = resetView(x)
  OBVIOUS
<1>18. Prepared(r)
  BY <1>14, <1>16, <1>17, ResetPrepared
<1>19. /\ screen' = updateViewport(r)
       /\ nextEvent' = nextEvent + 1 /\ nextInfo' = nextInfo
  <2>1. x = [d EXCEPT !.events = Append(@, ev), !.rendered = Append(@, renderEvent(d, ev)),
                      !.generating = CASE kind = "result" -> TRUE
                                       [] kind = "user" -> @
                                       [] OTHER -> FALSE]
    BY <1>4, <1>7, <1>9, <1>10, <1>12, <1>13
  <2>2. QED
    BY <1>1, <1>3, <1>6, <1>17, <2>1, Zenon DEF Completed
<1>20. Steady(screen')
  BY <1>18, <1>19, Updated
<1>21. nextEvent' \in 1 .. MaxEvents + 1 /\ nextInfo' \in 1 .. MaxInfos + 1
  BY <1>5, <1>19, ViewAssumption DEF IInv
<1>22. QED
  BY <1>20, <1>21 DEF IInv, Steady, Fits, StreamFits, OneRecordEach, Clean, Viewed, Settled,
        Synced, Window, LiveTold

LEMMA LeaveSessionSteady ==
  ASSUME IInv, NEW resumed \in BOOLEAN, LeaveSession(resumed)
  PROVE  IInv'
<1>1. PICK s : s = screen
  OBVIOUS
<1>2. s \in Screen
  BY <1>1 DEF IInv, Steady
<1>3. PICK d : d = dropStream(s)
  OBVIOUS
<1>4. d \in Screen /\ StreamFits(d) /\ d.width = s.width
  BY <1>2, <1>3, DroppedIs
<1>5. resumed => nextEvent \in 1 .. MaxEvents
  BY DEF IInv, LeaveSession
<1>6. PICK ev : ev = [id |-> nextEvent, call |-> FALSE]
  OBVIOUS
<1>7. PICK p : p = renderEvent(s, ev)
  OBVIOUS
<1>8. PICK events : events = IF resumed THEN << ev >> ELSE << >>
  OBVIOUS
<1>9. PICK rendered : rendered = IF resumed THEN << p >> ELSE << >>
  OBVIOUS
<1>10. /\ events \in Seq(Event) /\ rendered \in Seq(EventParts(s.width)) /\ rendered \in Seq(Parts)
       /\ Len(rendered) = Len(events)
  <2>1. CASE resumed
    <3>1. s.width \in 1 .. MaxResizes + 1
      BY <1>2 DEF Screen
    <3>2. p = Part("event", nextEvent, s.width, FALSE)
      BY <1>6, <1>7 DEF renderEvent
    <3>3. ev \in Event /\ p \in EventParts(s.width)
      BY <1>5, <1>6, <2>1, <3>1, <3>2, EventFits
    <3>4. p \in Parts
      BY <3>3 DEF EventParts
    <3>5. events = << ev >> /\ rendered = << p >>
      BY <1>8, <1>9, <2>1
    <3>6. QED
      BY <3>3, <3>4, <3>5
  <2>2. CASE ~ resumed
    <3>1. events = << >> /\ rendered = << >>
      BY <1>8, <1>9, <2>2
    <3>2. QED
      BY <3>1, EmptySeq
  <2>3. QED
    BY <2>1, <2>2
<1>11. << >> \in Seq(OwnParts) /\ << >> \in Seq(SubRecord) /\ Len(<< >>) = 0
  BY EmptySeq
<1>12. PICK x : x = [d EXCEPT !.events = events, !.rendered = rendered, !.ephemeral = << >>,
                              !.subs = << >>, !.expanded = FALSE, !.overlay = "none"]
  OBVIOUS
<1>13. x \in Screen
  BY <1>4, <1>10, <1>11, <1>12 DEF Screen
<1>14. /\ x.events = events /\ x.rendered = rendered /\ x.subs = << >> /\ x.width = s.width
       /\ x.chunks = d.chunks /\ x.active = d.active /\ x.block = d.block /\ x.tail = d.tail
       /\ x.thoughts = d.thoughts /\ x.frozen = d.frozen
  BY <1>4, <1>12 DEF Screen
<1>15. Fits(x)
  BY <1>4, <1>10, <1>14 DEF Fits, StreamFits
<1>16. OneRecordEach(x)
  BY <1>11, <1>14 DEF OneRecordEach
<1>17. PICK r : r = resetView(x)
  OBVIOUS
<1>18. Prepared(r)
  BY <1>13, <1>15, <1>16, <1>17, ResetPrepared
<1>19. /\ screen' = updateViewport(r) /\ nextInfo' = nextInfo
       /\ nextEvent' = IF resumed THEN nextEvent + 1 ELSE nextEvent
  BY <1>1, <1>3, <1>6, <1>7, <1>8, <1>9, <1>12, <1>17, Zenon DEF LeaveSession
<1>20. Steady(screen')
  BY <1>18, <1>19, Updated
<1>21. nextEvent' \in 1 .. MaxEvents + 1 /\ nextInfo' \in 1 .. MaxInfos + 1
  BY <1>5, <1>19, ViewAssumption DEF IInv
<1>22. QED
  BY <1>20, <1>21 DEF IInv, Steady, Fits, StreamFits, OneRecordEach, Clean, Viewed, Settled,
        Synced, Window, LiveTold

\* A turn has ended: what was streamed of it stays.
LEMMA EndedIs ==
  ASSUME NEW s, Steady(s),
         NEW x, x = [s EXCEPT !.streaming = FALSE, !.generating = FALSE]
  PROVE  /\ x \in Screen /\ StreamFits(x) /\ OneRecordEach(x) /\ Prepared(x)
<1>1. s \in Screen
  BY DEF Steady
<1>2. /\ x \in Screen /\ x.events = s.events /\ x.rendered = s.rendered
      /\ x.subs = s.subs /\ x.block = s.block /\ x.chunks = s.chunks /\ x.ephemeral = s.ephemeral
      /\ x.width = s.width /\ x.lines = s.lines /\ x.committed = s.committed /\ x.live = s.live
      /\ x.offset = s.offset /\ x.active = s.active /\ x.tail = s.tail /\ x.thoughts = s.thoughts
      /\ x.frozen = s.frozen
  BY <1>1 DEF Screen
<1>3. x.offset <= s.offset
  BY <1>1, <1>2 DEF Screen
<1>4. Prepared(x)
  BY <1>2, <1>3, OtherwiseSame
<1>5. QED
  BY <1>2, <1>4 DEF Prepared, Fits

LEMMA FinishSteady ==
  ASSUME IInv, NEW normal \in BOOLEAN, Finish(normal)
  PROVE  IInv'
<1>1. PICK s : s = [screen EXCEPT !.streaming = FALSE, !.generating = FALSE]
  OBVIOUS
<1>2. s \in Screen /\ StreamFits(s) /\ OneRecordEach(s) /\ Prepared(s)
  BY <1>1, EndedIs DEF IInv
<1>3. PICK shown : shown = updateViewport(IF normal THEN renderAll(s) ELSE s)
  OBVIOUS
<1>4. Steady(shown)
  <2>1. CASE normal
    <3>1. PICK r : r = renderAll(s)
      OBVIOUS
    <3>2. Steady(r)
      BY <1>2, <3>1, RenderedIs
    <3>3. shown = updateViewport(r)
      BY <1>3, <2>1, <3>1
    <3>4. QED
      BY <3>2, <3>3, Again
  <2>2. CASE ~ normal
    <3>1. shown = updateViewport(s)
      BY <1>3, <2>2
    <3>2. QED
      BY <1>2, <3>1, Updated
  <2>3. QED
    BY <2>1, <2>2
<1>5. PICK popped : popped = clamp([shown EXCEPT !.queued = FALSE])
  OBVIOUS
<1>6. Steady(popped)
  BY <1>4, <1>5, QueueChanged
<1>7. s.queued \in BOOLEAN
  BY <1>2 DEF Screen
<1>8. /\ \/ screen' = shown
         \/ screen' = updateViewport(popped)
         \/ screen' = startStream(popped)
         \/ screen' = startCompression(popped, s.queued)
      /\ UNCHANGED << nextEvent, nextInfo >>
  BY <1>1, <1>3, <1>5, Zenon DEF Finish
<1>9. Steady(screen')
  BY <1>4, <1>6, <1>7, <1>8, Again, StreamStarted, CompressionStarted
<1>10. QED
  BY <1>8, <1>9 DEF IInv, Steady, Fits, StreamFits, OneRecordEach, Clean, Viewed, Settled,
        Synced, Window, LiveTold

LEMMA ResizeSteady ==
  ASSUME IInv, Resize
  PROVE  IInv'
<1>1. PICK u : u = screen
  OBVIOUS
<1>2. u \in Screen /\ Fits(u) /\ OneRecordEach(u)
  BY <1>1 DEF IInv, Steady
<1>3. u.width + 1 \in 1 .. MaxResizes + 1
  <2>1. u.width \in 1 .. MaxResizes + 1 /\ u.width <= MaxResizes
    BY <1>1, <1>2 DEF Screen, Resize
  <2>2. QED
    BY <2>1, ViewAssumption
<1>4. PICK x : x = [u EXCEPT !.width = u.width + 1]
  OBVIOUS
<1>5. /\ x \in Screen /\ x.subs = u.subs /\ x.chunks = u.chunks /\ x.active = u.active
      /\ x.block = u.block /\ x.tail = u.tail /\ x.thoughts = u.thoughts /\ x.frozen = u.frozen
  BY <1>2, <1>3, <1>4 DEF Screen
<1>6. OneRecordEach(x)
  BY <1>2, <1>5 DEF OneRecordEach
<1>7. PICK s : s = renderAll(x)
  OBVIOUS
<1>8. /\ s \in Screen /\ SameButRendered(x, s) /\ OneRecordEach(s)
      /\ s.rendered \in Seq(EventParts(s.width)) /\ Len(s.rendered) = Len(s.events)
      /\ StreamFits(x) => Steady(s)
  BY <1>5, <1>6, <1>7, RenderedIs
<1>9. PICK chunks : chunks = [c \in DOMAIN s.chunks |-> [s.chunks[c] EXCEPT !.width = s.width]]
  OBVIOUS
<1>10. /\ IF s.active THEN screen' = updateViewport(resetView([s EXCEPT !.chunks = chunks]))
          ELSE screen' = s
       /\ UNCHANGED << nextEvent, nextInfo >>
  BY <1>1, <1>4, <1>7, <1>9, Zenon DEF Resize
<1>11. StreamFits(u) /\ s.active = u.active /\ s.chunks = u.chunks
  BY <1>2, <1>5, <1>8 DEF Fits, SameButRendered
<1>12. CASE s.active
  <2>1. chunks \in Seq(ChunkParts(s.width)) /\ Len(chunks) = Len(s.chunks)
    <3>1. s.chunks \in Seq(ChunkParts(u.width)) /\ Len(s.chunks) \in Nat
          /\ DOMAIN s.chunks = 1 .. Len(s.chunks)
      BY <1>11, LenProperties DEF StreamFits
    <3>2. s.width \in 0 .. MaxResizes + 1
      <4>1. s.width \in 1 .. MaxResizes + 1
        BY <1>8 DEF Screen
      <4>2. QED
        BY <4>1, ViewAssumption
    <3>3. ASSUME NEW c \in 1 .. Len(s.chunks) PROVE chunks[c] \in ChunkParts(s.width)
      <4>1. PICK p : p = s.chunks[c]
        OBVIOUS
      <4>2. p \in Parts /\ p.kind = "chunk"
        BY <3>1, <4>1, ElementOfSeq DEF ChunkParts
      <4>3. chunks[c] = [p EXCEPT !.width = s.width]
        BY <1>9, <3>1, <4>1
      <4>4. QED
        BY <3>2, <4>2, <4>3 DEF ChunkParts, Parts
    <3>4. DOMAIN chunks = 1 .. Len(s.chunks)
      BY <1>9, <3>1
    <3>5. chunks = [c \in 1 .. Len(s.chunks) |-> chunks[c]]
      BY <1>9, <3>4
    <3>6. QED
      BY <3>1, <3>3, <3>4, <3>5, FunctionIsSeq
  <2>2. chunks \in Seq(Parts)
    BY <2>1, ScreenPartsOf, Wider
  <2>3. PICK y : y = [s EXCEPT !.chunks = chunks]
    OBVIOUS
  <2>4. y \in Screen
    BY <1>8, <2>2, <2>3 DEF Screen
  <2>5. /\ y.chunks = chunks /\ y.rendered = s.rendered /\ y.events = s.events
        /\ y.width = s.width /\ y.subs = s.subs /\ y.active = s.active
    BY <1>8, <2>3 DEF Screen
  <2>6. Fits(y) /\ OneRecordEach(y)
    BY <1>8, <1>11, <1>12, <2>1, <2>5 DEF Fits, StreamFits, OneRecordEach
  <2>7. PICK r : r = resetView(y)
    OBVIOUS
  <2>8. Prepared(r)
    BY <2>4, <2>6, <2>7, ResetPrepared
  <2>9. screen' = updateViewport(r)
    BY <1>10, <1>12, <2>3, <2>7
  <2>10. QED
    BY <1>10, <2>8, <2>9, Updated DEF IInv
<1>13. CASE ~ s.active
  <2>1. StreamFits(x)
    <3>1. x.chunks = << >> /\ x.block = << >> /\ ~ x.tail /\ ~ x.thoughts /\ ~ x.frozen
      BY <1>5, <1>11, <1>13 DEF StreamFits
    <3>2. << >> \in Seq(ChunkParts(x.width)) /\ Len(<< >>) <= MaxChunks
      BY EmptySeq, ViewAssumption
    <3>3. QED
      BY <3>1, <3>2 DEF StreamFits
  <2>2. Steady(s) /\ screen' = s
    BY <1>8, <1>10, <1>13, <2>1
  <2>3. QED
    BY <1>10, <2>2 DEF IInv
<1>14. QED
  BY <1>12, <1>13

LEMMA ToggleThinkingSteady ==
  ASSUME IInv, ToggleThinking
  PROVE  IInv'
<1>1. PICK u : u = screen
  OBVIOUS
<1>2. u \in Screen /\ Fits(u) /\ OneRecordEach(u)
  BY <1>1 DEF IInv, Steady
<1>3. PICK thinking \in BOOLEAN : thinking = ~ u.thinking
  BY <1>2 DEF Screen
<1>4. PICK s : s = [u EXCEPT !.thinking = thinking]
  OBVIOUS
<1>5. s \in Screen
  BY <1>2, <1>3, <1>4 DEF Screen
<1>6. /\ s.subs = u.subs /\ s.chunks = u.chunks /\ s.active = u.active /\ s.events = u.events
      /\ s.rendered = u.rendered /\ s.width = u.width
      /\ s.block = u.block /\ s.tail = u.tail /\ s.thoughts = u.thoughts /\ s.frozen = u.frozen
  BY <1>2, <1>4 DEF Screen
<1>7. Fits(s) /\ OneRecordEach(s)
  BY <1>2, <1>6 DEF Fits, StreamFits, OneRecordEach
<1>8. PICK block : block = ThinkingBlock(s)
  OBVIOUS
<1>9. /\ IF s.frozen /\ s.thoughts THEN screen' = updateViewport(resetView([s EXCEPT !.block = block]))
         ELSE screen' = updateViewport(renderAll(s))
      /\ UNCHANGED << nextEvent, nextInfo >>
  BY <1>1, <1>3, <1>4, <1>8, Zenon DEF ToggleThinking
<1>10. CASE s.frozen /\ s.thoughts
  <2>1. block \in Seq(OwnParts)
    <3>1. PICK p : p = Part("thinking", 0, 0, s.thinking)
      OBVIOUS
    <3>2. 0 \in 0 .. MaxEvents + MaxChunks + MaxInfos /\ 0 \in 0 .. MaxResizes + 1
          /\ s.thinking \in BOOLEAN
      BY <1>5, ViewAssumption DEF Screen
    <3>3. p \in OwnParts
      BY <3>1, <3>2 DEF Part, Parts, PartKinds, OwnParts
    <3>4. block = << p >>
      BY <1>8, <1>10, <3>1 DEF ThinkingBlock
    <3>5. QED
      BY <3>3, <3>4
  <2>2. PICK y : y = [s EXCEPT !.block = block]
    OBVIOUS
  <2>3. y \in Screen
    BY <1>5, <2>1, <2>2 DEF Screen
  <2>4. /\ y.chunks = s.chunks /\ y.rendered = s.rendered /\ y.events = s.events
        /\ y.width = s.width /\ y.subs = s.subs /\ y.active = s.active
    BY <1>5, <2>2 DEF Screen
  <2>5. Fits(y) /\ OneRecordEach(y)
    BY <1>7, <1>10, <2>4 DEF Fits, StreamFits, OneRecordEach
  <2>6. PICK r : r = resetView(y)
    OBVIOUS
  <2>7. Prepared(r)
    BY <2>3, <2>5, <2>6, ResetPrepared
  <2>8. screen' = updateViewport(r)
    BY <1>9, <1>10, <2>2, <2>6
  <2>9. QED
    BY <1>9, <2>7, <2>8, Updated DEF IInv
<1>11. CASE ~ (s.frozen /\ s.thoughts)
  <2>1. PICK r : r = renderAll(s)
    OBVIOUS
  <2>2. Steady(r)
    BY <1>5, <1>7, <2>1, RenderedIs DEF Fits
  <2>3. screen' = updateViewport(r)
    BY <1>9, <1>11, <2>1
  <2>4. QED
    BY <1>9, <2>2, <2>3, Again DEF IInv
<1>12. QED
  BY <1>10, <1>11

LEMMA ToggleSubagentsSteady ==
  ASSUME IInv, ToggleSubagents
  PROVE  IInv'
<1>1. PICK u : u = screen
  OBVIOUS
<1>2. u \in Screen /\ Fits(u) /\ OneRecordEach(u)
  BY <1>1 DEF IInv, Steady
<1>3. PICK expanded \in BOOLEAN : expanded = ~ u.expanded
  BY <1>2 DEF Screen
<1>4. PICK subs : subs = [i \in DOMAIN u.subs |-> [u.subs[i] EXCEPT !.dirty = TRUE]]
  OBVIOUS
<1>5. /\ DOMAIN u.subs = 1 .. Len(u.subs) /\ Len(u.subs) \in Nat
      /\ \A i \in 1 .. Len(u.subs) : u.subs[i] \in SubRecord
  BY <1>2, Domains
<1>6. \A i \in 1 .. Len(u.subs) : subs[i] \in SubRecord /\ subs[i].call = u.subs[i].call
  <2>1. ASSUME NEW i \in 1 .. Len(u.subs)
        PROVE  subs[i] \in SubRecord /\ subs[i].call = u.subs[i].call
    <3>1. subs[i] = [u.subs[i] EXCEPT !.dirty = TRUE]
      BY <1>4, <1>5
    <3>2. u.subs[i] \in SubRecord
      BY <1>5
    <3>3. QED
      BY <3>1, <3>2 DEF SubRecord
  <2>2. QED
    BY <2>1
<1>7. subs \in Seq(SubRecord) /\ Len(subs) = Len(u.subs)
  <2>1. DOMAIN subs = 1 .. Len(u.subs)
    BY <1>4, <1>5
  <2>2. subs = [i \in 1 .. Len(u.subs) |-> subs[i]]
    BY <1>4, <2>1
  <2>3. QED
    BY <1>5, <1>6, <2>1, <2>2, FunctionIsSeq
<1>8. PICK s : s = [u EXCEPT !.expanded = expanded, !.subs = subs]
  OBVIOUS
<1>9. s \in Screen
  BY <1>2, <1>3, <1>7, <1>8, ZenonT(60) DEF Screen
<1>10. /\ s.subs = subs /\ s.chunks = u.chunks /\ s.active = u.active /\ s.events = u.events
       /\ s.rendered = u.rendered /\ s.width = u.width
       /\ s.block = u.block /\ s.tail = u.tail /\ s.thoughts = u.thoughts /\ s.frozen = u.frozen
  BY <1>2, <1>8 DEF Screen
<1>11. Fits(s)
  BY <1>2, <1>10 DEF Fits, StreamFits
<1>12. OneRecordEach(s)
  BY <1>2, <1>6, <1>7, <1>10, CallsKept
<1>13. PICK r : r = resetView(s)
  OBVIOUS
<1>14. Prepared(r)
  BY <1>9, <1>11, <1>12, <1>13, ResetPrepared
<1>15. screen' = updateViewport(r) /\ UNCHANGED << nextEvent, nextInfo >>
  BY <1>1, <1>3, <1>4, <1>8, <1>13, Zenon DEF ToggleSubagents
<1>16. QED
  BY <1>14, <1>15, Updated DEF IInv

LEMMA CompressedSteady ==
  ASSUME IInv, Compressed
  PROVE  IInv'
<1>1. PICK u : u = screen
  OBVIOUS
<1>2. u \in Screen /\ StreamFits(u) /\ OneRecordEach(u)
  BY <1>1 DEF IInv, Steady, Fits
<1>3. nextEvent \in 1 .. MaxEvents /\ nextInfo \in 1 .. MaxInfos
  BY DEF IInv, Compressed
<1>4. PICK covered \in 1 .. Len(u.events) :
        LET s == [u EXCEPT !.compressing = FALSE, !.pending = FALSE,
                    !.events = <<[id |-> nextEvent, call |-> FALSE]>>
                                 \o SubSeq(@, covered + 1, Len(@))]
            card == addInfo(renderAll(s))
        IN  screen' = IF u.pending THEN startStream(card) ELSE updateViewport(card)
  BY <1>1, Zenon DEF Compressed
<1>5. PICK n \in Nat : n = Len(u.events)
  BY <1>2, Domains
<1>6. PICK rest : rest = SubSeq(u.events, covered + 1, n)
  OBVIOUS
<1>7. rest \in Seq(Event)
  <2>1. u.events \in Seq(Event)
    BY <1>2 DEF Screen
  <2>2. \A i \in covered + 1 .. n : u.events[i] \in Event
    BY <1>5, <2>1, ElementOfSeq
  <2>3. covered + 1 \in Int /\ n \in Int
    BY <1>4, <1>5
  <2>4. QED
    BY <1>6, <2>1, <2>2, <2>3, SubSeqProperties
<1>8. PICK first : first = << [id |-> nextEvent, call |-> FALSE] >>
  OBVIOUS
<1>9. first \in Seq(Event)
  <2>1. [id |-> nextEvent, call |-> FALSE] \in Event
    BY <1>3 DEF Event
  <2>2. QED
    BY <1>8, <2>1
<1>10. PICK events \in Seq(Event) : events = first \o rest
  BY <1>7, <1>9, TwoJoined
<1>11. PICK s : s = [u EXCEPT !.compressing = FALSE, !.pending = FALSE, !.events = events]
  OBVIOUS
<1>12. s \in Screen
  <2>1. FALSE \in BOOLEAN /\ events \in Seq(Event)
    BY <1>10
  <2>2. QED
    BY <1>2, <1>11, <2>1 DEF Screen
<1>13. /\ s.chunks = u.chunks /\ s.width = u.width /\ s.subs = u.subs /\ s.active = u.active
       /\ s.block = u.block /\ s.tail = u.tail /\ s.thoughts = u.thoughts /\ s.frozen = u.frozen
  BY <1>2, <1>11 DEF Screen
<1>14. StreamFits(s) /\ OneRecordEach(s)
  BY <1>2, <1>13 DEF StreamFits, OneRecordEach
<1>15. PICK r : r = renderAll(s)
  OBVIOUS
<1>16. Steady(r)
  BY <1>12, <1>14, <1>15, RenderedIs
<1>17. PICK card : card = addInfo(r)
  OBVIOUS
<1>18. Steady(card)
  BY <1>3, <1>16, <1>17, InfoAdded
<1>19. screen' = startStream(card) \/ screen' = updateViewport(card)
  BY <1>4, <1>5, <1>6, <1>8, <1>10, <1>11, <1>15, <1>17, Zenon
<1>20. Steady(screen')
  BY <1>18, <1>19, StreamStarted, Again
<1>21. nextEvent' = nextEvent + 1 /\ nextInfo' = nextInfo + 1
  BY DEF Compressed
<1>22. nextEvent' \in 1 .. MaxEvents + 1 /\ nextInfo' \in 1 .. MaxInfos + 1
  BY <1>3, <1>21, ViewAssumption
<1>23. QED
  BY <1>20, <1>22 DEF IInv, Steady, Fits, StreamFits, OneRecordEach, Clean, Viewed, Settled,
        Synced, Window, LiveTold

\* A run that has only started has no block yet.
LEMMA StartedShown ==
  ASSUME NEW s \in Screen, NEW x \in Screen, x.events = s.events, x.rendered = s.rendered,
         NEW r \in SubRecord, r.running, x.subs = Append(s.subs, r)
  PROVE  Shown(x) = Shown(s)
<1>1. /\ DOMAIN s.subs = 1 .. Len(s.subs) /\ DOMAIN x.subs = 1 .. Len(x.subs)
      /\ DOMAIN s.events = 1 .. Len(s.events) /\ DOMAIN x.events = 1 .. Len(s.events)
      /\ \A i \in 1 .. Len(s.subs) : s.subs[i] \in SubRecord
      /\ s.subs \in Seq(SubRecord)
  BY Domains
<1>2. PICK n \in Nat : n = Len(s.subs)
  BY Domains
<1>3. /\ Len(x.subs) = n + 1 /\ x.subs[n + 1] = r
      /\ \A i \in 1 .. n : x.subs[i] = s.subs[i]
  BY <1>1, <1>2, AppendProperties
<1>4. ASSUME NEW e PROVE BlocksAfter(x, e) = BlocksAfter(s, e)
  <2>1. PICK f : f = [i \in DOMAIN s.subs |->
          IF i \in Ended(s) /\ s.events[e] = [id |-> s.subs[i].call, call |-> TRUE]
          THEN s.subs[i].part ELSE << >>]
    OBVIOUS
  <2>2. PICK g : g = [i \in DOMAIN x.subs |->
          IF i \in Ended(x) /\ x.events[e] = [id |-> x.subs[i].call, call |-> TRUE]
          THEN x.subs[i].part ELSE << >>]
    OBVIOUS
  <2>3. << >> \in Seq(OwnParts)
    BY EmptySeq
  <2>4. ASSUME NEW i \in 1 .. n PROVE f[i] \in Seq(OwnParts) /\ g[i] = f[i]
    <3>1. s.subs[i].part \in Seq(OwnParts)
      BY <1>1, <1>2 DEF SubRecord
    <3>2. i \in DOMAIN s.subs /\ i \in DOMAIN x.subs
      BY <1>1, <1>2, <1>3
    <3>3. x.subs[i] = s.subs[i]
      BY <1>3
    <3>4. i \in Ended(x) <=> i \in Ended(s)
      BY <3>2, <3>3 DEF Ended
    <3>5. f[i] \in Seq(OwnParts)
      BY <2>1, <2>3, <3>1, <3>2
    <3>6. g[i] = f[i]
      BY <2>1, <2>2, <3>2, <3>3, <3>4, Zenon
    <3>7. QED
      BY <3>5, <3>6
  <2>5. g[n + 1] = << >>
    <3>1. n + 1 \in DOMAIN x.subs
      BY <1>1, <1>3
    <3>2. n + 1 \notin Ended(x)
      BY <1>3 DEF Ended
    <3>3. QED
      BY <2>2, <3>1, <3>2
  <2>6. f \in Seq(Seq(OwnParts)) /\ Len(f) = n
    <3>1. DOMAIN f = 1 .. n
      BY <1>1, <1>2, <2>1
    <3>2. f = [i \in 1 .. n |-> f[i]]
      BY <2>1, <3>1
    <3>3. QED
      BY <2>4, <3>1, <3>2, FunctionIsSeq
  <2>7. g = Append(f, << >>)
    <3>1. g \in Seq(Seq(OwnParts)) /\ Len(g) = n + 1
      <4>1. DOMAIN g = 1 .. n + 1
        BY <1>1, <1>3, <2>2
      <4>2. g = [i \in 1 .. n + 1 |-> g[i]]
        BY <2>2, <4>1
      <4>3. ASSUME NEW i \in 1 .. n + 1 PROVE g[i] \in Seq(OwnParts)
        <5>1. i \in 1 .. n \/ i = n + 1
          OBVIOUS
        <5>2. QED
          BY <2>3, <2>4, <2>5, <5>1
      <4>4. QED
        BY <4>1, <4>2, <4>3, FunctionIsSeq
    <3>2. PICK h : h = Append(f, << >>)
      OBVIOUS
    <3>3. /\ h \in Seq(Seq(OwnParts)) /\ Len(h) = n + 1 /\ h[n + 1] = << >>
          /\ \A i \in 1 .. n : h[i] = f[i]
      BY <2>3, <2>6, <3>2, AppendProperties
    <3>4. ASSUME NEW i \in 1 .. n + 1 PROVE g[i] = h[i]
      <4>1. i \in 1 .. n \/ i = n + 1
        OBVIOUS
      <4>2. QED
        BY <2>4, <2>5, <3>3, <4>1
    <3>5. g = h
      BY <3>1, <3>3, <3>4, SeqEqual
    <3>6. QED
      BY <3>2, <3>5
  <2>8. PICK empty \in Seq(OwnParts) : empty = << >>
    BY <2>3
  <2>9. FlattenSeq(Append(f, empty)) = FlattenSeq(f) \o empty
    BY <2>6, <2>8, FlattenAppend
  <2>10. FlattenSeq(f) \in Seq(OwnParts)
    BY <2>6, FlattenType
  <2>11. PICK flat \in Seq(OwnParts) : flat = FlattenSeq(f)
    BY <2>10
  <2>12. flat \o << >> = flat
    BY ConcatEmptySeq
  <2>13. FlattenSeq(g) = FlattenSeq(f)
    BY <2>7, <2>8, <2>9, <2>11, <2>12, Zenon
  <2>14. QED
    BY <2>1, <2>2, <2>13 DEF BlocksAfter
<1>5. PICK f : f = [e \in DOMAIN s.events |-> << s.rendered[e] >> \o BlocksAfter(s, e)]
  OBVIOUS
<1>6. PICK g : g = [e \in DOMAIN x.events |-> << x.rendered[e] >> \o BlocksAfter(x, e)]
  OBVIOUS
<1>7. f = g
  <2>1. DOMAIN f = 1 .. Len(s.events) /\ DOMAIN g = 1 .. Len(s.events)
    BY <1>1, <1>5, <1>6
  <2>2. ASSUME NEW e \in 1 .. Len(s.events) PROVE f[e] = g[e]
    <3>1. f[e] = << s.rendered[e] >> \o BlocksAfter(s, e)
      BY <1>1, <1>5, Zenon
    <3>2. g[e] = << x.rendered[e] >> \o BlocksAfter(x, e)
      BY <1>1, <1>6, Zenon
    <3>3. QED
      BY <1>4, <3>1, <3>2, Zenon
  <2>3. QED
    BY <1>5, <1>6, <2>1, <2>2
<1>8. QED
  BY <1>5, <1>6, <1>7 DEF Shown

LEMMA SubAgentSteady ==
  ASSUME IInv, NEW call \in 1 .. MaxEvents, NEW phase \in { "started", "event", "ended" },
         SubAgent(call, phase)
  PROVE  IInv'
<1>1. PICK u : u = screen
  OBVIOUS
<1>2. /\ Steady(u) /\ u \in Screen /\ Fits(u) /\ OneRecordEach(u) /\ Clean(u) /\ Window(u)
      /\ UNCHANGED << nextEvent, nextInfo >>
  BY <1>1 DEF IInv, Steady, SubAgent
<1>3. /\ DOMAIN u.subs = 1 .. Len(u.subs) /\ u.subs \in Seq(SubRecord)
      /\ \A i \in 1 .. Len(u.subs) : u.subs[i] \in SubRecord
  BY <1>2, Domains
<1>4. PICK n \in Nat : n = Len(u.subs)
  BY <1>2, Domains
<1>5. u.offset \in Nat
  BY <1>2 DEF Screen
<1>6. CASE phase = "started"
  <2>1. PICK fresh : fresh = [call |-> call, running |-> TRUE, dirty |-> TRUE, part |-> << >>]
    OBVIOUS
  <2>2. fresh \in SubRecord /\ fresh.running /\ fresh.call = call
    <3>1. << >> \in Seq(OwnParts)
      BY EmptySeq
    <3>2. QED
      BY <2>1, <3>1 DEF SubRecord
  <2>3. PICK subs : subs = Append(u.subs, fresh)
    OBVIOUS
  <2>4. /\ subs \in Seq(SubRecord) /\ Len(subs) = n + 1 /\ subs[n + 1] = fresh
        /\ \A i \in 1 .. n : subs[i] = u.subs[i]
    BY <1>3, <1>4, <2>2, <2>3, AppendProperties
  <2>5. PICK x : x = [u EXCEPT !.subs = subs]
    OBVIOUS
  <2>6. /\ { i \in DOMAIN u.subs : u.subs[i].call = call } = {}
        /\ screen' = updateViewport(x)
    BY <1>1, <1>6, <2>1, <2>3, <2>5 DEF SubAgent
  <2>7. x \in Screen
    BY <1>2, <2>4, <2>5 DEF Screen
  <2>8. RestSame(u, x) /\ ViewSame(u, x) /\ x.subs = subs
    BY <1>2, <2>5 DEF Screen, RestSame, ViewSame
  <2>9. Fits(x)
    BY <1>2, <2>8, RestFits
  <2>10. OneRecordEach(x)
    <3>1. SUFFICES ASSUME NEW i \in 1 .. n + 1, NEW j \in 1 .. n + 1, subs[i].call = subs[j].call
                   PROVE  i = j
      BY <2>4, <2>8 DEF OneRecordEach
    <3>2. \A k \in 1 .. n : subs[k].call # call
      BY <1>3, <1>4, <2>4, <2>6
    <3>3. subs[n + 1].call = call
      BY <2>2, <2>4
    <3>4. CASE i \in 1 .. n /\ j \in 1 .. n
      BY <1>2, <1>4, <2>4, <3>1, <3>4 DEF OneRecordEach
    <3>5. CASE ~ (i \in 1 .. n /\ j \in 1 .. n)
      <4>1. (i \in 1 .. n \/ i = n + 1) /\ (j \in 1 .. n \/ j = n + 1)
        BY <3>1
      <4>2. QED
        BY <3>1, <3>2, <3>3, <3>5, <4>1
    <3>6. QED
      BY <3>4, <3>5
  <2>11. Clean(x)
    <3>1. SUFFICES ASSUME NEW i \in 1 .. n + 1, i \in Ended(x), Anchored(x, i)
                   PROVE  ~ subs[i].dirty
      BY <2>4, <2>8 DEF Clean
    <3>2. i # n + 1
      BY <2>2, <2>4, <2>8, <3>1 DEF Ended
    <3>3. i \in 1 .. n /\ subs[i] = u.subs[i]
      BY <2>4, <3>2
    <3>4. i \in Ended(u)
      BY <1>3, <1>4, <2>8, <3>1, <3>3 DEF Ended
    <3>5. Anchored(u, i)
      BY <2>8, <3>1, <3>3 DEF Anchored, RestSame
    <3>6. QED
      BY <1>2, <1>4, <3>3, <3>4, <3>5 DEF Clean
  <2>12. Shown(x) = Shown(u)
    BY <1>2, <2>2, <2>3, <2>7, <2>8, StartedShown DEF RestSame
  <2>13. Scrolled(x)
    BY <1>2, <2>8 DEF Scrolled, Window, RestSame, ViewSame
  <2>14. Prepared(x)
    BY <1>2, <2>7, <2>8, <2>9, <2>10, <2>11, <2>12, <2>13, KeptPrepared DEF RestSame, ViewSame
  <2>15. QED
    BY <1>2, <2>6, <2>14, Updated DEF IInv
<1>7. CASE phase # "started"
  <2>1. PICK known : known = { i \in DOMAIN u.subs : u.subs[i].call = call }
    OBVIOUS
  <2>2. PICK on \in BOOLEAN : on = (phase = "event")
    OBVIOUS
  <2>3. PICK subs : subs = [i \in DOMAIN u.subs |->
          IF i \in known THEN [u.subs[i] EXCEPT !.dirty = TRUE, !.running = on] ELSE u.subs[i]]
    OBVIOUS
  <2>4. ASSUME NEW i \in 1 .. n
        PROVE  /\ subs[i] \in SubRecord /\ subs[i].call = u.subs[i].call
               /\ subs[i].part = u.subs[i].part
               /\ IF i \in known THEN subs[i].running = on ELSE subs[i] = u.subs[i]
    <3>1. i \in DOMAIN u.subs /\ u.subs[i] \in SubRecord
      BY <1>3, <1>4
    <3>2. CASE i \in known
      <4>1. subs[i] = [u.subs[i] EXCEPT !.dirty = TRUE, !.running = on]
        BY <2>3, <3>1, <3>2
      <4>2. QED
        BY <2>2, <3>1, <3>2, <4>1 DEF SubRecord
    <3>3. CASE i \notin known
      <4>1. subs[i] = u.subs[i]
        BY <2>3, <3>1, <3>3
      <4>2. QED
        BY <3>1, <3>3, <4>1
    <3>4. QED
      BY <3>2, <3>3
  <2>5. subs \in Seq(SubRecord) /\ Len(subs) = n
    <3>1. DOMAIN subs = 1 .. n
      BY <1>3, <1>4, <2>3
    <3>2. subs = [i \in 1 .. n |-> subs[i]]
      BY <2>3, <3>1
    <3>3. QED
      BY <2>4, <3>1, <3>2, FunctionIsSeq
  <2>6. PICK x : x = [u EXCEPT !.subs = subs]
    OBVIOUS
  <2>7. /\ \E i \in known : u.subs[i].running
        /\ screen' = updateViewport(IF phase = "ended" THEN resetView(x) ELSE x)
    BY <1>1, <1>7, <2>1, <2>2, <2>3, <2>6, Zenon DEF SubAgent
  <2>8. x \in Screen
    BY <1>2, <2>5, <2>6 DEF Screen
  <2>9. RestSame(u, x) /\ ViewSame(u, x) /\ x.subs = subs
    BY <1>2, <2>6 DEF Screen, RestSame, ViewSame
  <2>10. Fits(x)
    BY <1>2, <2>9, RestFits
  <2>11. OneRecordEach(x)
    BY <1>2, <1>4, <2>4, <2>5, <2>9, CallsKept
  <2>12. CASE phase = "ended"
    <3>1. PICK r : r = resetView(x)
      OBVIOUS
    <3>2. Prepared(r)
      BY <2>8, <2>10, <2>11, <3>1, ResetPrepared
    <3>3. screen' = updateViewport(r)
      BY <2>7, <2>12, <3>1
    <3>4. QED
      BY <1>2, <3>2, <3>3, Updated DEF IInv
  <2>13. CASE phase = "event"
    <3>1. PICK at \in 1 .. n : at \in known /\ u.subs[at].running
      BY <1>3, <1>4, <2>1, <2>7
    <3>2. \A i \in 1 .. n : i \in known => i = at
      BY <1>2, <1>4, <2>1, <3>1 DEF OneRecordEach
    <3>3. ASSUME NEW i \in 1 .. n PROVE subs[i].running = u.subs[i].running
      <4>1. CASE i \in known
        <5>1. i = at /\ subs[i].running = TRUE
          BY <2>2, <2>4, <2>13, <3>2, <4>1
        <5>2. u.subs[at].running \in BOOLEAN
          BY <1>3, <1>4 DEF SubRecord
        <5>3. QED
          BY <3>1, <5>1, <5>2
      <4>2. CASE i \notin known
        BY <2>4, <4>2
      <4>3. QED
        BY <4>1, <4>2
    <3>4. SubsLike(u.subs, x.subs)
      BY <1>4, <2>4, <2>5, <2>9, <3>3 DEF SubsLike
    <3>5. Shown(x) = Shown(u)
      BY <1>2, <2>8, <2>9, <3>4, ShownSame DEF RestSame
    <3>6. Clean(x)
      <4>1. SUFFICES ASSUME NEW i \in 1 .. n, i \in Ended(x), Anchored(x, i)
                     PROVE  ~ subs[i].dirty
        BY <2>5, <2>9 DEF Clean
      <4>2. ~ subs[i].running
        BY <2>9, <4>1 DEF Ended
      <4>3. i \notin known
        BY <2>2, <2>4, <2>13, <4>2
      <4>4. subs[i] = u.subs[i]
        BY <2>4, <4>3
      <4>5. i \in Ended(u)
        BY <1>3, <1>4, <4>2, <4>4 DEF Ended
      <4>6. Anchored(u, i)
        BY <2>9, <4>1, <4>4 DEF Anchored, RestSame
      <4>7. QED
        BY <1>2, <1>4, <4>4, <4>5, <4>6 DEF Clean
    <3>7. Scrolled(x)
      BY <1>2, <2>9 DEF Scrolled, Window, RestSame, ViewSame
    <3>8. Prepared(x)
      BY <1>2, <2>8, <2>9, <2>10, <2>11, <3>5, <3>6, <3>7, KeptPrepared DEF RestSame, ViewSame
    <3>9. screen' = updateViewport(x)
      BY <2>7, <2>13
    <3>10. QED
      BY <1>2, <3>8, <3>9, Updated DEF IInv
  <2>14. QED
    BY <1>7, <2>12, <2>13
<1>8. QED
  BY <1>6, <1>7

-----------------------------------------------------------------------------
LEMMA InitSteady ==
  ASSUME Init
  PROVE  IInv
<1>1. << >> \in Seq(Event) /\ << >> \in Seq(Parts) /\ << >> \in Seq(OwnParts)
      /\ << >> \in Seq(SubRecord)
  BY EmptySeq
<1>2. 1 \in 1 .. MaxEvents + 1 /\ 1 \in 1 .. MaxInfos + 1 /\ 1 \in 1 .. MaxResizes + 1
      /\ 0 \in Nat /\ 0 <= MaxChunks
  BY ViewAssumption
<1>3. PICK s : s = Empty
  OBVIOUS
<1>4. s \in Screen
  BY <1>1, <1>2, <1>3 DEF Empty, Screen, Kinds
<1>5. /\ s.events = << >> /\ s.rendered = << >> /\ s.thoughts = FALSE /\ s.block = << >>
      /\ s.frozen = FALSE /\ s.chunks = << >> /\ s.tail = FALSE /\ s.ephemeral = << >>
      /\ s.subs = << >> /\ s.active = FALSE /\ s.lines = << >> /\ s.committed = 0
      /\ s.live = "none" /\ s.offset = 0 /\ s.width = 1
  BY <1>3 DEF Empty
<1>6. Len(<< >>) = 0 /\ << >> \in Seq(EventParts(1)) /\ << >> \in Seq(ChunkParts(1))
      /\ << >> \in Seq(ScreenParts(1))
  BY EmptySeq
<1>7. Fits(s) /\ OneRecordEach(s) /\ Clean(s) /\ Viewed(s) /\ Window(s) /\ LiveTold(s)
  <2>1. Fits(s) /\ Viewed(s)
    BY <1>2, <1>5, <1>6 DEF Fits, StreamFits, Viewed
  <2>2. OneRecordEach(s) /\ Clean(s)
    BY <1>5, <1>6 DEF OneRecordEach, Clean
  <2>3. Window(s) /\ LiveTold(s)
    BY <1>5, <1>6 DEF Window, LiveTold, Tall
  <2>4. QED
    BY <2>1, <2>2, <2>3
<1>8. Settled(s)
  <2>1. stableParts(s) \in Seq(Parts)
        /\ Len(stableParts(s)) = Len(Shown(s)) + Len(s.block) + Len(s.chunks) + Len(s.ephemeral)
    BY <1>4, <1>5, StablePlain
  <2>2. PICK f : f = [e \in DOMAIN s.events |-> << s.rendered[e] >> \o BlocksAfter(s, e)]
    OBVIOUS
  <2>3. f = << >>
    BY <1>5, <2>2
  <2>4. Shown(s) = << >>
    BY <2>2, <2>3, FlattenNothing DEF Shown
  <2>5. Len(stableParts(s)) = 0
    BY <1>5, <1>6, <2>1, <2>4
  <2>6. stableParts(s) = << >>
    BY <2>1, <2>5, EmptySeq
  <2>7. QED
    BY <1>5, <2>5, <2>6 DEF Settled, Synced
<1>9. screen = s /\ nextEvent = 1 /\ nextInfo = 1
  BY <1>3 DEF Init
<1>10. QED
  BY <1>2, <1>4, <1>7, <1>8, <1>9 DEF IInv, Steady

LEMMA NextSteady ==
  ASSUME IInv, [Next]_vars
  PROVE  IInv'
<1>1. CASE UNCHANGED vars
  BY <1>1 DEF vars, IInv, Steady, Fits, StreamFits, OneRecordEach, Clean, Ended, Anchored, Viewed,
        Settled, Synced, Window, LiveTold, stableParts, BlocksAfter
<1>2. CASE Send
  BY <1>2, SendSteady
<1>3. CASE QueueWhileBusy
  BY <1>3, QueueWhileBusySteady
<1>4. CASE Compressed
  BY <1>4, CompressedSteady
<1>5. CASE CompressionFailed
  BY <1>5, CompressionFailedSteady
<1>6. CASE \E thought, text, tail \in BOOLEAN, chunks \in 0 .. 1 : Flush(thought, text, chunks, tail)
  BY <1>6, FlushSteady
<1>7. CASE \E kind \in { "user", "reply", "call", "result" } : Completed(kind)
  BY <1>7, CompletedSteady
<1>8. CASE \E normal \in BOOLEAN : Finish(normal)
  BY <1>8, FinishSteady
<1>9. CASE \E call \in 1 .. MaxEvents, phase \in { "started", "event", "ended" } :
             SubAgent(call, phase)
  BY <1>9, SubAgentSteady
<1>10. CASE \E resumed \in BOOLEAN : LeaveSession(resumed)
  BY <1>10, LeaveSessionSteady
<1>11. CASE Resize
  BY <1>11, ResizeSteady
<1>12. CASE ToggleThinking
  BY <1>12, ToggleThinkingSteady
<1>13. CASE ToggleSubagents
  BY <1>13, ToggleSubagentsSteady
<1>14. CASE \E kind \in { "palette", "none" } : Overlay(kind)
  BY <1>14, OverlaySteady
<1>15. CASE Scroll
  BY <1>15, ScrollSteady
<1>16. QED
  BY <1>1, <1>2, <1>3, <1>4, <1>5, <1>6, <1>7, <1>8, <1>9, <1>10, <1>11, <1>12, <1>13, <1>14, <1>15
     DEF Next

LEMMA Invariant == Spec => []IInv
<1>1. Init => IInv
  BY InitSteady
<1>2. IInv /\ [Next]_vars => IInv'
  BY NextSteady
<1>3. QED
  BY <1>1, <1>2, PTL DEF Spec

\* The parts, the lines and the scroll position keep their types, and every event
\* of the conversation has its rendered part, in every handler of Update.
THEOREM TypeCorrect == Spec => []TypeOK
<1>1. ASSUME IInv PROVE TypeOK
  <2>1. screen \in Screen /\ Fits(screen) /\ Viewed(screen)
    BY <1>1 DEF IInv, Steady
  <2>2. stableParts(screen) \in Seq(Parts)
    BY <2>1, StablePlain DEF Fits
  <2>3. DOMAIN screen = DOMAIN Empty
    BY <2>1 DEF Screen, Empty
  <2>4. screen.lines \in Seq(Parts) /\ screen.offset \in Nat /\ screen.live \in Kinds
    BY <2>1 DEF Screen
  <2>5. Len(screen.rendered) = Len(screen.events) /\ screen.committed = Len(screen.lines)
    BY <2>1 DEF Fits, Viewed
  <2>6. QED
    BY <1>1, <2>2, <2>3, <2>4, <2>5 DEF TypeOK, IInv, Kinds
<1>2. QED
  BY <1>1, Invariant, PTL

\* Whatever was streamed, frozen, finished, compressed or resized before: a view
\* that has caught up shows the parts there are, in their order and in the width
\* of the window, though updateViewport only ever appends what is new and renderAll
\* and the handler of a resize alone render anew.
THEOREM ViewIsSynced == Spec => []SyncedView
<1>1. ASSUME IInv PROVE SyncedView
  <2>1. screen \in Screen /\ Viewed(screen) /\ Settled(screen) /\ Fits(screen)
    BY <1>1 DEF IInv, Steady
  <2>2. ASSUME CaughtUp, screen.ephemeral = << >> PROVE screen.lines = stableParts(screen)
    <3>1. Len(stableParts(screen)) \in Nat
      BY <2>1, StablePlain, LenProperties DEF Fits
    <3>2. ~ (screen.committed > Len(stableParts(screen)))
      BY <2>2, <3>1 DEF CaughtUp
    <3>3. QED
      BY <2>1, <2>2, <3>2 DEF Settled, Synced
  <2>3. ASSUME NEW i \in DOMAIN screen.lines, screen.lines[i].kind \in { "event", "chunk" }
        PROVE  screen.lines[i].width = screen.width
    <3>1. screen.lines \in Seq(ScreenParts(screen.width))
      BY <2>1 DEF Viewed
    <3>2. screen.lines[i] \in ScreenParts(screen.width)
      BY <2>3, <3>1, LenProperties, ElementOfSeq
    <3>3. QED
      BY <2>3, <3>2 DEF ScreenParts
  <2>4. QED
    BY <2>2, <2>3 DEF SyncedView
<1>2. QED
  BY <1>1, Invariant, PTL

\* convView.view never begins its window above the first line, though clearLive
\* keeps the scroll position of the taller view it had.
THEOREM WindowStays == Spec => []WindowInside
<1>1. ASSUME IInv PROVE WindowInside
  <2>1. screen \in Screen /\ Window(screen)
    BY <1>1 DEF IInv, Steady
  <2>2. PICK bound \in Nat : bound = Len(screen.lines) + (IF screen.live \in Tall THEN TailLines ELSE 0)
    <3>1. PICK n \in Nat : n = Len(screen.lines)
      BY <2>1, LenProperties DEF Screen
    <3>2. PICK tall \in Nat : tall = IF screen.live \in Tall THEN TailLines ELSE 0
      BY ViewAssumption
    <3>3. n + tall \in Nat
      OBVIOUS
    <3>4. QED
      BY <3>1, <3>2, <3>3, Zenon
  <2>3. LineCount(screen) \in Nat /\ LineCount(screen) >= bound
    BY <2>1, <2>2, Reach
  <2>4. screen.offset \in Nat /\ screen.offset <= bound
    BY <2>1, <2>2 DEF Screen, Window
  <2>5. QED
    BY <2>3, <2>4 DEF WindowInside
<1>2. QED
  BY <1>1, Invariant, PTL

\* What was streamed of a turn that was stopped or failed is kept by
\* finishStreaming, and is on screen with its unfinished chunk in the live slot
\* whatever is done before the next turn.
THEOREM StoppedTextIsKept == Spec => []StoppedTextStays
<1>1. ASSUME IInv PROVE StoppedTextStays
  <2>1. screen \in Screen /\ Fits(screen) /\ Settled(screen) /\ LiveTold(screen)
    BY <1>1 DEF IInv, Steady
  <2>2. SUFFICES ASSUME screen.active, Idle, CaughtUp
                 PROVE  /\ screen.tail => screen.live = "tail"
                        /\ screen.ephemeral = << >> => ToSet(screen.chunks) \subseteq ToSet(screen.lines)
    BY DEF StoppedTextStays
  <2>3. screen.tail => screen.live = "tail"
    BY <2>1, <2>2 DEF LiveTold, Idle
  <2>4. ASSUME screen.ephemeral = << >>
        PROVE  ToSet(screen.chunks) \subseteq ToSet(screen.lines)
    <3>1. Len(stableParts(screen)) \in Nat
      BY <2>1, StablePlain, LenProperties DEF Fits
    <3>2. ~ (screen.committed > Len(stableParts(screen)))
      BY <2>2, <3>1 DEF CaughtUp
    <3>3. screen.lines = stableParts(screen)
      BY <2>1, <2>4, <3>2 DEF Settled, Synced
    <3>4. PICK a : a = Shown(screen) \o screen.block
      OBVIOUS
    <3>5. PICK c \in Seq(Parts) : c = screen.chunks
      BY <2>1 DEF Screen
    <3>6. a \in Seq(Parts)
      <4>1. screen.block \in Seq(OwnParts)
        BY <2>1 DEF Screen
      <4>2. screen.block \in Seq(Parts)
        BY <4>1, ScreenPartsOf, Wider
      <4>3. Shown(screen) \in Seq(Parts)
        BY <2>1, StablePlain DEF Fits
      <4>4. QED
        BY <3>4, <4>2, <4>3, TwoJoined
    <3>7. PICK l \in Seq(Parts) : l = a \o c
      BY <3>5, <3>6, TwoJoined
    <3>8. screen.lines = l
      <4>1. stableParts(screen) = ((Shown(screen) \o screen.block) \o screen.chunks) \o screen.ephemeral
        BY StableIs
      <4>2. stableParts(screen) = l \o << >>
        BY <2>4, <3>4, <3>5, <3>7, <4>1, Zenon
      <4>3. QED
        BY <3>3, <3>7, <4>2, ConcatEmptySeq
    <3>9. PICK n \in Nat, m \in Nat : n = Len(a) /\ m = Len(c)
      BY <3>5, <3>6, LenProperties
    <3>10. /\ Len(l) = n + m
           /\ \A i \in 1 .. n + m : l[i] = IF i <= n THEN a[i] ELSE c[i - n]
      BY <3>5, <3>6, <3>7, <3>9, ConcatProperties
    <3>11. DOMAIN c = 1 .. m /\ DOMAIN l = 1 .. n + m
      BY <3>5, <3>7, <3>9, <3>10, LenProperties
    <3>12. ASSUME NEW j \in 1 .. m PROVE n + j \in DOMAIN l /\ l[n + j] = c[j]
      <4>1. n + j \in 1 .. n + m /\ ~ (n + j <= n) /\ n + j - n = j
        OBVIOUS
      <4>2. QED
        BY <3>10, <3>11, <4>1
    <3>13. QED
      BY <3>5, <3>8, <3>11, <3>12 DEF ToSet
  <2>5. QED
    BY <2>3, <2>4
<1>2. QED
  BY <1>1, Invariant, PTL

=============================================================================
