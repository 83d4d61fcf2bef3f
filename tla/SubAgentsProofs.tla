-------------------------- MODULE SubAgentsProofs --------------------------
(***************************************************************************)
(* The rows and the blocks of SubAgents, for every set of personas, any    *)
(* number of runs and of their events, every depth and every capacity of   *)
(* the status channel.                                                     *)
(*                                                                         *)
(* The invariant follows the statuses on their way: each says what is so   *)
(* of its run, the start of a run is before its events and its end behind  *)
(* them, the events are the last ones of the run, without a gap, and a     *)
(* record has those before them.                                           *)
(***************************************************************************)
EXTENDS SubAgents, SequenceTheorems, TLAPS

\* Where the statuses of run r are among q, and those of them that are events.
At(q, r) == { k \in 1 .. Len(q) : q[k].run = r }
EventsAt(q, r) == { k \in At(q, r) : q[k].phase = "event" }

\* A status is of a run the main agent asked for, and says what is so of it.
Truthful(rs, st) ==
  /\ st.run \in 1 .. Len(rs) /\ rs[st.run].depth = 0 /\ rs[st.run].at # "called"
  /\ st.phase = "event" =>
       /\ st.event \in 1 .. MaxInner
       /\ rs[st.run].at # "announced" /\ rs[st.run].outcome # "unbuilt"
  /\ st.phase \in Ends =>
       /\ rs[st.run].at = "ended"
       /\ rs[st.run].outcome = IF st.phase = "finished" THEN "answered" ELSE "failed"
Sent(rs, q) == \A k \in 1 .. Len(q) : Truthful(rs, q[k])

\* The start of a run comes first, and its end last.
InOrder(q) ==
  \A k, l \in 1 .. Len(q) :
    k < l /\ q[k].run = q[l].run => q[k].phase \notin Ends /\ q[l].phase # "started"

\* The end of a run is on its way as long as something else of it is.
EndFollows(rs, q) ==
  \A k \in 1 .. Len(q) :
    rs[q[k].run].at = "ended" /\ rs[q[k].run].outcome # "unbuilt" =>
      \E l \in At(q, q[k].run) : q[l].phase \in Ends

RunSound(run) ==
  /\ run.at # "ended" => run.outcome = "none"
  /\ run.at \in { "called", "announced" } => run.inner = 0
RunsSound(rs) == \A r \in 1 .. Len(rs) : RunSound(rs[r])

\* What a row says of its run, and what is still to come of it.
RowSound(rs, q, rec) ==
  /\ rec.run \in 1 .. Len(rs) /\ rs[rec.run].depth = 0 /\ rs[rec.run].at # "called"
  /\ \A k \in At(q, rec.run) : q[k].phase # "started"
  /\ rs[rec.run].at = "announced" \/ rs[rec.run].outcome = "unbuilt" => rec.running
  /\ rec.running => \/ rs[rec.run].at # "ended"
                    \/ rs[rec.run].outcome = "unbuilt"
                    \/ \E k \in At(q, rec.run) : q[k].phase \in Ends
  /\ rec.failed => /\ rs[rec.run].at = "ended" /\ rs[rec.run].outcome # "answered"
                   /\ At(q, rec.run) = {} /\ ~ rec.running
  /\ ~ rec.running /\ rs[rec.run].at = "ended" /\ At(q, rec.run) = {} =>
       (rec.failed <=> rs[rec.run].outcome # "answered")
RowsSound(rs, q, ss) == \A i \in 1 .. Len(ss) : RowSound(rs, q, ss[i])

Told(rs, q, ss) ==
  Sent(rs, q) /\ InOrder(q) /\ EndFollows(rs, q) /\ RunsSound(rs) /\ RowsSound(rs, q, ss)

\* The events of r on their way are those after the first m.
LastFrom(rs, q, r, m) ==
  /\ m \in Nat /\ m <= rs[r].inner
  /\ { q[k].event : k \in EventsAt(q, r) } = m + 1 .. rs[r].inner
  /\ \A k, l \in EventsAt(q, r) : k < l => q[k].event < q[l].event
  /\ (\E k \in At(q, r) : q[k].phase = "started") => m = 0

\* A record has the m - before events before them.
HasUpTo(rec, m, before) ==
  /\ before \in Nat /\ m = before + Len(rec.inner)
  /\ \A k \in 1 .. Len(rec.inner) : rec.inner[k] = before + k

Numbered(rs, q, ss, now) ==
  \A r \in 1 .. Len(rs) : rs[r].depth = 0 =>
    \E m \in Nat :
      /\ LastFrom(rs, q, r, m)
      /\ \A i \in 1 .. Len(ss) : ss[i].run = r =>
           \E before \in Nat : HasUpTo(ss[i], m, before) /\ (rs[r].shown = now => before = 0)

\* The screen has a record of every run it was told of since this session is shown.
Recorded(rs, ss, now) ==
  \A r \in 1 .. Len(rs) :
    /\ rs[r].shown <= now
    /\ rs[r].shown = now => \E i \in 1 .. Len(ss) : ss[i].run = r

IInv ==
  /\ TypeOK
  /\ Told(runs, Coming, subs)
  /\ Numbered(runs, Coming, subs, session)
  /\ Recorded(runs, subs, session)
-----------------------------------------------------------------------------
(***************************************************************************)
(* How the statuses on their way and the runs change.                      *)
(***************************************************************************)
Grown(q, p, e) ==
  /\ Len(q) \in Nat /\ Len(p) = Len(q) + 1 /\ p[Len(q) + 1] = e
  /\ \A k \in 1 .. Len(q) : p[k] = q[k]

Beheaded(q, p, e) ==
  /\ Len(q) \in Nat /\ Len(p) \in Nat /\ Len(q) = Len(p) + 1 /\ q[1] = e
  /\ \A k \in 1 .. Len(p) : p[k] = q[k + 1]

LEMMA Appended ==
  ASSUME NEW S, NEW s \in Seq(S), NEW e \in S, NEW t, t = Append(s, e)
  PROVE  t \in Seq(S) /\ Grown(s, t, e)
BY AppendProperties, LenProperties DEF Grown

LEMMA Headless ==
  ASSUME NEW S, NEW s \in Seq(S), s # << >>, NEW t, t = Tail(s)
  PROVE  t \in Seq(S) /\ Head(s) \in S /\ Beheaded(s, t, Head(s))
<1>1. /\ Tail(s) \in Seq(S) /\ Len(Tail(s)) = Len(s) - 1 /\ Head(s) = s[1]
      /\ \A i \in 1 .. Len(s) - 1 : Tail(s)[i] = s[i + 1]
  BY HeadTailProperties
<1>2. Len(s) \in Nat /\ Len(s) # 0
  BY EmptySeq, LenProperties
<1>3. s[1] \in S
  BY <1>2, ElementOfSeq
<1>4. QED
  BY <1>1, <1>2, <1>3 DEF Beheaded

\* Two sequences, one behind the other.
LEMMA Joined ==
  ASSUME NEW S, NEW a \in Seq(S), NEW b \in Seq(S), NEW r, r = a \o b
  PROVE  /\ r \in Seq(S) /\ Len(a) \in Nat /\ Len(b) \in Nat
         /\ Len(r) = Len(a) + Len(b)
         /\ \A i \in 1 .. Len(a) : r[i] = a[i]
         /\ \A i \in 1 .. Len(b) : r[Len(a) + i] = b[i]
<1>1. /\ a \o b \in Seq(S)
      /\ Len(a \o b) = Len(a) + Len(b)
      /\ \A i \in 1 .. Len(a) + Len(b) : (a \o b)[i] = IF i <= Len(a) THEN a[i] ELSE b[i - Len(a)]
  BY ConcatProperties
<1>2. /\ r \in Seq(S)
      /\ Len(r) = Len(a) + Len(b)
      /\ \A i \in 1 .. Len(a) + Len(b) : r[i] = IF i <= Len(a) THEN a[i] ELSE b[i - Len(a)]
  BY <1>1, Zenon
<1>3. Len(a) \in Nat /\ Len(b) \in Nat
  BY LenProperties
<1>4. ASSUME NEW i \in 1 .. Len(a) PROVE r[i] = a[i]
  BY <1>2, <1>3, <1>4
<1>5. ASSUME NEW i \in 1 .. Len(b) PROVE r[Len(a) + i] = b[i]
  <2>1. /\ Len(a) + i \in 1 .. Len(a) + Len(b) /\ ~ (Len(a) + i <= Len(a))
        /\ Len(a) + i - Len(a) = i
    BY <1>3, <1>5
  <2>2. QED
    BY <1>2, <2>1
<1>6. QED
  BY <1>2, <1>3, <1>4, <1>5

LEMMA ComingType ==
  ASSUME TypeOK
  PROVE  /\ Coming \in Seq(Status) /\ Len(Coming) \in Nat
         /\ runs \in Seq(Run) /\ Len(runs) \in Nat /\ DOMAIN runs = 1 .. Len(runs)
         /\ subs \in Seq(Record) /\ Len(subs) \in Nat /\ DOMAIN subs = 1 .. Len(subs)
         /\ \A r \in 1 .. Len(runs) : runs[r] \in Run
         /\ \A i \in 1 .. Len(subs) : subs[i] \in Record
<1>1. /\ received \in Seq(Status) /\ channel \in Seq(Status)
      /\ runs \in Seq(Run) /\ subs \in Seq(Record)
  BY DEF TypeOK
<1>2. PICK q : q = received \o channel
  OBVIOUS
<1>3. q \in Seq(Status)
  BY <1>1, <1>2, Joined
<1>4. Coming \in Seq(Status)
  BY <1>2, <1>3 DEF Coming
<1>5. QED
  BY <1>1, <1>4, LenProperties, ElementOfSeq

\* A status is sent: it is the last on its way.
LEMMA ComingGrows ==
  ASSUME TypeOK, NEW e \in Status, channel' = Append(channel, e), received' = received
  PROVE  Grown(Coming, Coming', e)
<1>1. received \in Seq(Status) /\ channel \in Seq(Status)
  BY DEF TypeOK
<1>2. PICK a \in Seq(Status) : a = received
  BY <1>1
<1>3. PICK b \in Seq(Status) : b = channel
  BY <1>1
<1>4. PICK c : c = Append(b, e)
  OBVIOUS
<1>5. c \in Seq(Status) /\ Grown(b, c, e)
  BY <1>4, Appended
<1>6. PICK q : q = a \o b
  OBVIOUS
<1>7. PICK p : p = a \o c
  OBVIOUS
<1>8. /\ Len(a) \in Nat /\ Len(b) \in Nat /\ Len(q) = Len(a) + Len(b)
      /\ \A i \in 1 .. Len(a) : q[i] = a[i]
      /\ \A i \in 1 .. Len(b) : q[Len(a) + i] = b[i]
  BY <1>6, Joined
<1>9. /\ Len(c) \in Nat /\ Len(p) = Len(a) + Len(c)
      /\ \A i \in 1 .. Len(a) : p[i] = a[i]
      /\ \A i \in 1 .. Len(c) : p[Len(a) + i] = c[i]
  BY <1>5, <1>7, Joined
<1>10. Len(c) = Len(b) + 1 /\ c[Len(b) + 1] = e /\ \A k \in 1 .. Len(b) : c[k] = b[k]
  BY <1>5 DEF Grown
<1>11. PICK m \in Nat : m = Len(a)
  BY <1>8
<1>12. PICK n \in Nat : n = Len(b)
  BY <1>8
<1>13. Len(q) = m + n /\ Len(p) = m + n + 1
  BY <1>8, <1>9, <1>10, <1>11, <1>12
<1>14. p[m + n + 1] = e
  <2>1. n + 1 \in 1 .. Len(c) /\ m + (n + 1) = m + n + 1
    BY <1>10, <1>12
  <2>2. p[m + (n + 1)] = c[n + 1]
    BY <1>9, <1>11, <2>1
  <2>3. QED
    BY <1>10, <1>12, <2>1, <2>2
<1>15. ASSUME NEW k \in 1 .. m + n PROVE p[k] = q[k]
  <2>1. CASE k \in 1 .. m
    BY <1>8, <1>9, <1>11, <2>1
  <2>2. CASE k \notin 1 .. m
    <3>1. PICK j \in 1 .. n : k = m + j
      <4>1. k - m \in 1 .. n /\ k = m + (k - m)
        BY <2>2
      <4>2. QED
        BY <4>1
    <3>2. j \in 1 .. Len(b) /\ j \in 1 .. Len(c)
      BY <1>10, <1>12
    <3>3. QED
      BY <1>8, <1>9, <1>10, <1>11, <3>1, <3>2
  <2>3. QED
    BY <2>1, <2>2
<1>16. Grown(q, p, e)
  BY <1>13, <1>14, <1>15 DEF Grown
<1>17. Coming = q /\ Coming' = p
  BY <1>2, <1>3, <1>4, <1>6, <1>7, Zenon DEF Coming
<1>18. QED
  BY <1>16, <1>17

LEMMA ComingReceived ==
  ASSUME TypeOK, Receive
  PROVE  Coming' = Coming
<1>1. received = << >> /\ channel # << >> /\ received' = << Head(channel) >> /\ channel' = Tail(channel)
  BY DEF Receive
<1>2. PICK b \in Seq(Status) : b = channel
  BY DEF TypeOK
<1>3. PICK c : c = Tail(b)
  OBVIOUS
<1>4. c \in Seq(Status) /\ Head(b) \in Status /\ Beheaded(b, c, Head(b))
  BY <1>1, <1>2, <1>3, Headless
<1>5. PICK h \in Status : h = Head(b)
  BY <1>4
<1>6. PICK a \in Seq(Status) : a = << h >> /\ Len(a) = 1 /\ a[1] = h
  <2>1. << h >> \in Seq(Status) /\ Len(<< h >>) = 1 /\ << h >>[1] = h
    OBVIOUS
  <2>2. QED
    BY <2>1
<1>7. PICK p : p = a \o c
  OBVIOUS
<1>8. /\ p \in Seq(Status) /\ Len(p) = 1 + Len(c) /\ Len(c) \in Nat
      /\ p[1] = h
      /\ \A i \in 1 .. Len(c) : p[1 + i] = c[i]
  <2>1. /\ p \in Seq(Status) /\ Len(p) = Len(a) + Len(c) /\ Len(c) \in Nat
        /\ \A i \in 1 .. Len(a) : p[i] = a[i]
        /\ \A i \in 1 .. Len(c) : p[Len(a) + i] = c[i]
    BY <1>4, <1>7, Joined
  <2>2. QED
    BY <1>6, <2>1
<1>9. Len(b) = Len(c) + 1 /\ b[1] = h /\ \A k \in 1 .. Len(c) : c[k] = b[k + 1]
  BY <1>4, <1>5 DEF Beheaded
<1>10. Len(p) = Len(b)
  BY <1>8, <1>9
<1>11. ASSUME NEW i \in 1 .. Len(p) PROVE p[i] = b[i]
  <2>1. CASE i = 1
    BY <1>8, <1>9, <2>1
  <2>2. CASE i # 1
    <3>1. PICK j \in 1 .. Len(c) : i = 1 + j /\ i = j + 1
      <4>1. i - 1 \in 1 .. Len(c) /\ i = 1 + (i - 1) /\ i = (i - 1) + 1
        BY <1>8, <2>2
      <4>2. QED
        BY <4>1
    <3>2. QED
      BY <1>8, <1>9, <3>1
  <2>3. QED
    BY <2>1, <2>2
<1>12. p = b
  BY <1>8, <1>10, <1>11, SeqEqual
<1>13. Coming' = p
  BY <1>1, <1>2, <1>3, <1>5, <1>6, <1>7, Zenon DEF Coming
<1>14. Coming = b
  BY <1>1, <1>2, ConcatEmptySeq DEF Coming
<1>15. QED
  BY <1>12, <1>13, <1>14

LEMMA ComingHandled ==
  ASSUME TypeOK, received # << >>, received' = << >>, channel' = channel
  PROVE  Beheaded(Coming, Coming', Head(received)) /\ Head(received) \in Status
<1>1. PICK a \in Seq(Status) : a = received
  BY DEF TypeOK
<1>2. PICK b \in Seq(Status) : b = channel
  BY DEF TypeOK
<1>3. Len(a) = 1 /\ a[1] = Head(a) /\ a[1] \in Status
  <2>1. a # << >> /\ Len(a) <= 1
    BY <1>1 DEF TypeOK
  <2>a. Len(a) \in Nat \ {0}
    BY <2>1, EmptySeq
  <2>2. QED
    BY <2>1, <2>a, HeadTailProperties, ElementOfSeq
<1>4. PICK q : q = a \o b
  OBVIOUS
<1>5. /\ Len(b) \in Nat /\ Len(q) = 1 + Len(b) /\ q[1] = a[1]
      /\ \A i \in 1 .. Len(b) : q[1 + i] = b[i]
  <2>1. /\ Len(q) = Len(a) + Len(b) /\ Len(b) \in Nat
        /\ \A i \in 1 .. Len(a) : q[i] = a[i]
        /\ \A i \in 1 .. Len(b) : q[Len(a) + i] = b[i]
    BY <1>4, Joined
  <2>2. QED
    BY <1>3, <2>1
<1>6. \A k \in 1 .. Len(b) : 1 + k = k + 1
  BY <1>5
<1>7. Beheaded(q, b, a[1])
  BY <1>5, <1>6 DEF Beheaded
<1>8. Coming = q
  BY <1>1, <1>2, <1>4 DEF Coming
<1>9. Coming' = b
  BY <1>2, ConcatEmptySeq DEF Coming
<1>10. QED
  BY <1>1, <1>3, <1>7, <1>8, <1>9

-----------------------------------------------------------------------------
(***************************************************************************)
(* What is on its way of a run, as the statuses move on.                   *)
(***************************************************************************)
LEMMA AtGrows ==
  ASSUME NEW q, NEW p, NEW e, Grown(q, p, e), NEW x
  PROVE  /\ x # e.run => At(p, x) = At(q, x)
         /\ x = e.run => At(p, x) = At(q, x) \cup { Len(q) + 1 }
         /\ \A k \in At(q, x) : k \in 1 .. Len(q) /\ p[k] = q[k]
BY DEF Grown, At

LEMMA AtMoves ==
  ASSUME NEW q, NEW p, NEW e, Beheaded(q, p, e), NEW x
  PROVE  /\ \A k \in At(p, x) : k + 1 \in At(q, x) /\ q[k + 1] = p[k]
         /\ \A k \in At(q, x) : k # 1 => k - 1 \in At(p, x) /\ p[k - 1] = q[k]
         /\ x # e.run => 1 \notin At(q, x)
<1>1. /\ Len(q) \in Nat /\ Len(p) \in Nat /\ Len(q) = Len(p) + 1 /\ q[1] = e
      /\ \A k \in 1 .. Len(p) : p[k] = q[k + 1]
  BY DEF Beheaded
<1>2. ASSUME NEW k \in At(p, x) PROVE k + 1 \in At(q, x) /\ q[k + 1] = p[k]
  BY <1>1 DEF At
<1>3. ASSUME NEW k \in At(q, x), k # 1 PROVE k - 1 \in At(p, x) /\ p[k - 1] = q[k]
  <2>1. k - 1 \in 1 .. Len(p) /\ (k - 1) + 1 = k
    BY <1>1, <1>3 DEF At
  <2>2. p[k - 1] = q[k]
    BY <1>1, <2>1
  <2>3. QED
    BY <2>1, <2>2 DEF At
<1>4. x # e.run => 1 \notin At(q, x)
  BY <1>1 DEF At
<1>5. QED
  BY <1>2, <1>3, <1>4

\* Only run r changes, and neither its depth nor who was told of it.
OnlyChanges(rs, rt, r) ==
  /\ r \in 1 .. Len(rs) /\ Len(rt) = Len(rs)
  /\ \A x \in 1 .. Len(rs) : x # r => rt[x] = rs[x]
  /\ rt[r].depth = rs[r].depth /\ rt[r].shown = rs[r].shown

\* A run the main agent asked for sends a status.
Sends(rs, rt, q, p, r, e) ==
  /\ OnlyChanges(rs, rt, r) /\ Grown(q, p, e) /\ e.run = r /\ rs[r].depth = 0
  /\ \/ /\ e.phase = "started" /\ rs[r].at = "called" /\ rt[r].at = "announced"
        /\ rt[r].outcome = rs[r].outcome /\ rt[r].inner = rs[r].inner
     \/ /\ e.phase = "event" /\ rs[r].at = "running" /\ rt[r].at = "running"
        /\ rt[r].outcome = rs[r].outcome
        /\ rt[r].inner = rs[r].inner + 1 /\ e.event = rt[r].inner /\ e.event \in 1 .. MaxInner
     \/ /\ e.phase \in Ends /\ rs[r].at = "running" /\ rt[r].at = "ended"
        /\ rt[r].outcome = (IF e.phase = "finished" THEN "answered" ELSE "failed")
        /\ rt[r].inner = rs[r].inner

LEMMA SendTold ==
  ASSUME NEW rs, NEW rt, NEW q, NEW p, NEW ss, NEW r, NEW e,
         Told(rs, q, ss), Sends(rs, rt, q, p, r, e)
  PROVE  Told(rt, p, ss)
<1>1. /\ r \in 1 .. Len(rs) /\ Len(rt) = Len(rs) /\ rt[r].depth = 0
      /\ \A x \in 1 .. Len(rs) : x # r => rt[x] = rs[x]
  BY DEF Sends, OnlyChanges
<1>2. /\ Grown(q, p, e) /\ e.run = r /\ Len(q) \in Nat /\ Len(p) = Len(q) + 1 /\ p[Len(q) + 1] = e
      /\ \A k \in 1 .. Len(q) : p[k] = q[k]
  BY DEF Sends, Grown
<1>3. rs[r].at \in { "called", "running" } /\ rs[r].at # "ended" /\ rs[r].outcome = "none"
  BY <1>1 DEF Sends, Told, RunsSound, RunSound
<1>4. \A k \in 1 .. Len(p) : k \in 1 .. Len(q) \/ k = Len(q) + 1
  BY <1>2
\* What is said of r so far is neither its end nor, before it started, anything.
<1>5. ASSUME NEW k \in 1 .. Len(q), q[k].run = r
      PROVE  /\ q[k].phase \notin Ends /\ rs[r].at = "running"
  BY <1>3, <1>5 DEF Told, Sent, Truthful
<1>6. Sent(rt, p)
  <2>1. ASSUME NEW k \in 1 .. Len(q) PROVE Truthful(rt, q[k])
    <3>1. Truthful(rs, q[k])
      BY DEF Told, Sent
    <3>2. CASE q[k].run # r
      BY <1>1, <3>1, <3>2 DEF Truthful
    <3>3. CASE q[k].run = r
      <4>1. q[k].phase \notin Ends /\ rt[r].at \in { "running", "ended" } /\ rt[r].outcome # "unbuilt"
        BY <1>3, <1>5, <3>3 DEF Sends, Ends
      <4>2. QED
        BY <1>1, <3>1, <3>3, <4>1 DEF Truthful
    <3>4. QED
      BY <3>2, <3>3
  <2>2. Truthful(rt, e)
    BY <1>1, <1>2, <1>3 DEF Truthful, Sends, Ends
  <2>3. QED
    BY <1>2, <1>4, <2>1, <2>2 DEF Sent
<1>7. InOrder(p)
  <2>1. SUFFICES ASSUME NEW k \in 1 .. Len(p), NEW l \in 1 .. Len(p), k < l, p[k].run = p[l].run
                 PROVE  p[k].phase \notin Ends /\ p[l].phase # "started"
    BY DEF InOrder
  <2>2. k \in 1 .. Len(q) /\ p[k] = q[k]
    BY <1>2, <2>1
  <2>3. CASE l \in 1 .. Len(q)
    BY <1>2, <2>1, <2>2, <2>3 DEF Told, InOrder
  <2>4. CASE l = Len(q) + 1
    <3>1. q[k].run = r /\ p[l] = e
      BY <1>2, <2>1, <2>2, <2>4
    <3>2. QED
      BY <1>5, <2>2, <3>1 DEF Sends, Ends
  <2>5. QED
    BY <1>4, <2>3, <2>4
<1>8. \A x : /\ x # r => At(p, x) = At(q, x)
             /\ x = r => At(p, x) = At(q, x) \cup { Len(q) + 1 }
             /\ \A k \in At(q, x) : k \in 1 .. Len(q) /\ p[k] = q[k]
  BY <1>2, AtGrows
<1>9. EndFollows(rt, p)
  <2>1. SUFFICES ASSUME NEW k \in 1 .. Len(p), rt[p[k].run].at = "ended",
                        rt[p[k].run].outcome # "unbuilt"
                 PROVE  \E l \in At(p, p[k].run) : p[l].phase \in Ends
    BY DEF EndFollows
  <2>2. CASE p[k].run = r
    <3>1. e.phase \in Ends
      BY <2>1, <2>2 DEF Sends
    <3>2. QED
      BY <1>2, <1>8, <2>2, <3>1
  <2>3. CASE p[k].run # r
    <3>1. k \in 1 .. Len(q) /\ p[k] = q[k]
      BY <1>2, <1>4, <2>3
    <3>2. q[k].run \in 1 .. Len(rs)
      BY <3>1 DEF Told, Sent, Truthful
    <3>3. rs[q[k].run].at = "ended" /\ rs[q[k].run].outcome # "unbuilt"
      BY <1>1, <2>1, <2>3, <3>1, <3>2
    <3>4. PICK l \in At(q, q[k].run) : q[l].phase \in Ends
      BY <3>1, <3>3 DEF Told, EndFollows
    <3>5. QED
      BY <1>8, <2>3, <3>1, <3>4
  <2>4. QED
    BY <2>2, <2>3
<1>10. RunsSound(rt)
  <2>1. RunSound(rt[r])
    BY <1>1, <1>3 DEF Sends, RunSound, Told, RunsSound
  <2>2. QED
    BY <1>1, <2>1 DEF Told, RunsSound
<1>11. RowsSound(rt, p, ss)
  <2>1. SUFFICES ASSUME NEW i \in 1 .. Len(ss) PROVE RowSound(rt, p, ss[i])
    BY DEF RowsSound
  <2>2. RowSound(rs, q, ss[i])
    BY DEF Told, RowsSound
  <2>3. PICK x : x = ss[i].run
    OBVIOUS
  <2>4. x \in 1 .. Len(rs)
    BY <2>2, <2>3 DEF RowSound
  <2>5. CASE x # r
    <3>1. rt[x] = rs[x] /\ At(p, x) = At(q, x) /\ \A k \in At(q, x) : p[k] = q[k]
      BY <1>1, <1>8, <2>4, <2>5
    <3>2. QED
      BY <1>1, <2>2, <2>3, <3>1 DEF RowSound
  <2>6. CASE x = r
    <3>1. /\ rs[r].at = "running" /\ ~ ss[i].failed
          /\ \A k \in At(q, r) : q[k].phase # "started"
      BY <1>3, <2>2, <2>3, <2>6 DEF RowSound
    <3>2. At(p, r) = At(q, r) \cup { Len(q) + 1 } /\ \A k \in At(q, r) : p[k] = q[k]
      BY <1>8
    <3>3. /\ e.phase # "started" /\ rt[r].at \in { "running", "ended" } /\ rt[r].outcome # "unbuilt"
          /\ rt[r].at = "ended" => e.phase \in Ends
      BY <1>3, <3>1 DEF Sends, Ends
    <3>4. \A k \in At(p, r) : p[k].phase # "started"
      BY <1>2, <3>1, <3>2, <3>3
    <3>5. rt[r].at # "ended" \/ \E k \in At(p, r) : p[k].phase \in Ends
      BY <1>2, <3>2, <3>3
    <3>6. At(p, r) # {}
      BY <3>2
    <3>7. QED
      BY <1>1, <2>3, <2>6, <3>1, <3>3, <3>4, <3>5, <3>6 DEF RowSound
  <2>7. QED
    BY <2>5, <2>6
<1>12. QED
  BY <1>6, <1>7, <1>9, <1>10, <1>11 DEF Told

\* A run moves on and says nothing: one that another run asked for, or one whose
\* agent is being built.
Silent(rs, rt, r) ==
  /\ OnlyChanges(rs, rt, r)
  /\ \/ rs[r].depth # 0 /\ RunSound(rt[r])
     \/ /\ rs[r].at = "announced" /\ rt[r].inner = rs[r].inner
        /\ \/ rt[r].at = "ended" /\ rt[r].outcome = "unbuilt"
           \/ rt[r].at = "running" /\ rt[r].outcome = rs[r].outcome

LEMMA SilentTold ==
  ASSUME NEW rs, NEW rt, NEW q, NEW ss, NEW r, Told(rs, q, ss), Silent(rs, rt, r)
  PROVE  Told(rt, q, ss)
<1>1. /\ r \in 1 .. Len(rs) /\ Len(rt) = Len(rs) /\ rt[r].depth = rs[r].depth
      /\ \A x \in 1 .. Len(rs) : x # r => rt[x] = rs[x]
  BY DEF Silent, OnlyChanges
<1>2. CASE rs[r].depth # 0 /\ RunSound(rt[r])
  <2>1. ASSUME NEW k \in 1 .. Len(q)
        PROVE  Truthful(rs, q[k]) /\ q[k].run # r /\ rt[q[k].run] = rs[q[k].run]
    BY <1>1, <1>2 DEF Told, Sent, Truthful
  <2>2. ASSUME NEW i \in 1 .. Len(ss)
        PROVE  RowSound(rs, q, ss[i]) /\ ss[i].run # r /\ rt[ss[i].run] = rs[ss[i].run]
    BY <1>1, <1>2 DEF Told, RowsSound, RowSound
  <2>3. Sent(rt, q)
    BY <1>1, <2>1 DEF Sent, Truthful
  <2>4. EndFollows(rt, q)
    BY <2>1 DEF Told, EndFollows
  <2>5. RowsSound(rt, q, ss)
    BY <1>1, <2>2 DEF RowsSound, RowSound
  <2>6. RunsSound(rt)
    BY <1>1, <1>2 DEF Told, RunsSound
  <2>7. QED
    BY <2>3, <2>4, <2>5, <2>6 DEF Told
<1>3. CASE /\ rs[r].at = "announced" /\ rt[r].inner = rs[r].inner
           /\ \/ rt[r].at = "ended" /\ rt[r].outcome = "unbuilt"
              \/ rt[r].at = "running" /\ rt[r].outcome = rs[r].outcome
  <2>a. rs[r].outcome = "none"
    BY <1>1, <1>3 DEF Told, RunsSound, RunSound
  <2>1. ASSUME NEW k \in 1 .. Len(q)
        PROVE  Truthful(rs, q[k]) /\ (q[k].run = r => q[k].phase \notin Ends \cup { "event" })
    BY <1>3 DEF Told, Sent, Truthful
  <2>2. ASSUME NEW i \in 1 .. Len(ss)
        PROVE  /\ RowSound(rs, q, ss[i])
               /\ ss[i].run = r => ss[i].running /\ ~ ss[i].failed
    BY <1>3 DEF Told, RowsSound, RowSound
  <2>3. Sent(rt, q)
    <3>1. SUFFICES ASSUME NEW k \in 1 .. Len(q) PROVE Truthful(rt, q[k])
      BY DEF Sent
    <3>2. CASE q[k].run = r
      BY <1>1, <1>3, <2>1, <3>2 DEF Truthful
    <3>3. CASE q[k].run # r
      BY <1>1, <2>1, <3>3 DEF Truthful
    <3>4. QED
      BY <3>2, <3>3
  <2>4. EndFollows(rt, q)
    <3>1. SUFFICES ASSUME NEW k \in 1 .. Len(q), rt[q[k].run].at = "ended",
                          rt[q[k].run].outcome # "unbuilt"
                   PROVE  \E l \in At(q, q[k].run) : q[l].phase \in Ends
      BY DEF EndFollows
    <3>2. q[k].run # r /\ q[k].run \in 1 .. Len(rs)
      BY <1>3, <2>1, <3>1 DEF Truthful
    <3>3. rs[q[k].run].at = "ended" /\ rs[q[k].run].outcome # "unbuilt"
      BY <1>1, <3>1, <3>2
    <3>4. QED
      BY <3>3 DEF Told, EndFollows
  <2>5. RowsSound(rt, q, ss)
    <3>1. SUFFICES ASSUME NEW i \in 1 .. Len(ss) PROVE RowSound(rt, q, ss[i])
      BY DEF RowsSound
    <3>2. CASE ss[i].run = r
      BY <1>1, <1>3, <2>a, <2>2, <3>2 DEF RowSound
    <3>3. CASE ss[i].run # r
      BY <1>1, <2>2, <3>3 DEF RowSound
    <3>4. QED
      BY <3>2, <3>3
  <2>6. RunsSound(rt)
    <3>1. RunSound(rt[r])
      BY <1>1, <1>3, <2>a DEF Told, RunsSound, RunSound
    <3>2. QED
      BY <1>1, <3>1 DEF Told, RunsSound
  <2>7. QED
    BY <2>3, <2>4, <2>5, <2>6 DEF Told
<1>4. QED
  BY <1>2, <1>3 DEF Silent

\* A run is called: it is the last, and nothing is known of it.
LEMMA CallTold ==
  ASSUME NEW rs, NEW rt, NEW q, NEW ss, NEW run, Told(rs, q, ss), Grown(rs, rt, run),
         run.at = "called", run.outcome = "none", run.inner = 0
  PROVE  Told(rt, q, ss)
<1>1. /\ Len(rs) \in Nat /\ Len(rt) = Len(rs) + 1 /\ rt[Len(rs) + 1] = run
      /\ \A x \in 1 .. Len(rs) : x \in 1 .. Len(rt) /\ rt[x] = rs[x]
  BY DEF Grown
<1>2. ASSUME NEW k \in 1 .. Len(q)
      PROVE  Truthful(rs, q[k]) /\ q[k].run \in 1 .. Len(rs) /\ rt[q[k].run] = rs[q[k].run]
  BY <1>1 DEF Told, Sent, Truthful
<1>3. ASSUME NEW i \in 1 .. Len(ss)
      PROVE  RowSound(rs, q, ss[i]) /\ ss[i].run \in 1 .. Len(rs) /\ rt[ss[i].run] = rs[ss[i].run]
  BY <1>1 DEF Told, RowsSound, RowSound
<1>4. Sent(rt, q)
  BY <1>1, <1>2 DEF Sent, Truthful
<1>5. EndFollows(rt, q)
  BY <1>2 DEF Told, EndFollows
<1>6. RunsSound(rt)
  <2>1. ASSUME NEW x \in 1 .. Len(rt) PROVE RunSound(rt[x])
    <3>1. x \in 1 .. Len(rs) \/ x = Len(rs) + 1
      BY <1>1
    <3>2. RunSound(run)
      BY DEF RunSound
    <3>3. QED
      BY <1>1, <3>1, <3>2 DEF Told, RunsSound
  <2>2. QED
    BY <2>1 DEF RunsSound
<1>7. RowsSound(rt, q, ss)
  BY <1>1, <1>3, ZenonT(60) DEF RowsSound, RowSound
<1>8. QED
  BY <1>4, <1>5, <1>6, <1>7 DEF Told

\* What handleSubAgent makes of the records: st are those after status e was
\* handled, which reports of a record that was there before or of a fresh one.
Fresh(rec) == ~ rec.running /\ ~ rec.failed /\ rec.inner = << >>

RowAfter(old, e, rec) ==
  /\ old.run = e.run /\ rec.run = e.run
  /\ rec.running <=> e.phase = "started" \/ (e.phase = "event" /\ old.running)
  /\ rec.failed <=> old.failed \/ e.phase = "failed"
  /\ rec.inner = IF e.phase = "event" THEN Append(old.inner, e.event) ELSE old.inner

Unreported(ss, r) == \A i \in 1 .. Len(ss) : ss[i].run # r

RowsAfter(ss, st, e) ==
  /\ \A i \in 1 .. Len(st) :
       \/ \E j \in 1 .. Len(ss) : st[i] = ss[j] /\ ss[j].run # e.run
       \/ \E j \in 1 .. Len(ss) : RowAfter(ss[j], e, st[i])
       \/ Unreported(ss, e.run) /\ \E old : Fresh(old) /\ RowAfter(old, e, st[i])
  /\ \E i \in 1 .. Len(st) : st[i].run = e.run
  /\ \A j \in 1 .. Len(ss) : \E i \in 1 .. Len(st) : st[i].run = ss[j].run

\* The runs are the same, but for who was told of them.
AsBefore(rs, rt) ==
  /\ Len(rt) = Len(rs)
  /\ \A x \in 1 .. Len(rs) : /\ rt[x].depth = rs[x].depth /\ rt[x].at = rs[x].at
                             /\ rt[x].outcome = rs[x].outcome /\ rt[x].inner = rs[x].inner

LEMMA HandleTold ==
  ASSUME NEW rs, NEW rt, NEW q, NEW p, NEW ss, NEW st, NEW e,
         Told(rs, q, ss), AsBefore(rs, rt), Beheaded(q, p, e), RowsAfter(ss, st, e),
         e.phase \in { "started", "event", "finished", "failed" }
  PROVE  Told(rt, p, st)
<1>1. /\ Len(q) \in Nat /\ Len(p) \in Nat /\ Len(q) = Len(p) + 1 /\ q[1] = e
      /\ \A k \in 1 .. Len(p) : k + 1 \in 1 .. Len(q) /\ p[k] = q[k + 1]
  BY DEF Beheaded
<1>2. \A x : /\ \A k \in At(p, x) : k + 1 \in At(q, x) /\ q[k + 1] = p[k]
             /\ \A k \in At(q, x) : k # 1 => k - 1 \in At(p, x) /\ p[k - 1] = q[k]
             /\ x # e.run => 1 \notin At(q, x)
  BY AtMoves
<1>3. /\ Len(rt) = Len(rs)
      /\ \A x \in 1 .. Len(rs) : /\ rt[x].depth = rs[x].depth /\ rt[x].at = rs[x].at
                                 /\ rt[x].outcome = rs[x].outcome /\ rt[x].inner = rs[x].inner
  BY DEF AsBefore
<1>4. Truthful(rs, e) /\ e.run \in 1 .. Len(rs) /\ 1 \in 1 .. Len(q)
  BY <1>1 DEF Told, Sent, Truthful
<1>5. Sent(rt, p)
  <2>1. \A k \in 1 .. Len(p) : Truthful(rs, p[k])
    BY <1>1 DEF Told, Sent
  <2>2. QED
    BY <1>3, <2>1 DEF Sent, Truthful
<1>6. InOrder(p)
  <2>1. SUFFICES ASSUME NEW k \in 1 .. Len(p), NEW l \in 1 .. Len(p), k < l, p[k].run = p[l].run
                 PROVE  p[k].phase \notin Ends /\ p[l].phase # "started"
    BY DEF InOrder
  <2>2. k + 1 \in 1 .. Len(q) /\ l + 1 \in 1 .. Len(q) /\ k + 1 < l + 1
    BY <1>1, <2>1
  <2>3. p[k] = q[k + 1] /\ p[l] = q[l + 1]
    BY <1>1
  <2>4. QED
    BY <2>1, <2>2, <2>3 DEF Told, InOrder
\* Behind the first of a run neither comes its start, nor anything behind an end.
<1>7. ASSUME NEW k \in At(p, e.run) PROVE p[k].phase # "started" /\ e.phase \notin Ends
  <2>1. k + 1 \in 1 .. Len(q) /\ 1 < k + 1 /\ q[k + 1] = p[k] /\ q[k + 1].run = e.run
    BY <1>1, <1>2 DEF At
  <2>2. QED
    BY <1>1, <1>4, <2>1 DEF Told, InOrder
\* What is to come of a run that has ended has its end.
<1>8. ASSUME NEW x, x # e.run \/ e.phase \notin Ends, \E k \in At(q, x) : q[k].phase \in Ends
      PROVE  \E k \in At(p, x) : p[k].phase \in Ends
  <2>1. PICK k \in At(q, x) : q[k].phase \in Ends
    BY <1>8
  <2>2. k # 1
    BY <1>1, <1>2, <1>8, <2>1
  <2>3. QED
    BY <1>2, <2>1, <2>2
<1>9. EndFollows(rt, p)
  <2>1. SUFFICES ASSUME NEW k \in 1 .. Len(p), rt[p[k].run].at = "ended",
                        rt[p[k].run].outcome # "unbuilt"
                 PROVE  \E l \in At(p, p[k].run) : p[l].phase \in Ends
    BY DEF EndFollows
  <2>2. PICK x \in 1 .. Len(rs) : x = p[k].run
    BY <1>1 DEF Told, Sent, Truthful
  <2>3. k + 1 \in 1 .. Len(q) /\ q[k + 1].run = x /\ rs[x].at = "ended" /\ rs[x].outcome # "unbuilt"
    BY <1>1, <1>3, <2>1, <2>2
  <2>4. \E l \in At(q, x) : q[l].phase \in Ends
    BY <2>3 DEF Told, EndFollows
  <2>5. x = e.run => e.phase \notin Ends
    BY <1>7, <2>2 DEF At
  <2>6. QED
    BY <1>8, <2>2, <2>4, <2>5
<1>10. RunsSound(rt)
  BY <1>3 DEF Told, RunsSound, RunSound
\* A row of another run.
<1>11. ASSUME NEW j \in 1 .. Len(ss), ss[j].run # e.run PROVE RowSound(rt, p, ss[j])
  <2>1. RowSound(rs, q, ss[j])
    BY DEF Told, RowsSound
  <2>2. PICK x \in 1 .. Len(rs) : x = ss[j].run
    BY <2>1 DEF RowSound
  <2>3. \A k \in At(p, x) : p[k].phase # "started"
    BY <1>2, <2>1, <2>2 DEF RowSound
  <2>4. At(p, x) = {} <=> At(q, x) = {}
    <3>1. ASSUME NEW k \in At(q, x) PROVE At(p, x) # {}
      <4>1. k # 1
        BY <1>2, <1>11, <2>2
      <4>2. QED
        BY <1>2, <4>1
    <3>2. QED
      BY <1>2, <3>1
  <2>5. (\E k \in At(q, x) : q[k].phase \in Ends) => \E k \in At(p, x) : p[k].phase \in Ends
    BY <1>8, <1>11, <2>2
  <2>6. /\ rt[x].depth = rs[x].depth /\ rt[x].at = rs[x].at /\ rt[x].outcome = rs[x].outcome
        /\ x \in 1 .. Len(rt)
    BY <1>3
  <2>7. QED
    BY <2>1, <2>2, <2>3, <2>4, <2>5, <2>6 DEF RowSound
\* The row of the run itself.
<1>12. ASSUME NEW old, NEW rec, RowAfter(old, e, rec),
              Fresh(old) \/ \E j \in 1 .. Len(ss) : old = ss[j]
       PROVE  RowSound(rt, p, rec)
  <2>1. PICK x \in 1 .. Len(rs) : x = e.run /\ x = rec.run
    BY <1>4, <1>12 DEF RowAfter
  <2>2. /\ rs[x].depth = 0 /\ rs[x].at # "called" /\ x \in 1 .. Len(rt)
        /\ rt[x].depth = rs[x].depth /\ rt[x].at = rs[x].at /\ rt[x].outcome = rs[x].outcome
    BY <1>3, <1>4, <2>1 DEF Truthful
  <2>3. \A k \in At(p, x) : p[k].phase # "started" /\ e.phase \notin Ends
    BY <1>7, <2>1
  <2>4. 1 \in At(q, x) /\ At(q, x) # {}
    BY <1>1, <1>4, <2>1 DEF At
  <2>5. ~ old.failed
    <3>1. CASE Fresh(old)
      BY <3>1 DEF Fresh
    <3>2. ASSUME NEW j \in 1 .. Len(ss), old = ss[j] PROVE ~ old.failed
      <4>1. RowSound(rs, q, old) /\ old.run = x
        BY <1>12, <2>1, <3>2 DEF Told, RowsSound, RowAfter
      <4>2. QED
        BY <2>4, <4>1 DEF RowSound
    <3>3. QED
      BY <1>12, <3>1, <3>2
  <2>6. rs[x].at = "ended" /\ rs[x].outcome # "unbuilt" /\ e.phase \notin Ends =>
          \E k \in At(p, x) : p[k].phase \in Ends
    <3>1. SUFFICES ASSUME rs[x].at = "ended", rs[x].outcome # "unbuilt", e.phase \notin Ends
                   PROVE  \E k \in At(p, x) : p[k].phase \in Ends
      OBVIOUS
    <3>2. \E k \in At(q, x) : q[k].phase \in Ends
      BY <1>1, <1>4, <2>1, <3>1 DEF Told, EndFollows
    <3>3. QED
      BY <1>8, <3>1, <3>2
  <2>7. CASE e.phase = "started"
    <3>1. rec.running /\ ~ rec.failed
      BY <1>12, <2>5, <2>7 DEF RowAfter
    <3>2. e.phase \notin Ends
      BY <2>7 DEF Ends
    <3>3. QED
      BY <2>1, <2>2, <2>3, <2>6, <3>1, <3>2 DEF RowSound
  <2>8. CASE e.phase = "event"
    <3>1. ~ rec.failed /\ e.phase \notin Ends
      BY <1>12, <2>5, <2>8 DEF RowAfter, Ends
    <3>2. rs[x].at # "announced" /\ rs[x].outcome # "unbuilt"
      BY <1>4, <2>1, <2>8 DEF Truthful
    <3>3. QED
      BY <2>1, <2>2, <2>3, <2>6, <3>1, <3>2 DEF RowSound
  <2>9. CASE e.phase \in Ends
    <3>1. At(p, x) = {} /\ ~ rec.running /\ (rec.failed <=> e.phase = "failed")
      BY <1>12, <2>3, <2>5, <2>9 DEF RowAfter, Ends
    <3>2. /\ rs[x].at = "ended"
          /\ rs[x].outcome = IF e.phase = "finished" THEN "answered" ELSE "failed"
      BY <1>4, <2>1, <2>9 DEF Truthful
    <3>3. rec.failed <=> rs[x].outcome # "answered"
      BY <2>9, <3>1, <3>2 DEF Ends
    <3>4. rs[x].at # "announced" /\ rs[x].outcome # "unbuilt"
      BY <3>2
    <3>5. QED
      BY <2>1, <2>2, <3>1, <3>2, <3>3, <3>4 DEF RowSound
  <2>10. QED
    BY <2>7, <2>8, <2>9 DEF Ends
<1>13. RowsSound(rt, p, st)
  <2>1. SUFFICES ASSUME NEW i \in 1 .. Len(st) PROVE RowSound(rt, p, st[i])
    BY DEF RowsSound
  <2>2. \/ \E j \in 1 .. Len(ss) : st[i] = ss[j] /\ ss[j].run # e.run
        \/ \E j \in 1 .. Len(ss) : RowAfter(ss[j], e, st[i])
        \/ \E old : Fresh(old) /\ RowAfter(old, e, st[i])
    BY DEF RowsAfter
  <2>3. CASE \E j \in 1 .. Len(ss) : st[i] = ss[j] /\ ss[j].run # e.run
    BY <1>11, <2>3
  <2>4. CASE \E j \in 1 .. Len(ss) : RowAfter(ss[j], e, st[i])
    BY <1>12, <2>4
  <2>5. CASE \E old : Fresh(old) /\ RowAfter(old, e, st[i])
    BY <1>12, <2>5
  <2>6. QED
    BY <2>2, <2>3, <2>4, <2>5
<1>14. QED
  BY <1>5, <1>6, <1>9, <1>10, <1>13 DEF Told

-----------------------------------------------------------------------------
(***************************************************************************)
(* The numbers of the events.                                              *)
(***************************************************************************)
Counts(rs) == \A x \in 1 .. Len(rs) : rs[x].inner \in Nat /\ rs[x].shown \in Nat

\* The record of a run goes on from where what is to come of it begins.
RowsUpTo(rs, ss, now, r, m) ==
  \A i \in 1 .. Len(ss) : ss[i].run = r =>
    \E before \in Nat : HasUpTo(ss[i], m, before) /\ (rs[r].shown = now => before = 0)

LEMMA NumberedRows ==
  ASSUME NEW rs, NEW q, NEW ss, NEW now
  PROVE  Numbered(rs, q, ss, now) <=>
           \A r \in 1 .. Len(rs) : rs[r].depth = 0 =>
             \E m \in Nat : LastFrom(rs, q, r, m) /\ RowsUpTo(rs, ss, now, r, m)
BY DEF Numbered, RowsUpTo

\* What is to come of r is the same, and r has as many events.
LEMMA LastStays ==
  ASSUME NEW rs, NEW rt, NEW q, NEW p, NEW r, NEW m, LastFrom(rs, q, r, m),
         rt[r].inner = rs[r].inner, At(p, r) = At(q, r), \A k \in At(q, r) : p[k] = q[k]
  PROVE  LastFrom(rt, p, r, m)
<1>1. EventsAt(p, r) = EventsAt(q, r) /\ \A k \in EventsAt(q, r) : p[k] = q[k]
  BY DEF EventsAt
<1>2. { p[k].event : k \in EventsAt(p, r) } = { q[k].event : k \in EventsAt(q, r) }
  BY <1>1
<1>3. QED
  BY <1>1, <1>2 DEF LastFrom

LEMMA SendNumbered ==
  ASSUME NEW rs, NEW rt, NEW q, NEW p, NEW ss, NEW r, NEW e, NEW now,
         Told(rs, q, ss), Numbered(rs, q, ss, now), Counts(rs), Sends(rs, rt, q, p, r, e)
  PROVE  Numbered(rt, p, ss, now)
<1>1. /\ r \in 1 .. Len(rs) /\ Len(rt) = Len(rs)
      /\ rt[r].depth = rs[r].depth /\ rt[r].shown = rs[r].shown
      /\ \A x \in 1 .. Len(rs) : x # r => rt[x] = rs[x]
  BY DEF Sends, OnlyChanges
<1>2. /\ Grown(q, p, e) /\ e.run = r /\ Len(q) \in Nat /\ Len(p) = Len(q) + 1 /\ p[Len(q) + 1] = e
      /\ \A k \in 1 .. Len(q) : p[k] = q[k]
  BY DEF Sends, Grown
<1>3. \A x : /\ x # r => At(p, x) = At(q, x)
             /\ x = r => At(p, x) = At(q, x) \cup { Len(q) + 1 }
             /\ \A k \in At(q, x) : k \in 1 .. Len(q) /\ p[k] = q[k]
  BY <1>2, AtGrows
<1>4. SUFFICES ASSUME NEW x \in 1 .. Len(rs), rt[x].depth = 0
               PROVE  \E m \in Nat : LastFrom(rt, p, x, m) /\ RowsUpTo(rt, ss, now, x, m)
  BY <1>1, NumberedRows
<1>5. rs[x].depth = 0 /\ rt[x].shown = rs[x].shown
  BY <1>1, <1>4
<1>6. PICK m \in Nat : LastFrom(rs, q, x, m) /\ RowsUpTo(rs, ss, now, x, m)
  BY <1>5, NumberedRows
<1>7. RowsUpTo(rt, ss, now, x, m)
  BY <1>5, <1>6 DEF RowsUpTo
<1>8. CASE x # r
  <2>1. LastFrom(rt, p, x, m)
    BY <1>1, <1>3, <1>6, <1>8, LastStays
  <2>2. QED
    BY <1>7, <2>1
<1>9. CASE x = r
  <2>0. PICK n \in Nat : n = rs[r].inner
    BY <1>1 DEF Counts
  <2>1. /\ m <= n
        /\ { q[k].event : k \in EventsAt(q, r) } = m + 1 .. n
        /\ \A k, l \in EventsAt(q, r) : k < l => q[k].event < q[l].event
        /\ (\E k \in At(q, r) : q[k].phase = "started") => m = 0
    BY <1>6, <1>9, <2>0 DEF LastFrom
  <2>2. \A k \in At(q, r) : k \in 1 .. Len(q) /\ p[k] = q[k]
    BY <1>3
  <2>3. At(p, r) = At(q, r) \cup { Len(q) + 1 }
    BY <1>3
  <2>4. CASE e.phase # "event"
    <3>1. EventsAt(p, r) = EventsAt(q, r) /\ \A k \in EventsAt(q, r) : p[k] = q[k]
      BY <1>2, <2>2, <2>3, <2>4 DEF EventsAt
    <3>2. { p[k].event : k \in EventsAt(p, r) } = { q[k].event : k \in EventsAt(q, r) }
      BY <3>1
    <3>3. rt[r].inner = n
      BY <2>0, <2>4 DEF Sends
    <3>4. (\E k \in At(p, r) : p[k].phase = "started") => m = 0
      <4>1. CASE e.phase = "started"
        <5>1. rs[r].at = "called"
          BY <4>1 DEF Sends, Ends
        <5>2. n = 0
          BY <1>1, <2>0, <5>1 DEF Told, RunsSound, RunSound
        <5>3. QED
          BY <2>1, <5>2
      <4>2. CASE e.phase # "started"
        BY <1>2, <2>1, <2>2, <2>3, <4>2
      <4>3. QED
        BY <4>1, <4>2
    <3>5. LastFrom(rt, p, r, m)
      BY <2>1, <3>1, <3>2, <3>3, <3>4 DEF LastFrom
    <3>6. QED
      BY <1>7, <1>9, <3>5
  <2>5. CASE e.phase = "event"
    <3>1. rt[r].inner = n + 1 /\ e.event = n + 1
      BY <2>0, <2>5 DEF Sends, Ends
    <3>2. /\ EventsAt(p, r) = EventsAt(q, r) \cup { Len(q) + 1 }
          /\ \A k \in EventsAt(q, r) : k \in 1 .. Len(q) /\ p[k] = q[k]
      BY <1>2, <2>2, <2>3, <2>5 DEF EventsAt
    <3>3. { p[k].event : k \in EventsAt(p, r) } =
            { q[k].event : k \in EventsAt(q, r) } \cup { n + 1 }
      BY <1>2, <3>1, <3>2
    <3>4. { p[k].event : k \in EventsAt(p, r) } = m + 1 .. n + 1
      <4>1. (m + 1 .. n) \cup { n + 1 } = m + 1 .. n + 1
        BY <2>1
      <4>2. QED
        BY <2>1, <3>3, <4>1
    <3>5. ASSUME NEW k \in EventsAt(p, r), NEW l \in EventsAt(p, r), k < l
          PROVE  p[k].event < p[l].event
      <4>1. k \in EventsAt(q, r) /\ p[k] = q[k]
        BY <1>2, <3>2, <3>5
      <4>2. CASE l \in EventsAt(q, r)
        BY <2>1, <3>2, <3>5, <4>1, <4>2
      <4>3. CASE l = Len(q) + 1
        <5>1. q[k].event \in m + 1 .. n
          BY <2>1, <4>1
        <5>2. p[l].event = n + 1
          BY <1>2, <3>1, <4>3
        <5>3. QED
          BY <4>1, <5>1, <5>2
      <4>4. QED
        BY <3>2, <4>2, <4>3
    <3>6. (\E k \in At(p, r) : p[k].phase = "started") => m = 0
      BY <1>2, <2>1, <2>2, <2>3, <2>5
    <3>7. m <= n + 1
      BY <2>1
    <3>8. LastFrom(rt, p, r, m)
      BY <3>1, <3>4, <3>5, <3>6, <3>7 DEF LastFrom
    <3>9. QED
      BY <1>7, <1>9, <3>8
  <2>6. QED
    BY <2>4, <2>5
<1>10. QED
  BY <1>8, <1>9

LEMMA SilentNumbered ==
  ASSUME NEW rs, NEW rt, NEW q, NEW ss, NEW r, NEW now,
         Numbered(rs, q, ss, now), Silent(rs, rt, r)
  PROVE  Numbered(rt, q, ss, now)
<1>1. /\ r \in 1 .. Len(rs) /\ Len(rt) = Len(rs)
      /\ \A x \in 1 .. Len(rs) : rt[x].depth = rs[x].depth /\ rt[x].shown = rs[x].shown
      /\ \A x \in 1 .. Len(rs) : rs[x].depth = 0 => rt[x].inner = rs[x].inner
  BY DEF Silent, OnlyChanges
<1>2. SUFFICES ASSUME NEW x \in 1 .. Len(rs), rt[x].depth = 0
               PROVE  \E m \in Nat : LastFrom(rt, q, x, m) /\ RowsUpTo(rt, ss, now, x, m)
  BY <1>1, NumberedRows
<1>3. rs[x].depth = 0 /\ rt[x].shown = rs[x].shown /\ rt[x].inner = rs[x].inner
  BY <1>1, <1>2
<1>4. PICK m \in Nat : LastFrom(rs, q, x, m) /\ RowsUpTo(rs, ss, now, x, m)
  BY <1>3, NumberedRows
<1>5. LastFrom(rt, q, x, m)
  BY <1>3, <1>4, LastStays
<1>6. RowsUpTo(rt, ss, now, x, m)
  BY <1>3, <1>4 DEF RowsUpTo
<1>7. QED
  BY <1>5, <1>6

LEMMA CallNumbered ==
  ASSUME NEW rs, NEW rt, NEW q, NEW ss, NEW run, NEW now,
         Told(rs, q, ss), Numbered(rs, q, ss, now), Grown(rs, rt, run), run.inner = 0
  PROVE  Numbered(rt, q, ss, now)
<1>1. /\ Len(rs) \in Nat /\ Len(rt) = Len(rs) + 1 /\ rt[Len(rs) + 1] = run
      /\ \A x \in 1 .. Len(rs) : rt[x] = rs[x]
  BY DEF Grown
<1>2. SUFFICES ASSUME NEW x \in 1 .. Len(rt), rt[x].depth = 0
               PROVE  \E m \in Nat : LastFrom(rt, q, x, m) /\ RowsUpTo(rt, ss, now, x, m)
  BY NumberedRows
<1>3. CASE x \in 1 .. Len(rs)
  <2>1. rt[x] = rs[x]
    BY <1>1, <1>3
  <2>2. PICK m \in Nat : LastFrom(rs, q, x, m) /\ RowsUpTo(rs, ss, now, x, m)
    BY <1>2, <1>3, <2>1, NumberedRows
  <2>3. LastFrom(rt, q, x, m)
    BY <2>1, <2>2, LastStays
  <2>4. RowsUpTo(rt, ss, now, x, m)
    BY <2>1, <2>2 DEF RowsUpTo
  <2>5. QED
    BY <2>3, <2>4
<1>4. CASE x = Len(rs) + 1
  <2>1. x \notin 1 .. Len(rs) /\ rt[x].inner = 0
    BY <1>1, <1>4
  <2>2. At(q, x) = {}
    BY <2>1 DEF At, Told, Sent, Truthful
  <2>3. EventsAt(q, x) = {}
    BY <2>2 DEF EventsAt
  <2>4. { q[k].event : k \in EventsAt(q, x) } = 0 + 1 .. 0
    BY <2>3
  <2>5. LastFrom(rt, q, x, 0)
    BY <2>1, <2>2, <2>3, <2>4 DEF LastFrom
  <2>6. RowsUpTo(rt, ss, now, x, 0)
    BY <2>1 DEF RowsUpTo, Told, RowsSound, RowSound
  <2>7. QED
    BY <2>5, <2>6
<1>5. QED
  BY <1>1, <1>2, <1>3, <1>4

\* The start of r is not on its way any more.
OnlyLater(p, r) == \A k \in At(p, r) : p[k].phase # "started"

\* The first event of a run on its way is the one after those before it, and when
\* it has arrived the others are the ones after that.
LEMMA FirstArrives ==
  ASSUME NEW rs, NEW q, NEW p, NEW e, NEW m, NEW r, LastFrom(rs, q, r, m), Beheaded(q, p, e),
         e.run = r, e.phase = "event", rs[r].inner \in Nat, OnlyLater(p, r)
  PROVE  e.event = m + 1 /\ LastFrom(rs, p, r, m + 1)
<1>1. PICK n \in Nat : n = rs[r].inner
  OBVIOUS
<1>2. /\ m \in Nat /\ m <= n
      /\ { q[k].event : k \in EventsAt(q, r) } = m + 1 .. n
      /\ \A k, l \in EventsAt(q, r) : k < l => q[k].event < q[l].event
  BY <1>1 DEF LastFrom
<1>3. /\ Len(q) \in Nat /\ Len(p) \in Nat /\ Len(q) = Len(p) + 1 /\ q[1] = e
      /\ \A k \in 1 .. Len(p) : p[k] = q[k + 1]
  BY DEF Beheaded
<1>4. 1 \in EventsAt(q, r)
  BY <1>3 DEF EventsAt, At
<1>5. \A k \in EventsAt(q, r) : k \in Nat /\ k >= 1 /\ q[k].event \in m + 1 .. n
  BY <1>2, <1>3 DEF EventsAt, At
<1>6. e.event \in m + 1 .. n
  BY <1>3, <1>4, <1>5
<1>7. m + 1 \in m + 1 .. n
  BY <1>2, <1>6
<1>8. PICK k \in EventsAt(q, r) : q[k].event = m + 1
  BY <1>2, <1>7
<1>9. e.event = m + 1
  <2>1. CASE k = 1
    BY <1>3, <1>8, <2>1
  <2>2. CASE k # 1
    <3>1. 1 < k
      BY <1>5, <2>2
    <3>2. q[1].event < q[k].event
      BY <1>2, <1>4, <3>1
    <3>3. e.event < m + 1
      BY <1>3, <1>8, <3>2
    <3>4. QED
      BY <1>2, <1>6, <3>3
  <2>3. QED
    BY <2>1, <2>2
<1>10. /\ \A j \in EventsAt(p, r) : j + 1 \in EventsAt(q, r) /\ q[j + 1] = p[j] /\ j \in Nat /\ j >= 1
       /\ \A j \in EventsAt(q, r) : j # 1 => j - 1 \in EventsAt(p, r) /\ p[j - 1] = q[j]
  <2>1. /\ \A j \in At(p, r) : j + 1 \in At(q, r) /\ q[j + 1] = p[j]
        /\ \A j \in At(q, r) : j # 1 => j - 1 \in At(p, r) /\ p[j - 1] = q[j]
    BY AtMoves
  <2>2. \A j \in At(p, r) : j \in Nat /\ j >= 1
    BY <1>3 DEF At
  <2>3. QED
    BY <2>1, <2>2 DEF EventsAt
<1>11. ASSUME NEW j \in EventsAt(p, r) PROVE p[j].event \in m + 2 .. n
  <2>1. j + 1 \in EventsAt(q, r) /\ 1 < j + 1 /\ q[j + 1] = p[j]
    BY <1>10
  <2>2. q[1].event < q[j + 1].event /\ q[j + 1].event \in m + 1 .. n
    BY <1>2, <1>4, <1>5, <2>1
  <2>3. PICK v \in m + 1 .. n : v = p[j].event
    BY <2>1, <2>2
  <2>4. m + 1 < v
    BY <1>3, <1>9, <2>1, <2>2, <2>3
  <2>5. QED
    BY <1>2, <2>3, <2>4
<1>12. ASSUME NEW v \in m + 2 .. n PROVE \E j \in EventsAt(p, r) : p[j].event = v
  <2>1. v \in m + 1 .. n /\ v # m + 1
    BY <1>2
  <2>2. PICK l \in EventsAt(q, r) : q[l].event = v
    BY <1>2, <2>1
  <2>3. l # 1
    BY <1>3, <1>9, <2>1, <2>2
  <2>4. QED
    BY <1>10, <2>2, <2>3
<1>13. { p[j].event : j \in EventsAt(p, r) } = (m + 1) + 1 .. n
  <2>1. (m + 1) + 1 .. n = m + 2 .. n
    BY <1>2
  <2>2. ASSUME NEW v \in { p[j].event : j \in EventsAt(p, r) } PROVE v \in m + 2 .. n
    BY <1>11, Zenon
  <2>3. ASSUME NEW v \in m + 2 .. n PROVE v \in { p[j].event : j \in EventsAt(p, r) }
    BY <1>12, Zenon
  <2>4. { p[j].event : j \in EventsAt(p, r) } = m + 2 .. n
    BY <2>2, <2>3, Zenon
  <2>5. QED
    BY <2>1, <2>4, Zenon
<1>14. ASSUME NEW j \in EventsAt(p, r), NEW l \in EventsAt(p, r), j < l
       PROVE  p[j].event < p[l].event
  <2>1. j + 1 < l + 1
    BY <1>10, <1>14
  <2>2. QED
    BY <1>2, <1>10, <2>1
<1>15. m + 1 \in Nat /\ m + 1 <= n
  BY <1>2, <1>7
<1>16. ~ \E j \in At(p, r) : p[j].phase = "started"
  BY DEF OnlyLater
<1>17. QED
  BY <1>1, <1>9, <1>13, <1>14, <1>15, <1>16 DEF LastFrom

\* What arrives is no event of r: those on their way are the same.
LEMMA OtherArrives ==
  ASSUME NEW rs, NEW q, NEW p, NEW e, NEW m, NEW r, LastFrom(rs, q, r, m), Beheaded(q, p, e),
         e.run # r \/ e.phase # "event"
  PROVE  LastFrom(rs, p, r, m)
<1>1. /\ m \in Nat /\ m <= rs[r].inner
      /\ { q[k].event : k \in EventsAt(q, r) } = m + 1 .. rs[r].inner
      /\ \A k, l \in EventsAt(q, r) : k < l => q[k].event < q[l].event
      /\ (\E k \in At(q, r) : q[k].phase = "started") => m = 0
  BY DEF LastFrom
<1>2. /\ \A j \in At(p, r) : j + 1 \in At(q, r) /\ q[j + 1] = p[j]
      /\ \A j \in At(q, r) : j # 1 => j - 1 \in At(p, r) /\ p[j - 1] = q[j]
  BY AtMoves
<1>3. 1 \notin EventsAt(q, r)
  BY DEF EventsAt, At, Beheaded
<1>4. /\ \A j \in EventsAt(p, r) : j + 1 \in EventsAt(q, r) /\ q[j + 1] = p[j]
      /\ \A j \in EventsAt(q, r) : j - 1 \in EventsAt(p, r) /\ p[j - 1] = q[j]
  BY <1>2, <1>3 DEF EventsAt
<1>5. { p[j].event : j \in EventsAt(p, r) } = { q[k].event : k \in EventsAt(q, r) }
  <2>1. ASSUME NEW j \in EventsAt(p, r) PROVE p[j].event \in { q[k].event : k \in EventsAt(q, r) }
    BY <1>4
  <2>2. ASSUME NEW k \in EventsAt(q, r) PROVE q[k].event \in { p[j].event : j \in EventsAt(p, r) }
    BY <1>4
  <2>3. QED
    BY <2>1, <2>2
<1>6. ASSUME NEW j \in EventsAt(p, r), NEW l \in EventsAt(p, r), j < l
      PROVE  p[j].event < p[l].event
  <2>1. j \in Int /\ l \in Int
    BY DEF EventsAt, At, Beheaded
  <2>2. j + 1 < l + 1
    BY <1>6, <2>1
  <2>3. QED
    BY <1>1, <1>4, <2>2
<1>7. (\E j \in At(p, r) : p[j].phase = "started") => m = 0
  BY <1>1, <1>2
<1>8. QED
  BY <1>1, <1>5, <1>6, <1>7 DEF LastFrom

\* The runs are as before, but for who was told of the start of one.
HandledRuns(rs, rt, e, now) ==
  /\ AsBefore(rs, rt) /\ e.run \in 1 .. Len(rs)
  /\ \A x \in 1 .. Len(rs) :
       rt[x].shown = IF x = e.run /\ e.phase = "started" THEN now ELSE rs[x].shown

LEMMA HandleNumbered ==
  ASSUME NEW rs, NEW rt, NEW q, NEW p, NEW ss, NEW st, NEW e, NEW now \in Nat,
         Told(rs, q, ss), Numbered(rs, q, ss, now), Recorded(rs, ss, now), Counts(rs),
         HandledRuns(rs, rt, e, now), Beheaded(q, p, e), RowsAfter(ss, st, e),
         e.phase \in { "started", "event", "finished", "failed" },
         \A j \in 1 .. Len(ss) : ss[j].inner \in Seq(Nat)
  PROVE  Numbered(rt, p, st, now)
<1>1. /\ Len(q) \in Nat /\ Len(p) \in Nat /\ Len(q) = Len(p) + 1 /\ q[1] = e
      /\ \A k \in 1 .. Len(p) : p[k] = q[k + 1]
  BY DEF Beheaded
<1>2. /\ Len(rt) = Len(rs) /\ e.run \in 1 .. Len(rs)
      /\ \A x \in 1 .. Len(rs) : /\ rt[x].depth = rs[x].depth /\ rt[x].inner = rs[x].inner
                                 /\ rt[x].shown = IF x = e.run /\ e.phase = "started" THEN now
                                                  ELSE rs[x].shown
  BY DEF HandledRuns, AsBefore
<1>3. SUFFICES ASSUME NEW x \in 1 .. Len(rs), rt[x].depth = 0
               PROVE  \E m \in Nat : LastFrom(rt, p, x, m) /\ RowsUpTo(rt, st, now, x, m)
  BY <1>2, NumberedRows
<1>4. PICK m \in Nat : LastFrom(rs, q, x, m) /\ RowsUpTo(rs, ss, now, x, m)
  BY <1>2, <1>3, NumberedRows
<1>5. ASSUME NEW l, LastFrom(rs, p, x, l) PROVE LastFrom(rt, p, x, l)
  BY <1>2, <1>5, LastStays
<1>6. CASE x # e.run
  <2>1. LastFrom(rt, p, x, m)
    BY <1>4, <1>5, <1>6, OtherArrives
  <2>2. ASSUME NEW i \in 1 .. Len(st), st[i].run = x PROVE \E j \in 1 .. Len(ss) : st[i] = ss[j]
    BY <1>6, <2>2 DEF RowsAfter, RowAfter
  <2>3. RowsUpTo(rt, st, now, x, m)
    BY <1>2, <1>4, <1>6, <2>2 DEF RowsUpTo
  <2>4. QED
    BY <2>1, <2>3
<1>7. CASE x = e.run
  <2>1. 1 \in At(q, x)
    BY <1>1, <1>7 DEF At
  <2>2. ASSUME NEW i \in 1 .. Len(st), st[i].run = x
        PROVE  \/ \E j \in 1 .. Len(ss) : RowAfter(ss[j], e, st[i])
               \/ Unreported(ss, x) /\ \E old : Fresh(old) /\ RowAfter(old, e, st[i])
    BY <1>7, <2>2 DEF RowsAfter
  <2>3. Unreported(ss, x) /\ e.phase # "started" => rt[x].shown # now
    BY <1>2 DEF Unreported, Recorded
  <2>4. CASE e.phase = "event"
    <3>1. OnlyLater(p, x)
      <4>1. ASSUME NEW k \in At(p, x) PROVE p[k].phase # "started"
        <5>1. k + 1 \in At(q, x) /\ q[k + 1] = p[k] /\ k \in Nat /\ k >= 1
          BY <1>1, AtMoves DEF At
        <5>2. k + 1 \in 1 .. Len(q) /\ 1 \in 1 .. Len(q) /\ 1 < k + 1 /\ q[1].run = q[k + 1].run
          BY <2>1, <5>1 DEF At
        <5>3. QED
          BY <5>1, <5>2 DEF Told, InOrder
      <4>2. QED
        BY <4>1 DEF OnlyLater
    <3>2. e.event = m + 1 /\ LastFrom(rs, p, x, m + 1)
      <4>1. LastFrom(rs, q, x, m) /\ e.run = x /\ rs[x].inner \in Nat
        BY <1>4, <1>7 DEF Counts
      <4>2. QED
        BY <2>4, <3>1, <4>1, FirstArrives
    <3>3. ASSUME NEW i \in 1 .. Len(st), NEW j \in 1 .. Len(ss), RowAfter(ss[j], e, st[i])
          PROVE  \E before \in Nat : HasUpTo(st[i], m + 1, before) /\ (rt[x].shown = now => before = 0)
      <4>1. PICK s \in Seq(Nat) : s = ss[j].inner
        OBVIOUS
      <4>2. st[i].inner = Append(s, m + 1) /\ ss[j].run = x
        BY <1>7, <2>4, <3>2, <3>3, <4>1 DEF RowAfter
      <4>3. PICK before \in Nat : HasUpTo(ss[j], m, before) /\ (rs[x].shown = now => before = 0)
        BY <1>4, <4>2 DEF RowsUpTo
      <4>4. m = before + Len(s) /\ \A k \in 1 .. Len(s) : s[k] = before + k
        BY <4>1, <4>3 DEF HasUpTo
      <4>5. PICK t : t = Append(s, m + 1)
        OBVIOUS
      <4>6. Len(s) \in Nat /\ Len(t) = Len(s) + 1 /\ t[Len(s) + 1] = m + 1
            /\ \A k \in 1 .. Len(s) : t[k] = s[k]
        <5>1. m + 1 \in Nat
          OBVIOUS
        <5>2. QED
          BY <4>5, <5>1, Appended DEF Grown
      <4>7. m + 1 = before + Len(t)
        BY <4>4, <4>6
      <4>8. ASSUME NEW k \in 1 .. Len(t) PROVE t[k] = before + k
        <5>1. CASE k \in 1 .. Len(s)
          BY <4>4, <4>6, <5>1
        <5>2. CASE k = Len(s) + 1
          BY <4>4, <4>6, <5>2
        <5>3. QED
          BY <4>6, <5>1, <5>2
      <4>9. HasUpTo(st[i], m + 1, before)
        BY <4>2, <4>5, <4>7, <4>8 DEF HasUpTo
      <4>10. rt[x].shown = rs[x].shown
        BY <1>2, <2>4
      <4>11. QED
        BY <4>3, <4>9, <4>10
    <3>4. ASSUME NEW i \in 1 .. Len(st), NEW old, Fresh(old), RowAfter(old, e, st[i]),
                 Unreported(ss, x)
          PROVE  \E before \in Nat : HasUpTo(st[i], m + 1, before) /\ (rt[x].shown = now => before = 0)
      <4>1. st[i].inner = Append(<< >>, m + 1)
        BY <2>4, <3>2, <3>4 DEF RowAfter, Fresh
      <4>2. PICK t : t = Append(<< >>, m + 1)
        OBVIOUS
      <4>3. Len(t) = 1 /\ t[1] = m + 1
        <5>1. << >> \in Seq(Nat) /\ Len(<< >>) = 0 /\ m + 1 \in Nat
          BY EmptySeq
        <5>2. Grown(<< >>, t, m + 1)
          BY <4>2, <5>1, Appended
        <5>3. QED
          BY <5>1, <5>2 DEF Grown
      <4>4. HasUpTo(st[i], m + 1, m)
        BY <4>1, <4>2, <4>3 DEF HasUpTo
      <4>5. QED
        BY <2>3, <2>4, <3>4, <4>4
    <3>5. RowsUpTo(rt, st, now, x, m + 1)
      BY <2>2, <3>3, <3>4 DEF RowsUpTo
    <3>6. QED
      BY <1>5, <3>2, <3>5
  <2>5. CASE e.phase # "event"
    <3>1. LastFrom(rt, p, x, m)
      BY <1>4, <1>5, <2>5, OtherArrives
    <3>2. e.phase = "started" => m = 0
      BY <1>1, <1>4, <2>1 DEF LastFrom
    <3>3. ASSUME NEW i \in 1 .. Len(st), NEW j \in 1 .. Len(ss), RowAfter(ss[j], e, st[i])
          PROVE  \E before \in Nat : HasUpTo(st[i], m, before) /\ (rt[x].shown = now => before = 0)
      <4>1. st[i].inner = ss[j].inner /\ ss[j].run = x
        BY <1>7, <2>5, <3>3 DEF RowAfter
      <4>2. e.phase # "started"
        BY <1>1, <2>1, <4>1 DEF Told, RowsSound, RowSound
      <4>3. PICK before \in Nat : HasUpTo(ss[j], m, before) /\ (rs[x].shown = now => before = 0)
        BY <1>4, <4>1 DEF RowsUpTo
      <4>4. rt[x].shown = rs[x].shown
        BY <1>2, <4>2
      <4>5. HasUpTo(st[i], m, before)
        BY <4>1, <4>3 DEF HasUpTo
      <4>6. QED
        BY <4>3, <4>4, <4>5
    <3>4. ASSUME NEW i \in 1 .. Len(st), NEW old, Fresh(old), RowAfter(old, e, st[i]),
                 Unreported(ss, x)
          PROVE  \E before \in Nat : HasUpTo(st[i], m, before) /\ (rt[x].shown = now => before = 0)
      <4>1. st[i].inner = << >> /\ Len(<< >>) = 0
        BY <2>5, <3>4, EmptySeq DEF RowAfter, Fresh
      <4>2. HasUpTo(st[i], m, m)
        BY <4>1 DEF HasUpTo
      <4>3. rt[x].shown = now => m = 0
        BY <2>3, <3>2, <3>4
      <4>4. QED
        BY <4>2, <4>3
    <3>5. RowsUpTo(rt, st, now, x, m)
      BY <2>2, <3>3, <3>4 DEF RowsUpTo
    <3>6. QED
      BY <3>1, <3>5
  <2>6. QED
    BY <2>4, <2>5
<1>8. QED
  BY <1>6, <1>7

LEMMA HandleRecorded ==
  ASSUME NEW rs, NEW rt, NEW ss, NEW st, NEW e, NEW now \in Nat,
         Recorded(rs, ss, now), HandledRuns(rs, rt, e, now), RowsAfter(ss, st, e)
  PROVE  Recorded(rt, st, now)
<1>1. SUFFICES ASSUME NEW x \in 1 .. Len(rs)
               PROVE  /\ rt[x].shown <= now
                      /\ rt[x].shown = now => \E i \in 1 .. Len(st) : st[i].run = x
  BY DEF Recorded, HandledRuns, AsBefore
<1>2. CASE x = e.run /\ e.phase = "started"
  BY <1>2 DEF HandledRuns, RowsAfter
<1>3. CASE ~ (x = e.run /\ e.phase = "started")
  <2>1. rt[x].shown = rs[x].shown
    BY <1>3 DEF HandledRuns
  <2>2. QED
    BY <2>1 DEF Recorded, RowsAfter
<1>4. QED
  BY <1>2, <1>3

-----------------------------------------------------------------------------
(***************************************************************************)
(* The actions.  A step changes one run, or none; what it sends is the     *)
(* last status on its way, and what the screen handles the first.          *)
(***************************************************************************)
LEMMA RunChanges ==
  ASSUME NEW rs \in Seq(Run), NEW r \in 1 .. Len(rs), NEW run \in Run,
         NEW rt, rt = [rs EXCEPT ![r] = run]
  PROVE  /\ rt \in Seq(Run) /\ Len(rt) = Len(rs) /\ rt[r] = run
         /\ \A x \in 1 .. Len(rs) : x # r => rt[x] = rs[x]
BY ExceptSeq

LEMMA SinkSends ==
  ASSUME TypeOK, NEW r \in 1 .. Len(runs), NEW phase, NEW event,
         phase \in { "started", "event", "finished", "failed" }, event \in 0 .. MaxInner,
         Sink(r, phase, event), received' = received
  PROVE  /\ channel' \in Seq(Status) /\ Len(channel') <= SinkCap
         /\ ~ TopLevel(r) => Coming' = Coming
         /\ TopLevel(r) => Grown(Coming, Coming', [run |-> r, phase |-> phase, event |-> event])
<1>1. PICK e : e = [run |-> r, phase |-> phase, event |-> event]
  OBVIOUS
<1>2. e \in Status
  <2>1. r \in 1 .. MaxRuns
    BY ComingType, BoundsAssumption DEF TypeOK
  <2>2. QED
    BY <1>1, <2>1 DEF Status
<1>3. CASE TopLevel(r)
  <2>1. Len(channel) < SinkCap /\ channel' = Append(channel, e)
    BY <1>1, <1>3 DEF Sink
  <2>2. channel \in Seq(Status) /\ Len(channel) \in Nat
    BY LenProperties DEF TypeOK
  <2>3. PICK c : c = Append(channel, e)
    OBVIOUS
  <2>4. c \in Seq(Status) /\ Len(c) = Len(channel) + 1
    BY <1>2, <2>2, <2>3, Appended DEF Grown
  <2>5. Len(c) <= SinkCap
    BY <2>1, <2>2, <2>4, BoundsAssumption
  <2>6. Grown(Coming, Coming', e)
    BY <1>2, <2>1, ComingGrows
  <2>7. QED
    BY <1>1, <1>3, <2>1, <2>3, <2>4, <2>5, <2>6, Zenon
<1>4. CASE ~ TopLevel(r)
  <2>1. channel' = channel
    BY <1>4 DEF Sink
  <2>2. Coming' = Coming
    BY <2>1 DEF Coming
  <2>3. QED
    BY <1>4, <2>1, <2>2 DEF TypeOK
<1>5. QED
  BY <1>3, <1>4

\* The invariant without the types of the channel, for a run that changes.
LEMMA RunSteps ==
  ASSUME IInv, NEW r \in 1 .. Len(runs), NEW run \in Run, runs' = [runs EXCEPT ![r] = run],
         run.depth = runs[r].depth, run.shown = runs[r].shown,
         UNCHANGED << received, streaming, session, subs >>,
         channel' \in Seq(Status), Len(channel') <= SinkCap,
         \/ Silent(runs, runs', r) /\ Coming' = Coming
         \/ \E e : Sends(runs, runs', Coming, Coming', r, e)
  PROVE  IInv'
<1>1. /\ TypeOK /\ Told(runs, Coming, subs) /\ Numbered(runs, Coming, subs, session)
      /\ Recorded(runs, subs, session)
  BY DEF IInv
<1>2. /\ runs' \in Seq(Run) /\ Len(runs') = Len(runs) /\ runs'[r] = run
      /\ \A x \in 1 .. Len(runs) : x # r => runs'[x] = runs[x]
  <2>1. runs \in Seq(Run)
    BY <1>1 DEF TypeOK
  <2>2. QED
    BY <2>1, RunChanges
<1>3. TypeOK'
  BY <1>1, <1>2 DEF TypeOK
<1>4. Counts(runs)
  <2>1. \A x \in 1 .. Len(runs) : runs[x] \in Run
    BY <1>1, ComingType
  <2>2. \A x \in 1 .. Len(runs) : runs[x].inner \in 0 .. MaxInner /\ runs[x].shown \in 0 .. MaxSessions
    BY <2>1 DEF Run
  <2>3. QED
    BY <2>2, BoundsAssumption DEF Counts
<1>5. Told(runs', Coming', subs) /\ Numbered(runs', Coming', subs, session)
  <2>1. CASE Silent(runs, runs', r) /\ Coming' = Coming
    BY <1>1, <2>1, SilentTold, SilentNumbered
  <2>2. CASE \E e : Sends(runs, runs', Coming, Coming', r, e)
    BY <1>1, <1>4, <2>2, SendTold, SendNumbered
  <2>3. QED
    BY <2>1, <2>2
<1>6. Recorded(runs', subs, session)
  <2>1. \A x \in 1 .. Len(runs) : runs'[x].shown = runs[x].shown
    BY <1>2
  <2>2. QED
    BY <1>1, <1>2, <2>1 DEF Recorded
<1>7. QED
  BY <1>3, <1>5, <1>6 DEF IInv

\* A run that is not at the top sends nothing.
LEMMA DeeperSteps ==
  ASSUME IInv, NEW r \in 1 .. Len(runs), NEW run \in Run, runs' = [runs EXCEPT ![r] = run],
         run.depth = runs[r].depth, run.shown = runs[r].shown, RunSound(run), ~ TopLevel(r)
  PROVE  Silent(runs, runs', r)
<1>1. runs \in Seq(Run)
  BY DEF IInv, TypeOK
<1>2. /\ Len(runs') = Len(runs) /\ runs'[r] = run
      /\ \A x \in 1 .. Len(runs) : x # r => runs'[x] = runs[x]
  BY <1>1, RunChanges
<1>3. QED
  BY <1>2 DEF Silent, OnlyChanges, TopLevel

LEMMA AnnounceStep ==
  ASSUME IInv, NEW r \in 1 .. Len(runs), Announce(r)
  PROVE  IInv'
<1>1. /\ runs[r] \in Run /\ runs \in Seq(Run) /\ RunSound(runs[r]) /\ TypeOK
      /\ DOMAIN runs = 1 .. Len(runs)
  BY ComingType DEF IInv, Told, RunsSound
<1>2. PICK run : run = [runs[r] EXCEPT !.at = "announced"]
  OBVIOUS
<1>3. /\ run \in Run /\ run.depth = runs[r].depth /\ run.shown = runs[r].shown
      /\ run.at = "announced" /\ run.outcome = runs[r].outcome /\ run.inner = runs[r].inner
  BY <1>1, <1>2 DEF Run
<1>4. /\ runs[r].at = "called" /\ Sink(r, "started", 0)
      /\ runs' = [runs EXCEPT ![r] = run] /\ UNCHANGED << received, streaming, session, subs >>
  BY <1>2 DEF Announce
<1>5. RunSound(run)
  BY <1>1, <1>3, <1>4 DEF RunSound
<1>6. PICK e : e = [run |-> r, phase |-> "started", event |-> 0]
  OBVIOUS
<1>7. /\ channel' \in Seq(Status) /\ Len(channel') <= SinkCap
      /\ ~ TopLevel(r) => Coming' = Coming
      /\ TopLevel(r) => Grown(Coming, Coming', e)
  <2>1. 0 \in 0 .. MaxInner
    BY BoundsAssumption
  <2>2. QED
    BY <1>1, <1>4, <1>6, <2>1, SinkSends
<1>8. CASE TopLevel(r)
  <2>1. /\ Len(runs') = Len(runs) /\ runs'[r] = run
        /\ \A x \in 1 .. Len(runs) : x # r => runs'[x] = runs[x]
    BY <1>1, <1>3, <1>4, RunChanges
  <2>2. e.run = r /\ e.phase = "started"
    BY <1>6
  <2>3. Sends(runs, runs', Coming, Coming', r, e)
    BY <1>3, <1>4, <1>7, <1>8, <2>1, <2>2 DEF Sends, OnlyChanges, TopLevel
  <2>4. QED
    BY <1>3, <1>4, <1>7, <2>3, RunSteps
<1>9. CASE ~ TopLevel(r)
  <2>1. Silent(runs, runs', r)
    BY <1>3, <1>4, <1>5, <1>9, DeeperSteps
  <2>2. QED
    BY <1>3, <1>4, <1>7, <1>9, <2>1, RunSteps
<1>10. QED
  BY <1>8, <1>9

LEMMA BuildStep ==
  ASSUME IInv, NEW r \in 1 .. Len(runs), Build(r)
  PROVE  IInv'
<1>1. /\ runs[r] \in Run /\ runs \in Seq(Run) /\ TypeOK /\ DOMAIN runs = 1 .. Len(runs)
  BY ComingType DEF IInv
<1>2. PICK run : run = IF runs[r].persona \in Broken
                       THEN [runs[r] EXCEPT !.at = "ended", !.outcome = "unbuilt"]
                       ELSE [runs[r] EXCEPT !.at = "running"]
  OBVIOUS
<1>3. /\ run \in Run /\ run.depth = runs[r].depth /\ run.shown = runs[r].shown
      /\ run.inner = runs[r].inner
      /\ \/ run.at = "ended" /\ run.outcome = "unbuilt"
         \/ run.at = "running" /\ run.outcome = runs[r].outcome
  BY <1>1, <1>2 DEF Run
<1>4. /\ runs[r].at = "announced" /\ runs' = [runs EXCEPT ![r] = run]
      /\ UNCHANGED << channel, received, streaming, session, subs >>
  BY <1>1, <1>2 DEF Build
<1>5. /\ Len(runs') = Len(runs) /\ runs'[r] = run
      /\ \A x \in 1 .. Len(runs) : x # r => runs'[x] = runs[x]
  BY <1>1, <1>3, <1>4, RunChanges
<1>6. Silent(runs, runs', r)
  BY <1>3, <1>4, <1>5 DEF Silent, OnlyChanges
<1>7. channel' \in Seq(Status) /\ Len(channel') <= SinkCap /\ Coming' = Coming
  BY <1>1, <1>4 DEF TypeOK, Coming
<1>8. QED
  BY <1>3, <1>4, <1>6, <1>7, RunSteps

LEMMA YieldStep ==
  ASSUME IInv, NEW r \in 1 .. Len(runs), Yield(r)
  PROVE  IInv'
<1>1. /\ runs[r] \in Run /\ runs \in Seq(Run) /\ RunSound(runs[r]) /\ TypeOK
      /\ DOMAIN runs = 1 .. Len(runs)
  BY ComingType DEF IInv, Told, RunsSound
<1>2. PICK n \in 0 .. MaxInner : n = runs[r].inner
  BY <1>1 DEF Run
<1>3. n < MaxInner /\ n + 1 \in 1 .. MaxInner /\ n + 1 \in 0 .. MaxInner
  BY <1>2, BoundsAssumption DEF Yield
<1>4. PICK run : run = [runs[r] EXCEPT !.inner = n + 1]
  OBVIOUS
<1>5. /\ run \in Run /\ run.depth = runs[r].depth /\ run.shown = runs[r].shown
      /\ run.at = runs[r].at /\ run.outcome = runs[r].outcome /\ run.inner = n + 1
  BY <1>1, <1>3, <1>4 DEF Run
<1>6. /\ runs[r].at = "running" /\ Sink(r, "event", runs'[r].inner)
      /\ runs' = [runs EXCEPT ![r] = run] /\ UNCHANGED << received, streaming, session, subs >>
  BY <1>1, <1>2, <1>4 DEF Yield
<1>7. /\ Len(runs') = Len(runs) /\ runs'[r] = run
      /\ \A x \in 1 .. Len(runs) : x # r => runs'[x] = runs[x]
  BY <1>1, <1>5, <1>6, RunChanges
<1>8. RunSound(run)
  BY <1>1, <1>5, <1>6 DEF RunSound
<1>9. PICK e : e = [run |-> r, phase |-> "event", event |-> n + 1]
  OBVIOUS
<1>10. /\ channel' \in Seq(Status) /\ Len(channel') <= SinkCap
       /\ ~ TopLevel(r) => Coming' = Coming
       /\ TopLevel(r) => Grown(Coming, Coming', e)
  <2>1. Sink(r, "event", n + 1)
    BY <1>5, <1>6, <1>7
  <2>2. QED
    BY <1>1, <1>3, <1>6, <1>9, <2>1, SinkSends
<1>11. CASE TopLevel(r)
  <2>1. e.run = r /\ e.phase = "event" /\ e.event = n + 1
    BY <1>9
  <2>2. /\ runs'[r].at = "running" /\ runs'[r].outcome = runs[r].outcome
        /\ runs'[r].inner = runs[r].inner + 1 /\ e.event = runs'[r].inner
        /\ e.event \in 1 .. MaxInner
    BY <1>2, <1>3, <1>5, <1>6, <1>7, <2>1
  <2>3. Sends(runs, runs', Coming, Coming', r, e)
    BY <1>5, <1>6, <1>7, <1>10, <1>11, <2>1, <2>2 DEF Sends, OnlyChanges, TopLevel
  <2>4. QED
    BY <1>5, <1>6, <1>10, <2>3, RunSteps
<1>12. CASE ~ TopLevel(r)
  <2>1. Silent(runs, runs', r)
    BY <1>5, <1>6, <1>8, <1>12, DeeperSteps
  <2>2. QED
    BY <1>5, <1>6, <1>10, <1>12, <2>1, RunSteps
<1>13. QED
  BY <1>11, <1>12

LEMMA FinishStep ==
  ASSUME IInv, NEW r \in 1 .. Len(runs), NEW answered \in BOOLEAN, Finish(r, answered)
  PROVE  IInv'
<1>1. /\ runs[r] \in Run /\ runs \in Seq(Run) /\ TypeOK /\ DOMAIN runs = 1 .. Len(runs)
  BY ComingType DEF IInv
<1>2. PICK phase \in { "finished", "failed" } :
        phase = IF answered THEN "finished" ELSE "failed"
  OBVIOUS
<1>3. PICK outcome \in { "answered", "failed" } :
        /\ outcome = IF answered THEN "answered" ELSE "failed"
        /\ outcome = IF phase = "finished" THEN "answered" ELSE "failed"
  BY <1>2
<1>4. PICK run : run = [runs[r] EXCEPT !.at = "ended", !.outcome = outcome]
  OBVIOUS
<1>5. /\ run \in Run /\ run.depth = runs[r].depth /\ run.shown = runs[r].shown
      /\ run.at = "ended" /\ run.outcome = outcome /\ run.inner = runs[r].inner
  BY <1>1, <1>3, <1>4 DEF Run
<1>6. /\ runs[r].at = "running" /\ Sink(r, phase, 0)
      /\ runs' = [runs EXCEPT ![r] = run] /\ UNCHANGED << received, streaming, session, subs >>
  <2>1. runs[r].at = "running" /\ UNCHANGED << received, streaming, session, subs >>
    BY DEF Finish
  <2>2. Sink(r, phase, 0)
    BY <1>2, Zenon DEF Finish
  <2>3. runs' = [runs EXCEPT ![r].at = "ended", ![r].outcome = outcome]
    BY <1>3, Zenon DEF Finish
  <2>4. QED
    BY <1>1, <1>4, <2>1, <2>2, <2>3
<1>7. RunSound(run)
  BY <1>5 DEF RunSound
<1>8. PICK e : e = [run |-> r, phase |-> phase, event |-> 0]
  OBVIOUS
<1>9. /\ channel' \in Seq(Status) /\ Len(channel') <= SinkCap
      /\ ~ TopLevel(r) => Coming' = Coming
      /\ TopLevel(r) => Grown(Coming, Coming', e)
  <2>1. 0 \in 0 .. MaxInner
    BY BoundsAssumption
  <2>2. QED
    BY <1>1, <1>6, <1>8, <2>1, SinkSends
<1>10. CASE TopLevel(r)
  <2>1. /\ Len(runs') = Len(runs) /\ runs'[r] = run
        /\ \A x \in 1 .. Len(runs) : x # r => runs'[x] = runs[x]
    BY <1>1, <1>5, <1>6, RunChanges
  <2>2. e.run = r /\ e.phase = phase /\ e.phase \in Ends
    BY <1>8 DEF Ends
  <2>3. Sends(runs, runs', Coming, Coming', r, e)
    BY <1>3, <1>5, <1>6, <1>9, <1>10, <2>1, <2>2 DEF Sends, OnlyChanges, TopLevel
  <2>4. QED
    BY <1>5, <1>6, <1>9, <2>3, RunSteps
<1>11. CASE ~ TopLevel(r)
  <2>1. Silent(runs, runs', r)
    BY <1>5, <1>6, <1>7, <1>11, DeeperSteps
  <2>2. QED
    BY <1>5, <1>6, <1>9, <1>11, <2>1, RunSteps
<1>12. QED
  BY <1>10, <1>11

LEMMA CallStep ==
  ASSUME IInv, NEW caller \in 0 .. Len(runs), NEW persona \in Personas, Call(caller, persona)
  PROVE  IInv'
<1>1. /\ TypeOK /\ runs \in Seq(Run) /\ Len(runs) \in Nat
      /\ \A r \in 1 .. Len(runs) : runs[r] \in Run
  BY ComingType DEF IInv
<1>2. PICK run : run = [parent |-> caller, persona |-> persona, depth |-> DepthOf(caller),
                        at |-> "called", shown |-> 0, inner |-> 0, outcome |-> "none"]
  OBVIOUS
<1>3. /\ Len(runs) < MaxRuns /\ DepthOf(caller) < MaxSubAgentDepth
      /\ runs' = Append(runs, run) /\ UNCHANGED << channel, received, streaming, session, subs >>
  BY <1>2 DEF Call
<1>4. DepthOf(caller) \in 0 .. MaxSubAgentDepth - 1
  <2>1. CASE caller = Main
    BY <1>3, <2>1, BoundsAssumption DEF DepthOf, Main
  <2>2. CASE caller # Main
    <3>1. caller \in 1 .. Len(runs)
      BY <1>1, <2>2 DEF Main
    <3>2. runs[caller].depth \in 0 .. MaxSubAgentDepth - 1
      BY <1>1, <3>1 DEF Run
    <3>3. DepthOf(caller) = runs[caller].depth + 1
      BY <2>2 DEF DepthOf
    <3>4. QED
      BY <1>3, <3>2, <3>3, BoundsAssumption
  <2>3. QED
    BY <2>1, <2>2
<1>5. run \in Run
  <2>1. caller \in 0 .. MaxRuns /\ 0 \in 0 .. MaxSessions /\ 0 \in 0 .. MaxInner
    BY <1>1, <1>3, BoundsAssumption
  <2>2. QED
    BY <1>2, <1>4, <2>1 DEF Run
<1>6. PICK rt : rt = Append(runs, run)
  OBVIOUS
<1>7. rt \in Seq(Run) /\ Grown(runs, rt, run)
  BY <1>1, <1>5, <1>6, Appended
<1>8. /\ Len(rt) = Len(runs) + 1 /\ rt[Len(runs) + 1] = run
      /\ \A x \in 1 .. Len(runs) : rt[x] = runs[x]
  BY <1>7 DEF Grown
<1>9. runs' = rt /\ Coming' = Coming
  BY <1>3, <1>6 DEF Coming
<1>10. TypeOK'
  <2>1. Len(rt) <= MaxRuns
    BY <1>1, <1>3, <1>8, BoundsAssumption
  <2>2. QED
    BY <1>1, <1>3, <1>7, <1>9, <2>1 DEF TypeOK
<1>11. Told(runs', Coming', subs')
  <2>1. Told(rt, Coming, subs)
    BY <1>2, <1>7, CallTold DEF IInv
  <2>2. QED
    BY <1>3, <1>9, <2>1
<1>12. Numbered(runs', Coming', subs', session')
  <2>1. Numbered(rt, Coming, subs, session)
    BY <1>2, <1>7, CallNumbered DEF IInv
  <2>2. QED
    BY <1>3, <1>9, <2>1
<1>13. Recorded(runs', subs', session')
  <2>1. session \in Nat /\ session # 0
    BY <1>1, BoundsAssumption DEF TypeOK
  <2>2. Recorded(rt, subs, session)
    <3>1. SUFFICES ASSUME NEW x \in 1 .. Len(rt)
                   PROVE  /\ rt[x].shown <= session
                          /\ rt[x].shown = session => \E i \in 1 .. Len(subs) : subs[i].run = x
      BY DEF Recorded
    <3>2. CASE x \in 1 .. Len(runs)
      BY <1>8, <3>2 DEF IInv, Recorded
    <3>3. CASE x = Len(runs) + 1
      <4>1. rt[x].shown = 0
        BY <1>2, <1>8, <3>3
      <4>2. QED
        BY <2>1, <4>1
    <3>4. QED
      BY <1>1, <1>8, <3>2, <3>3
  <2>3. QED
    BY <1>3, <1>9, <2>2
<1>14. QED
  BY <1>10, <1>11, <1>12, <1>13 DEF IInv

LEMMA LeaveStep ==
  ASSUME IInv, LeaveSession
  PROVE  IInv'
<1>1. /\ session < MaxSessions /\ session' = session + 1 /\ subs' = << >>
      /\ runs' = runs /\ channel' = channel /\ received' = received /\ streaming' = streaming
  BY DEF LeaveSession
<1>2. TypeOK /\ session \in Nat /\ Coming' = Coming
  BY <1>1, BoundsAssumption DEF IInv, TypeOK, Coming
<1>3. << >> \in Seq(Record) /\ Len(<< >>) = 0
  BY EmptySeq
<1>4. TypeOK'
  <2>1. session + 1 \in 1 .. MaxSessions
    BY <1>1, <1>2, BoundsAssumption
  <2>2. QED
    BY <1>1, <1>2, <1>3, <2>1 DEF TypeOK
<1>5. Told(runs, Coming, << >>)
  BY <1>3 DEF IInv, Told, RowsSound
<1>6. Numbered(runs, Coming, << >>, session + 1)
  BY <1>3 DEF IInv, Numbered
<1>7. Recorded(runs, << >>, session + 1)
  <2>1. \A r \in 1 .. Len(runs) : runs[r].shown \in Nat /\ runs[r].shown <= session
    <3>1. \A r \in 1 .. Len(runs) : runs[r].shown \in 0 .. MaxSessions
      BY <1>2, ComingType DEF Run
    <3>2. QED
      BY <3>1, BoundsAssumption DEF IInv, Recorded
  <2>2. \A r \in 1 .. Len(runs) : runs[r].shown <= session + 1 /\ runs[r].shown # session + 1
    BY <1>2, <2>1
  <2>3. QED
    BY <2>2 DEF Recorded
<1>8. QED
  BY <1>1, <1>2, <1>4, <1>5, <1>6, <1>7 DEF IInv

LEMMA ReceiveStep ==
  ASSUME IInv, Receive
  PROVE  IInv'
<1>1. /\ received = << >> /\ channel # << >> /\ received' = << Head(channel) >>
      /\ channel' = Tail(channel) /\ UNCHANGED << runs, streaming, session, subs >>
  BY DEF Receive
<1>2. TypeOK /\ channel \in Seq(Status) /\ Len(channel) \in Nat /\ Len(channel) <= SinkCap
  BY LenProperties DEF IInv, TypeOK
<1>3. PICK c : c = Tail(channel)
  OBVIOUS
<1>4. c \in Seq(Status) /\ Head(channel) \in Status /\ Len(channel) = Len(c) + 1 /\ Len(c) \in Nat
  BY <1>1, <1>2, <1>3, Headless DEF Beheaded
<1>5. Len(c) <= SinkCap
  BY <1>2, <1>4, BoundsAssumption
<1>6. received' \in Seq(Status) /\ Len(received') <= 1
  <2>1. PICK h \in Status : h = Head(channel)
    BY <1>4
  <2>2. << h >> \in Seq(Status) /\ Len(<< h >>) <= 1
    OBVIOUS
  <2>3. QED
    BY <1>1, <2>1, <2>2
<1>7. TypeOK'
  BY <1>1, <1>2, <1>3, <1>4, <1>5, <1>6 DEF TypeOK
<1>8. Coming' = Coming
  BY <1>2, ComingReceived
<1>9. QED
  BY <1>1, <1>7, <1>8 DEF IInv

\* What a status makes of the record of its run.
LEMMA UpdatedRow ==
  ASSUME NEW rec \in Record, NEW st \in Status, rec.run = st.run,
         st.phase = "event" => st.event \in 1 .. MaxInner
  PROVE  Updated(rec, st) \in Record /\ RowAfter(rec, st, Updated(rec, st))
<1>1. /\ st.phase \in { "started", "event", "finished", "failed" }
      /\ rec.running \in BOOLEAN /\ rec.failed \in BOOLEAN /\ rec.inner \in Seq(1 .. MaxInner)
  BY DEF Record, Status
<1>2. PICK new : new = Updated(rec, st)
  OBVIOUS
<1>3. CASE st.phase = "started"
  <2>1. new = [rec EXCEPT !.running = TRUE]
    BY <1>2, <1>3 DEF Updated
  <2>2. /\ new \in Record /\ new.run = rec.run /\ new.running = TRUE
        /\ new.failed = rec.failed /\ new.inner = rec.inner
    BY <2>1 DEF Record
  <2>3. RowAfter(rec, st, new)
    BY <1>1, <1>3, <2>2 DEF RowAfter
  <2>4. QED
    BY <1>2, <2>2, <2>3
<1>4. CASE st.phase = "event"
  <2>1. new = [rec EXCEPT !.inner = Append(rec.inner, st.event)]
    BY <1>2, <1>4 DEF Updated
  <2>2. PICK t : t = Append(rec.inner, st.event)
    OBVIOUS
  <2>3. t \in Seq(1 .. MaxInner)
    BY <1>1, <1>4, <2>2, Appended
  <2>4. /\ new \in Record /\ new.run = rec.run /\ new.running = rec.running
        /\ new.failed = rec.failed /\ new.inner = t
    BY <2>1, <2>2, <2>3 DEF Record
  <2>5. RowAfter(rec, st, new)
    BY <1>1, <1>4, <2>2, <2>4 DEF RowAfter
  <2>6. QED
    BY <1>2, <2>4, <2>5
<1>5. CASE st.phase = "finished"
  <2>1. new = [rec EXCEPT !.running = FALSE]
    BY <1>2, <1>5 DEF Updated
  <2>2. /\ new \in Record /\ new.run = rec.run /\ new.running = FALSE
        /\ new.failed = rec.failed /\ new.inner = rec.inner
    BY <2>1 DEF Record
  <2>3. RowAfter(rec, st, new)
    BY <1>1, <1>5, <2>2 DEF RowAfter
  <2>4. QED
    BY <1>2, <2>2, <2>3
<1>6. CASE st.phase = "failed"
  <2>1. new = [rec EXCEPT !.running = FALSE, !.failed = TRUE]
    BY <1>2, <1>6 DEF Updated
  <2>2. /\ new \in Record /\ new.run = rec.run /\ new.running = FALSE
        /\ new.failed = TRUE /\ new.inner = rec.inner
    BY <2>1 DEF Record
  <2>3. RowAfter(rec, st, new)
    BY <1>1, <1>6, <2>2 DEF RowAfter
  <2>4. QED
    BY <1>2, <2>2, <2>3
<1>7. QED
  BY <1>1, <1>3, <1>4, <1>5, <1>6

\* handleSubAgent finds the record of the run or makes one, and updates it.
LEMMA RecordsAfter ==
  ASSUME TypeOK, Handle, NEW st \in Status, st = Head(received),
         st.phase = "event" => st.event \in 1 .. MaxInner
  PROVE  subs' \in Seq(Record) /\ RowsAfter(subs, subs', st)
<1>1. /\ subs \in Seq(Record) /\ Len(subs) \in Nat /\ DOMAIN subs = 1 .. Len(subs)
      /\ \A i \in 1 .. Len(subs) : subs[i] \in Record
  BY ComingType
<1>2. PICK fresh : fresh = [run |-> st.run, running |-> FALSE, failed |-> FALSE, inner |-> << >>]
  OBVIOUS
<1>3. PICK known : known = { i \in 1 .. Len(subs) : subs[i].run = st.run }
  OBVIOUS
<1>4. subs' = IF known = {} THEN Append(subs, Updated(fresh, st))
              ELSE [i \in 1 .. Len(subs) |-> IF i \in known THEN Updated(subs[i], st) ELSE subs[i]]
  BY <1>1, <1>2, <1>3, Zenon DEF Handle
<1>5. CASE known = {}
  <2>1. fresh \in Record /\ fresh.run = st.run /\ Fresh(fresh)
    <3>1. << >> \in Seq(1 .. MaxInner)
      BY EmptySeq
    <3>2. QED
      BY <1>2, <3>1 DEF Record, Fresh, Status
  <2>2. PICK row \in Record : row = Updated(fresh, st) /\ RowAfter(fresh, st, row)
    BY <2>1, UpdatedRow
  <2>3. PICK t : t = Append(subs, row)
    OBVIOUS
  <2>4. /\ t \in Seq(Record) /\ Len(t) = Len(subs) + 1 /\ t[Len(subs) + 1] = row
        /\ \A k \in 1 .. Len(subs) : t[k] = subs[k]
    BY <1>1, <2>3, Appended DEF Grown
  <2>5. subs' = t
    BY <1>4, <1>5, <2>2, <2>3, Zenon
  <2>6. Unreported(subs, st.run)
    BY <1>3, <1>5 DEF Unreported
  <2>7. RowsAfter(subs, t, st)
    <3>1. ASSUME NEW i \in 1 .. Len(t)
          PROVE  \/ \E j \in 1 .. Len(subs) : t[i] = subs[j] /\ subs[j].run # st.run
                 \/ \E old : Fresh(old) /\ RowAfter(old, st, t[i])
      <4>1. CASE i \in 1 .. Len(subs)
        BY <2>4, <2>6, <4>1 DEF Unreported
      <4>2. CASE i = Len(subs) + 1
        BY <2>1, <2>2, <2>4, <4>2
      <4>3. QED
        BY <1>1, <2>4, <4>1, <4>2
    <3>2. row.run = st.run
      BY <2>2 DEF RowAfter
    <3>3. Len(subs) + 1 \in 1 .. Len(t) /\ \A j \in 1 .. Len(subs) : j \in 1 .. Len(t)
      BY <1>1, <2>4
    <3>4. /\ \E i \in 1 .. Len(t) : t[i].run = st.run
          /\ \A j \in 1 .. Len(subs) : \E i \in 1 .. Len(t) : t[i].run = subs[j].run
      BY <2>4, <3>2, <3>3
    <3>5. QED
      BY <2>6, <3>1, <3>4 DEF RowsAfter
  <2>8. QED
    BY <2>4, <2>5, <2>7
<1>6. CASE known # {}
  <2>1. PICK t : t = [i \in 1 .. Len(subs) |-> IF i \in known THEN Updated(subs[i], st) ELSE subs[i]]
    OBVIOUS
  <2>2. subs' = t
    BY <1>4, <1>6, <2>1, Zenon
  <2>3. ASSUME NEW i \in 1 .. Len(subs)
        PROVE  /\ t[i] \in Record
               /\ IF subs[i].run = st.run THEN RowAfter(subs[i], st, t[i]) ELSE t[i] = subs[i]
    <3>1. t[i] = IF i \in known THEN Updated(subs[i], st) ELSE subs[i]
      BY <2>1
    <3>2. CASE subs[i].run = st.run
      <4>1. t[i] = Updated(subs[i], st)
        BY <1>3, <3>1, <3>2
      <4>2. QED
        BY <1>1, <3>2, <4>1, UpdatedRow
    <3>3. CASE subs[i].run # st.run
      BY <1>1, <1>3, <3>1, <3>3
    <3>4. QED
      BY <3>2, <3>3
  <2>4. DOMAIN t = 1 .. Len(subs)
    BY <2>1
  <2>5. t \in [1 .. Len(subs) -> Record]
    <3>1. t = [i \in 1 .. Len(subs) |-> t[i]]
      BY <2>1, <2>4
    <3>2. QED
      BY <2>3, <3>1
  <2>6. t \in Seq(Record) /\ Len(t) = Len(subs)
    BY <1>1, <2>5
  <2>7. RowsAfter(subs, t, st)
    <3>1. PICK l \in 1 .. Len(subs) : subs[l].run = st.run
      BY <1>3, <1>6
    <3>2. \A i \in 1 .. Len(subs) : t[i].run = subs[i].run
      BY <2>3 DEF RowAfter
    <3>3. QED
      BY <2>3, <2>6, <3>1, <3>2 DEF RowsAfter
  <2>8. QED
    BY <2>2, <2>6, <2>7
<1>7. QED
  BY <1>5, <1>6

LEMMA HandleStep ==
  ASSUME IInv, Handle
  PROVE  IInv'
<1>1. /\ TypeOK /\ Told(runs, Coming, subs) /\ Numbered(runs, Coming, subs, session)
      /\ Recorded(runs, subs, session)
  BY DEF IInv
<1>2. /\ runs \in Seq(Run) /\ Len(runs) \in Nat /\ \A r \in 1 .. Len(runs) : runs[r] \in Run
      /\ \A i \in 1 .. Len(subs) : subs[i] \in Record
  BY <1>1, ComingType
<1>3. received # << >> /\ received' = << >> /\ UNCHANGED << channel, streaming, session >>
  BY DEF Handle
<1>4. PICK st \in Status : st = Head(received) /\ Beheaded(Coming, Coming', st)
  BY <1>1, <1>3, ComingHandled
<1>5. st.phase \in { "started", "event", "finished", "failed" }
  BY DEF Status
<1>6. Truthful(runs, st)
  BY <1>1, <1>4 DEF Told, Sent, Beheaded
<1>7. PICK r \in 1 .. Len(runs) : r = st.run
  BY <1>6 DEF Truthful
<1>8. subs' \in Seq(Record) /\ RowsAfter(subs, subs', st)
  BY <1>1, <1>4, <1>6, RecordsAfter DEF Truthful
<1>9. runs' \in Seq(Run) /\ HandledRuns(runs, runs', st, session)
  <2>1. CASE st.phase = "started"
    <3>1. runs' = [runs EXCEPT ![r].shown = session]
      BY <1>4, <1>7, <2>1, Zenon DEF Handle
    <3>2. PICK run : run = [runs[r] EXCEPT !.shown = session]
      OBVIOUS
    <3>3. /\ run \in Run /\ run.depth = runs[r].depth /\ run.at = runs[r].at
          /\ run.outcome = runs[r].outcome /\ run.inner = runs[r].inner /\ run.shown = session
      <4>1. session \in 0 .. MaxSessions
        BY <1>1, BoundsAssumption DEF TypeOK
      <4>2. QED
        BY <1>2, <3>2, <4>1 DEF Run
    <3>4. runs' = [runs EXCEPT ![r] = run]
      BY <1>2, <3>1, <3>2
    <3>5. /\ runs' \in Seq(Run) /\ Len(runs') = Len(runs) /\ runs'[r] = run
          /\ \A x \in 1 .. Len(runs) : x # r => runs'[x] = runs[x]
      BY <1>2, <3>3, <3>4, RunChanges
    <3>6. QED
      BY <1>7, <2>1, <3>3, <3>5 DEF HandledRuns, AsBefore
  <2>2. CASE st.phase # "started"
    <3>1. runs' = runs
      BY <1>4, <2>2, Zenon DEF Handle
    <3>2. QED
      BY <1>2, <1>7, <2>2, <3>1 DEF HandledRuns, AsBefore
  <2>3. QED
    BY <2>1, <2>2
<1>10. TypeOK'
  <2>1. Len(runs') = Len(runs)
    BY <1>9 DEF HandledRuns, AsBefore
  <2>2. << >> \in Seq(Status) /\ Len(<< >>) <= 1
    BY EmptySeq
  <2>3. QED
    BY <1>1, <1>3, <1>8, <1>9, <2>1, <2>2 DEF TypeOK
<1>11. Told(runs', Coming', subs')
  BY <1>1, <1>4, <1>5, <1>8, <1>9, HandleTold DEF HandledRuns
<1>12. session \in Nat
  BY <1>1 DEF TypeOK
<1>13. Numbered(runs', Coming', subs', session)
  <2>1. Counts(runs)
    <3>1. \A x \in 1 .. Len(runs) : runs[x].inner \in 0 .. MaxInner /\ runs[x].shown \in 0 .. MaxSessions
      BY <1>2 DEF Run
    <3>2. QED
      BY <3>1, BoundsAssumption DEF Counts
  <2>2. \A j \in 1 .. Len(subs) : subs[j].inner \in Seq(Nat)
    <3>1. \A j \in 1 .. Len(subs) : subs[j].inner \in Seq(1 .. MaxInner)
      BY <1>2 DEF Record
    <3>2. \A s \in Seq(1 .. MaxInner) : s \in Seq(Nat)
      <4>1. SUFFICES ASSUME NEW s \in Seq(1 .. MaxInner) PROVE s \in Seq(Nat)
        OBVIOUS
      <4>2. Len(s) \in Nat /\ s \in [1 .. Len(s) -> 1 .. MaxInner]
        BY LenProperties
      <4>3. s \in [1 .. Len(s) -> Nat]
        BY <4>2
      <4>4. QED
        BY <4>2, <4>3
    <3>3. QED
      BY <3>1, <3>2
  <2>3. QED
    BY <1>1, <1>4, <1>5, <1>8, <1>9, <1>12, <2>1, <2>2, HandleNumbered
<1>14. Recorded(runs', subs', session)
  BY <1>1, <1>8, <1>9, <1>12, HandleRecorded
<1>15. session' = session
  BY <1>3
<1>16. QED
  BY <1>10, <1>11, <1>13, <1>14, <1>15 DEF IInv

-----------------------------------------------------------------------------
(***************************************************************************)
(* The theorems.                                                           *)
(***************************************************************************)
LEMMA Initially == Init => IInv
<1>1. SUFFICES ASSUME Init PROVE IInv
  OBVIOUS
<1>2. /\ runs = << >> /\ channel = << >> /\ received = << >> /\ subs = << >>
      /\ streaming = FALSE /\ session = 1
  BY <1>1 DEF Init
<1>3. Len(<< >>) = 0
  OBVIOUS
<1>4. TypeOK
  <2>1. << >> \in Seq(Run) /\ << >> \in Seq(Status) /\ << >> \in Seq(Record)
    BY EmptySeq
  <2>2. 0 <= MaxRuns /\ 0 <= SinkCap /\ 0 <= 1 /\ 1 \in 1 .. MaxSessions /\ FALSE \in BOOLEAN
    BY BoundsAssumption
  <2>3. QED
    BY <1>2, <1>3, <2>1, <2>2, Zenon DEF TypeOK
<1>5. Coming = << >>
  <2>1. << >> \in Seq(Status)
    BY EmptySeq
  <2>2. QED
    BY <1>2, <2>1, ConcatEmptySeq DEF Coming
<1>6. Told(<< >>, << >>, << >>)
  BY <1>3 DEF Told, Sent, InOrder, EndFollows, RunsSound, RowsSound
<1>7. Numbered(<< >>, << >>, << >>, 1) /\ Recorded(<< >>, << >>, 1)
  BY <1>3 DEF Numbered, Recorded
<1>8. QED
  BY <1>2, <1>4, <1>5, <1>6, <1>7 DEF IInv

LEMMA Inductive ==
  ASSUME IInv, [Next]_vars
  PROVE  IInv'
<1>1. ASSUME UNCHANGED << runs, channel, received, session, subs >>, streaming' \in BOOLEAN
      PROVE  IInv'
  <2>1. Coming' = Coming
    BY <1>1 DEF Coming
  <2>2. TypeOK'
    BY <1>1 DEF IInv, TypeOK
  <2>3. QED
    BY <1>1, <2>1, <2>2 DEF IInv
<1>2. DOMAIN runs = 1 .. Len(runs)
  BY ComingType DEF IInv
<1>3. CASE \E caller \in 0 .. Len(runs), p \in Personas : Call(caller, p)
  BY <1>3, CallStep
<1>4. ASSUME NEW r \in DOMAIN runs,
             \/ Announce(r) \/ Build(r) \/ Yield(r)
             \/ \E answered \in BOOLEAN : Finish(r, answered)
      PROVE  IInv'
  <2>1. r \in 1 .. Len(runs)
    BY <1>2
  <2>2. CASE Announce(r)
    BY <2>1, <2>2, AnnounceStep
  <2>3. CASE Build(r)
    BY <2>1, <2>3, BuildStep
  <2>4. CASE Yield(r)
    BY <2>1, <2>4, YieldStep
  <2>5. CASE \E answered \in BOOLEAN : Finish(r, answered)
    BY <2>1, <2>5, FinishStep
  <2>6. QED
    BY <1>4, <2>2, <2>3, <2>4, <2>5
<1>5. CASE StartTurn
  BY <1>1, <1>5 DEF StartTurn
<1>6. CASE EndTurn
  BY <1>1, <1>6 DEF EndTurn
<1>7. CASE LeaveSession
  BY <1>7, LeaveStep
<1>8. CASE Receive
  BY <1>8, ReceiveStep
<1>9. CASE Handle
  BY <1>9, HandleStep
<1>10. CASE UNCHANGED vars
  BY <1>1, <1>10 DEF vars, IInv, TypeOK
<1>11. QED
  BY <1>3, <1>4, <1>5, <1>6, <1>7, <1>8, <1>9, <1>10 DEF Next

LEMMA Invariant == Spec => []IInv
<1>1. Init => IInv
  BY Initially
<1>2. IInv /\ [Next]_vars => IInv'
  BY Inductive
<1>3. QED
  BY <1>1, <1>2, PTL DEF Spec

LEMMA RowsMatch == IInv => RowsMatchRuns
<1>1. SUFFICES ASSUME IInv, NEW i \in DOMAIN subs
               PROVE  /\ subs[i].running =>
                           \/ Live(subs[i].run)
                           \/ runs[subs[i].run].outcome = "unbuilt"
                           \/ \E k \in Of(subs[i].run) : Coming[k].phase \in Ends
                      /\ (~subs[i].running /\ ~Live(subs[i].run) /\ Of(subs[i].run) = {}) =>
                           (subs[i].failed <=> runs[subs[i].run].outcome # "answered")
  BY DEF RowsMatchRuns
<1>2. RowSound(runs, Coming, subs[i])
  BY <1>1, ComingType DEF IInv, Told, RowsSound
<1>3. Of(subs[i].run) = At(Coming, subs[i].run)
  BY DEF Of, At
<1>4. QED
  BY <1>2, <1>3 DEF RowSound, Live

LEMMA RecordsShow == IInv => RecordsShowRun
<1>1. SUFFICES ASSUME IInv, NEW i \in DOMAIN subs
               PROVE  \E before \in 0 .. MaxInner :
                        /\ ShowsFrom(subs[i], before)
                        /\ runs[subs[i].run].shown = session => before = 0
  BY DEF RecordsShowRun
<1>2. /\ TypeOK /\ i \in 1 .. Len(subs) /\ subs[i] \in Record
      /\ \A x \in 1 .. Len(runs) : runs[x] \in Run
  BY <1>1, ComingType DEF IInv
<1>3. PICK r \in 1 .. Len(runs) : r = subs[i].run /\ runs[r].depth = 0
  BY <1>1, <1>2 DEF IInv, Told, RowsSound, RowSound
<1>4. PICK all \in 0 .. MaxInner : all = runs[r].inner
  BY <1>2 DEF Run
<1>5. PICK m \in Nat :
        /\ LastFrom(runs, Coming, r, m)
        /\ \E before \in Nat : HasUpTo(subs[i], m, before) /\ (runs[r].shown = session => before = 0)
  BY <1>1, <1>2, <1>3 DEF IInv, Numbered
<1>6. PICK before \in Nat : HasUpTo(subs[i], m, before) /\ (runs[r].shown = session => before = 0)
  BY <1>5
<1>7. PICK inner \in Seq(1 .. MaxInner) : inner = subs[i].inner
  BY <1>2 DEF Record
<1>8. PICK n \in Nat : n = Len(inner)
  BY LenProperties
<1>9. m = before + n /\ \A k \in 1 .. n : inner[k] = before + k
  BY <1>6, <1>7, <1>8 DEF HasUpTo
<1>10. m <= all /\ before + n <= all
  BY <1>4, <1>5, <1>9 DEF LastFrom
<1>11. before \in 0 .. MaxInner
  BY <1>10, BoundsAssumption
<1>12. inner = [k \in 1 .. n |-> before + k]
  <2>1. DOMAIN inner = 1 .. n
    BY <1>8, LenProperties
  <2>2. inner = [k \in DOMAIN inner |-> inner[k]]
    OBVIOUS
  <2>3. QED
    BY <1>9, <2>1, <2>2
<1>13. PICK events : events = { k \in Of(subs[i].run) : Coming[k].phase = "event" }
  OBVIOUS
<1>14. events = EventsAt(Coming, r)
  BY <1>3, <1>13 DEF EventsAt, At, Of
<1>15. { Coming[k].event : k \in events } = before + n + 1 .. all
  <2>1. { Coming[k].event : k \in EventsAt(Coming, r) } = m + 1 .. all
    BY <1>4, <1>5 DEF LastFrom
  <2>2. m + 1 = before + n + 1
    BY <1>9
  <2>3. QED
    BY <1>14, <2>1, <2>2
<1>16. \A k, l \in events : k < l => Coming[k].event < Coming[l].event
  BY <1>5, <1>14 DEF LastFrom
<1>17. ShowsFrom(subs[i], before)
  BY <1>3, <1>4, <1>7, <1>8, <1>10, <1>12, <1>13, <1>15, <1>16 DEF ShowsFrom
<1>18. QED
  BY <1>3, <1>6, <1>11, <1>17

\* The variables keep their types, so no event a screen shows has a number its run
\* never reached, and the channel is never over its capacity.  About the sink of
\* startInteractive and run().
THEOREM TypeCorrect == Spec => []TypeOK
<1>1. IInv => TypeOK
  BY DEF IInv
<1>2. QED
  BY <1>1, Invariant, PTL

\* A row never lies about its run, for any tree of runs and any load of the channel:
\* one shown as running has not ended, or its end is on its way, or its agent could
\* not be built; one that stopped says "failed" exactly when the caller of
\* run_subagent got an error.  About subAgentRecord, handleSubAgent and run().
THEOREM RowsTellTruth == Spec => []RowsMatchRuns
<1>1. IInv => RowsMatchRuns
  BY RowsMatch
<1>2. QED
  BY <1>1, Invariant, PTL

\* An expanded block and what is on its way to it are the events of its run, once
\* each and in order, the whole of them when this screen was told of the start, for
\* any number of runs that report at a time.  About subAgentRecord.inner and the
\* channel between run() and waitSubAgent.
THEOREM BlocksAreWhole == Spec => []RecordsShowRun
<1>1. IInv => RecordsShowRun
  BY RecordsShow
<1>2. QED
  BY <1>1, Invariant, PTL
=============================================================================
