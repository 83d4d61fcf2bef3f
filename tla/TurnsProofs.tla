---------------------------- MODULE TurnsProofs ----------------------------
(***************************************************************************)
(* The runs of Turns, who reads them, and what becomes of the prompts the  *)
(* user types, for every number of prompts, of confirmation requests and   *)
(* of sessions, every capacity and all mishaps.                            *)
(*                                                                         *)
(* The invariant of the runs has two parts.  Whatever goes wrong, runs are *)
(* counted: every prompt starts at most one, and every confirmation        *)
(* request one more.  Unless a confirmation was answered early, a run that *)
(* is not on screen has ended, its channel empty and nobody waiting on it, *)
(* and a compression, a run and a question to the user exclude each other. *)
(*                                                                         *)
(* A prompt is in one of four places: sent, held back by a compression,    *)
(* queued, or in the composer.  A step of Turns moves whole messages from  *)
(* one place to another, and there are few ways in which it does: each     *)
(* action is shown to be one of them, and each of them to keep the         *)
(* invariant of the prompts.                                               *)
(***************************************************************************)
EXTENDS Turns, OperatorProofs, FiniteSetTheorems

-----------------------------------------------------------------------------
(***************************************************************************)
(* The invariant.                                                          *)
(***************************************************************************)
Sends == Seq([prompts : Message, session : 1 .. MaxSessions])

One(s) == IF s = << >> THEN 0 ELSE 1
OneIf(b) == IF b THEN 1 ELSE 0

\* The runs whose confirmation request has not been handled.
HasAsked(run) == \E k \in 1 .. Len(run.out) : run.out[k] = "confirm"
Asks(r, p) == HasAsked(p.run[r])
Asking(p) == { r \in 1 .. Len(p.run) : Asks(r, p) }

\* A confirmation request or an error is the last that a run yields.
EndsWell(run) ==
  \A k \in 1 .. Len(run.out) :
    /\ run.out[k] \in {"confirm", "error"} => k = Len(run.out) /\ run.stage # "working"
    /\ run.out[k] = "error" => run.stage = "over"

\* The prompts in hand are at least as many as these.
Weight(model) == One(model.pending) + Len(model.queued) + One(model.composer)

ModelCounted(model, s, t) ==
  /\ Len(s) + Weight(model) <= t
  /\ \A k \in 1 .. Len(model.queued) : model.queued[k] # << >>
RunsCounted(model, p, s, a) ==
  Len(p.run) - Len(s) + OneIf(model.confirming) + Cardinality(Asking(p)) <= a

\* Of t prompts typed and a confirmation requests.
Core(model, p, s, t, a) ==
  /\ model \in Model /\ Len(model.queued) <= QueueCap
  /\ p \in Pump /\ \A r \in 1 .. Len(p.run) : EndsWell(p.run[r])
  /\ s \in Sends
  /\ ModelCounted(model, s, t) /\ RunsCounted(model, p, s, a)

Ended(run) == run.stage = "over" /\ run.out = << >>

\* The run on screen has one waiter, and every other has ended.
Reads(model, r) == model.streaming /\ r = model.adkCh
Alone(model, p) ==
  /\ \A r \in RunIds \cup {NoRun} : p.waiters[r] = OneIf(Reads(model, r))
  /\ \A r \in 1 .. Len(p.run) : ~ Reads(model, r) => Ended(p.run[r])
  /\ model.streaming => model.adkCh \in 1 .. Len(p.run)

Silent(p) ==
  /\ \A r \in RunIds \cup {NoRun} : p.waiters[r] = 0
  /\ \A r \in 1 .. Len(p.run) : Ended(p.run[r])

OneAtATime(model, js) ==
  /\ model.compressing => ~ model.streaming /\ ~ model.confirming
  /\ ~ model.compressing => js = {} /\ model.pending = << >>
  /\ \A j, k \in js : j = k

Job == [n : Nat \ {NoJob}, stopped : BOOLEAN]
Jobs(js) == js \subseteq Job /\ IsFiniteSet(js)

Calm == "early-answer" \notin mishaps

Rest ==
  /\ typed \in 0 .. MaxPrompts /\ asks \in 0 .. MaxAsks
  /\ entered \in [Prompts -> 0 .. MaxSessions]
  /\ dropped \subseteq Prompts
  /\ mishaps \subseteq Trouble

IInv ==
  /\ Core(m, pump, sent, typed, asks) /\ Jobs(jobs) /\ Rest
  /\ Calm => Alone(m, pump) /\ OneAtATime(m, jobs)
-----------------------------------------------------------------------------
(***************************************************************************)
(* Sequences, and the parts of the state.                                  *)
(***************************************************************************)
LEMMA Appended ==
  ASSUME NEW S, NEW s \in Seq(S), NEW e \in S
  PROVE  /\ Append(s, e) \in Seq(S) /\ Len(Append(s, e)) = Len(s) + 1
         /\ \A k \in 1 .. Len(s) : Append(s, e)[k] = s[k]
         /\ Append(s, e)[Len(s) + 1] = e /\ Append(s, e) # << >>
BY AppendProperties

LEMMA Behead ==
  ASSUME NEW S, NEW s \in Seq(S), s # << >>
  PROVE  /\ Len(s) \in Nat \ {0} /\ Head(s) = s[1] /\ Head(s) \in S
         /\ Tail(s) \in Seq(S) /\ Len(Tail(s)) = Len(s) - 1
         /\ \A k \in 1 .. Len(s) - 1 : Tail(s)[k] = s[k + 1]
<1>1. Len(s) \in Nat \ {0} /\ Head(s) = s[1]
  BY EmptySeq
<1>2. /\ Head(s) \in S /\ Tail(s) \in Seq(S) /\ Len(Tail(s)) = Len(s) - 1
      /\ \A k \in 1 .. Len(Tail(s)) : Tail(s)[k] = s[k + 1]
  BY HeadTailProperties
<1>3. QED
  BY <1>1, <1>2

LEMMA Bounds ==
  MaxPrompts \in Nat \ {0} /\ MaxAsks \in Nat /\ MaxSessions \in Nat \ {0} /\ QueueCap \in Nat
BY TurnsAssumption DEF TurnsAssumption

LEMMA Ones == \A s : One(s) \in {0, 1} /\ (One(s) = 0 <=> s = << >>)
BY DEF One

LEMMA OneIfs == \A b \in BOOLEAN : OneIf(b) \in {0, 1} /\ (OneIf(b) = 0 <=> ~ b)
BY DEF OneIf

\* Requests that have not been handled are finite in number, and fewer when a
\* set of them is part of another.
LEMMA AskingFinite ==
  ASSUME NEW p \in Pump
  PROVE  IsFiniteSet(Asking(p)) /\ Cardinality(Asking(p)) \in Nat /\ Len(p.run) \in Nat
<1>1. Len(p.run) \in Nat
  BY LenProperties DEF Pump
<1>2. IsFiniteSet(1 .. Len(p.run))
  BY <1>1, FS_Interval
<1>3. Asking(p) \in SUBSET (1 .. Len(p.run))
  BY DEF Asking
<1>4. IsFiniteSet(Asking(p))
  BY <1>2, <1>3, FS_Subset
<1>5. QED
  BY <1>1, <1>4, FS_CardinalityType

LEMMA AskingFewer ==
  ASSUME NEW p \in Pump, NEW q \in Pump, Asking(q) \subseteq Asking(p)
  PROVE  Cardinality(Asking(q)) <= Cardinality(Asking(p))
BY AskingFinite, FS_Subset

\* Only the fields that are counted matter.
LEMMA CoreCounts ==
  ASSUME NEW model, NEW p, NEW s, NEW t, NEW a, Core(model, p, s, t, a)
  PROVE  /\ Len(s) \in Nat /\ Len(p.run) \in Nat /\ Len(model.queued) \in Nat
         /\ Cardinality(Asking(p)) \in Nat /\ model.confirming \in BOOLEAN
         /\ Weight(model) \in Nat
<1>1. model \in Model /\ p \in Pump /\ s \in Sends
  BY DEF Core
<1>2. Len(s) \in Nat
  BY <1>1, LenProperties DEF Sends
<1>3. Len(model.queued) \in Nat /\ model.confirming \in BOOLEAN
  BY <1>1, LenProperties DEF Model
<1>4. Weight(model) \in Nat
  BY <1>3, Ones DEF Weight
<1>5. QED
  BY <1>1, <1>2, <1>3, <1>4, AskingFinite

-----------------------------------------------------------------------------
(***************************************************************************)
(* A run starts.                                                           *)
(***************************************************************************)
LEMMA StartFields ==
  ASSUME NEW model \in Model, NEW p \in Pump, NEW content \in Message,
         sent \in Sends, Len(p.run) + 1 \in RunIds,
         StartStream(model, p, content)
  PROVE  /\ m' \in Model /\ pump' \in Pump /\ sent' \in Sends
         /\ m'.streaming /\ m'.cancel = Len(p.run) + 1 /\ m'.adkCh = Len(p.run) + 1
         /\ m'.confirming = model.confirming /\ m'.compressing = model.compressing
         /\ m'.queued = model.queued /\ m'.pending = model.pending
         /\ m'.composer = model.composer /\ m'.session = model.session
         /\ Len(sent') = Len(sent) + One(content)
         /\ Len(pump'.run) = Len(p.run) + 1
         /\ \A r \in 1 .. Len(p.run) : pump'.run[r] = p.run[r]
         /\ pump'.run[Len(p.run) + 1] = [stage |-> "working", stopped |-> FALSE, out |-> << >>]
         /\ \A r \in RunIds \cup {NoRun} :
              pump'.waiters[r] = p.waiters[r] + OneIf(r = Len(p.run) + 1)
<1> DEFINE r == Len(p.run) + 1
           fresh == [stage |-> "working", stopped |-> FALSE, out |-> << >>]
<1>1. m' = [model EXCEPT !.streaming = TRUE, !.cancelled = FALSE,
                         !.streamFailed = FALSE, !.cancel = r, !.adkCh = r]
  BY DEF StartStream
<1>2. r \in RunIds
  OBVIOUS
<1>3. /\ m' \in Model
      /\ m'.streaming /\ m'.cancel = r /\ m'.adkCh = r
      /\ m'.confirming = model.confirming /\ m'.compressing = model.compressing
      /\ m'.queued = model.queued /\ m'.pending = model.pending
      /\ m'.composer = model.composer /\ m'.session = model.session
  <2> HIDE DEF r
  <2>1. QED
    BY <1>1, <1>2 DEF Model
<1>4. pump' = Waits([p EXCEPT !.run = Append(@, fresh)], r)
  BY DEF StartStream
<1>5. fresh \in Run
  BY EmptySeq DEF Run
<1>6. p.run \in Seq(Run) /\ p.waiters \in [RunIds \cup {NoRun} -> Nat]
  BY DEF Pump
<1>7. PICK q : q = Append(p.run, fresh)
  OBVIOUS
<1>8. /\ q \in Seq(Run) /\ Len(q) = r /\ q[r] = fresh
      /\ \A k \in 1 .. Len(p.run) : q[k] = p.run[k]
  BY <1>5, <1>6, <1>7, AppendProperties
<1>9. pump' = [run |-> q, waiters |-> [p.waiters EXCEPT ![r] = @ + 1]]
  <2> HIDE DEF r, fresh
  <2>1. QED
    BY <1>4, <1>7 DEF Waits, Pump
<1>10. pump' \in Pump /\ pump'.run = q /\ pump'.waiters = [p.waiters EXCEPT ![r] = @ + 1]
  <2> HIDE DEF r, fresh
  <2>1. QED
    BY <1>2, <1>6, <1>8, <1>9 DEF Pump
<1>11. \A k \in RunIds \cup {NoRun} : pump'.waiters[k] = p.waiters[k] + OneIf(k = r)
  <2> HIDE DEF r, fresh
  <2>1. QED
    BY <1>6, <1>10 DEF OneIf
<1>12. sent' \in Sends /\ Len(sent') = Len(sent) + One(content)
  <2>1. CASE content = << >>
    BY <2>1, LenProperties DEF StartStream, Sends, One
  <2>2. CASE content # << >>
    <3>1. PICK e : e = [prompts |-> content, session |-> model.session]
      OBVIOUS
    <3>2. sent' = Append(sent, e) /\ e \in [prompts : Message, session : 1 .. MaxSessions]
      BY <2>2, <3>1 DEF StartStream, Model
    <3>3. QED
      BY <2>2, <3>2, Appended DEF Sends, One
  <2>3. QED
    BY <2>1, <2>2
<1>13. QED
  BY <1>3, <1>8, <1>10, <1>11, <1>12

LEMMA StartCore ==
  ASSUME NEW model, NEW p, NEW content \in Message, Rest,
         Core(model, p, sent, typed - One(content), asks - 1 + One(content)),
         StartStream(model, p, content)
  PROVE  Core(m', pump', sent', typed, asks) /\ Len(p.run) + 1 \in RunIds
<1>1. /\ model \in Model /\ Len(model.queued) <= QueueCap
      /\ p \in Pump /\ sent \in Sends
      /\ \A r \in 1 .. Len(p.run) : EndsWell(p.run[r])
      /\ \A k \in 1 .. Len(model.queued) : model.queued[k] # << >>
  BY DEF Core, ModelCounted
<1>2. PICK n, c, o, q, w : /\ n = Len(p.run) /\ c = Cardinality(Asking(p)) /\ o = One(content)
                           /\ q = OneIf(model.confirming)
                           /\ w = Weight(model)
  OBVIOUS
<1>3. PICK l : l = Len(sent)
  OBVIOUS
<1>4. /\ n \in Nat /\ c \in Nat /\ l \in Nat /\ w \in Nat /\ q \in {0, 1} /\ o \in {0, 1}
      /\ l + w <= typed - o /\ n - l + q + c <= asks - 1 + o
  <2>1. n \in Nat /\ c \in Nat /\ l \in Nat /\ w \in Nat /\ q \in {0, 1} /\ o \in {0, 1}
    BY <1>2, <1>3, CoreCounts, Ones, OneIfs
  <2>2. n - l + q + c <= asks - 1 + o
    BY <1>2, <1>3 DEF Core, RunsCounted
  <2>3. l + w <= typed - o
    BY <1>2, <1>3 DEF Core, ModelCounted
  <2>4. QED
    BY <2>1, <2>2, <2>3
<1>5. typed \in Nat /\ asks \in Nat /\ typed <= MaxPrompts /\ asks <= MaxAsks
  BY Bounds DEF Rest
<1>6. n + 1 \in RunIds
  <2>1. n + 1 <= MaxPrompts + MaxAsks /\ 1 <= n + 1
    BY <1>4, <1>5, Bounds
  <2>2. QED
    BY <1>4, <2>1, Bounds DEF RunIds
<1>7. /\ m' \in Model /\ pump' \in Pump /\ sent' \in Sends
      /\ m'.confirming = model.confirming /\ m'.queued = model.queued
      /\ m'.pending = model.pending /\ m'.composer = model.composer
      /\ Len(sent') = l + o /\ Len(pump'.run) = n + 1
      /\ \A r \in 1 .. n : pump'.run[r] = p.run[r]
      /\ pump'.run[n + 1] = [stage |-> "working", stopped |-> FALSE, out |-> << >>]
  BY <1>1, <1>2, <1>3, <1>6, StartFields
<1>8. \A r \in 1 .. n + 1 : EndsWell(pump'.run[r])
  <2>1. EndsWell(pump'.run[n + 1])
    BY <1>7 DEF EndsWell
  <2>2. ASSUME NEW r \in 1 .. n + 1, r # n + 1 PROVE EndsWell(pump'.run[r])
    <3>1. r \in 1 .. n
      BY <1>4, <2>2
    <3>2. QED
      BY <1>1, <1>2, <1>7, <3>1
  <2>3. QED
    BY <2>1, <2>2
<1>9. Cardinality(Asking(pump')) <= c /\ Cardinality(Asking(pump')) \in Nat
  <2>1. ~ Asks(n + 1, pump')
    BY <1>7 DEF Asks, HasAsked
  <2>2. \A r \in 1 .. n : Asks(r, pump') => Asks(r, p)
    BY <1>7 DEF Asks, HasAsked
  <2>3. ASSUME NEW r \in Asking(pump') PROVE r \in Asking(p)
    <3>1. r \in 1 .. n + 1 /\ Asks(r, pump')
      BY <1>7 DEF Asking
    <3>2. r \in 1 .. n
      BY <1>4, <2>1, <3>1
    <3>3. QED
      BY <1>2, <2>2, <3>1, <3>2 DEF Asking
  <2>4. QED
    BY <1>1, <1>2, <1>7, <2>3, AskingFewer, AskingFinite
<1>10. RunsCounted(m', pump', sent', asks)
  <2>1. PICK d : d = Cardinality(Asking(pump'))
    OBVIOUS
  <2>2. (n + 1) - (l + o) + q + d <= asks
    BY <1>4, <1>5, <1>9, <2>1
  <2>3. OneIf(m'.confirming) = q
    BY <1>2, <1>7
  <2>4. QED
    BY <1>7, <2>1, <2>2, <2>3 DEF RunsCounted
<1>11. ModelCounted(m', sent', typed)
  <2>1. Weight(m') = w
    BY <1>2, <1>7 DEF Weight
  <2>2. (l + o) + w <= typed
    BY <1>4, <1>5
  <2>3. QED
    BY <1>1, <1>7, <2>1, <2>2 DEF ModelCounted
<1>12. QED
  BY <1>1, <1>2, <1>6, <1>7, <1>8, <1>10, <1>11 DEF Core

\* What the counts say when the model or the pump changes.
LEMMA CoreModel ==
  ASSUME NEW model, NEW p, NEW s, NEW t \in Int, NEW a \in Int, Core(model, p, s, t, a),
         NEW other \in Model, Len(other.queued) <= QueueCap,
         \A k \in 1 .. Len(other.queued) : other.queued[k] # << >>,
         NEW u \in Int, NEW b \in Int,
         Weight(other) - u <= Weight(model) - t,
         OneIf(other.confirming) - b <= OneIf(model.confirming) - a
  PROVE  Core(other, p, s, u, b)
<1>1. /\ Len(s) \in Nat /\ Len(p.run) \in Nat /\ Cardinality(Asking(p)) \in Nat
      /\ Len(model.queued) \in Nat /\ model.confirming \in BOOLEAN
  BY CoreCounts
<1>2. Len(other.queued) \in Nat /\ other.confirming \in BOOLEAN
  BY LenProperties DEF Model
<1>3. PICK x, y, l : x = Weight(other) /\ y = Weight(model) /\ l = Len(s)
  OBVIOUS
<1>4. x \in Int /\ y \in Int /\ l \in Int
  BY <1>1, <1>2, <1>3, CoreCounts, Ones DEF Weight
<1>5. ModelCounted(other, s, u)
  <2>1. l + y <= t
    BY <1>3 DEF Core, ModelCounted
  <2>2. x - u <= y - t
    BY <1>3
  <2>3. l + x <= u
    BY <1>4, <2>1, <2>2
  <2>4. QED
    BY <1>3, <2>3 DEF ModelCounted
<1>6. RunsCounted(other, p, s, b)
  <2>1. PICK v, w, c : /\ v = OneIf(other.confirming) /\ w = OneIf(model.confirming)
                       /\ c = Cardinality(Asking(p))
    OBVIOUS
  <2>2. v \in Int /\ w \in Int /\ c \in Int /\ v - b <= w - a
    <3>1. v \in {0, 1} /\ w \in {0, 1}
      BY <1>1, <1>2, <2>1, OneIfs
    <3>2. v - b <= w - a
      BY <2>1
    <3>3. QED
      BY <1>1, <2>1, <3>1, <3>2
  <2>3. Len(p.run) - Len(s) + w + c <= a
    BY <2>1 DEF Core, RunsCounted
  <2>4. Len(p.run) - Len(s) + v + c <= b
    BY <1>1, <2>2, <2>3
  <2>5. QED
    BY <2>1, <2>4 DEF RunsCounted
<1>7. QED
  BY <1>5, <1>6 DEF Core

LEMMA CorePump ==
  ASSUME NEW model, NEW p, NEW s, NEW t, NEW a \in Int, Core(model, p, s, t, a),
         NEW q \in Pump, Len(q.run) = Len(p.run), NEW b \in Int,
         \A r \in 1 .. Len(q.run) : EndsWell(q.run[r]),
         Cardinality(Asking(q)) - b <= Cardinality(Asking(p)) - a
  PROVE  Core(model, q, s, t, b)
<1>1. PICK c, d, o, n, l : /\ c = Cardinality(Asking(p)) /\ d = Cardinality(Asking(q))
                           /\ o = OneIf(model.confirming) /\ n = Len(p.run) /\ l = Len(s)
  OBVIOUS
<1>2. c \in Nat /\ d \in Nat /\ o \in {0, 1} /\ n \in Nat /\ l \in Nat
  BY <1>1, CoreCounts, AskingFinite, OneIfs
<1>3. n - l + o + c <= a /\ d - b <= c - a
  BY <1>1 DEF Core, RunsCounted
<1>4. n - l + o + d <= b
  BY <1>2, <1>3
<1>5. RunsCounted(model, q, s, b)
  BY <1>1, <1>4 DEF RunsCounted
<1>6. QED
  BY <1>5 DEF Core

\* A new run has a waiter, and the others go on without one.
LEMMA StartAlone ==
  ASSUME NEW model \in Model, NEW p \in Pump, NEW content \in Message,
         sent \in Sends, Len(p.run) + 1 \in RunIds, Silent(p),
         StartStream(model, p, content)
  PROVE  Alone(m', pump')
<1>1. PICK n : n = Len(p.run)
  OBVIOUS
<1>2. n \in Nat
  BY <1>1, AskingFinite
<1>3. /\ m'.streaming /\ m'.adkCh = n + 1 /\ Len(pump'.run) = n + 1
      /\ \A r \in 1 .. n : pump'.run[r] = p.run[r]
      /\ \A r \in RunIds \cup {NoRun} :
           pump'.waiters[r] = p.waiters[r] + OneIf(r = n + 1)
  BY <1>1, StartFields
<1>4. \A r \in RunIds \cup {NoRun} : pump'.waiters[r] = OneIf(r = n + 1)
  <2>1. \A r \in RunIds \cup {NoRun} : p.waiters[r] = 0
    BY DEF Silent
  <2>2. QED
    BY <1>3, <2>1 DEF OneIf
<1>5. \A r \in 1 .. n : Ended(pump'.run[r])
  BY <1>1, <1>3 DEF Silent
<1>6. \A r : OneIf(r = n + 1) = OneIf(Reads(m', r))
  BY <1>3 DEF OneIf, Reads
<1>7. QED
  BY <1>2, <1>3, <1>4, <1>5, <1>6 DEF Alone, Reads

-----------------------------------------------------------------------------
(***************************************************************************)
(* A compression starts.                                                   *)
(***************************************************************************)

\* There is a name for it that no other has.
LEMMA FreshJob ==
  ASSUME Jobs(jobs)
  PROVE  \E n \in 1 .. Cardinality(jobs) + 1 : \A j \in jobs : j.n # n
<1>1. SUFFICES ASSUME \A n \in 1 .. Cardinality(jobs) + 1 : \E j \in jobs : j.n = n
               PROVE  FALSE
  OBVIOUS
<1>2. PICK c : c = Cardinality(jobs)
  OBVIOUS
<1>3. c \in Nat /\ IsFiniteSet(jobs)
  BY <1>2, FS_CardinalityType DEF Jobs
<1> DEFINE N == { j.n : j \in jobs }
           f == [j \in jobs |-> j.n]
<1>4. f \in Surjection(jobs, N)
  BY DEF Surjection
<1>5. IsFiniteSet(N) /\ Cardinality(N) <= c
  <2> HIDE DEF N, f
  <2>1. QED
    BY <1>2, <1>3, <1>4, FS_Surjection
<1>6. (1 .. c + 1) \in SUBSET N
  BY <1>1, <1>2
<1>7. Cardinality(1 .. c + 1) = c + 1
  BY <1>3, FS_Interval
<1>8. Cardinality(1 .. c + 1) <= Cardinality(N) /\ Cardinality(N) \in Nat
  <2> HIDE DEF N
  <2>1. QED
    BY <1>5, <1>6, FS_Subset, FS_CardinalityType
<1> HIDE DEF N
<1>9. QED
  BY <1>3, <1>5, <1>7, <1>8

LEMMA ChosenJob ==
  ASSUME Jobs(jobs)
  PROVE  (CHOOSE k \in 1 .. Cardinality(jobs) + 1 : \A j \in jobs : j.n # k) \in Nat \ {NoJob}
<1>1. PICK c : c = Cardinality(jobs)
  OBVIOUS
<1>2. PICK n : n = CHOOSE k \in 1 .. c + 1 : \A j \in jobs : j.n # k
  OBVIOUS
<1>3. n \in 1 .. c + 1
  BY <1>1, <1>2, FreshJob
<1>4. c \in Nat
  BY <1>1, FS_CardinalityType DEF Jobs
<1>5. 1 .. c + 1 \subseteq Nat \ {NoJob}
  BY <1>4 DEF NoJob
<1>6. n \in Nat \ {NoJob}
  BY <1>3, <1>5
<1>7. QED
  BY <1>1, <1>2, <1>6

\* What a compression that begins changes.
Compressed(model, n, pending) ==
  [model EXCEPT !.compressing = TRUE, !.compressCancel = n, !.pending = pending]

LEMMA CompressionFields ==
  ASSUME NEW model \in Model, NEW pending \in Message, NEW n \in Nat \ {NoJob}
  PROVE  LET other == Compressed(model, n, pending)
         IN  /\ other \in Model
             /\ other.compressing /\ other.streaming = model.streaming
             /\ other.confirming = model.confirming /\ other.adkCh = model.adkCh
             /\ other.queued = model.queued /\ other.composer = model.composer
             /\ other.session = model.session /\ other.pending = pending
BY DEF Model, Compressed

LEMMA JobAdded ==
  ASSUME NEW n \in Nat \ {NoJob}, Jobs(jobs)
  PROVE  Jobs(jobs \cup {[n |-> n, stopped |-> FALSE]})
<1>1. [n |-> n, stopped |-> FALSE] \in Job
  BY DEF Job
<1>2. QED
  BY <1>1, FS_AddElement DEF Jobs

\* The ways in which it may go: what is pending is sent at once, there is nothing
\* to do, or it is compressed.
Outcome(model, p, pending, other) ==
  /\ other.streaming = model.streaming /\ other.adkCh = model.adkCh
  /\ other.confirming = model.confirming /\ other.queued = model.queued
  /\ other.composer = model.composer /\ other.session = model.session
  /\ \/ /\ pending # << >> /\ other.pending = << >>
        /\ other.compressing = model.compressing
        /\ StartStream(other, p, pending) /\ UNCHANGED jobs
     \/ /\ pending = << >> /\ other = model
        /\ m' = other /\ pump' = p /\ UNCHANGED << jobs, sent >>
     \/ /\ other.pending = pending /\ other.compressing
        /\ m' = other /\ pump' = p /\ UNCHANGED sent
        /\ Jobs(jobs') /\ \E j : jobs' = jobs \cup {j} /\ ~ j.stopped

LEMMA CompressionCases ==
  ASSUME NEW model \in Model, NEW p, NEW pending \in Message, Jobs(jobs),
         StartCompression(model, p, pending)
  PROVE  \E other \in Model : Outcome(model, p, pending, other)
<1> USE DEF Outcome
<1>1. CASE /\ pending # << >>
           /\ StartStream([model EXCEPT !.pending = << >>], p, pending) /\ UNCHANGED jobs
  <2>1. PICK other : other = [model EXCEPT !.pending = << >>]
    OBVIOUS
  <2>2. << >> \in Message
    BY EmptySeq DEF Message
  <2>3. /\ other \in Model /\ other.pending = << >>
        /\ other.streaming = model.streaming /\ other.adkCh = model.adkCh
        /\ other.confirming = model.confirming /\ other.queued = model.queued
        /\ other.composer = model.composer /\ other.session = model.session
        /\ other.compressing = model.compressing
    BY <2>1, <2>2 DEF Model
  <2>4. StartStream(other, p, pending)
    BY <1>1, <2>1
  <2>5. QED
    BY <1>1, <2>3, <2>4
<1>2. CASE pending = << >> /\ m' = model /\ pump' = p /\ UNCHANGED << jobs, sent >>
  BY <1>2
<1>3. ASSUME NEW n \in Nat \ {NoJob},
             m' = [model EXCEPT !.compressing = TRUE, !.compressCancel = n, !.pending = pending],
             pump' = p, jobs' = jobs \cup {[n |-> n, stopped |-> FALSE]}, UNCHANGED sent
      PROVE  /\ m' \in Model /\ m'.pending = pending /\ m'.compressing
             /\ m'.streaming = model.streaming /\ m'.adkCh = model.adkCh
             /\ m'.confirming = model.confirming /\ m'.queued = model.queued
             /\ m'.composer = model.composer /\ m'.session = model.session
             /\ Jobs(jobs') /\ \E j : jobs' = jobs \cup {j} /\ ~ j.stopped
  <2>1. m' = Compressed(model, n, pending)
    BY <1>3 DEF Compressed
  <2>2. /\ m' \in Model /\ m'.pending = pending /\ m'.compressing
        /\ m'.streaming = model.streaming /\ m'.adkCh = model.adkCh
        /\ m'.confirming = model.confirming /\ m'.queued = model.queued
        /\ m'.composer = model.composer /\ m'.session = model.session
    BY <2>1, CompressionFields
  <2>3. Jobs(jobs')
    BY <1>3, JobAdded
  <2>4. PICK j : j = [n |-> n, stopped |-> FALSE]
    OBVIOUS
  <2>5. jobs' = jobs \cup {j} /\ ~ j.stopped
    BY <1>3, <2>4
  <2>6. QED
    BY <2>2, <2>3, <2>5
<1>4. PICK n : n = CHOOSE k \in 1 .. Cardinality(jobs) + 1 : \A j \in jobs : j.n # k
  OBVIOUS
<1>5. n \in Nat \ {NoJob}
  BY <1>4, ChosenJob
<1>6. \/ <1>1!1
      \/ <1>2!1
      \/ /\ m' = [model EXCEPT !.compressing = TRUE, !.compressCancel = n, !.pending = pending]
         /\ pump' = p /\ jobs' = jobs \cup {[n |-> n, stopped |-> FALSE]} /\ UNCHANGED sent
  BY <1>4 DEF StartCompression
<1>7. QED
  BY <1>1, <1>2, <1>3, <1>5, <1>6

LEMMA CompressionCore ==
  ASSUME NEW model, NEW p, NEW pending \in Message, Rest, Jobs(jobs),
         Core(model, p, sent, typed - One(pending), asks),
         StartCompression(model, p, pending)
  PROVE  Core(m', pump', sent', typed, asks) /\ Jobs(jobs')
<1>1. /\ model \in Model /\ p \in Pump /\ Len(model.queued) <= QueueCap
      /\ \A k \in 1 .. Len(model.queued) : model.queued[k] # << >>
  BY DEF Core, ModelCounted
<1>2. PICK o, t : o = One(pending) /\ t = typed - o
  OBVIOUS
<1>3. o \in {0, 1} /\ t \in Int /\ typed \in Int /\ asks \in Int
  BY <1>2, Ones, Bounds DEF Rest
<1>4. PICK other \in Model : Outcome(model, p, pending, other)
  BY <1>1, CompressionCases
<1> USE DEF Outcome
<1>5. PICK x, y, z : x = One(other.pending) /\ y = One(model.pending)
                     /\ z = Len(model.queued) + One(model.composer)
  OBVIOUS
<1>6. /\ x \in {0, 1} /\ y \in {0, 1} /\ z \in Int
      /\ Weight(other) = x + z /\ Weight(model) = y + z
  BY <1>4, <1>5, CoreCounts, Ones DEF Weight
<1>7. OneIf(other.confirming) = OneIf(model.confirming) /\ OneIf(model.confirming) \in Int
  BY <1>4, CoreCounts, OneIfs
<1>8. CASE /\ pending # << >> /\ other.pending = << >>
           /\ StartStream(other, p, pending) /\ UNCHANGED jobs
  <2>1. o = 1 /\ x = 0
    BY <1>2, <1>5, <1>8 DEF One
  <2>2. Weight(other) - t <= Weight(model) - t
    BY <1>3, <1>6, <2>1
  <2>3. OneIf(other.confirming) - asks <= OneIf(model.confirming) - asks
    BY <1>3, <1>7
  <2>4. Core(other, p, sent, t, asks)
    BY <1>1, <1>2, <1>3, <1>4, <2>2, <2>3, CoreModel
  <2>5. t = typed - One(pending) /\ asks = asks - 1 + One(pending)
    BY <1>2, <1>3, <2>1
  <2>6. Core(other, p, sent, typed - One(pending), asks - 1 + One(pending))
    BY <2>4, <2>5
  <2>7. QED
    BY <1>8, <2>6, StartCore
<1>9. CASE /\ pending = << >> /\ other = model
           /\ m' = other /\ pump' = p /\ UNCHANGED << jobs, sent >>
  <2>1. t = typed
    BY <1>2, <1>3, <1>9 DEF One
  <2>2. QED
    BY <1>2, <1>9, <2>1
<1>10. CASE /\ other.pending = pending
            /\ m' = other /\ pump' = p /\ UNCHANGED sent /\ Jobs(jobs')
  <2>1. x = o
    BY <1>2, <1>5, <1>10
  <2>2. Weight(other) - typed <= Weight(model) - t
    BY <1>2, <1>3, <1>6, <2>1
  <2>3. OneIf(other.confirming) - asks <= OneIf(model.confirming) - asks
    BY <1>3, <1>7
  <2>4. Core(other, p, sent, typed, asks)
    BY <1>1, <1>2, <1>3, <1>4, <2>2, <2>3, CoreModel
  <2>5. QED
    BY <1>10, <2>4
<1>11. QED
  BY <1>4, <1>8, <1>9, <1>10

LEMMA SilentAlone ==
  ASSUME NEW model, NEW p, Silent(p), ~ model.streaming
  PROVE  Alone(model, p)
BY DEF Silent, Alone, Reads, OneIf

LEMMA CompressionCalm ==
  ASSUME NEW model, NEW p, NEW pending \in Message, Rest, Jobs(jobs),
         Core(model, p, sent, typed - One(pending), asks),
         StartCompression(model, p, pending),
         Silent(p), OneAtATime(model, jobs),
         ~ model.streaming, ~ model.confirming, ~ model.compressing
  PROVE  Alone(m', pump') /\ OneAtATime(m', jobs')
<1>1. /\ model \in Model /\ p \in Pump /\ jobs = {} /\ model.pending = << >> /\ sent \in Sends
  BY DEF Core, OneAtATime
<1>2. PICK other \in Model : Outcome(model, p, pending, other)
  BY <1>1, CompressionCases
<1> USE DEF Outcome
<1>3. CASE /\ other.pending = << >> /\ pending # << >>
           /\ other.compressing = model.compressing
           /\ StartStream(other, p, pending) /\ UNCHANGED jobs
  <2>1. Len(p.run) + 1 \in RunIds
    <3>1. Core(other, p, sent, typed - One(pending), asks - 1 + One(pending))
      <4>1. Len(other.queued) <= QueueCap /\ \A k \in 1 .. Len(other.queued) : other.queued[k] # << >>
        BY <1>2 DEF Core, ModelCounted
      <4>2. Weight(other) = Weight(model) /\ OneIf(other.confirming) = OneIf(model.confirming)
        BY <1>1, <1>2, <1>3 DEF Weight
      <4>3. One(pending) = 1 /\ typed \in Int /\ asks \in Int
        BY <1>3, Bounds DEF One, Rest
      <4>4. PICK t : t = typed - One(pending)
        OBVIOUS
      <4>5. t \in Int /\ asks - 1 + One(pending) = asks
        BY <4>3, <4>4
      <4>6. Weight(model) \in Int /\ OneIf(model.confirming) \in Int
        BY CoreCounts, OneIfs
      <4>7. Core(other, p, sent, t, asks)
        <5>1. /\ Weight(other) - t <= Weight(model) - t
              /\ OneIf(other.confirming) - asks <= OneIf(model.confirming) - asks
          BY <4>2, <4>3, <4>5, <4>6
        <5>2. QED
          BY <1>2, <4>1, <4>3, <4>4, <4>5, <5>1, CoreModel
      <4>8. QED
        BY <4>4, <4>5, <4>7
    <3>2. QED
      BY <1>3, <3>1, StartCore
  <2>2. Alone(m', pump') /\ m'.compressing = other.compressing /\ m'.pending = other.pending
    BY <1>1, <1>2, <1>3, <2>1, StartAlone, StartFields
  <2>3. QED
    BY <1>1, <1>3, <2>2 DEF OneAtATime
<1>4. CASE /\ other = model /\ m' = other /\ pump' = p /\ UNCHANGED << jobs, sent >>
  BY <1>4, SilentAlone
<1>5. CASE /\ other.compressing /\ m' = other /\ pump' = p
           /\ \E j : jobs' = jobs \cup {j}
  <2>1. Alone(m', pump')
    BY <1>2, <1>5, SilentAlone
  <2>2. OneAtATime(m', jobs')
    BY <1>1, <1>2, <1>5 DEF OneAtATime
  <2>3. QED
    BY <2>1, <2>2
<1>6. QED
  BY <1>2, <1>3, <1>4, <1>5

-----------------------------------------------------------------------------
(***************************************************************************)
(* A run is finished: the four ways of FinishStreaming.                    *)
(***************************************************************************)
Finished(model, p, other) ==
  /\ ~ other.streaming
  /\ other.confirming = model.confirming /\ other.compressing = model.compressing
  /\ other.pending = model.pending /\ other.session = model.session
  /\ \/ /\ other.queued = model.queued /\ other.composer = model.composer
        /\ model.confirming \/ model.queued = << >>
        /\ m' = other /\ pump' = p /\ UNCHANGED << jobs, sent >>
     \/ /\ ~ model.confirming /\ model.queued # << >> /\ Over(model)
        /\ other.queued = << >> /\ other.composer = FlattenSeq(model.queued)
        /\ m' = other /\ pump' = p /\ UNCHANGED << jobs, sent >>
     \/ /\ ~ model.confirming /\ model.queued # << >> /\ ~ Over(model)
        /\ other.queued = Tail(model.queued) /\ other.composer = model.composer
        /\ \/ StartStream(other, p, Head(model.queued)) /\ UNCHANGED jobs
           \/ StartCompression(other, p, Head(model.queued))
     \/ /\ ~ model.confirming /\ model.queued = << >> /\ ~ Over(model)
        /\ other.queued = << >> /\ other.composer = model.composer
        /\ StartCompression(other, p, << >>)

LEMMA FinishCases ==
  ASSUME NEW model \in Model, NEW p, FinishStreaming(model, p)
  PROVE  \E other \in Model : Finished(model, p, other)
<1> USE DEF Finished
<1>1. PICK ended : ended = [model EXCEPT !.streaming = FALSE, !.cancel = NoRun, !.adkCh = NoRun]
  OBVIOUS
<1>2. /\ ended \in Model /\ ~ ended.streaming
      /\ ended.confirming = model.confirming /\ ended.compressing = model.compressing
      /\ ended.pending = model.pending /\ ended.session = model.session
      /\ ended.queued = model.queued /\ ended.composer = model.composer
      /\ ended.cancelled = model.cancelled /\ ended.streamFailed = model.streamFailed
  BY <1>1 DEF Model
<1>3. Over(ended) <=> Over(model)
  BY <1>2 DEF Over
<1>4. model.queued \in Seq(Message)
  BY DEF Model
<1>5. CASE ended.confirming \/ ended.queued = << >>
  <2>1. CASE m' = ended /\ pump' = p /\ UNCHANGED << jobs, sent >>
    BY <1>2, <1>5, <2>1
  <2>2. CASE ~ ended.confirming /\ ended.queued = << >> /\ ~ Over(ended)
             /\ StartCompression(ended, p, << >>)
    BY <1>2, <1>3, <2>2
  <2>3. QED
    BY <1>1, <1>5, <2>1, <2>2 DEF FinishStreaming
<1>6. CASE ~ ended.confirming /\ ended.queued # << >> /\ Over(ended)
  <2>1. PICK other : other = [ended EXCEPT !.queued = << >>, !.composer = FlattenSeq(ended.queued)]
    OBVIOUS
  <2>2. FlattenSeq(ended.queued) \in Message /\ << >> \in Seq(Message)
    BY <1>2, <1>4, FlattenType, EmptySeq DEF Message
  <2>3. /\ other \in Model /\ ~ other.streaming
        /\ other.confirming = ended.confirming /\ other.compressing = ended.compressing
        /\ other.pending = ended.pending /\ other.session = ended.session
        /\ other.queued = << >> /\ other.composer = FlattenSeq(ended.queued)
    BY <1>2, <2>1, <2>2 DEF Model
  <2>4. m' = other /\ pump' = p /\ UNCHANGED << jobs, sent >>
    BY <1>1, <1>6, <2>1 DEF FinishStreaming
  <2>5. QED
    BY <1>2, <1>3, <1>6, <2>3, <2>4
<1>7. CASE ~ ended.confirming /\ ended.queued # << >> /\ ~ Over(ended)
  <2>1. PICK other : other = [ended EXCEPT !.queued = Tail(@)]
    OBVIOUS
  <2>2. Tail(ended.queued) \in Seq(Message)
    BY <1>2, <1>4, <1>7, HeadTailProperties
  <2>3. /\ other \in Model /\ ~ other.streaming
        /\ other.confirming = ended.confirming /\ other.compressing = ended.compressing
        /\ other.pending = ended.pending /\ other.session = ended.session
        /\ other.queued = Tail(ended.queued) /\ other.composer = ended.composer
    BY <1>2, <2>1, <2>2 DEF Model
  <2>4. \/ StartStream(other, p, Head(ended.queued)) /\ UNCHANGED jobs
        \/ StartCompression(other, p, Head(ended.queued))
    BY <1>1, <1>7, <2>1 DEF FinishStreaming
  <2>5. QED
    BY <1>2, <1>3, <1>7, <2>3, <2>4
<1>8. QED
  BY <1>5, <1>6, <1>7

\* The same by what happens next: nothing, or message h is sent, if it is one.
Upshot(model, p, other, h) ==
  /\ ~ other.streaming
  /\ other.confirming = model.confirming /\ other.compressing = model.compressing
  /\ other.pending = model.pending
  /\ Core(other, p, sent, typed - One(h), asks)
  /\ \/ h = << >> /\ m' = other /\ pump' = p /\ UNCHANGED << jobs, sent >>
     \/ /\ ~ Over(model) /\ ~ model.confirming
        /\ \/ h # << >> /\ StartStream(other, p, h) /\ UNCHANGED jobs
           \/ StartCompression(other, p, h)

LEMMA FinishSteps ==
  ASSUME NEW model, NEW p, Rest, Jobs(jobs),
         Core(model, p, sent, typed, asks), FinishStreaming(model, p)
  PROVE  \E other \in Model, h \in Message : Upshot(model, p, other, h)
<1> USE DEF Upshot
<1>1. /\ model \in Model /\ p \in Pump /\ Len(model.queued) <= QueueCap
      /\ \A k \in 1 .. Len(model.queued) : model.queued[k] # << >>
      /\ model.queued \in Seq(Message)
  BY DEF Core, ModelCounted, Model
<1>2. typed \in Int /\ asks \in Int /\ QueueCap \in Nat
  BY Bounds DEF Rest
<1>3. PICK other \in Model : Finished(model, p, other)
  BY <1>1, FinishCases
<1>4. PICK x, y, z, l : /\ x = One(model.pending) /\ y = One(model.composer)
                        /\ z = One(other.composer) /\ l = Len(model.queued)
  OBVIOUS
<1>5. /\ x \in {0, 1} /\ y \in {0, 1} /\ z \in {0, 1} /\ l \in Nat
      /\ Weight(model) = x + l + y
  BY <1>4, CoreCounts, Ones DEF Weight
<1>6. Weight(other) = x + Len(other.queued) + z
  BY <1>3, <1>4 DEF Weight, Finished
<1>7. OneIf(other.confirming) - asks <= OneIf(model.confirming) - asks
  <2>1. OneIf(other.confirming) = OneIf(model.confirming) /\ OneIf(model.confirming) \in Int
    BY <1>3, CoreCounts, OneIfs DEF Finished
  <2>2. QED
    BY <1>2, <2>1
<1>8. /\ ~ other.streaming
      /\ other.confirming = model.confirming /\ other.compressing = model.compressing
      /\ other.pending = model.pending
  BY <1>3 DEF Finished
<1>9. << >> \in Message /\ One(<< >>) = 0 /\ typed - One(<< >>) = typed
  BY <1>2, EmptySeq DEF One, Message
<1>10. CASE /\ other.queued = model.queued /\ other.composer = model.composer
           /\ m' = other /\ pump' = p /\ UNCHANGED << jobs, sent >>
  <2>1. Weight(other) - typed <= Weight(model) - typed
    BY <1>2, <1>4, <1>5, <1>6, <1>10
  <2>2. Core(other, p, sent, typed, asks)
    BY <1>1, <1>2, <1>3, <1>7, <1>10, <2>1, CoreModel
  <2>3. QED
    BY <1>8, <1>9, <1>10, <2>2
<1>11. CASE /\ model.queued # << >> /\ other.queued = << >>
           /\ m' = other /\ pump' = p /\ UNCHANGED << jobs, sent >>
  <2>1. l >= 1 /\ Len(other.queued) = 0
    <3>1. Len(model.queued) \in Nat \ {0} /\ Len(<< >>) = 0
      BY <1>1, <1>11, EmptySeq
    <3>2. QED
      BY <1>4, <1>11, <3>1
  <2>2. Weight(other) - typed <= Weight(model) - typed
    <3>1. Weight(other) = x + z
      BY <1>5, <1>6, <2>1
    <3>2. QED
      BY <1>2, <1>5, <2>1, <3>1
  <2>3. /\ Len(other.queued) <= QueueCap
        /\ \A k \in 1 .. Len(other.queued) : other.queued[k] # << >>
    BY <1>2, <2>1
  <2>4. Core(other, p, sent, typed, asks)
    BY <1>2, <1>3, <1>7, <2>2, <2>3, CoreModel
  <2>5. QED
    BY <1>8, <1>9, <1>11, <2>4
<1>12. CASE /\ ~ Over(model) /\ ~ model.confirming /\ model.queued # << >>
            /\ other.queued = Tail(model.queued) /\ other.composer = model.composer
            /\ \/ StartStream(other, p, Head(model.queued)) /\ UNCHANGED jobs
               \/ StartCompression(other, p, Head(model.queued))
  <2>1. PICK h, q : h = Head(model.queued) /\ q = other.queued
    OBVIOUS
  <2>2. /\ h \in Message /\ h = model.queued[1] /\ l >= 1 /\ Len(q) = l - 1
        /\ \A k \in 1 .. l - 1 : q[k] = model.queued[k + 1]
    BY <1>1, <1>4, <1>12, <2>1, Behead
  <2>3. h # << >> /\ \A k \in 1 .. Len(q) : q[k] # << >>
    <3>1. 1 \in 1 .. l /\ \A k \in 1 .. l - 1 : k + 1 \in 1 .. l
      BY <1>5, <2>2
    <3>2. QED
      BY <1>1, <1>4, <2>2, <3>1
  <2>4. One(h) = 1
    BY <2>3 DEF One
  <2>5. Core(other, p, sent, typed - One(h), asks)
    <3>1. z = y
      BY <1>4, <1>12
    <3>2. Weight(other) = x + (l - 1) + z
      BY <1>6, <2>1, <2>2
    <3>3. PICK t : t = typed - One(h)
      OBVIOUS
    <3>4. t = typed - 1 /\ t \in Int
      BY <1>2, <2>4, <3>3
    <3>5. Weight(other) - t <= Weight(model) - typed
      BY <1>2, <1>5, <3>1, <3>2, <3>4
    <3>6. Len(q) <= QueueCap
      BY <1>1, <1>2, <1>4, <1>5, <2>2
    <3>7. Core(other, p, sent, t, asks)
      BY <1>2, <1>3, <1>7, <2>1, <2>3, <3>4, <3>5, <3>6, CoreModel
    <3>8. QED
      BY <3>3, <3>7
  <2>6. QED
    BY <1>8, <1>12, <2>1, <2>2, <2>3, <2>5
<1>13. CASE /\ ~ Over(model) /\ ~ model.confirming /\ other.queued = model.queued /\ other.composer = model.composer
            /\ StartCompression(other, p, << >>)
  <2>1. Weight(other) - typed <= Weight(model) - typed
    BY <1>2, <1>4, <1>5, <1>6, <1>13
  <2>2. Core(other, p, sent, typed, asks)
    BY <1>1, <1>2, <1>3, <1>7, <1>13, <2>1, CoreModel
  <2>3. QED
    BY <1>8, <1>9, <1>13, <2>2
<1>14. QED
  BY <1>3, <1>10, <1>11, <1>12, <1>13 DEF Finished

LEMMA FinishCore ==
  ASSUME NEW model, NEW p, Rest, Jobs(jobs),
         Core(model, p, sent, typed, asks), FinishStreaming(model, p)
  PROVE  Core(m', pump', sent', typed, asks) /\ Jobs(jobs')
<1>1. PICK other \in Model, h \in Message : Upshot(model, p, other, h)
  BY FinishSteps
<1> USE DEF Upshot
<1>2. CASE h = << >> /\ m' = other /\ pump' = p /\ UNCHANGED << jobs, sent >>
  <2>1. typed - One(h) = typed
    BY <1>2, Bounds DEF One, Rest
  <2>2. QED
    BY <1>1, <1>2, <2>1
<1>3. CASE h # << >> /\ StartStream(other, p, h) /\ UNCHANGED jobs
  <2>1. asks = asks - 1 + One(h)
    BY <1>3, Bounds DEF One, Rest
  <2>2. QED
    BY <1>1, <1>3, <2>1, StartCore
<1>4. CASE StartCompression(other, p, h)
  BY <1>1, <1>4, CompressionCore
<1>5. QED
  BY <1>1, <1>2, <1>3, <1>4

\* With every run ended and no compression under way, what comes next is alone.
LEMMA FinishCalm ==
  ASSUME NEW model, NEW p, Rest, Jobs(jobs),
         Core(model, p, sent, typed, asks), FinishStreaming(model, p),
         Silent(p), OneAtATime(model, jobs), ~ model.compressing
  PROVE  Alone(m', pump') /\ OneAtATime(m', jobs')
<1>1. PICK other \in Model, h \in Message : Upshot(model, p, other, h)
  BY FinishSteps
<1> USE DEF Upshot
<1>2. p \in Pump /\ sent \in Sends
  BY DEF Core
<1>3. OneAtATime(other, jobs)
  BY <1>1 DEF OneAtATime
<1>4. CASE h = << >> /\ m' = other /\ pump' = p /\ UNCHANGED << jobs, sent >>
  BY <1>1, <1>3, <1>4, SilentAlone
<1>5. CASE h # << >> /\ StartStream(other, p, h) /\ UNCHANGED jobs
  <2>1. asks = asks - 1 + One(h)
    BY <1>5, Bounds DEF One, Rest
  <2>2. Len(p.run) + 1 \in RunIds
    BY <1>1, <1>5, <2>1, StartCore
  <2>3. Alone(m', pump')
    BY <1>2, <1>5, <2>2, StartAlone
  <2>4. m'.compressing = other.compressing /\ m'.pending = other.pending
    BY <1>2, <1>5, <2>2, StartFields
  <2>5. QED
    BY <1>1, <1>3, <1>5, <2>3, <2>4 DEF OneAtATime
<1>6. CASE ~ model.confirming /\ StartCompression(other, p, h)
  BY <1>1, <1>3, <1>6, CompressionCalm
<1>7. QED
  BY <1>1, <1>4, <1>5, <1>6

\* After an interrupt or an error there is no next.
LEMMA FinishOver ==
  ASSUME NEW model, NEW p, Rest, Jobs(jobs), Over(model),
         Core(model, p, sent, typed, asks), FinishStreaming(model, p)
  PROVE  pump' = p /\ m'.compressing = model.compressing
BY FinishSteps DEF Upshot

-----------------------------------------------------------------------------
(***************************************************************************)
(* A run, or its waiters, change.                                          *)
(***************************************************************************)
WithRun(p, r, run) == [p EXCEPT !.run[r] = run]

LEMMA RunFields ==
  ASSUME NEW p \in Pump, NEW r \in 1 .. Len(p.run), NEW run \in Run
  PROVE  LET q == WithRun(p, r, run)
         IN  /\ q \in Pump /\ q.waiters = p.waiters /\ Len(q.run) = Len(p.run)
             /\ q.run[r] = run
             /\ \A k \in 1 .. Len(p.run) : k # r => q.run[k] = p.run[k]
<1>1. PICK q : q = WithRun(p, r, run)
  OBVIOUS
<1>2. p.run \in Seq(Run)
  BY DEF Pump
<1>3. PICK runs : runs = [p.run EXCEPT ![r] = run]
  OBVIOUS
<1>4. /\ runs \in Seq(Run) /\ Len(runs) = Len(p.run)
      /\ \A k \in 1 .. Len(p.run) : runs[k] = IF k = r THEN run ELSE p.run[k]
  BY <1>2, <1>3, ExceptSeq
<1>5. q.run = runs /\ q \in Pump /\ q.waiters = p.waiters
  BY <1>1, <1>3, <1>4 DEF WithRun, Pump
<1>6. QED
  BY <1>1, <1>4, <1>5

\* The runs have names that the waiters are kept by.
LEMMA RunsNamed ==
  ASSUME NEW model, NEW p, Rest, Core(model, p, sent, typed, asks)
  PROVE  1 .. Len(p.run) \subseteq RunIds
<1>1. PICK n, l, w, q, c : /\ n = Len(p.run) /\ l = Len(sent) /\ w = Weight(model)
                           /\ q = OneIf(model.confirming) /\ c = Cardinality(Asking(p))
  OBVIOUS
<1>2. n \in Nat /\ l \in Nat /\ w \in Nat /\ q \in {0, 1} /\ c \in Nat
  BY <1>1, CoreCounts, OneIfs
<1>3. l + w <= typed /\ n - l + q + c <= asks
  BY <1>1 DEF Core, ModelCounted, RunsCounted
<1>4. n <= MaxPrompts + MaxAsks
  BY <1>2, <1>3, Bounds DEF Rest
<1>5. QED
  BY <1>1, <1>2, <1>4, Bounds DEF RunIds

\* Requests under way become more by one, less by one, or not more.
LEMMA RunCore ==
  ASSUME NEW model, NEW p, NEW s, NEW t, NEW a \in Int, Core(model, p, s, t, a),
         NEW r \in 1 .. Len(p.run), NEW run \in Run, EndsWell(run)
  PROVE  /\ (HasAsked(run) => Asks(r, p)) => Core(model, WithRun(p, r, run), s, t, a)
         /\ Core(model, WithRun(p, r, run), s, t, a + 1)
         /\ Asks(r, p) /\ ~ HasAsked(run) => Core(model, WithRun(p, r, run), s, t, a - 1)
<1>1. p \in Pump /\ \A k \in 1 .. Len(p.run) : EndsWell(p.run[k])
  BY DEF Core
<1>2. PICK q : q = WithRun(p, r, run)
  OBVIOUS
<1>3. /\ q \in Pump /\ Len(q.run) = Len(p.run) /\ q.run[r] = run
      /\ \A k \in 1 .. Len(p.run) : k # r => q.run[k] = p.run[k]
  BY <1>1, <1>2, RunFields
<1>4. \A k \in 1 .. Len(q.run) : EndsWell(q.run[k])
  BY <1>1, <1>3
<1>5. Asking(q) \subseteq Asking(p) \cup {r}
  BY <1>3 DEF Asking, Asks
<1>6. r \in Asking(q) <=> HasAsked(run)
  BY <1>3 DEF Asking, Asks
<1>7. r \in Asking(p) <=> Asks(r, p)
  BY DEF Asking
<1>8. PICK c, d : c = Cardinality(Asking(p)) /\ d = Cardinality(Asking(q))
  OBVIOUS
<1>9. /\ c \in Nat /\ d \in Nat /\ IsFiniteSet(Asking(p)) /\ IsFiniteSet(Asking(q))
  BY <1>1, <1>3, <1>8, AskingFinite
<1>10. (HasAsked(run) => Asks(r, p)) => d <= c
  BY <1>1, <1>3, <1>5, <1>6, <1>7, <1>8, AskingFewer
<1>11. d <= c + 1
  <2>1. PICK A : A = Asking(p)
    OBVIOUS
  <2>2. IsFiniteSet(A) /\ Cardinality(A) = c
    BY <1>8, <1>9, <2>1
  <2>3. /\ IsFiniteSet(A \cup {r})
        /\ r \in A => Cardinality(A \cup {r}) = c
        /\ r \notin A => Cardinality(A \cup {r}) = c + 1
    BY <2>2, FS_AddElement
  <2>4. d <= Cardinality(A \cup {r})
    BY <1>5, <1>8, <2>1, <2>3, FS_Subset
  <2>5. QED
    BY <1>9, <2>3, <2>4
<1>12. Asks(r, p) /\ ~ HasAsked(run) => d <= c - 1
  <2>1. SUFFICES ASSUME Asks(r, p), ~ HasAsked(run) PROVE d <= c - 1
    OBVIOUS
  <2>2. r \in Asking(p) /\ Asking(q) \subseteq Asking(p) \ {r}
    BY <1>5, <1>6, <1>7, <2>1
  <2>3. IsFiniteSet(Asking(p) \ {r}) /\ Cardinality(Asking(p) \ {r}) = c - 1
    BY <1>8, <1>9, <2>2, FS_RemoveElement
  <2>4. d <= Cardinality(Asking(p) \ {r})
    BY <1>8, <2>2, <2>3, FS_Subset
  <2>5. QED
    BY <2>3, <2>4
<1>13. /\ d <= c => Core(model, q, s, t, a)
       /\ d <= c + 1 => Core(model, q, s, t, a + 1)
       /\ d <= c - 1 => Core(model, q, s, t, a - 1)
  <2>1. ASSUME NEW b \in Int, d - b <= c - a PROVE Core(model, q, s, t, b)
    BY <1>3, <1>4, <1>8, <2>1, CorePump
  <2>2. a + 1 \in Int /\ a - 1 \in Int
    OBVIOUS
  <2>3. /\ d <= c => d - a <= c - a
        /\ d <= c + 1 => d - (a + 1) <= c - a
        /\ d <= c - 1 => d - (a - 1) <= c - a
    BY <1>9
  <2>4. QED
    BY <2>1, <2>2, <2>3
<1>14. QED
  BY <1>2, <1>10, <1>11, <1>12, <1>13

-----------------------------------------------------------------------------
(***************************************************************************)
(* Every step keeps the invariant: keys.                                   *)
(***************************************************************************)
LEMMA Types ==
  IInv => /\ m \in Model /\ pump \in Pump /\ sent \in Sends /\ m.queued \in Seq(Message)
          /\ m.composer \in Message /\ m.pending \in Message /\ m.session \in 1 .. MaxSessions
          /\ m.confirming \in BOOLEAN /\ m.streaming \in BOOLEAN /\ m.compressing \in BOOLEAN
          /\ typed \in Int /\ asks \in Int /\ Len(m.queued) <= QueueCap
          /\ \A k \in 1 .. Len(m.queued) : m.queued[k] # << >>
          /\ Runs \subseteq RunIds /\ Rest /\ Jobs(jobs)
          /\ Core(m, pump, sent, typed, asks)
<1> SUFFICES ASSUME IInv PROVE Types!2
  OBVIOUS
<1>1. Core(m, pump, sent, typed, asks) /\ Rest /\ Jobs(jobs)
  BY DEF IInv
<1>2. Runs \subseteq RunIds
  BY <1>1, RunsNamed DEF Runs
<1>3. /\ m \in Model /\ pump \in Pump /\ sent \in Sends /\ Len(m.queued) <= QueueCap
      /\ \A k \in 1 .. Len(m.queued) : m.queued[k] # << >>
  BY <1>1 DEF Core, ModelCounted
<1>4. typed \in Int /\ asks \in Int
  BY <1>1, Bounds DEF Rest
<1>5. QED
  BY <1>1, <1>2, <1>3, <1>4 DEF Model

\* Runs, compressions and what is on screen stay as they are.
LEMMA ModelCalm ==
  ASSUME NEW model, NEW other, NEW p, NEW js,
         Alone(model, p) /\ OneAtATime(model, js),
         other.streaming = model.streaming, other.adkCh = model.adkCh,
         other.confirming = model.confirming, other.compressing = model.compressing,
         other.pending = model.pending
  PROVE  Alone(other, p) /\ OneAtATime(other, js)
BY DEF Alone, Reads, OneAtATime

LEMMA IdleSilent ==
  ASSUME NEW model, NEW p, Alone(model, p), ~ model.streaming
  PROVE  Silent(p)
BY DEF Alone, Silent, Reads, OneIf

LEMMA EnteredType ==
  ASSUME IInv, NEW message, Entered(message)
  PROVE  entered' \in [Prompts -> 0 .. MaxSessions]
<1>1. m.session \in 0 .. MaxSessions
  BY Types
<1>2. entered \in [Prompts -> 0 .. MaxSessions]
  BY Types DEF Rest
<1>3. QED
  BY <1>1, <1>2 DEF Entered

LEMMA TypeStep ==
  ASSUME IInv, Type
  PROVE  IInv'
<1>1. /\ m' = [m EXCEPT !.composer = Append(@, typed + 1)] /\ typed < MaxPrompts
      /\ typed' = typed + 1 /\ UNCHANGED << pump, jobs, asks, sent, hist >>
  BY DEF Type
<1>2. typed' \in 1 .. MaxPrompts
  BY <1>1, Types, Bounds DEF Rest
<1>3. Append(m.composer, typed + 1) \in Message /\ Append(m.composer, typed + 1) # << >>
  BY <1>1, <1>2, Types, Appended, SMTT(30) DEF Message, Prompts
<1>4. /\ m' \in Model /\ m'.streaming = m.streaming /\ m'.adkCh = m.adkCh
      /\ m'.confirming = m.confirming /\ m'.compressing = m.compressing
      /\ m'.pending = m.pending /\ m'.queued = m.queued
      /\ m'.composer = Append(m.composer, typed + 1)
  BY <1>1, <1>3, Types DEF Model
<1>5. Core(m', pump, sent, typed', asks)
  <2>1. PICK x, y, z : /\ x = One(m.pending) + Len(m.queued) /\ y = One(m.composer)
                       /\ z = One(m'.composer)
    OBVIOUS
  <2>2. x \in Int /\ y \in {0, 1} /\ z = 1 /\ Weight(m) = x + y /\ Weight(m') = x + z
    <3>1. Core(m, pump, sent, typed, asks)
      BY Types
    <3>2. Len(m.queued) \in Int
      BY <3>1, CoreCounts
    <3>3. x \in Int /\ y \in {0, 1}
      BY <2>1, <3>2, Ones
    <3>4. z = 1
      BY <1>3, <1>4, <2>1 DEF One
    <3>5. Weight(m) = x + y /\ Weight(m') = x + z
      BY <1>4, <2>1 DEF Weight
    <3>6. QED
      BY <3>3, <3>4, <3>5
  <2>3. Weight(m') - typed' <= Weight(m) - typed
    BY <1>1, <2>2, Types
  <2>4. OneIf(m'.confirming) - asks <= OneIf(m.confirming) - asks
    BY <1>4, Types, OneIfs
  <2>5. typed' \in Int
    BY <1>2, Bounds
  <2>6. QED
    BY <1>4, <2>3, <2>4, <2>5, Types, CoreModel
<1>6. Rest'
  BY <1>1, <1>2, Types DEF Rest, hist
<1>7. Calm' => Alone(m, pump) /\ OneAtATime(m, jobs)
  BY <1>1 DEF IInv, Calm, hist
<1>8. Calm' => Alone(m', pump) /\ OneAtATime(m', jobs)
  BY <1>4, <1>7, ModelCalm
<1>9. QED
  BY <1>1, <1>5, <1>6, <1>8, Types DEF IInv, hist

LEMMA SendStep ==
  ASSUME IInv, Send
  PROVE  IInv'
<1>1. PICK cleared : cleared = [m EXCEPT !.composer = << >>]
  OBVIOUS
<1>2. /\ ~ m.streaming /\ ~ m.confirming /\ ~ m.compressing /\ m.composer # << >>
      /\ Entered(m.composer) /\ UNCHANGED << typed, asks, dropped, mishaps >>
      /\ \/ StartStream(cleared, pump, m.composer) /\ UNCHANGED jobs
         \/ StartCompression(cleared, pump, m.composer)
  BY <1>1 DEF Send, Idle
<1>3. << >> \in Message
  BY EmptySeq DEF Message
<1>4. /\ cleared \in Model /\ cleared.streaming = m.streaming /\ cleared.adkCh = m.adkCh
      /\ cleared.confirming = m.confirming /\ cleared.compressing = m.compressing
      /\ cleared.pending = m.pending /\ cleared.queued = m.queued /\ cleared.composer = << >>
  BY <1>1, <1>3, Types DEF Model
<1>5. One(m.composer) = 1 /\ One(<< >>) = 0
  BY <1>2 DEF One
<1>6. PICK t : t = typed - One(m.composer)
  OBVIOUS
<1>7. Core(cleared, pump, sent, t, asks)
  <2>1. PICK x : x = One(m.pending) + Len(m.queued)
    OBVIOUS
  <2>2. x \in Int
    <3>1. Core(m, pump, sent, typed, asks)
      BY Types
    <3>2. Len(m.queued) \in Int
      BY <3>1, CoreCounts
    <3>3. QED
      BY <2>1, <3>2, Ones
  <2>3. Weight(m) = x + 1 /\ Weight(cleared) = x + 0
    BY <1>4, <1>5, <2>1 DEF Weight
  <2>4. t = typed - 1 /\ t \in Int
    BY <1>5, <1>6, Types
  <2>5. Weight(cleared) - t <= Weight(m) - typed
    BY <2>2, <2>3, <2>4, Types
  <2>6. OneIf(cleared.confirming) - asks <= OneIf(m.confirming) - asks
    BY <1>4, Types, OneIfs
  <2>7. QED
    BY <1>4, <2>4, <2>5, <2>6, Types, CoreModel
<1>8. asks - 1 + One(m.composer) = asks
  BY <1>5, Types
<1>9. Core(m', pump', sent', typed, asks) /\ Jobs(jobs')
  <2>1. CASE StartStream(cleared, pump, m.composer) /\ UNCHANGED jobs
    BY <1>6, <1>7, <1>8, <2>1, Types, StartCore
  <2>2. CASE StartCompression(cleared, pump, m.composer)
    BY <1>6, <1>7, <2>2, Types, CompressionCore
  <2>3. QED
    BY <1>2, <2>1, <2>2
<1>10. Calm => Alone(m', pump') /\ OneAtATime(m', jobs')
  <2>1. SUFFICES ASSUME Calm PROVE Alone(m', pump') /\ OneAtATime(m', jobs')
    OBVIOUS
  <2>2. Alone(m, pump) /\ OneAtATime(m, jobs)
    BY <2>1 DEF IInv
  <2>3. Silent(pump) /\ OneAtATime(cleared, jobs)
    BY <1>2, <1>4, <2>2, IdleSilent, ModelCalm
  <2>4. CASE StartStream(cleared, pump, m.composer) /\ UNCHANGED jobs
    <3>1. Len(pump.run) + 1 \in RunIds
      BY <1>6, <1>7, <1>8, <2>4, Types, StartCore
    <3>2. Alone(m', pump')
      BY <1>4, <2>3, <2>4, <3>1, Types, StartAlone
    <3>3. m'.compressing = cleared.compressing /\ m'.pending = cleared.pending
      BY <1>4, <2>4, <3>1, Types, StartFields
    <3>4. QED
      BY <1>2, <1>4, <2>3, <2>4, <3>2, <3>3 DEF OneAtATime
  <2>5. CASE StartCompression(cleared, pump, m.composer)
    BY <1>2, <1>4, <1>6, <1>7, <2>3, <2>5, Types, CompressionCalm
  <2>6. QED
    BY <1>2, <2>4, <2>5
<1>11. Rest' /\ (Calm' <=> Calm)
  BY <1>2, Types, EnteredType DEF Rest, Calm
<1>12. QED
  BY <1>2, <1>9, <1>10, <1>11 DEF IInv

\* A smaller load on the model, with no other question to the user.
LEMMA CoreKept ==
  ASSUME NEW model, NEW p, NEW s, NEW t \in Int, NEW a \in Int, Core(model, p, s, t, a),
         NEW other \in Model, Len(other.queued) <= QueueCap,
         \A k \in 1 .. Len(other.queued) : other.queued[k] # << >>,
         other.pending = model.pending, other.confirming = model.confirming,
         Len(other.queued) + One(other.composer) <= Len(model.queued) + One(model.composer)
  PROVE  Core(other, p, s, t, a)
<1>1. PICK x, y, z : /\ x = One(model.pending)
                     /\ y = Len(model.queued) + One(model.composer)
                     /\ z = Len(other.queued) + One(other.composer)
  OBVIOUS
<1>2. Len(model.queued) \in Int /\ Len(other.queued) \in Int
  BY CoreCounts, LenProperties DEF Model
<1>3. x \in Int /\ y \in Int /\ z \in Int /\ z <= y
  BY <1>1, <1>2, Ones
<1>4. Weight(model) = x + y /\ Weight(other) = x + z
  <2>1. One(other.composer) \in Int /\ One(model.composer) \in Int
    BY Ones
  <2>2. QED
    BY <1>1, <1>2, <1>3, <2>1 DEF Weight
<1>5. Weight(other) - t <= Weight(model) - t
  BY <1>3, <1>4
<1>6. OneIf(other.confirming) - a <= OneIf(model.confirming) - a
  BY CoreCounts, OneIfs
<1>7. QED
  BY <1>5, <1>6, CoreModel

LEMMA QueueStep ==
  ASSUME IInv, QueueWhileBusy
  PROVE  IInv'
<1>1. /\ m' = [m EXCEPT !.composer = << >>, !.queued = Append(@, m.composer)]
      /\ m.composer # << >> /\ Len(m.queued) < QueueCap /\ Entered(m.composer)
      /\ UNCHANGED << pump, jobs, typed, asks, sent, dropped, mishaps >>
  BY DEF QueueWhileBusy
<1>2. PICK q : q = Append(m.queued, m.composer)
  OBVIOUS
<1>3. /\ q \in Seq(Message) /\ Len(q) = Len(m.queued) + 1
      /\ \A k \in 1 .. Len(m.queued) : q[k] = m.queued[k]
      /\ q[Len(m.queued) + 1] = m.composer
  BY <1>2, Types, Appended
<1>4. << >> \in Message
  BY EmptySeq DEF Message
<1>5. /\ m' \in Model /\ m'.streaming = m.streaming /\ m'.adkCh = m.adkCh
      /\ m'.confirming = m.confirming /\ m'.compressing = m.compressing
      /\ m'.pending = m.pending /\ m'.queued = q /\ m'.composer = << >>
  BY <1>1, <1>2, <1>3, <1>4, Types DEF Model
<1>6. Len(m.queued) \in Nat
  BY Types, LenProperties
<1>7. Core(m', pump, sent, typed, asks)
  <2>1. Len(m'.queued) <= QueueCap
    BY <1>1, <1>3, <1>5, <1>6, Bounds
  <2>2. \A k \in 1 .. Len(m'.queued) : m'.queued[k] # << >>
    <3>1. ASSUME NEW k \in 1 .. Len(q) PROVE q[k] # << >>
      <4>1. k \in 1 .. Len(m.queued) \/ k = Len(m.queued) + 1
        BY <1>3, <1>6
      <4>2. QED
        BY <1>1, <1>3, <4>1, Types
    <3>2. QED
      BY <1>5, <3>1
  <2>3. Len(m'.queued) + One(m'.composer) <= Len(m.queued) + One(m.composer)
    <3>1. One(m'.composer) = 0 /\ One(m.composer) = 1
      BY <1>1, <1>5 DEF One
    <3>2. QED
      BY <1>3, <1>5, <1>6, <3>1
  <2>4. QED
    BY <1>5, <2>1, <2>2, <2>3, Types, CoreKept
<1>8. Rest' /\ (Calm' <=> Calm)
  BY <1>1, Types, EnteredType DEF Rest, Calm
<1>9. Calm => Alone(m', pump) /\ OneAtATime(m', jobs)
  BY <1>5, ModelCalm DEF IInv
<1>10. QED
  BY <1>1, <1>7, <1>8, <1>9, Types DEF IInv

LEMMA CancelStep ==
  ASSUME IInv, CancelStream
  PROVE  IInv' /\ Len(pump'.run) = Len(pump.run) /\ m'.compressing = m.compressing
<1>1. /\ m' = [m EXCEPT !.cancelled = TRUE]
      /\ pump' = IF m.cancel = NoRun THEN pump
                 ELSE [pump EXCEPT !.run[m.cancel].stopped = TRUE]
      /\ UNCHANGED << jobs, typed, asks, sent, hist >>
  BY DEF CancelStream
<1>2. /\ m' \in Model /\ m'.streaming = m.streaming /\ m'.adkCh = m.adkCh
      /\ m'.confirming = m.confirming /\ m'.compressing = m.compressing
      /\ m'.pending = m.pending /\ m'.queued = m.queued /\ m'.composer = m.composer
  BY <1>1, Types DEF Model
<1>3. Core(m', pump, sent, typed, asks)
  <2>1. Len(m.queued) \in Int /\ One(m.composer) \in Int
    BY Types, LenProperties, Ones
  <2>2. Len(m'.queued) + One(m'.composer) <= Len(m.queued) + One(m.composer)
    BY <1>2, <2>1
  <2>3. QED
    BY <1>2, <2>2, Types, CoreKept
<1>4. Rest' /\ (Calm' <=> Calm)
  BY <1>1, Types DEF Rest, Calm, hist
<1>5. Calm => Alone(m', pump) /\ OneAtATime(m', jobs)
  BY <1>2, ModelCalm DEF IInv
<1>6. CASE pump' = pump
  BY <1>1, <1>2, <1>3, <1>4, <1>5, <1>6, Types DEF IInv
<1>7. CASE pump' # pump
  <2>1. PICK c : c = m.cancel
    OBVIOUS
  <2>2. pump' = [pump EXCEPT !.run[c].stopped = TRUE]
    BY <1>1, <1>7, <2>1
  <2>3. pump.run \in Seq(Run) /\ pump \in Pump
    BY Types DEF Pump
  <2>4. c \in 1 .. Len(pump.run)
    <3>1. SUFFICES ASSUME c \notin 1 .. Len(pump.run) PROVE FALSE
      OBVIOUS
    <3>2. [pump.run EXCEPT ![c] = [@ EXCEPT !.stopped = TRUE]] = pump.run
      BY <2>3, <3>1
    <3>3. pump' = pump
      BY <2>2, <2>3, <3>2 DEF Pump
    <3>4. QED
      BY <1>7, <3>3
  <2>5. PICK run : run = [pump.run[c] EXCEPT !.stopped = TRUE]
    OBVIOUS
  <2>6. pump.run[c] \in Run
    BY <2>3, <2>4
  <2>7. /\ run \in Run /\ run.stage = pump.run[c].stage /\ run.out = pump.run[c].out
    BY <2>5, <2>6 DEF Run
  <2>8. pump' = WithRun(pump, c, run)
    BY <2>2, <2>5 DEF WithRun
  <2>9. EndsWell(run) /\ (HasAsked(run) => Asks(c, pump)) /\ (Ended(pump.run[c]) => Ended(run))
    <3>1. EndsWell(pump.run[c])
      BY <2>4, Types DEF Core
    <3>2. QED
      BY <2>7, <3>1 DEF EndsWell, HasAsked, Asks, Ended
  <2>10. Core(m', pump', sent, typed, asks)
    BY <1>3, <2>4, <2>7, <2>8, <2>9, Types, RunCore
  <2>11. /\ pump'.waiters = pump.waiters /\ Len(pump'.run) = Len(pump.run)
         /\ pump'.run[c] = run /\ \A k \in 1 .. Len(pump.run) : k # c => pump'.run[k] = pump.run[k]
    BY <2>3, <2>4, <2>7, <2>8, RunFields
  <2>12. Calm => Alone(m', pump')
    BY <1>5, <2>9, <2>11 DEF Alone
  <2>13. QED
    BY <1>1, <1>2, <1>4, <1>5, <2>10, <2>11, <2>12, Types DEF IInv
<1>8. QED
  BY <1>6, <1>7

LEMMA AnswerStep ==
  ASSUME IInv, AnswerConfirmation
  PROVE  IInv'
<1>1. PICK answered : answered = [m EXCEPT !.confirming = FALSE]
  OBVIOUS
<1>2. /\ m.confirming /\ StartStream(answered, pump, << >>)
      /\ IF m.streaming THEN Noted("early-answer") ELSE UNCHANGED mishaps
      /\ UNCHANGED << jobs, typed, asks, entered, dropped >>
  BY <1>1 DEF AnswerConfirmation
<1>3. << >> \in Message /\ One(<< >>) = 0
  BY EmptySeq DEF Message, One
<1>4. /\ answered \in Model /\ answered.streaming = m.streaming /\ answered.adkCh = m.adkCh
      /\ ~ answered.confirming /\ answered.compressing = m.compressing
      /\ answered.pending = m.pending /\ answered.queued = m.queued
      /\ answered.composer = m.composer
  BY <1>1, Types DEF Model
<1>5. PICK a : a = asks - 1 + One(<< >>)
  OBVIOUS
<1>6. a = asks - 1 /\ a \in Int /\ typed - One(<< >>) = typed
  BY <1>3, <1>5, Types
<1>7. Core(answered, pump, sent, typed, a)
  <2>1. OneIf(answered.confirming) = 0 /\ OneIf(m.confirming) = 1
    BY <1>2, <1>4 DEF OneIf
  <2>2. OneIf(answered.confirming) - a <= OneIf(m.confirming) - asks
    BY <1>6, <2>1, Types
  <2>3. Core(m, pump, sent, typed, asks)
    BY Types
  <2>4. Weight(answered) = Weight(m) /\ Weight(m) \in Int
    BY <1>4, <2>3, CoreCounts DEF Weight
  <2>5. Weight(answered) - typed <= Weight(m) - typed
    BY <2>4, Types
  <2>6. QED
    BY <1>4, <1>6, <2>2, <2>3, <2>5, Types, CoreModel
<1>8. Core(m', pump', sent', typed, asks) /\ Len(pump.run) + 1 \in RunIds
  BY <1>2, <1>3, <1>5, <1>6, <1>7, Types, StartCore
<1>9. Rest' /\ (Calm' => Calm /\ ~ m.streaming)
  BY <1>2, Types DEF Rest, Calm, Noted
<1>10. ASSUME Calm' PROVE Alone(m', pump') /\ OneAtATime(m', jobs)
  <2>1. Alone(m, pump) /\ OneAtATime(m, jobs) /\ ~ m.streaming
    BY <1>9, <1>10 DEF IInv
  <2>2. Alone(m', pump')
    BY <1>2, <1>3, <1>4, <1>8, <2>1, Types, IdleSilent, StartAlone
  <2>3. m'.compressing = answered.compressing /\ m'.pending = answered.pending
    BY <1>2, <1>3, <1>4, <1>8, Types, StartFields
  <2>4. ~ m.compressing /\ jobs = {} /\ m.pending = << >> /\ \A j, k \in jobs : j = k
    BY <1>2, <2>1 DEF OneAtATime
  <2>5. QED
    BY <1>4, <2>2, <2>3, <2>4 DEF OneAtATime
<1>11. QED
  BY <1>2, <1>8, <1>9, <1>10, Types DEF IInv

LEMMA CompressStep ==
  ASSUME IInv, CompressCommand
  PROVE  IInv'
<1>1. /\ ~ m.streaming /\ ~ m.confirming /\ ~ m.compressing
      /\ StartCompression(m, pump, << >>) /\ UNCHANGED << typed, asks, hist >>
  BY DEF CompressCommand, Idle
<1>2. << >> \in Message /\ typed - One(<< >>) = typed
  BY EmptySeq, Types DEF Message, One
<1>3. Core(m', pump', sent', typed, asks) /\ Jobs(jobs')
  BY <1>1, <1>2, Types, CompressionCore
<1>4. Calm => Alone(m', pump') /\ OneAtATime(m', jobs')
  BY <1>1, <1>2, Types, IdleSilent, CompressionCalm DEF IInv
<1>5. Rest' /\ (Calm' <=> Calm)
  BY <1>1, Types DEF Rest, Calm, hist
<1>6. QED
  BY <1>1, <1>3, <1>4, <1>5 DEF IInv

\* Some compressions are told to stop.
Stopping(js, c) == { [j EXCEPT !.stopped = @ \/ j.n = c] : j \in js }

LEMMA JobsStopped ==
  ASSUME NEW js, Jobs(js), NEW c
  PROVE  /\ Jobs(Stopping(js, c))
         /\ (\A j, k \in js : j = k) => \A j, k \in Stopping(js, c) : j = k
<1> DEFINE all == { [j EXCEPT !.stopped = @ \/ j.n = c] : j \in js }
           f == [j \in js |-> [j EXCEPT !.stopped = @ \/ j.n = c]]
<1>1. f \in Surjection(js, all)
  BY DEF Surjection
<1>2. IsFiniteSet(all)
  <2> HIDE DEF all, f
  <2>1. QED
    BY <1>1, FS_Surjection DEF Jobs
<1>3. all \subseteq Job
  BY DEF Jobs, Job
<1>4. (\A j, k \in js : j = k) => \A j, k \in all : j = k
  OBVIOUS
<1>5. QED
  BY <1>2, <1>3, <1>4 DEF Jobs, Stopping

LEMMA CancelCompressionStep ==
  ASSUME IInv, CancelCompression
  PROVE  IInv'
<1>1. /\ jobs' = Stopping(jobs, m.compressCancel)
      /\ Noted("compression-cancelled") /\ m.compressing
      /\ UNCHANGED << m, pump, typed, asks, sent, entered, dropped >>
  BY DEF CancelCompression, Stopping
<1>2. /\ Jobs(jobs')
      /\ (\A j, k \in jobs : j = k) => \A j, k \in jobs' : j = k
  BY <1>1, Types, JobsStopped
<1>3. Rest' /\ (Calm' <=> Calm)
  BY <1>1, Types DEF Rest, Calm, Noted
<1>4. Calm => Alone(m, pump) /\ OneAtATime(m, jobs')
  BY <1>1, <1>2 DEF IInv, OneAtATime
<1>5. QED
  BY <1>1, <1>2, <1>3, <1>4, Types DEF IInv

LEMMA NewSessionStep ==
  ASSUME IInv, NewSession
  PROVE  IInv'
<1>1. /\ m' = [m EXCEPT !.session = m.opened + 1, !.opened = m.opened + 1, !.queued = << >>]
      /\ m.opened < MaxSessions
      /\ dropped' = dropped \cup ToSet(FlattenSeq(m.queued))
      /\ UNCHANGED << pump, jobs, typed, asks, sent, entered, mishaps >>
  BY DEF NewSession
<1>2. << >> \in Seq(Message) /\ Len(<< >>) = 0
  BY EmptySeq
<1>3. m.opened + 1 \in 1 .. MaxSessions
  BY <1>1, Types, Bounds DEF Model
<1>4. /\ m' \in Model /\ m'.streaming = m.streaming /\ m'.adkCh = m.adkCh
      /\ m'.confirming = m.confirming /\ m'.compressing = m.compressing
      /\ m'.pending = m.pending /\ m'.queued = << >> /\ m'.composer = m.composer
  BY <1>1, <1>2, <1>3, Types DEF Model
<1>5. Core(m', pump, sent, typed, asks)
  <2>1. Len(m'.queued) = 0 /\ Len(m.queued) \in Nat /\ One(m.composer) \in Int
    BY <1>2, <1>4, Types, LenProperties, Ones
  <2>2. /\ Len(m'.queued) <= QueueCap
        /\ \A k \in 1 .. Len(m'.queued) : m'.queued[k] # << >>
        /\ Len(m'.queued) + One(m'.composer) <= Len(m.queued) + One(m.composer)
    BY <1>4, <2>1, Bounds
  <2>3. QED
    BY <1>4, <2>2, Types, CoreKept
<1>6. dropped' \subseteq Prompts
  <2>1. FlattenSeq(m.queued) \in Message
    BY Types, FlattenType DEF Message
  <2>2. ToSet(FlattenSeq(m.queued)) \subseteq Prompts
    BY <2>1 DEF ToSet, Message
  <2>3. QED
    BY <1>1, <2>2, Types DEF Rest
<1>7. Rest' /\ (Calm' <=> Calm)
  BY <1>1, <1>6, Types DEF Rest, Calm
<1>8. Calm => Alone(m', pump) /\ OneAtATime(m', jobs)
  BY <1>4, ModelCalm DEF IInv
<1>9. QED
  BY <1>1, <1>5, <1>7, <1>8, Types DEF IInv

LEMMA ResumeStep ==
  ASSUME IInv, Resume
  PROVE  IInv'
<1>1. PICK id \in 1 .. m.opened :
        m' = [m EXCEPT !.session = id, !.composer = << >>,
                       !.confirming = FALSE, !.cancelled = FALSE, !.streamFailed = FALSE]
  BY DEF Resume
<1>2. /\ ~ m.confirming /\ dropped' = dropped \cup ToSet(m.composer)
      /\ UNCHANGED << pump, jobs, typed, asks, sent, entered, mishaps >>
  BY DEF Resume, Idle
<1>3. << >> \in Message /\ id \in 1 .. MaxSessions
  BY EmptySeq, Types, Bounds DEF Message, Model
<1>4. /\ m' \in Model /\ m'.streaming = m.streaming /\ m'.adkCh = m.adkCh
      /\ m'.confirming = m.confirming /\ m'.compressing = m.compressing
      /\ m'.pending = m.pending /\ m'.queued = m.queued /\ m'.composer = << >>
  BY <1>1, <1>2, <1>3, Types DEF Model
<1>5. Core(m', pump, sent, typed, asks)
  <2>1. Len(m.queued) \in Nat /\ One(m.composer) \in {0, 1} /\ One(m'.composer) = 0
    BY <1>4, Types, LenProperties, Ones
  <2>2. Len(m'.queued) + One(m'.composer) <= Len(m.queued) + One(m.composer)
    BY <1>4, <2>1
  <2>3. QED
    BY <1>4, <2>2, Types, CoreKept
<1>6. dropped' \subseteq Prompts
  BY <1>2, Types DEF Rest, ToSet, Message
<1>7. Rest' /\ (Calm' <=> Calm)
  BY <1>2, <1>6, Types DEF Rest, Calm
<1>8. Calm => Alone(m', pump) /\ OneAtATime(m', jobs)
  BY <1>4, ModelCalm DEF IInv
<1>9. QED
  BY <1>2, <1>5, <1>7, <1>8, Types DEF IInv

-----------------------------------------------------------------------------
(***************************************************************************)
(* Every step keeps the invariant: the goroutines of a run.                *)
(***************************************************************************)
LEMMA RunChanges ==
  ASSUME IInv, NEW r \in Runs, NEW run \in Run, EndsWell(run),
         Ended(pump.run[r]) => Ended(run),
         pump' = WithRun(pump, r, run), UNCHANGED << m, jobs, typed, sent, hist >>,
         \/ asks' = asks /\ (HasAsked(run) => Asks(r, pump))
         \/ asks' = asks + 1 /\ asks < MaxAsks
  PROVE  IInv' /\ Len(pump'.run) = Len(pump.run)
<1>1. r \in 1 .. Len(pump.run)
  BY DEF Runs
<1>2. /\ pump'.waiters = pump.waiters /\ Len(pump'.run) = Len(pump.run)
      /\ pump'.run[r] = run /\ \A k \in 1 .. Len(pump.run) : k # r => pump'.run[k] = pump.run[k]
  BY <1>1, Types, RunFields
<1>3. Core(m, pump', sent, typed, asks')
  BY <1>1, Types, RunCore
<1>4. Rest' /\ (Calm' <=> Calm)
  <2>1. asks' \in 0 .. MaxAsks
    BY Types, Bounds DEF Rest
  <2>2. QED
    BY <2>1, Types DEF Rest, Calm, hist
<1>5. Alone(m, pump) => Alone(m, pump')
  BY <1>2 DEF Alone
<1>6. Calm => Alone(m, pump') /\ OneAtATime(m, jobs)
  BY <1>5 DEF IInv
<1>7. QED
  BY <1>2, <1>3, <1>4, <1>6, Types DEF IInv

LEMMA RunType ==
  ASSUME IInv, NEW r \in Runs
  PROVE  LET run == pump.run[r]
         IN  /\ run \in Run /\ EndsWell(run) /\ r \in 1 .. Len(pump.run)
             /\ run.out \in Seq({"event", "confirm", "error"})
<1>1. pump.run \in Seq(Run) /\ r \in 1 .. Len(pump.run)
  BY Types DEF Pump, Runs
<1>2. pump.run[r] \in Run
  BY <1>1
<1>3. EndsWell(pump.run[r])
  BY <1>1, Types DEF Core
<1>4. QED
  BY <1>1, <1>2, <1>3 DEF Run

LEMMA YieldStep ==
  ASSUME IInv, NEW r \in Runs, NEW item, NEW stage, RunYields(r, item, stage),
         \/ item = "event" /\ stage = "working" /\ asks' = asks
         \/ item = "error" /\ stage = "over" /\ asks' = asks
         \/ item = "confirm" /\ stage = "asked" /\ asks' = asks + 1 /\ asks < MaxAsks
  PROVE  IInv' /\ Len(pump'.run) = Len(pump.run)
<1>1. /\ pump.run[r].stage = "working" /\ UNCHANGED << m, jobs, typed, sent, hist >>
      /\ pump' = [pump EXCEPT !.run[r].out = Append(@, item), !.run[r].stage = stage]
  BY DEF RunYields
<1>2. r \in 1 .. Len(pump.run) /\ EndsWell(pump.run[r])
  BY RunType
<1>3. PICK old : old = pump.run[r]
  OBVIOUS
<1>4. old \in Run /\ old.out \in Seq({"event", "confirm", "error"}) /\ old.stage = "working"
  BY <1>1, <1>3, RunType
<1>5. PICK out : out = Append(old.out, item)
  OBVIOUS
<1>6. /\ out \in Seq({"event", "confirm", "error"}) /\ Len(out) = Len(old.out) + 1
      /\ \A k \in 1 .. Len(old.out) : out[k] = old.out[k]
      /\ out[Len(old.out) + 1] = item /\ Len(old.out) \in Nat
  BY <1>4, <1>5, Appended, LenProperties
<1>7. PICK run : run = [old EXCEPT !.out = out, !.stage = stage]
  OBVIOUS
<1>8. run \in Run /\ run.out = out /\ run.stage = stage
  BY <1>4, <1>6, <1>7 DEF Run
<1>9. pump' = WithRun(pump, r, run)
  BY <1>1, <1>3, <1>5, <1>7 DEF WithRun
<1>10. \A k \in 1 .. Len(out) : (out[k] = item /\ k = Len(out)) \/ out[k] = "event"
  <2>1. \A k \in 1 .. Len(old.out) : old.out[k] = "event"
    <3>1. \A k \in 1 .. Len(old.out) : old.out[k] \in {"event", "confirm", "error"}
      BY <1>4
    <3>2. QED
      BY <1>2, <1>3, <1>4, <3>1 DEF EndsWell
  <2>2. \A k \in 1 .. Len(out) : k \in 1 .. Len(old.out) \/ k = Len(old.out) + 1
    BY <1>6
  <2>3. QED
    BY <1>6, <2>1, <2>2
<1>11. EndsWell(run)
  BY <1>8, <1>10 DEF EndsWell
<1>12. HasAsked(run) => item = "confirm"
  BY <1>8, <1>10 DEF HasAsked
<1>13. ~ Ended(pump.run[r])
  BY <1>1 DEF Ended
<1>14. QED
  BY <1>1, <1>8, <1>9, <1>11, <1>12, <1>13, RunChanges

LEMMA ReturnStep ==
  ASSUME IInv, NEW r \in Runs, RunReturns(r)
  PROVE  IInv' /\ Len(pump'.run) = Len(pump.run)
<1>1. /\ pump.run[r].stage # "over" /\ UNCHANGED << m, jobs, typed, asks, sent, hist >>
      /\ pump' = [pump EXCEPT !.run[r].stage = "over"]
  BY DEF RunReturns
<1>2. pump.run[r] \in Run /\ EndsWell(pump.run[r])
  BY Types DEF Runs, Pump, Core
<1>3. PICK run : run = [pump.run[r] EXCEPT !.stage = "over"]
  OBVIOUS
<1>4. run \in Run /\ run.out = pump.run[r].out /\ run.stage = "over"
  BY <1>2, <1>3 DEF Run
<1>5. pump' = WithRun(pump, r, run)
  BY <1>1, <1>3 DEF WithRun
<1>6. EndsWell(run) /\ (HasAsked(run) => Asks(r, pump)) /\ ~ Ended(pump.run[r])
  BY <1>1, <1>2, <1>4 DEF EndsWell, HasAsked, Asks, Ended
<1>7. QED
  BY <1>1, <1>4, <1>5, <1>6, RunChanges

LEMMA StoppedStep ==
  ASSUME IInv, NEW r \in Runs, StoppedRunEnds(r)
  PROVE  IInv' /\ Len(pump'.run) = Len(pump.run)
<1>1. /\ pump.run[r].stage # "over" \/ pump.run[r].out # << >>
      /\ UNCHANGED << m, jobs, typed, asks, sent, hist >>
  BY DEF StoppedRunEnds
<1>2. PICK out \in { << >>, << "error" >> } \cup Heads(pump.run[r].out) :
        pump' = [pump EXCEPT !.run[r].stage = "over", !.run[r].out = out]
  BY DEF StoppedRunEnds
<1>3. PICK old : old = pump.run[r]
  OBVIOUS
<1>4. old \in Run /\ EndsWell(old) /\ old.out \in Seq({"event", "confirm", "error"})
  BY <1>3, RunType
<1>5. /\ out \in Seq({"event", "confirm", "error"})
      /\ \A k \in 1 .. Len(out) : k = Len(out)
      /\ \A k \in 1 .. Len(out) : out[k] = "confirm" => HasAsked(old)
  <2>1. CASE out = << >>
    BY <2>1, EmptySeq
  <2>2. CASE out = << "error" >>
    BY <2>2
  <2>3. CASE out \in Heads(old.out)
    <3>1. old.out # << >> /\ out = << Head(old.out) >>
      BY <2>3 DEF Heads
    <3>2. /\ Head(old.out) = old.out[1] /\ 1 \in 1 .. Len(old.out)
          /\ Head(old.out) \in {"event", "confirm", "error"}
      BY <1>4, <3>1, Behead
    <3>3. /\ out \in Seq({"event", "confirm", "error"})
          /\ Len(out) = 1 /\ out[1] = old.out[1]
      BY <3>1, <3>2
    <3>4. QED
      BY <3>2, <3>3 DEF HasAsked
  <2>4. QED
    BY <1>2, <1>3, <2>1, <2>2, <2>3
<1>6. PICK run : run = [old EXCEPT !.stage = "over", !.out = out]
  OBVIOUS
<1>7. run \in Run /\ run.stage = "over" /\ run.out = out
  BY <1>4, <1>5, <1>6 DEF Run
<1>8. pump' = WithRun(pump, r, run)
  BY <1>2, <1>3, <1>6 DEF WithRun
<1>9. EndsWell(run)
  BY <1>5, <1>7 DEF EndsWell
<1>10. HasAsked(run) => Asks(r, pump)
  BY <1>3, <1>5, <1>7 DEF HasAsked, Asks
<1>11. ~ Ended(pump.run[r])
  BY <1>1 DEF Ended
<1>12. QED
  BY <1>1, <1>7, <1>8, <1>9, <1>10, <1>11, RunChanges

LEMMA RunStepKeeps ==
  ASSUME IInv, NEW r \in Runs, RunStep(r)
  PROVE  IInv' /\ Len(pump'.run) = Len(pump.run) /\ m' = m
<1>1. CASE RunAppends(r)
  BY <1>1, YieldStep DEF RunAppends, RunYields
<1>2. CASE RunFails(r)
  BY <1>2, YieldStep DEF RunFails, RunYields
<1>3. CASE RunAsks(r)
  BY <1>3, YieldStep DEF RunAsks, RunYields
<1>4. CASE RunReturns(r)
  BY <1>4, ReturnStep DEF RunReturns
<1>5. CASE StoppedRunEnds(r)
  BY <1>5, StoppedStep DEF StoppedRunEnds
<1>6. QED
  BY <1>1, <1>2, <1>3, <1>4, <1>5 DEF RunStep

-----------------------------------------------------------------------------
(***************************************************************************)
(* Every step keeps the invariant: messages of a run.                      *)
(***************************************************************************)
LEMMA TakenFields ==
  ASSUME NEW p \in Pump, NEW r \in RunIds \cup {NoRun}
  PROVE  /\ p.waiters[r] > 0 =>
              /\ Taken(p, r) \in Pump /\ Taken(p, r).run = p.run
              /\ \A k \in RunIds \cup {NoRun} :
                   Taken(p, r).waiters[k] = p.waiters[k] - OneIf(k = r)
         /\ Waits(p, r) \in Pump /\ Waits(p, r).run = p.run
         /\ \A k \in RunIds \cup {NoRun} :
              Waits(p, r).waiters[k] = p.waiters[k] + OneIf(k = r)
<1>1. p.waiters \in [RunIds \cup {NoRun} -> Nat]
  BY DEF Pump
<1>2. /\ Waits(p, r) \in Pump /\ Waits(p, r).run = p.run
      /\ Waits(p, r).waiters = [p.waiters EXCEPT ![r] = @ + 1]
  BY <1>1, SMTT(30) DEF Waits, Pump
<1>3. p.waiters[r] > 0 =>
        /\ Taken(p, r) \in Pump /\ Taken(p, r).run = p.run
        /\ Taken(p, r).waiters = [p.waiters EXCEPT ![r] = @ - 1]
  BY <1>1 DEF Taken, Pump
<1>4. QED
  BY <1>1, <1>2, <1>3 DEF OneIf

LEMMA WaitersCore ==
  ASSUME NEW model, NEW p, NEW s, NEW t, NEW a \in Int, Core(model, p, s, t, a),
         NEW q \in Pump, q.run = p.run
  PROVE  Core(model, q, s, t, a)
<1>1. Asking(q) = Asking(p)
  BY DEF Asking, Asks
<1>2. \A r \in 1 .. Len(q.run) : EndsWell(q.run[r])
  BY DEF Core
<1>3. Cardinality(Asking(p)) \in Nat
  BY CoreCounts
<1>4. QED
  BY <1>1, <1>2, <1>3, CorePump

\* A message arrives from the run on screen.
LEMMA OnScreen ==
  ASSUME IInv, Calm, NEW r \in Runs, pump.waiters[r] > 0
  PROVE  m.streaming /\ r = m.adkCh /\ ~ m.compressing /\ OneAtATime(m, jobs)
<1>1. r \in RunIds
  BY Types
<1>2. pump.waiters[r] = OneIf(Reads(m, r)) /\ OneAtATime(m, jobs)
  BY <1>1 DEF IInv, Alone
<1>3. Reads(m, r)
  BY <1>2 DEF OneIf
<1>4. QED
  BY <1>2, <1>3 DEF Reads, OneAtATime

\* When the last message of a run is taken, nothing is left.
LEMMA Drained ==
  ASSUME IInv, Calm, NEW r \in Runs, pump.waiters[r] > 0,
         NEW q, Len(q.run) = Len(pump.run), Ended(q.run[r]),
         \A k \in 1 .. Len(pump.run) : k # r => q.run[k] = pump.run[k],
         \A k \in RunIds \cup {NoRun} : q.waiters[k] = pump.waiters[k] - OneIf(k = r)
  PROVE  Silent(q)
<1>1. m.streaming /\ r = m.adkCh /\ Alone(m, pump)
  BY OnScreen DEF IInv
<1>2. \A k \in RunIds \cup {NoRun} : pump.waiters[k] = OneIf(k = r)
  BY <1>1 DEF Alone, Reads
<1>3. \A k \in RunIds \cup {NoRun} : q.waiters[k] = 0
  BY <1>2 DEF OneIf
<1>4. \A k \in 1 .. Len(pump.run) : k # r => Ended(pump.run[k])
  BY <1>1 DEF Alone, Reads
<1>5. QED
  BY <1>3, <1>4 DEF Silent

\* The first message of a run is taken, leaving these.
Unread(r) == [pump.run[r] EXCEPT !.out = Tail(pump.run[r].out)]

LEMMA UnreadFields ==
  ASSUME IInv, NEW r \in Runs, pump.waiters[r] > 0, pump.run[r].out # << >>
  PROVE  LET old == pump.run[r]
             run == Unread(r)
             q == Taken([pump EXCEPT !.run[r].out = Tail(@)], r)
         IN  /\ q \in Pump /\ Len(q.run) = Len(pump.run) /\ q.run[r] = run
             /\ \A k \in 1 .. Len(pump.run) : k # r => q.run[k] = pump.run[k]
             /\ \A k \in RunIds \cup {NoRun} : q.waiters[k] = pump.waiters[k] - OneIf(k = r)
             /\ q.run = WithRun(pump, r, run).run
             /\ run \in Run /\ EndsWell(run) /\ run.stage = old.stage
             /\ HasAsked(run) => Asks(r, pump)
             /\ Head(old.out) \in {"event", "confirm", "error"}
             /\ Head(old.out) # "event" => run.out = << >>
             /\ Head(old.out) = "confirm" => Asks(r, pump) /\ ~ HasAsked(run)
             /\ Head(old.out) = "error" => old.stage = "over"
<1>1. PICK old, tail : old = pump.run[r] /\ tail = Tail(old.out)
  OBVIOUS
<1>2. /\ old \in Run /\ EndsWell(old) /\ r \in 1 .. Len(pump.run) /\ r \in RunIds
      /\ old.out \in Seq({"event", "confirm", "error"}) /\ old.out # << >>
  BY <1>1, RunType, Types
<1>3. /\ Len(old.out) \in Nat \ {0} /\ Head(old.out) = old.out[1]
      /\ Head(old.out) \in {"event", "confirm", "error"}
      /\ tail \in Seq({"event", "confirm", "error"}) /\ Len(tail) = Len(old.out) - 1
      /\ \A k \in 1 .. Len(old.out) - 1 : tail[k] = old.out[k + 1]
  BY <1>1, <1>2, Behead
<1>4. PICK run : run = [old EXCEPT !.out = tail]
  OBVIOUS
<1>5. run = Unread(r) /\ run \in Run /\ run.stage = old.stage /\ run.out = tail
  BY <1>1, <1>2, <1>3, <1>4 DEF Unread, Run
<1>6. PICK w : w = [pump EXCEPT !.run[r].out = Tail(@)]
  OBVIOUS
<1>7. w = WithRun(pump, r, run)
  BY <1>1, <1>4, <1>6 DEF WithRun
<1>8. /\ w \in Pump /\ w.waiters = pump.waiters /\ Len(w.run) = Len(pump.run)
      /\ w.run[r] = run /\ \A k \in 1 .. Len(pump.run) : k # r => w.run[k] = pump.run[k]
  BY <1>2, <1>5, <1>7, Types, RunFields
<1>9. PICK q : q = Taken(w, r)
  OBVIOUS
<1>10. /\ q \in Pump /\ q.run = w.run
       /\ \A k \in RunIds \cup {NoRun} : q.waiters[k] = pump.waiters[k] - OneIf(k = r)
  BY <1>2, <1>8, <1>9, TakenFields
<1>11. \A k \in 1 .. Len(tail) : k + 1 \in 1 .. Len(old.out) /\ tail[k] = old.out[k + 1]
  BY <1>3
<1>12. EndsWell(run)
  <2>1. ASSUME NEW k \in 1 .. Len(tail) 
        PROVE  /\ tail[k] \in {"confirm", "error"} => k = Len(tail) /\ run.stage # "working"
               /\ tail[k] = "error" => run.stage = "over"
    <3>1. /\ old.out[k + 1] \in {"confirm", "error"} =>
               k + 1 = Len(old.out) /\ old.stage # "working"
          /\ old.out[k + 1] = "error" => old.stage = "over"
      BY <1>2, <1>11 DEF EndsWell
    <3>2. k + 1 = Len(old.out) => k = Len(tail)
      BY <1>3
    <3>3. QED
      BY <1>5, <1>11, <3>1, <3>2
  <2>2. QED
    BY <1>5, <2>1 DEF EndsWell
<1>13. HasAsked(run) => Asks(r, pump)
  BY <1>1, <1>5, <1>11 DEF HasAsked, Asks
<1>14. Head(old.out) # "event" => tail = << >>
  <2>1. SUFFICES ASSUME Head(old.out) # "event" PROVE tail = << >>
    OBVIOUS
  <2>2. old.out[1] \in {"confirm", "error"} /\ 1 \in 1 .. Len(old.out)
    BY <1>3, <2>1
  <2>3. 1 = Len(old.out)
    BY <1>2, <2>2 DEF EndsWell
  <2>4. Len(tail) = 0
    BY <1>3, <2>3
  <2>5. QED
    BY <1>3, <2>4, EmptySeq
<1>15. Head(old.out) = "confirm" => Asks(r, pump) /\ ~ HasAsked(run)
  <2>1. SUFFICES ASSUME Head(old.out) = "confirm" PROVE Asks(r, pump) /\ ~ HasAsked(run)
    OBVIOUS
  <2>2. 1 \in 1 .. Len(old.out) /\ old.out[1] = "confirm"
    BY <1>3, <2>1
  <2>3. Asks(r, pump)
    BY <1>1, <2>2 DEF HasAsked, Asks
  <2>4. run.out = << >>
    BY <1>5, <1>14, <2>1
  <2>5. ~ HasAsked(run)
    BY <2>4 DEF HasAsked
  <2>6. QED
    BY <2>3, <2>5
<1>16. Head(old.out) = "error" => old.stage = "over"
  <2>1. 1 \in 1 .. Len(old.out)
    BY <1>3
  <2>2. QED
    BY <1>2, <1>3, <2>1 DEF EndsWell
<1>17. Taken([pump EXCEPT !.run[r].out = Tail(@)], r) = q
  BY <1>6, <1>9
<1>18. q.run = WithRun(pump, r, run).run
  BY <1>7, <1>10
<1>19. QED
  BY <1>1, <1>3, <1>5, <1>8, <1>10, <1>12, <1>13, <1>14, <1>15, <1>16, <1>17, <1>18

LEMMA EventStep ==
  ASSUME IInv, NEW r \in Runs, HandleEvent(r)
  PROVE  IInv' /\ Len(pump'.run) = Len(pump.run) /\ m'.compressing = m.compressing
<1>1. /\ pump.waiters[r] > 0 /\ pump.run[r].out # << >>
      /\ UNCHANGED << jobs, typed, asks, sent, hist >>
  BY DEF HandleEvent
<1>2. PICK asked : asked = (Head(pump.run[r].out) = "confirm")
  OBVIOUS
<1>3. PICK q : q = Taken([pump EXCEPT !.run[r].out = Tail(@)], r)
  OBVIOUS
<1>4. m' = [m EXCEPT !.confirming = @ \/ asked] /\ pump' = Waits(q, m.adkCh)
  BY <1>2, <1>3 DEF HandleEvent, Rearm
<1>5. PICK run : run = Unread(r)
  OBVIOUS
<1>6. /\ q \in Pump /\ Len(q.run) = Len(pump.run) /\ q.run[r] = run
      /\ \A k \in 1 .. Len(pump.run) : k # r => q.run[k] = pump.run[k]
      /\ \A k \in RunIds \cup {NoRun} : q.waiters[k] = pump.waiters[k] - OneIf(k = r)
      /\ q.run = WithRun(pump, r, run).run
      /\ run \in Run /\ EndsWell(run)
      /\ HasAsked(run) => Asks(r, pump)
      /\ asked => Asks(r, pump) /\ ~ HasAsked(run)
  BY <1>1, <1>2, <1>3, <1>5, UnreadFields
<1>7. m.adkCh \in RunIds \cup {NoRun} /\ r \in 1 .. Len(pump.run) /\ asked \in BOOLEAN
  BY <1>2, Types, RunType DEF Model
<1>8. /\ pump' \in Pump /\ pump'.run = q.run
      /\ \A k \in RunIds \cup {NoRun} : pump'.waiters[k] = q.waiters[k] + OneIf(k = m.adkCh)
  BY <1>4, <1>6, <1>7, TakenFields
<1>9. /\ m' \in Model /\ m'.streaming = m.streaming /\ m'.adkCh = m.adkCh
      /\ m'.confirming = (m.confirming \/ asked) /\ m'.compressing = m.compressing
      /\ m'.pending = m.pending /\ m'.queued = m.queued /\ m'.composer = m.composer
  BY <1>4, <1>7, Types DEF Model
<1>10. Core(m', pump', sent, typed, asks)
  <2>1. Core(m, pump, sent, typed, asks) /\ asks - 1 \in Int
    BY Types
  <2>2. Weight(m') = Weight(m) /\ Weight(m) \in Int
    BY <1>9, <2>1, CoreCounts DEF Weight
  <2>3. Weight(m') - typed <= Weight(m) - typed
    BY <2>2, Types
  <2>4. WithRun(pump, r, run) \in Pump
    BY <1>6, <1>7, Types, RunFields
  <2>5. CASE asked
    <3>1. Core(m, WithRun(pump, r, run), sent, typed, asks - 1)
      BY <1>6, <1>7, <2>1, <2>5, Types, RunCore
    <3>2. OneIf(m'.confirming) = 1 /\ OneIf(m.confirming) \in {0, 1}
      BY <1>9, <2>5, Types, OneIfs DEF OneIf
    <3>3. OneIf(m'.confirming) - asks <= OneIf(m.confirming) - (asks - 1)
      BY <3>2, Types
    <3>4. Core(m', WithRun(pump, r, run), sent, typed, asks)
      BY <1>9, <2>1, <2>3, <3>1, <3>3, Types, CoreModel
    <3>5. QED
      BY <1>6, <1>8, <2>4, <3>4, Types, WaitersCore
  <2>6. CASE ~ asked
    <3>1. Core(m, WithRun(pump, r, run), sent, typed, asks)
      BY <1>6, <1>7, <2>1, Types, RunCore
    <3>2. m'.confirming = m.confirming
      BY <1>9, <2>6, Types
    <3>3. OneIf(m'.confirming) - asks <= OneIf(m.confirming) - asks
      BY <3>2, Types, OneIfs
    <3>4. Core(m', WithRun(pump, r, run), sent, typed, asks)
      BY <1>9, <2>3, <3>1, <3>3, Types, CoreModel
    <3>5. QED
      BY <1>6, <1>8, <2>4, <3>4, Types, WaitersCore
  <2>7. QED
    BY <2>5, <2>6
<1>11. ASSUME Calm PROVE Alone(m', pump') /\ OneAtATime(m', jobs)
  <2>1. m.streaming /\ r = m.adkCh /\ ~ m.compressing /\ OneAtATime(m, jobs) /\ Alone(m, pump)
    BY <1>1, <1>11, OnScreen DEF IInv
  <2>2. pump.waiters \in [RunIds \cup {NoRun} -> Nat]
    BY Types DEF Pump
  <2>3. \A k \in RunIds \cup {NoRun} : pump'.waiters[k] = pump.waiters[k]
    BY <1>6, <1>8, <2>1, <2>2 DEF OneIf
  <2>4. Alone(m', pump')
    <3>1. \A k : Reads(m', k) <=> k = r
      BY <1>9, <2>1 DEF Reads
    <3>2. \A k : Reads(m, k) <=> k = r
      BY <2>1 DEF Reads
    <3>3. \A k \in RunIds \cup {NoRun} : pump'.waiters[k] = OneIf(Reads(m', k))
      BY <2>1, <2>3, <3>1, <3>2 DEF Alone, OneIf
    <3>4. \A k \in 1 .. Len(pump'.run) : ~ Reads(m', k) => Ended(pump'.run[k])
      BY <1>6, <1>8, <2>1, <3>1, <3>2 DEF Alone
    <3>5. QED
      BY <1>6, <1>7, <1>8, <1>9, <2>1, <3>3, <3>4 DEF Alone
  <2>5. OneAtATime(m', jobs)
    BY <1>9, <2>1 DEF OneAtATime
  <2>6. QED
    BY <2>4, <2>5
<1>12. Rest' /\ (Calm' <=> Calm)
  BY <1>1, Types DEF Rest, Calm, hist
<1>13. QED
  BY <1>1, <1>6, <1>8, <1>9, <1>10, <1>11, <1>12, Types DEF IInv

LEMMA ErrorStep ==
  ASSUME IInv, NEW r \in Runs, HandleError(r)
  PROVE  IInv' /\ Len(pump'.run) = Len(pump.run) /\ m'.compressing = m.compressing
<1>1. PICK failed : failed = [m EXCEPT !.cancelled = FALSE, !.streamFailed = TRUE]
  OBVIOUS
<1>2. PICK q : q = Taken([pump EXCEPT !.run[r].out = Tail(@)], r)
  OBVIOUS
<1>3. /\ pump.waiters[r] > 0 /\ pump.run[r].out # << >> /\ Head(pump.run[r].out) = "error"
      /\ FinishStreaming(failed, q) /\ UNCHANGED << typed, asks, hist >>
  BY <1>1, <1>2 DEF HandleError
<1>4. PICK run : run = Unread(r)
  OBVIOUS
<1>5. /\ q \in Pump /\ Len(q.run) = Len(pump.run) /\ q.run[r] = run
      /\ \A k \in 1 .. Len(pump.run) : k # r => q.run[k] = pump.run[k]
      /\ \A k \in RunIds \cup {NoRun} : q.waiters[k] = pump.waiters[k] - OneIf(k = r)
      /\ q.run = WithRun(pump, r, run).run
      /\ run \in Run /\ EndsWell(run) /\ Ended(run)
      /\ HasAsked(run) => Asks(r, pump)
  BY <1>2, <1>3, <1>4, UnreadFields DEF Ended
<1>6. /\ failed \in Model /\ failed.streaming = m.streaming /\ failed.adkCh = m.adkCh
      /\ failed.confirming = m.confirming /\ failed.compressing = m.compressing
      /\ failed.pending = m.pending /\ failed.queued = m.queued
      /\ failed.composer = m.composer /\ failed.streamFailed
  BY <1>1, Types DEF Model
<1>7. Core(failed, q, sent, typed, asks)
  <2>1. r \in 1 .. Len(pump.run)
    BY RunType
  <2>2. WithRun(pump, r, run) \in Pump /\ Core(m, WithRun(pump, r, run), sent, typed, asks)
    BY <1>5, <2>1, Types, RunFields, RunCore
  <2>3. Core(m, q, sent, typed, asks)
    BY <1>5, <2>2, Types, WaitersCore
  <2>4. Len(failed.queued) + One(failed.composer) <= Len(m.queued) + One(m.composer)
    BY <1>6, Types, LenProperties, Ones
  <2>5. QED
    BY <1>6, <2>3, <2>4, Types, CoreKept
<1>8. Core(m', pump', sent', typed, asks) /\ Jobs(jobs')
  BY <1>3, <1>7, Types, FinishCore
<1>9. ASSUME Calm PROVE Alone(m', pump') /\ OneAtATime(m', jobs')
  <2>1. m.streaming /\ ~ m.compressing /\ OneAtATime(m, jobs)
    BY <1>3, <1>9, OnScreen
  <2>2. Silent(q)
    BY <1>3, <1>5, <1>9, Drained
  <2>3. OneAtATime(failed, jobs)
    BY <1>6, <2>1 DEF OneAtATime
  <2>4. QED
    BY <1>3, <1>6, <1>7, <2>1, <2>2, <2>3, Types, FinishCalm
<1>10. pump' = q /\ m'.compressing = m.compressing
  BY <1>3, <1>6, <1>7, Types, FinishOver DEF Over
<1>11. Rest' /\ (Calm' <=> Calm)
  BY <1>3, Types DEF Rest, Calm, hist
<1>12. QED
  BY <1>3, <1>5, <1>8, <1>9, <1>10, <1>11 DEF IInv

LEMMA DoneStep ==
  ASSUME IInv, NEW r \in Runs, HandleDone(r)
  PROVE  IInv' /\ (Over(m) => Len(pump'.run) = Len(pump.run) /\ m'.compressing = m.compressing)
<1>1. PICK q : q = Taken(pump, r)
  OBVIOUS
<1>2. /\ pump.waiters[r] > 0 /\ Ended(pump.run[r])
      /\ FinishStreaming(m, q) /\ UNCHANGED << typed, asks, hist >>
  BY <1>1 DEF HandleDone, Ended
<1>3. /\ q \in Pump /\ q.run = pump.run
      /\ \A k \in RunIds \cup {NoRun} : q.waiters[k] = pump.waiters[k] - OneIf(k = r)
  BY <1>1, <1>2, Types, TakenFields
<1>4. Core(m, q, sent, typed, asks)
  BY <1>3, Types, WaitersCore
<1>5. Core(m', pump', sent', typed, asks) /\ Jobs(jobs')
  BY <1>2, <1>4, Types, FinishCore
<1>6. ASSUME Calm PROVE Alone(m', pump') /\ OneAtATime(m', jobs')
  <2>1. m.streaming /\ ~ m.compressing /\ OneAtATime(m, jobs)
    BY <1>2, <1>6, OnScreen
  <2>2. Silent(q)
    BY <1>2, <1>3, <1>6, Drained
  <2>3. QED
    BY <1>2, <1>4, <2>1, <2>2, Types, FinishCalm
<1>7. Over(m) => pump' = q /\ m'.compressing = m.compressing
  BY <1>2, <1>4, Types, FinishOver
<1>8. Rest' /\ (Calm' <=> Calm)
  BY <1>2, Types DEF Rest, Calm, hist
<1>9. QED
  BY <1>2, <1>3, <1>5, <1>6, <1>7, <1>8 DEF IInv

-----------------------------------------------------------------------------
(***************************************************************************)
(* Every step keeps the invariant: results of a compression.               *)
(***************************************************************************)

\* A result that counts is the only one there is, with nothing else under way.
LEMMA LastJob ==
  ASSUME IInv, NEW j \in jobs
  PROVE  /\ JobsWithout(j) = Stopping(jobs \ {j}, m.compressCancel)
         /\ Jobs(JobsWithout(j))
         /\ Calm => JobsWithout(j) = {} /\ ~ m.streaming /\ ~ m.confirming /\ Silent(pump)
<1>1. JobsWithout(j) = Stopping(jobs \ {j}, m.compressCancel)
  BY DEF JobsWithout, Stopping
<1>2. Jobs(jobs \ {j})
  BY Types, FS_Subset DEF Jobs
<1>3. Jobs(JobsWithout(j))
  BY <1>1, <1>2, JobsStopped
<1>4. ASSUME Calm PROVE JobsWithout(j) = {} /\ ~ m.streaming /\ ~ m.confirming /\ Silent(pump)
  <2>1. Alone(m, pump) /\ OneAtATime(m, jobs)
    BY <1>4 DEF IInv
  <2>2. ~ m.streaming /\ ~ m.confirming /\ jobs \ {j} = {}
    BY <2>1 DEF OneAtATime
  <2>3. QED
    BY <1>1, <2>1, <2>2, IdleSilent DEF Stopping
<1>5. QED
  BY <1>1, <1>3, <1>4

LEMMA ClearedFields ==
  ASSUME IInv
  PROVE  /\ Cleared \in Model /\ Cleared.streaming = m.streaming /\ Cleared.adkCh = m.adkCh
         /\ Cleared.confirming = m.confirming /\ ~ Cleared.compressing
         /\ Cleared.pending = << >> /\ Cleared.queued = m.queued
         /\ Cleared.composer = m.composer
         /\ Core(Cleared, pump, sent, typed - One(m.pending), asks)
<1>1. << >> \in Message /\ NoJob \in Nat
  BY EmptySeq DEF Message, NoJob
<1>2. /\ Cleared \in Model /\ Cleared.streaming = m.streaming /\ Cleared.adkCh = m.adkCh
      /\ Cleared.confirming = m.confirming /\ ~ Cleared.compressing
      /\ Cleared.pending = << >> /\ Cleared.queued = m.queued
      /\ Cleared.composer = m.composer
  BY <1>1, Types DEF Cleared, Model
<1>3. PICK x, y, t : /\ x = One(m.pending) /\ y = Len(m.queued) + One(m.composer)
                     /\ t = typed - One(m.pending)
  OBVIOUS
<1>4. x \in Int /\ y \in Int /\ t \in Int /\ t = typed - x
  <2>1. Len(m.queued) \in Int
    BY Types, LenProperties
  <2>2. QED
    BY <1>3, <2>1, Types, Ones
<1>5. Weight(m) = x + y /\ Weight(Cleared) = y
  <2>1. One(Cleared.pending) = 0
    BY <1>2 DEF One
  <2>2. Len(m.queued) \in Int /\ One(m.composer) \in Int
    BY Types, LenProperties, Ones
  <2>3. QED
    BY <1>2, <1>3, <1>4, <2>1, <2>2 DEF Weight
<1>6. Weight(Cleared) - t <= Weight(m) - typed
  BY <1>4, <1>5, Types
<1>7. OneIf(Cleared.confirming) - asks <= OneIf(m.confirming) - asks
  BY <1>2, Types, OneIfs
<1>8. Core(Cleared, pump, sent, t, asks)
  BY <1>2, <1>4, <1>6, <1>7, Types, CoreModel
<1>9. QED
  BY <1>2, <1>3, <1>8

\* The pending message goes nowhere, or to the composer.
LEMMA PutBack ==
  ASSUME IInv, NEW j \in jobs, NEW other \in Model, jobs' = JobsWithout(j),
         m' = other, UNCHANGED << pump, typed, asks, sent, entered, dropped >>,
         mishaps' = mishaps \/ Noted("compression-fails"),
         other.streaming = m.streaming, other.adkCh = m.adkCh,
         other.confirming = m.confirming, ~ other.compressing,
         other.pending = << >>, other.queued = m.queued,
         other.composer \in {m.composer, m.pending}
  PROVE  IInv'
<1>1. PICK x, y, z : x = One(m.pending) /\ y = One(m.composer) /\ z = One(other.composer)
  OBVIOUS
<1>2. x \in {0, 1} /\ y \in {0, 1} /\ z \in {0, 1} /\ z <= x + y
  <2>1. x \in {0, 1} /\ y \in {0, 1} /\ z \in {0, 1}
    BY <1>1, Ones
  <2>2. z = x \/ z = y
    BY <1>1
  <2>3. QED
    BY <2>1, <2>2
<1>3. Weight(other) - typed <= Weight(m) - typed
  <2>1. Len(m.queued) \in Int
    BY Types, LenProperties
  <2>2. One(other.pending) = 0
    BY DEF One
  <2>3. Weight(other) = 0 + Len(m.queued) + z /\ Weight(m) = x + Len(m.queued) + y
    BY <1>1, <2>2 DEF Weight
  <2>4. QED
    BY <1>2, <2>1, <2>3, Types
<1>4. OneIf(other.confirming) - asks <= OneIf(m.confirming) - asks
  BY Types, OneIfs
<1>5. Core(other, pump, sent, typed, asks)
  BY <1>3, <1>4, Types, CoreModel
<1>6. Rest' /\ (Calm' <=> Calm)
  BY Types DEF Rest, Calm, Noted
<1>7. ASSUME Calm PROVE Alone(other, pump) /\ OneAtATime(other, jobs')
  <2>1. jobs' = {} /\ ~ other.streaming /\ Silent(pump)
    BY <1>7, LastJob
  <2>2. QED
    BY <2>1, SilentAlone DEF OneAtATime
<1>8. Jobs(jobs')
  BY LastJob
<1>9. QED
  BY <1>5, <1>6, <1>7, <1>8 DEF IInv

LEMMA SummaryStep ==
  ASSUME IInv, NEW j \in jobs, HandleSummary(j)
  PROVE  IInv'
<1>1. jobs' = JobsWithout(j) /\ UNCHANGED << typed, asks, hist >>
  BY DEF HandleSummary
<1>2. CASE m.pending = << >> /\ m' = Cleared /\ UNCHANGED << pump, sent >>
  BY <1>1, <1>2, ClearedFields, PutBack DEF hist
<1>3. CASE m.pending # << >> /\ StartStream(Cleared, pump, m.pending)
  <2>1. PICK t : t = typed - One(m.pending)
    OBVIOUS
  <2>2. asks - 1 + One(m.pending) = asks
    BY <1>3, Types DEF One
  <2>3. Core(m', pump', sent', typed, asks) /\ Len(pump.run) + 1 \in RunIds
    BY <1>3, <2>2, Types, ClearedFields, StartCore
  <2>4. Rest' /\ (Calm' <=> Calm)
    BY <1>1, Types DEF Rest, Calm, hist
  <2>5. ASSUME Calm PROVE Alone(m', pump') /\ OneAtATime(m', jobs')
    <3>1. jobs' = {} /\ Silent(pump)
      BY <1>1, <2>5, LastJob
    <3>2. Alone(m', pump')
      BY <1>3, <2>3, <3>1, Types, ClearedFields, StartAlone
    <3>3. ~ m'.compressing /\ m'.pending = << >>
      BY <1>3, <2>3, Types, ClearedFields, StartFields
    <3>4. QED
      BY <3>1, <3>2, <3>3 DEF OneAtATime
  <2>6. Jobs(jobs')
    BY <1>1, LastJob
  <2>7. QED
    BY <1>1, <2>3, <2>4, <2>5, <2>6 DEF IInv
<1>4. QED
  BY <1>2, <1>3 DEF HandleSummary

LEMMA ResultStep ==
  ASSUME IInv, NEW j \in jobs, Result(j)
  PROVE  IInv'
<1>1. CASE HandleSummary(j)
  BY <1>1, SummaryStep
<1>2. CASE HandleCancelled(j)
  <2>1. PICK text : text = IF m.pending = << >> THEN m.composer ELSE m.pending
    OBVIOUS
  <2>2. PICK other : other = [Cleared EXCEPT !.composer = text]
    OBVIOUS
  <2>3. m' = other
    BY <1>2, <2>1, <2>2, ClearedFields DEF HandleCancelled
  <2>4. text \in Message /\ text \in {m.composer, m.pending}
    BY <2>1, Types
  <2>5. /\ other \in Model /\ other.streaming = Cleared.streaming
        /\ other.adkCh = Cleared.adkCh /\ other.confirming = Cleared.confirming
        /\ other.compressing = Cleared.compressing /\ other.pending = Cleared.pending
        /\ other.queued = Cleared.queued /\ other.composer = text
    <3>1. Cleared \in Model
      BY ClearedFields
    <3>2. QED
      BY <2>2, <2>4, <3>1 DEF Model
  <2>6. jobs' = JobsWithout(j) /\ UNCHANGED << pump, typed, asks, sent, hist >>
    BY <1>2 DEF HandleCancelled
  <2>7. QED
    BY <2>3, <2>4, <2>5, <2>6, ClearedFields, PutBack DEF hist
<1>3. CASE HandleFailure(j)
  BY <1>3, ClearedFields, PutBack DEF HandleFailure
<1>4. QED
  BY <1>1, <1>2, <1>3 DEF Result

-----------------------------------------------------------------------------
(***************************************************************************)
(* The theorems.                                                           *)
(***************************************************************************)
LEMMA InitInvariant ==
  ASSUME Init
  PROVE  IInv
<1>1. << >> \in Message /\ << >> \in Seq(Message) /\ << >> \in Sends /\ << >> \in Seq(Run)
  BY EmptySeq DEF Message, Sends
<1>2. /\ m \in Model /\ ~ m.streaming /\ ~ m.confirming /\ ~ m.compressing
      /\ m.composer = << >> /\ m.queued = << >> /\ m.pending = << >>
  BY <1>1, Bounds DEF Init, Model, NoRun, NoJob
<1>3. /\ pump \in Pump /\ pump.run = << >>
      /\ \A r \in RunIds \cup {NoRun} : pump.waiters[r] = 0
  BY <1>1 DEF Init, Pump
<1>4. typed = 0 /\ asks = 0 /\ sent = << >> /\ jobs = {} /\ mishaps = {} /\ dropped = {}
  BY DEF Init
<1>5. entered \in [Prompts -> 0 .. MaxSessions]
  <2>1. 0 \in 0 .. MaxSessions
    BY Bounds
  <2>2. QED
    BY <2>1 DEF Init
<1>6. Rest
  BY <1>4, <1>5, Bounds DEF Rest
<1>7. Jobs(jobs)
  BY <1>4, FS_EmptySet DEF Jobs
<1>8. Asking(pump) = {} /\ Cardinality(Asking(pump)) = 0
  BY <1>3, FS_EmptySet DEF Asking
<1>9. Len(pump.run) = 0 /\ Len(sent) = 0 /\ Len(m.queued) = 0
  BY <1>2, <1>3, <1>4
<1>10. Weight(m) = 0 /\ OneIf(m.confirming) = 0
  BY <1>2, <1>9 DEF Weight, One, OneIf
<1>11. Core(m, pump, sent, typed, asks)
  <2>1. ModelCounted(m, sent, typed)
    BY <1>4, <1>9, <1>10 DEF ModelCounted
  <2>2. RunsCounted(m, pump, sent, asks)
    BY <1>4, <1>8, <1>9, <1>10 DEF RunsCounted
  <2>3. QED
    BY <1>1, <1>2, <1>3, <1>4, <1>9, <2>1, <2>2, Bounds DEF Core
<1>12. Alone(m, pump) /\ OneAtATime(m, jobs)
  BY <1>2, <1>3, <1>4 DEF Alone, OneAtATime, Reads, OneIf
<1>13. QED
  BY <1>6, <1>7, <1>11, <1>12 DEF IInv

LEMMA StillInvariant ==
  ASSUME IInv, UNCHANGED vars
  PROVE  IInv'
BY DEF vars, hist, IInv, Core, Jobs, Rest, Calm, Alone, OneAtATime

LEMMA NextInvariant ==
  ASSUME IInv, [Next]_vars
  PROVE  IInv'
<1>1. CASE Keys
  BY <1>1, TypeStep, SendStep, QueueStep, CancelStep, AnswerStep, CompressStep,
     CancelCompressionStep, NewSessionStep, ResumeStep DEF Keys
<1>2. CASE \E r \in Runs : RunStep(r) \/ Deliver(r)
  <2>1. ASSUME NEW r \in Runs, RunStep(r) PROVE IInv'
    BY <2>1, RunStepKeeps
  <2>2. ASSUME NEW r \in Runs, Deliver(r) PROVE IInv'
    BY <2>2, EventStep, ErrorStep, DoneStep DEF Deliver
  <2>3. QED
    BY <1>2, <2>1, <2>2
<1>3. CASE \E j \in jobs : Result(j)
  BY <1>3, ResultStep
<1>4. QED
  BY <1>1, <1>2, <1>3, StillInvariant DEF Next

\* The invariant of this module holds of every behaviour.
THEOREM Invariance == Spec => []IInv
<1>1. Init => IInv
  BY InitInvariant
<1>2. IInv /\ [Next]_vars => IInv'
  BY NextInvariant
<1>3. QED
  BY <1>1, <1>2, PTL DEF Spec

\* The Model, the runs and the compressions have the types they are declared with,
\* the queue never holds more than QueueCap prompts, and no more runs are started
\* than there are names for.
THEOREM TypeCorrect == Spec => []TypeOK
<1>1. IInv => TypeOK
  BY DEF IInv, Core, Jobs, Job, Rest, Sends, TypeOK
<1>2. QED
  BY <1>1, Invariance, PTL

\* Unless a confirmation was answered before the run that asked had ended, every
\* message of a run reaches Update exactly once: the run on screen has one waiter,
\* no other channel has any, and a run that can still yield is the one on screen.
THEOREM ReadByOne == Spec => []OneReader
<1>1. ASSUME IInv, "early-answer" \notin mishaps
      PROVE  /\ \A r \in Runs : Live(r) => m.streaming /\ m.adkCh = r
             /\ \A r \in Runs \cup {NoRun} :
                  pump.waiters[r] = IF m.streaming /\ r = m.adkCh THEN 1 ELSE 0
  <2>1. Alone(m, pump) /\ Runs \subseteq RunIds
    BY <1>1, Types DEF IInv, Calm
  <2>2. \A r \in Runs : Live(r) => ~ Ended(pump.run[r])
    BY DEF Live, Ended
  <2>3. \A r \in Runs : Live(r) => Reads(m, r)
    BY <2>1, <2>2 DEF Alone, Runs
  <2>4. QED
    BY <2>1, <2>3 DEF Alone, Reads, OneIf
<1>2. IInv => OneReader
  BY <1>1 DEF OneReader
<1>3. QED
  BY <1>2, Invariance, PTL

\* After Esc nothing fires by itself: from a cancelled turn no step starts a run
\* or a compression, whichever message ends the turn and whatever is queued.
THEOREM NothingFiresEver == Spec => NothingFires
<1> DEFINE guard == m.streaming /\ m.cancelled /\ ~ m.confirming /\ Calm
           quiet == Len(pump'.run) = Len(pump.run) /\ (m'.compressing => m.compressing)
<1>1. ASSUME IInv, Next, guard
      PROVE  quiet
  <2>1. Over(m) /\ m.streaming /\ ~ m.confirming
    BY <1>1 DEF Over
  <2>2. jobs = {}
    BY <1>1 DEF IInv, OneAtATime
  <2>3. m \in Model
    BY <1>1, Types
  <2>4. CASE Type \/ QueueWhileBusy
    BY <2>3, <2>4 DEF Type, QueueWhileBusy, Model
  <2>5. CASE CancelStream
    BY <1>1, <2>5, CancelStep
  <2>6. ASSUME NEW r \in Runs, RunStep(r) PROVE quiet
    BY <1>1, <2>6, RunStepKeeps
  <2>7. ASSUME NEW r \in Runs, Deliver(r) PROVE quiet
    BY <1>1, <2>1, <2>7, EventStep, ErrorStep, DoneStep DEF Deliver
  <2>8. ~ (Send \/ AnswerConfirmation \/ CompressCommand \/ CancelCompression
           \/ NewSession \/ Resume)
    BY <2>1 DEF Send, AnswerConfirmation, CompressCommand, CancelCompression,
                NewSession, Resume, Idle
  <2>9. QED
    BY <1>1, <2>2, <2>4, <2>5, <2>6, <2>7, <2>8 DEF Next, Keys
<1>2. IInv /\ [Next]_vars =>
        [m.streaming /\ m.cancelled /\ ~ m.confirming /\ "early-answer" \notin mishaps =>
           Len(pump'.run) = Len(pump.run) /\ (m'.compressing => m.compressing)]_vars
  BY <1>1 DEF Calm
<1>3. QED
  BY <1>2, Invariance, PTL DEF Spec, NothingFires

-----------------------------------------------------------------------------
(***************************************************************************)
(* What becomes of the prompts.                                            *)
(***************************************************************************)
Distinct(s) == \A i, j \in 1 .. Len(s) : s[i] = s[j] => i = j
Increasing(s) == \A i, j \in 1 .. Len(s) : i < j => s[i] < s[j]
Disjoint(s, t) == ToSet(s) \cap ToSet(t) = {}
Before(s, t) == \A x \in ToSet(s), y \in ToSet(t) : x < y

\* The four places: no prompt is in two of them, or twice in one.
Apart(s, p, q, c) ==
  /\ Distinct(s) /\ Distinct(p) /\ Distinct(q) /\ Distinct(c)
  /\ Disjoint(s, p) /\ Disjoint(s, q) /\ Disjoint(s, c)
  /\ Disjoint(p, q) /\ Disjoint(p, c) /\ Disjoint(q, c)

\* In the order they were typed in.
Rising(s, p, q, c) ==
  /\ Increasing(s) /\ Increasing(p) /\ Increasing(q) /\ Increasing(c)
  /\ Before(s, p) /\ Before(s, q) /\ Before(s, c)
  /\ Before(p, q) /\ Before(p, c) /\ Before(q, c)

Hand(s, p, q, c) == ToSet(s) \cup ToSet(p) \cup ToSet(q) \cup ToSet(c)

Busy == m.streaming \/ m.compressing \/ m.confirming
Held == m.streaming \/ m.confirming \/ m.pending # << >>   \* the queue is waited with

\* Whatever goes wrong.
Whole ==
  /\ Apart(Sent, m.pending, Queued, m.composer)
  /\ Hand(Sent, m.pending, Queued, m.composer) \subseteq 1 .. typed
  /\ \A i \in 1 .. Len(sent) : ToSet(sent[i].prompts) \subseteq ToSet(Sent)
  /\ \A p \in Prompts : p > typed => entered[p] = 0

\* While something runs the composer holds a draft, so that what is handed back
\* overwrites nothing that was entered.
Spared ==
  mishaps \subseteq {"compression-cancelled"} =>
    /\ Busy => \A p \in ToSet(m.composer) : entered[p] = 0
    /\ \A p \in Prompts :
         entered[p] # 0 => p \in dropped \cup Hand(Sent, m.pending, Queued, m.composer)

\* When nothing goes wrong.
Orderly ==
  mishaps = {} =>
    /\ Rising(Sent, m.pending, Queued, m.composer)
    /\ Queued # << >> => Held
    /\ \A p \in ToSet(m.pending) \cup ToSet(Queued) : entered[p] = m.session
    /\ \A i \in 1 .. Len(sent) : \A p \in ToSet(sent[i].prompts) : entered[p] = sent[i].session
    /\ \A j \in jobs : ~ j.stopped

PInv == IInv /\ Whole /\ Spared /\ Orderly
-----------------------------------------------------------------------------
(***************************************************************************)
(* Sequences one after the other.                                          *)
(***************************************************************************)
LEMMA Members ==
  ASSUME NEW S, NEW s \in Seq(S)
  PROVE  /\ ToSet(s) = { s[i] : i \in 1 .. Len(s) }
         /\ ToSet(s) \subseteq S /\ Len(s) \in Nat
         /\ s = << >> <=> ToSet(s) = {}
<1>1. DOMAIN s = 1 .. Len(s) /\ Len(s) \in Nat /\ \A i \in 1 .. Len(s) : s[i] \in S
  BY LenProperties
<1>2. ToSet(s) = { s[i] : i \in 1 .. Len(s) }
  BY <1>1 DEF ToSet
<1>3. s = << >> => ToSet(s) = {}
  BY <1>2
<1>4. s # << >> => s[1] \in ToSet(s)
  <2>1. s # << >> => Len(s) # 0
    BY EmptySeq
  <2>2. QED
    BY <1>1, <1>2, <2>1
<1>5. QED
  BY <1>1, <1>2, <1>3, <1>4

LEMMA Joined ==
  ASSUME NEW S, NEW s \in Seq(S), NEW t \in Seq(S)
  PROVE  /\ s \o t \in Seq(S) /\ Len(s \o t) = Len(s) + Len(t)
         /\ \A i \in 1 .. Len(s) : (s \o t)[i] = s[i]
         /\ \A i \in 1 .. Len(t) : (s \o t)[Len(s) + i] = t[i]
         /\ \A k \in 1 .. Len(s) + Len(t) :
              k \in 1 .. Len(s) \/ \E i \in 1 .. Len(t) : k = Len(s) + i
<1>1. Len(s) \in Nat /\ Len(t) \in Nat
  BY LenProperties
<1>2. /\ s \o t \in Seq(S) /\ Len(s \o t) = Len(s) + Len(t)
      /\ \A i \in 1 .. Len(s) + Len(t) :
           (s \o t)[i] = IF i <= Len(s) THEN s[i] ELSE t[i - Len(s)]
  BY ConcatProperties
<1>3. ASSUME NEW k \in 1 .. Len(s) + Len(t), k \notin 1 .. Len(s)
      PROVE  \E i \in 1 .. Len(t) : k = Len(s) + i
  <2>1. k - Len(s) \in 1 .. Len(t) /\ k = Len(s) + (k - Len(s))
    BY <1>1, <1>3
  <2>2. QED
    BY <2>1
<1>4. QED
  BY <1>1, <1>2, <1>3

LEMMA JoinedMembers ==
  ASSUME NEW S, NEW s \in Seq(S), NEW t \in Seq(S)
  PROVE  ToSet(s \o t) = ToSet(s) \cup ToSet(t)
<1>1. PICK u, n, k : u = s \o t /\ n = Len(s) /\ k = Len(t)
  OBVIOUS
<1>2. /\ n \in Nat /\ k \in Nat /\ u \in Seq(S) /\ Len(u) = n + k
      /\ \A i \in 1 .. n : u[i] = s[i]
      /\ \A i \in 1 .. k : u[n + i] = t[i]
      /\ \A i \in 1 .. n + k : i \in 1 .. n \/ \E j \in 1 .. k : i = n + j
  BY <1>1, Joined, LenProperties
<1>3. /\ ToSet(s) = { s[i] : i \in 1 .. n } /\ ToSet(t) = { t[i] : i \in 1 .. k }
      /\ ToSet(u) = { u[i] : i \in 1 .. n + k }
  <2>1. ToSet(s) = { s[i] : i \in 1 .. n } /\ ToSet(t) = { t[i] : i \in 1 .. k }
    BY <1>1, Members
  <2>2. ToSet(u) = { u[i] : i \in 1 .. Len(u) }
    BY <1>2, Members
  <2>3. QED
    BY <1>2, <2>1, <2>2
<1>4. \A x \in ToSet(u) : x \in ToSet(s) \cup ToSet(t)
  <2>1. ASSUME NEW i \in 1 .. n + k PROVE u[i] \in ToSet(s) \cup ToSet(t)
    <3>1. CASE i \in 1 .. n
      BY <1>2, <1>3, <3>1
    <3>2. ASSUME NEW j \in 1 .. k, i = n + j PROVE u[i] \in ToSet(t)
      BY <1>2, <1>3, <3>2
    <3>3. QED
      BY <1>2, <3>1, <3>2
  <2>2. QED
    BY <1>3, <2>1
<1>5. \A x \in ToSet(s) : x \in ToSet(u)
  <2>1. \A i \in 1 .. n : i \in 1 .. n + k
    BY <1>2
  <2>2. QED
    BY <1>2, <1>3, <2>1
<1>6. \A x \in ToSet(t) : x \in ToSet(u)
  <2>1. \A i \in 1 .. k : n + i \in 1 .. n + k
    BY <1>2
  <2>2. QED
    BY <1>2, <1>3, <2>1
<1>7. QED
  BY <1>1, <1>4, <1>5, <1>6

LEMMA JoinedDistinct ==
  ASSUME NEW S, NEW s \in Seq(S), NEW t \in Seq(S), Distinct(s), Distinct(t), Disjoint(s, t)
  PROVE  Distinct(s \o t)
<1>1. PICK u, n, k : u = s \o t /\ n = Len(s) /\ k = Len(t)
  OBVIOUS
<1>2. /\ n \in Nat /\ k \in Nat /\ u \in Seq(S) /\ Len(u) = n + k
      /\ \A i \in 1 .. n : u[i] = s[i]
      /\ \A i \in 1 .. k : u[n + i] = t[i]
      /\ \A i \in 1 .. n + k : i \in 1 .. n \/ \E j \in 1 .. k : i = n + j
  BY <1>1, Joined, LenProperties
<1>3. ToSet(s) = { s[i] : i \in 1 .. n } /\ ToSet(t) = { t[i] : i \in 1 .. k }
  BY <1>1, Members
<1>4. \A i \in 1 .. n, j \in 1 .. k : s[i] # t[j]
  BY <1>3 DEF Disjoint
<1>5. ASSUME NEW i \in 1 .. n + k, NEW j \in 1 .. n + k, u[i] = u[j] PROVE i = j
  <2>1. CASE i \in 1 .. n /\ j \in 1 .. n
    BY <1>1, <1>2, <1>5, <2>1 DEF Distinct
  <2>2. CASE i \notin 1 .. n /\ j \notin 1 .. n
    <3>1. PICK x \in 1 .. k, y \in 1 .. k : i = n + x /\ j = n + y
      BY <1>2, <2>2
    <3>2. t[x] = t[y]
      BY <1>2, <1>5, <3>1
    <3>3. QED
      BY <1>1, <3>1, <3>2 DEF Distinct
  <2>3. ASSUME NEW a \in 1 .. n, NEW b \in 1 .. n + k, b \notin 1 .. n PROVE u[a] # u[b]
    <3>1. PICK y \in 1 .. k : b = n + y
      BY <1>2, <2>3
    <3>2. u[a] = s[a] /\ u[b] = t[y]
      BY <1>2, <3>1
    <3>3. QED
      BY <1>4, <3>2
  <2>4. QED
    BY <1>5, <2>1, <2>2, <2>3
<1>6. QED
  BY <1>1, <1>2, <1>5 DEF Distinct

LEMMA JoinedIncreasing ==
  ASSUME NEW S, NEW s \in Seq(S), NEW t \in Seq(S),
         Increasing(s), Increasing(t), Before(s, t)
  PROVE  Increasing(s \o t)
<1>1. PICK u, n, k : u = s \o t /\ n = Len(s) /\ k = Len(t)
  OBVIOUS
<1>2. /\ n \in Nat /\ k \in Nat /\ u \in Seq(S) /\ Len(u) = n + k
      /\ \A i \in 1 .. n : u[i] = s[i]
      /\ \A i \in 1 .. k : u[n + i] = t[i]
      /\ \A i \in 1 .. n + k : i \in 1 .. n \/ \E j \in 1 .. k : i = n + j
  BY <1>1, Joined, LenProperties
<1>3. ToSet(s) = { s[i] : i \in 1 .. n } /\ ToSet(t) = { t[i] : i \in 1 .. k }
  BY <1>1, Members
<1>4. \A i \in 1 .. n, j \in 1 .. k : s[i] < t[j]
  BY <1>3 DEF Before
<1>5. ASSUME NEW i \in 1 .. n + k, NEW j \in 1 .. n + k, i < j PROVE u[i] < u[j]
  <2>1. CASE i \in 1 .. n /\ j \in 1 .. n
    BY <1>1, <1>2, <1>5, <2>1 DEF Increasing
  <2>2. CASE i \notin 1 .. n /\ j \notin 1 .. n
    <3>1. PICK x \in 1 .. k, y \in 1 .. k : i = n + x /\ j = n + y
      BY <1>2, <2>2
    <3>2. x < y
      BY <1>2, <1>5, <3>1
    <3>3. t[x] < t[y]
      BY <1>1, <3>2 DEF Increasing
    <3>4. QED
      BY <1>2, <3>1, <3>3
  <2>3. CASE i \in 1 .. n /\ j \notin 1 .. n
    BY <1>2, <1>4, <2>3
  <2>4. CASE i \notin 1 .. n /\ j \in 1 .. n
    BY <1>2, <1>5, <2>4
  <2>5. QED
    BY <2>1, <2>2, <2>3, <2>4
<1>6. QED
  BY <1>1, <1>2, <1>5 DEF Increasing

\* Parts of an increasing sequence are increasing, and so on.
LEMMA Parted ==
  ASSUME NEW S, NEW s \in Seq(S), NEW t \in Seq(S)
  PROVE  /\ Distinct(s \o t) => Distinct(s) /\ Distinct(t) /\ Disjoint(s, t)
         /\ Increasing(s \o t) => Increasing(s) /\ Increasing(t) /\ Before(s, t)
<1>1. PICK u, n, k : u = s \o t /\ n = Len(s) /\ k = Len(t)
  OBVIOUS
<1>2. /\ n \in Nat /\ k \in Nat /\ u \in Seq(S) /\ Len(u) = n + k
      /\ \A i \in 1 .. n : u[i] = s[i]
      /\ \A i \in 1 .. k : u[n + i] = t[i]
  BY <1>1, Joined, LenProperties
<1>3. ToSet(s) = { s[i] : i \in 1 .. n } /\ ToSet(t) = { t[i] : i \in 1 .. k }
  BY <1>1, Members
<1>4. /\ \A i \in 1 .. n : i \in 1 .. n + k
      /\ \A i \in 1 .. k : n + i \in 1 .. n + k
      /\ \A i \in 1 .. n, j \in 1 .. k : i < n + j /\ i # n + j
      /\ \A i, j \in 1 .. k : (i < j <=> n + i < n + j) /\ (i = j <=> n + i = n + j)
  BY <1>2
<1>5. ASSUME Distinct(u) PROVE Distinct(s) /\ Distinct(t) /\ Disjoint(s, t)
  <2>1. Distinct(s)
    BY <1>1, <1>2, <1>4, <1>5 DEF Distinct
  <2>2. Distinct(t)
    <3>1. ASSUME NEW i \in 1 .. k, NEW j \in 1 .. k, t[i] = t[j] PROVE i = j
      <4>1. u[n + i] = u[n + j] /\ n + i \in 1 .. Len(u) /\ n + j \in 1 .. Len(u)
        BY <1>2, <1>4, <3>1
      <4>2. n + i = n + j
        BY <1>5, <4>1 DEF Distinct
      <4>3. QED
        BY <1>4, <4>2
    <3>2. QED
      BY <1>1, <3>1 DEF Distinct
  <2>3. \A i \in 1 .. n, j \in 1 .. k : s[i] # t[j]
    BY <1>2, <1>4, <1>5 DEF Distinct
  <2>4. QED
    BY <1>3, <2>1, <2>2, <2>3 DEF Disjoint
<1>6. ASSUME Increasing(u) PROVE Increasing(s) /\ Increasing(t) /\ Before(s, t)
  <2>1. Increasing(s)
    BY <1>1, <1>2, <1>4, <1>6 DEF Increasing
  <2>2. Increasing(t)
    <3>1. ASSUME NEW i \in 1 .. k, NEW j \in 1 .. k, i < j PROVE t[i] < t[j]
      <4>1. n + i < n + j /\ n + i \in 1 .. Len(u) /\ n + j \in 1 .. Len(u)
        BY <1>2, <1>4, <3>1
      <4>2. u[n + i] < u[n + j]
        BY <1>6, <4>1 DEF Increasing
      <4>3. QED
        BY <1>2, <4>2
    <3>2. QED
      BY <1>1, <3>1 DEF Increasing
  <2>3. \A i \in 1 .. n, j \in 1 .. k : s[i] < t[j]
    BY <1>2, <1>4, <1>6 DEF Increasing
  <2>4. QED
    BY <1>3, <2>1, <2>2, <2>3 DEF Before
<1>7. QED
  BY <1>1, <1>5, <1>6

\* As many members as it is long.
LEMMA DistinctCount ==
  ASSUME NEW S, NEW s \in Seq(S), Distinct(s)
  PROVE  Cardinality(ToSet(s)) = Len(s)
<1>1. PICK n : n = Len(s)
  OBVIOUS
<1>2. n \in Nat /\ ToSet(s) = { s[i] : i \in 1 .. n }
  BY <1>1, Members
<1> DEFINE f == [i \in 1 .. n |-> s[i]]
<1>3. f \in Bijection(1 .. n, ToSet(s))
  <2>1. f \in Injection(1 .. n, ToSet(s))
    BY <1>1, <1>2 DEF Distinct, Injection, IsInjective
  <2>2. f \in Surjection(1 .. n, ToSet(s))
    BY <1>2 DEF Surjection
  <2>3. QED
    BY <2>1, <2>2 DEF Bijection
<1>4. IsFiniteSet(1 .. n) /\ Cardinality(1 .. n) = n
  BY <1>2, FS_Interval
<1>5. ExistsBijection(1 .. n, ToSet(s))
  BY <1>3 DEF ExistsBijection
<1>6. QED
  BY <1>1, <1>4, <1>5, FS_Bijection

-----------------------------------------------------------------------------
(***************************************************************************)
(* Messages that change places.                                            *)
(***************************************************************************)
none == << >>

LEMMA Nothing ==
  /\ none \in Message /\ ToSet(none) = {} /\ Distinct(none) /\ Increasing(none)
  /\ \A s : Disjoint(s, none) /\ Disjoint(none, s) /\ Before(s, none) /\ Before(none, s)
<1>1. none \in Message /\ Len(none) = 0
  BY EmptySeq DEF none, Message
<1>2. ToSet(none) = {}
  BY <1>1, Members DEF Message, none
<1>3. Distinct(none) /\ Increasing(none)
  BY <1>1 DEF Distinct, Increasing
<1>4. \A s : Disjoint(s, none) /\ Disjoint(none, s)
  BY <1>2 DEF Disjoint
<1>5. \A s : Before(s, none) /\ Before(none, s)
  BY <1>2 DEF Before
<1>6. QED
  BY <1>1, <1>2, <1>3, <1>4, <1>5

LEMMA JoinedMessages ==
  ASSUME NEW s \in Message, NEW t \in Message
  PROVE  /\ s \o t \in Message /\ ToSet(s \o t) = ToSet(s) \cup ToSet(t)
         /\ Distinct(s \o t) <=> Distinct(s) /\ Distinct(t) /\ Disjoint(s, t)
         /\ Increasing(s \o t) <=> Increasing(s) /\ Increasing(t) /\ Before(s, t)
<1> s \in Seq(Prompts) /\ t \in Seq(Prompts)
  BY DEF Message
<1>1. s \o t \in Message /\ ToSet(s \o t) = ToSet(s) \cup ToSet(t)
  BY Joined, JoinedMembers DEF Message
<1>2. Distinct(s \o t) <=> Distinct(s) /\ Distinct(t) /\ Disjoint(s, t)
  BY JoinedDistinct, Parted
<1>3. Increasing(s \o t) <=> Increasing(s) /\ Increasing(t) /\ Before(s, t)
  BY JoinedIncreasing, Parted
<1>4. QED
  BY <1>1, <1>2, <1>3

\* No prompt is moved to where it was, or lost on the way.
LEMMA ApartStill ==
  ASSUME NEW s \in Message, NEW p \in Message, NEW q \in Message, NEW c \in Message,
         Apart(s, p, q, c)
  PROVE  /\ Apart(s \o c, p, q, none) /\ Apart(s \o c, none, q, none)
         /\ Apart(s, c, q, none) /\ Apart(s, p, q \o c, none) /\ Apart(s, p, q, none)
         /\ Apart(s \o p, none, q, c) /\ Apart(s, none, q, p) /\ Apart(s, none, q, c)
         /\ Apart(s, p, none, q) /\ Apart(s, p, none, c)
<1>1. /\ ToSet(s \o c) = ToSet(s) \cup ToSet(c) /\ Distinct(s \o c)
      /\ ToSet(q \o c) = ToSet(q) \cup ToSet(c) /\ Distinct(q \o c)
      /\ ToSet(s \o p) = ToSet(s) \cup ToSet(p) /\ Distinct(s \o p)
  BY JoinedMessages DEF Apart
<1>2. /\ Disjoint(s \o c, p) /\ Disjoint(s \o c, q)
      /\ Disjoint(s, q \o c) /\ Disjoint(p, q \o c)
      /\ Disjoint(s \o p, q) /\ Disjoint(s \o p, c)
      /\ Disjoint(c, q) /\ Disjoint(q, p)
  BY <1>1 DEF Apart, Disjoint
<1>3. QED
  BY <1>1, <1>2, Nothing DEF Apart

LEMMA ApartFront ==
  ASSUME NEW s \in Message, NEW p \in Message, NEW q \in Message, NEW c \in Message,
         NEW h \in Message, Apart(s, p, h \o q, c)
  PROVE  Apart(s \o h, p, q, c) /\ Apart(s \o h, none, q, c) /\ Apart(s, h, q, c)
<1>1. /\ ToSet(h \o q) = ToSet(h) \cup ToSet(q) /\ ToSet(s \o h) = ToSet(s) \cup ToSet(h)
      /\ Distinct(h) /\ Distinct(q) /\ Disjoint(h, q)
  BY JoinedMessages DEF Apart
<1>2. /\ Disjoint(s, h) /\ Disjoint(p, h) /\ Disjoint(h, c) /\ Disjoint(h, p)
      /\ Disjoint(s, q) /\ Disjoint(p, q) /\ Disjoint(q, c)
  BY <1>1 DEF Apart, Disjoint
<1>3. Distinct(s \o h)
  BY <1>1, <1>2, JoinedMessages DEF Apart
<1>4. Disjoint(s \o h, p) /\ Disjoint(s \o h, q) /\ Disjoint(s \o h, c)
  BY <1>1, <1>2 DEF Apart, Disjoint
<1>5. QED
  BY <1>1, <1>2, <1>3, <1>4, Nothing DEF Apart

LEMMA RisingStill ==
  ASSUME NEW s \in Message, NEW p \in Message, NEW q \in Message, NEW c \in Message,
         Rising(s, p, q, c)
  PROVE  /\ Rising(s, p, q \o c, none) /\ Rising(s, p, q, none)
         /\ Rising(s \o p, none, q, c) /\ Rising(s, none, q, c)
         /\ Rising(s, p, none, q) /\ Rising(s, p, none, c)
         /\ Rising(s \o c, none, none, none) /\ Rising(s, c, none, none)
<1>1. /\ ToSet(s \o c) = ToSet(s) \cup ToSet(c) /\ Increasing(s \o c)
      /\ ToSet(q \o c) = ToSet(q) \cup ToSet(c) /\ Increasing(q \o c)
      /\ ToSet(s \o p) = ToSet(s) \cup ToSet(p) /\ Increasing(s \o p)
  BY JoinedMessages DEF Rising
<1>2. /\ Before(s, q \o c) /\ Before(p, q \o c)
      /\ Before(s \o p, q) /\ Before(s \o p, c)
  BY <1>1 DEF Rising, Before
<1>3. QED
  BY <1>1, <1>2, Nothing DEF Rising

LEMMA RisingFront ==
  ASSUME NEW s \in Message, NEW q \in Message, NEW c \in Message,
         NEW h \in Message, Rising(s, none, h \o q, c)
  PROVE  Rising(s \o h, none, q, c) /\ Rising(s, h, q, c)
<1>1. /\ ToSet(h \o q) = ToSet(h) \cup ToSet(q) /\ ToSet(s \o h) = ToSet(s) \cup ToSet(h)
      /\ Increasing(h) /\ Increasing(q) /\ Before(h, q)
  BY JoinedMessages DEF Rising
<1>2. /\ Before(s, h) /\ Before(h, c) /\ Before(s, q) /\ Before(q, c)
  BY <1>1 DEF Rising, Before
<1>3. Increasing(s \o h)
  BY <1>1, <1>2, JoinedMessages DEF Rising
<1>4. Before(s \o h, q) /\ Before(s \o h, c)
  BY <1>1, <1>2 DEF Rising, Before
<1>5. QED
  BY <1>1, <1>2, <1>3, <1>4, Nothing DEF Rising

-----------------------------------------------------------------------------
(***************************************************************************)
(* The places in a state.                                                  *)
(***************************************************************************)
SentBy(s) == FlattenSeq([i \in 1 .. Len(s) |-> s[i].prompts])

LEMMA SentByAll ==
  ASSUME NEW s \in Sends
  PROVE  /\ SentBy(s) \in Message
         /\ \A content \in Message, session \in 1 .. MaxSessions :
              SentBy(Append(s, [prompts |-> content, session |-> session]))
                = SentBy(s) \o content
<1> DEFINE texts(u) == [i \in 1 .. Len(u) |-> u[i].prompts]
<1>1. Len(s) \in Nat /\ \A i \in 1 .. Len(s) : s[i].prompts \in Message
  <2>1. PICK T : T = [prompts : Message, session : 1 .. MaxSessions]
    OBVIOUS
  <2>2. s \in Seq(T)
    BY <2>1 DEF Sends
  <2>3. Len(s) \in Nat /\ \A i \in 1 .. Len(s) : s[i] \in T
    BY <2>2, LenProperties
  <2>4. QED
    BY <2>1, <2>3
<1>2. texts(s) \in Seq(Message)
  <2>1. texts(s) \in [1 .. Len(s) -> Message]
    BY <1>1
  <2>2. QED
    BY <1>1, <2>1, IsASeq
<1>3. SentBy(s) \in Message
  BY <1>2, FlattenType DEF SentBy, Message
<1>4. ASSUME NEW content \in Message, NEW session \in 1 .. MaxSessions
      PROVE  SentBy(Append(s, [prompts |-> content, session |-> session])) = SentBy(s) \o content
  <2>1. PICK e : e = [prompts |-> content, session |-> session]
    OBVIOUS
  <2>2. e \in [prompts : Message, session : 1 .. MaxSessions] /\ e.prompts = content
    BY <2>1
  <2>3. PICK u : u = Append(s, e)
    OBVIOUS
  <2>4. /\ Len(u) = Len(s) + 1 /\ u[Len(s) + 1] = e
        /\ \A i \in 1 .. Len(s) : u[i] = s[i]
    BY <2>2, <2>3, Appended DEF Sends
  <2>5. PICK v : v = Append(texts(s), content)
    OBVIOUS
  <2>6. /\ v \in Seq(Message) /\ Len(v) = Len(s) + 1 /\ v[Len(s) + 1] = content
        /\ \A i \in 1 .. Len(s) : v[i] = s[i].prompts
    <3>1. Len(texts(s)) = Len(s) /\ \A i \in 1 .. Len(s) : texts(s)[i] = s[i].prompts
      BY <1>1
    <3>2. PICK w : w = texts(s)
      OBVIOUS
    <3>3. w \in Seq(Message) /\ v = Append(w, content)
      BY <1>2, <2>5, <3>2
    <3>4. /\ v \in Seq(Message) /\ Len(v) = Len(w) + 1 /\ v[Len(w) + 1] = content
          /\ \A i \in 1 .. Len(w) : v[i] = w[i]
      BY <3>3, Appended
    <3>5. QED
      BY <3>1, <3>2, <3>4
  <2>7. texts(u) = v
    <3>1. \A i \in 1 .. Len(s) + 1 : u[i].prompts = v[i]
      <4>1. \A i \in 1 .. Len(s) + 1 : i \in 1 .. Len(s) \/ i = Len(s) + 1
        BY <1>1
      <4>2. QED
        BY <2>2, <2>4, <2>6, <4>1
    <3>2. v = [i \in 1 .. Len(s) + 1 |-> v[i]]
      BY <2>6
    <3>3. QED
      BY <2>4, <3>1, <3>2
  <2>8. FlattenSeq(v) = FlattenSeq(texts(s)) \o content
    BY <1>2, <2>5, FlattenAppend DEF Message
  <2>9. QED
    BY <2>1, <2>3, <2>7, <2>8 DEF SentBy
<1>5. QED
  BY <1>3, <1>4

LEMMA Places ==
  ASSUME IInv
  PROVE  /\ Sent \in Message /\ m.pending \in Message /\ Queued \in Message
         /\ m.composer \in Message /\ Sent = SentBy(sent)
         /\ m.queued # << >> <=> Queued # none
<1>1. Sent = SentBy(sent)
  BY DEF Sent, SentBy
<1>2. Sent \in Message
  BY <1>1, Types, SentByAll
<1>3. Queued \in Message
  BY Types, FlattenType DEF Queued, Message
<1>4. m.queued = << >> => Queued = none
  BY FlattenNothing DEF Queued, none
<1>5. ASSUME m.queued # << >> PROVE Queued # none
  <2>1. Head(m.queued) \in Message /\ Head(m.queued) = m.queued[1] /\ 1 \in 1 .. Len(m.queued)
        /\ Tail(m.queued) \in Seq(Message)
    BY <1>5, Types, Behead
  <2>2. Head(m.queued) # none
    BY <2>1, Types DEF none
  <2>3. Queued = Head(m.queued) \o FlattenSeq(Tail(m.queued))
    BY <1>5, Types, FlattenHead DEF Queued, Message
  <2>4. FlattenSeq(Tail(m.queued)) \in Message
    BY <2>1, FlattenType DEF Message
  <2>5. ToSet(Queued) # {}
    <3>1. ToSet(Head(m.queued)) # {}
      BY <2>1, <2>2, Members DEF Message, none
    <3>2. QED
      BY <2>1, <2>3, <2>4, <3>1, JoinedMessages
  <2>6. QED
    BY <2>5, Nothing
<1>6. QED
  BY <1>1, <1>2, <1>3, <1>4, <1>5, Types

-----------------------------------------------------------------------------
(***************************************************************************)
(* The ways in which a step moves prompts.                                 *)
(***************************************************************************)

\* A message leaves for the session on screen: it is sent, or held back by a
\* compression.
Leaves(h) ==
  \/ /\ sent' = Append(sent, [prompts |-> h, session |-> m.session])
     /\ m'.streaming /\ m'.pending \in {m.pending, none} /\ jobs' = jobs
  \/ /\ sent' = sent
     /\ m'.compressing /\ m'.pending = h
     /\ \E j : jobs' = jobs \cup {j} /\ ~ j.stopped

\* No mishap has struck but a compression that was cancelled.
Fine(what) == what \subseteq {"compression-cancelled"}

\* Everything stays where it is.
Settle ==
  /\ UNCHANGED << typed, entered, dropped, sent >>
  /\ mishaps \subseteq mishaps'
  /\ m'.queued = m.queued /\ m'.composer = m.composer /\ m'.session = m.session
  /\ \/ m'.pending = m.pending
     \/ m'.pending = none /\ ~ Fine(mishaps')
  /\ Fine(mishaps') /\ Busy' => Busy \/ m.composer = none
  /\ mishaps' = {} /\ Queued # none /\ Held => Held'
  /\ mishaps' = {} => \A j \in jobs' : j \in jobs \/ ~ j.stopped

\* The front of the queue leaves.
Pop(h) ==
  /\ UNCHANGED << typed, hist >>
  /\ h \in Message /\ h # none /\ Leaves(h)
  /\ Queued = h \o Queued'
  /\ m'.composer = m.composer /\ m'.session = m.session
  /\ Calm => m.streaming /\ ~ m.compressing

\* The queue is handed back.
Back ==
  /\ UNCHANGED << typed, hist, sent, jobs >>
  /\ m'.pending = m.pending /\ m'.queued = << >> /\ m'.composer = Queued
  /\ m'.session = m.session
  /\ ~ m'.streaming /\ ~ m'.confirming /\ m'.compressing = m.compressing
  /\ Calm => m.streaming /\ ~ m.compressing

LEMMA StartTexts ==
  ASSUME NEW model \in Model, NEW p, NEW content, StartStream(model, p, content)
  PROVE  /\ m'.streaming /\ m'.compressing = model.compressing
         /\ m'.confirming = model.confirming
         /\ m'.pending = model.pending /\ m'.queued = model.queued
         /\ m'.composer = model.composer /\ m'.session = model.session
         /\ content = none => sent' = sent
         /\ content # none => sent' = Append(sent, [prompts |-> content, session |-> model.session])
BY DEF StartStream, Model, none

LEMMA CompressionLeaves ==
  ASSUME NEW model \in Model, NEW p, NEW h \in Message, Jobs(jobs),
         StartCompression(model, p, h), model.session = m.session
  PROVE  /\ m'.queued = model.queued /\ m'.composer = model.composer
         /\ m'.session = m.session /\ m'.confirming = model.confirming
         /\ h # none => Leaves(h)
         /\ h = none =>
              /\ sent' = sent
              /\ \/ m' = model /\ jobs' = jobs
                 \/ /\ m'.compressing /\ m'.pending = none /\ m'.streaming = model.streaming
                    /\ \E j : jobs' = jobs \cup {j} /\ ~ j.stopped
<1>1. PICK other \in Model : Outcome(model, p, h, other)
  BY CompressionCases
<1>2. CASE h # << >> /\ other.pending = << >> /\ StartStream(other, p, h) /\ UNCHANGED jobs
  BY <1>1, <1>2, StartTexts DEF Outcome, Leaves, none
<1>3. CASE h = << >> /\ other = model /\ m' = other /\ UNCHANGED << jobs, sent >>
  BY <1>3 DEF none
<1>4. CASE /\ other.pending = h /\ other.compressing /\ m' = other /\ UNCHANGED sent
           /\ \E j : jobs' = jobs \cup {j} /\ ~ j.stopped
  BY <1>1, <1>4 DEF Outcome, Leaves, none
<1>5. QED
  BY <1>1, <1>2, <1>3, <1>4 DEF Outcome

-----------------------------------------------------------------------------
(***************************************************************************)
(* Each way keeps the invariant.                                           *)
(***************************************************************************)
LEMMA FineCalm ==
  ASSUME IInv, Fine(mishaps)
  PROVE  /\ m.compressing => ~ m.streaming /\ ~ m.confirming
         /\ ~ m.compressing => jobs = {} /\ m.pending = none
         /\ Calm
<1>1. Calm
  BY DEF Fine, Calm
<1>2. QED
  BY <1>1 DEF IInv, OneAtATime, none

LEMMA QueuedSame ==
  ASSUME m'.queued = m.queued
  PROVE  Queued' = Queued
BY DEF Queued

LEMMA SentSame ==
  ASSUME sent' = sent
  PROVE  Sent' = Sent
BY DEF Sent

LEMMA SettleKeeps ==
  ASSUME PInv, Settle
  PROVE  Whole' /\ Spared' /\ Orderly'
<1>1. Queued' = Queued /\ Sent' = Sent
  BY QueuedSame, SentSame DEF Settle
<1>2. /\ UNCHANGED << typed, entered, dropped, sent >> /\ mishaps \subseteq mishaps'
      /\ m'.composer = m.composer /\ m'.session = m.session
      /\ m'.pending = m.pending \/ (m'.pending = none /\ ~ Fine(mishaps'))
  BY DEF Settle
<1>3. /\ Sent \in Message /\ m.pending \in Message /\ Queued \in Message /\ m.composer \in Message
  BY Places DEF PInv
<1>4. Whole'
  <2>1. Apart(Sent, m.pending, Queued, m.composer)
    BY DEF PInv, Whole
  <2>2. Apart(Sent, m'.pending, Queued, m.composer)
    BY <1>2, <1>3, <2>1, ApartStill
  <2>3. ToSet(m'.pending) \subseteq ToSet(m.pending)
    BY <1>2, Nothing
  <2>4. Hand(Sent, m'.pending, Queued, m.composer) \subseteq 1 .. typed
    BY <2>3 DEF PInv, Whole, Hand
  <2>5. /\ \A p \in Prompts : p > typed => entered[p] = 0
        /\ \A i \in 1 .. Len(sent) : ToSet(sent[i].prompts) \subseteq ToSet(Sent)
    BY DEF PInv, Whole
  <2>6. QED
    BY <1>1, <1>2, <2>2, <2>4, <2>5 DEF Whole
<1>5. Spared'
  <2>1. SUFFICES ASSUME Fine(mishaps') PROVE Spared!2'
    BY DEF Spared, Fine
  <2>2. Fine(mishaps) /\ m'.pending = m.pending
    BY <1>2, <2>1 DEF Fine
  <2>3. /\ Busy => \A p \in ToSet(m.composer) : entered[p] = 0
        /\ \A p \in Prompts :
             entered[p] # 0 => p \in dropped \cup Hand(Sent, m.pending, Queued, m.composer)
    BY <2>2 DEF PInv, Spared, Fine
  <2>4. Busy' => \A p \in ToSet(m.composer) : entered[p] = 0
    BY <2>1, <2>3, Nothing DEF Settle
  <2>5. QED
    BY <1>1, <1>2, <2>2, <2>3, <2>4
<1>6. Orderly'
  <2>1. SUFFICES ASSUME mishaps' = {} PROVE Orderly!2'
    BY DEF Orderly
  <2>2. mishaps = {} /\ m'.pending = m.pending
    BY <1>2, <2>1 DEF Fine
  <2>3. Orderly!2
    BY <2>2 DEF PInv, Orderly
  <2>4. Queued # << >> => Held'
    BY <2>1, <2>3 DEF Settle, none
  <2>5. \A j \in jobs' : ~ j.stopped
    BY <2>1, <2>3 DEF Settle
  <2>6. QED
    BY <1>1, <1>2, <2>2, <2>3, <2>4, <2>5
<1>7. QED
  BY <1>4, <1>5, <1>6

LEMMA LeavesSent ==
  ASSUME IInv, NEW h \in Message, Leaves(h)
  PROVE  \/ /\ sent' = Append(sent, [prompts |-> h, session |-> m.session])
            /\ Sent' = Sent \o h /\ m'.streaming /\ m'.pending \in {m.pending, none}
         \/ sent' = sent /\ Sent' = Sent /\ m'.compressing /\ m'.pending = h
<1>1. CASE /\ sent' = Append(sent, [prompts |-> h, session |-> m.session])
           /\ m'.streaming /\ m'.pending \in {m.pending, none}
  <2>1. Sent' = SentBy(sent')
    BY DEF Sent, SentBy
  <2>2. SentBy(sent') = SentBy(sent) \o h
    BY <1>1, Types, SentByAll
  <2>3. QED
    BY <1>1, <2>1, <2>2, Places
<1>2. QED
  BY <1>1, SentSame DEF Leaves

\* The message sent is the last, the others are as they were.
LEMMA SentLast ==
  ASSUME IInv, NEW h \in Message,
         sent' = Append(sent, [prompts |-> h, session |-> m.session])
  PROVE  \A i \in 1 .. Len(sent') :
           \/ i \in 1 .. Len(sent) /\ sent'[i] = sent[i]
           \/ sent'[i].prompts = h /\ sent'[i].session = m.session
<1>1. PICK e : e = [prompts |-> h, session |-> m.session]
  OBVIOUS
<1>2. e \in [prompts : Message, session : 1 .. MaxSessions]
  BY <1>1, Types
<1>3. /\ Len(sent') = Len(sent) + 1 /\ sent'[Len(sent) + 1] = e /\ Len(sent) \in Nat
      /\ \A i \in 1 .. Len(sent) : sent'[i] = sent[i]
  BY <1>1, <1>2, Types, Appended, LenProperties DEF Sends
<1>4. \A i \in 1 .. Len(sent) + 1 : i \in 1 .. Len(sent) \/ i = Len(sent) + 1
  BY <1>3
<1>5. QED
  BY <1>1, <1>3, <1>4

LEMMA QueuedNext ==
  ASSUME IInv'
  PROVE  Queued' \in Message /\ m'.pending \in Message /\ m'.composer \in Message
<1>1. m' \in Model
  BY DEF IInv, Core
<1>2. m'.queued \in Seq(Message) /\ m'.pending \in Message /\ m'.composer \in Message
  BY <1>1 DEF Model
<1>3. QED
  BY <1>2, FlattenType DEF Queued, Message

\* When a message leaves, what is known of sent messages goes on to hold, if the
\* prompts of the message have been entered in the session on screen, and the
\* sessions of other prompts are as they were.
LEMMA LeavesKeeps ==
  ASSUME PInv, NEW h \in Message, Leaves(h), Disjoint(Sent, h),
         \A p \in ToSet(Sent) : entered'[p] = entered[p]
  PROVE  /\ \A i \in 1 .. Len(sent') : ToSet(sent'[i].prompts) \subseteq ToSet(Sent')
         /\ mishaps = {} /\ (\A p \in ToSet(h) : entered'[p] = m.session) =>
              \A i \in 1 .. Len(sent') :
                \A p \in ToSet(sent'[i].prompts) : entered'[p] = sent'[i].session
<1>1. /\ IInv /\ \A i \in 1 .. Len(sent) : ToSet(sent[i].prompts) \subseteq ToSet(Sent)
      /\ mishaps = {} => \A i \in 1 .. Len(sent) :
           \A p \in ToSet(sent[i].prompts) : entered[p] = sent[i].session
  BY DEF PInv, Whole, Orderly
<1>2. CASE sent' = sent /\ Sent' = Sent
  BY <1>1, <1>2
<1>3. CASE /\ sent' = Append(sent, [prompts |-> h, session |-> m.session]) /\ Sent' = Sent \o h
  <2>1. ToSet(Sent') = ToSet(Sent) \cup ToSet(h)
    BY <1>1, <1>3, Places, JoinedMessages
  <2>2. \A i \in 1 .. Len(sent') :
           \/ i \in 1 .. Len(sent) /\ sent'[i] = sent[i]
           \/ sent'[i].prompts = h /\ sent'[i].session = m.session
    BY <1>1, <1>3, SentLast
  <2>3. QED
    BY <1>1, <2>1, <2>2
<1>4. QED
  BY <1>1, <1>2, <1>3, LeavesSent

LEMMA PopKeeps ==
  ASSUME PInv, IInv', NEW h, Pop(h)
  PROVE  Whole' /\ Spared' /\ Orderly'
<1>1. /\ UNCHANGED << typed, entered, dropped, mishaps >>
      /\ h \in Message /\ h # none /\ Leaves(h) /\ Queued = h \o Queued'
      /\ m'.composer = m.composer /\ m'.session = m.session
      /\ Calm => m.streaming /\ ~ m.compressing
  BY DEF Pop, hist
<1>2. /\ Sent \in Message /\ m.pending \in Message /\ Queued' \in Message /\ m.composer \in Message
      /\ IInv
  BY Places, QueuedNext DEF PInv
<1>3. PICK q : q = Queued'
  OBVIOUS
<1>4. ToSet(Queued) = ToSet(h) \cup ToSet(q)
  BY <1>1, <1>2, <1>3, JoinedMessages
<1>5. \/ Sent' = Sent \o h /\ m'.streaming /\ m'.pending \in {m.pending, none}
      \/ Sent' = Sent /\ m'.compressing /\ m'.pending = h
  BY <1>1, <1>2, LeavesSent
<1>6. ToSet(Sent \o h) = ToSet(Sent) \cup ToSet(h)
  BY <1>1, <1>2, JoinedMessages
<1>7. Apart(Sent, m.pending, h \o q, m.composer)
  BY <1>1, <1>3 DEF PInv, Whole
<1>8. Disjoint(Sent, h)
  BY <1>1, <1>3, <1>4, <1>7 DEF Apart, Disjoint
<1>9. Whole'
  <2>1. /\ Apart(Sent \o h, m.pending, q, m.composer) /\ Apart(Sent \o h, none, q, m.composer)
        /\ Apart(Sent, h, q, m.composer)
    BY <1>1, <1>2, <1>3, <1>7, ApartFront
  <2>2. Apart(Sent', m'.pending, q, m.composer)
    BY <1>5, <2>1, Zenon
  <2>3. Hand(Sent', m'.pending, q, m.composer) \subseteq Hand(Sent, m.pending, Queued, m.composer)
    BY <1>4, <1>5, <1>6, Nothing DEF Hand
  <2>4. \A i \in 1 .. Len(sent') : ToSet(sent'[i].prompts) \subseteq ToSet(Sent')
    BY <1>1, <1>8, LeavesKeeps
  <2>5. QED
    BY <1>1, <1>3, <2>2, <2>3, <2>4 DEF PInv, Whole
<1>10. ASSUME Fine(mishaps)
       PROVE  m.pending = none /\ m.streaming /\ ~ m.compressing
  BY <1>1, <1>2, <1>10, FineCalm
<1>11. Spared'
  <2>1. SUFFICES ASSUME Fine(mishaps) PROVE Spared!2'
    BY <1>1 DEF Spared, Fine
  <2>2. Spared!2 /\ Busy
    BY <1>10, <2>1 DEF PInv, Spared, Fine, Busy
  <2>3. Hand(Sent', m'.pending, q, m.composer) = Hand(Sent, m.pending, Queued, m.composer)
    BY <1>4, <1>5, <1>6, <1>10, <2>1, Nothing DEF Hand
  <2>4. QED
    BY <1>1, <1>3, <2>2, <2>3
<1>12. Orderly'
  <2>1. SUFFICES ASSUME mishaps = {} PROVE Orderly!2'
    BY <1>1 DEF Orderly
  <2>2. Orderly!2 /\ m.pending = none /\ m.streaming /\ ~ m.compressing /\ jobs = {}
    BY <1>2, <1>10, <2>1, FineCalm DEF PInv, Orderly, Fine
  <2>3. Rising(Sent', m'.pending, q, m.composer)
    <3>1. Rising(Sent, none, h \o q, m.composer)
      BY <1>1, <1>3, <2>2
    <3>2. Rising(Sent \o h, none, q, m.composer) /\ Rising(Sent, h, q, m.composer)
      BY <1>1, <1>2, <1>3, <3>1, RisingFront
    <3>3. \/ Sent' = Sent \o h /\ m'.pending = none
          \/ Sent' = Sent /\ m'.pending = h
      BY <1>5, <2>2
    <3>4. QED
      BY <3>2, <3>3, Zenon
  <2>4. Held'
    BY <1>1, <1>5 DEF Held, none
  <2>5. \A p \in ToSet(h) \cup ToSet(q) : entered[p] = m.session
    BY <1>4, <2>2
  <2>6. \A p \in ToSet(m'.pending) \cup ToSet(q) : entered[p] = m.session
    BY <1>5, <2>2, <2>5
  <2>7. \A i \in 1 .. Len(sent') : \A p \in ToSet(sent'[i].prompts) : entered[p] = sent'[i].session
    BY <1>1, <1>8, <2>1, <2>5, LeavesKeeps
  <2>8. \A j \in jobs' : ~ j.stopped
    BY <1>1, <2>2 DEF Leaves
  <2>9. QED
    BY <1>1, <1>3, <2>3, <2>4, <2>6, <2>7, <2>8
<1>13. QED
  BY <1>9, <1>11, <1>12

LEMMA BackKeeps ==
  ASSUME PInv, Back
  PROVE  Whole' /\ Spared' /\ Orderly'
<1>1. /\ UNCHANGED << typed, entered, dropped, mishaps, jobs, sent >>
      /\ m'.pending = m.pending /\ m'.queued = << >> /\ m'.composer = Queued
      /\ m'.session = m.session /\ ~ m'.streaming /\ ~ m'.confirming
      /\ m'.compressing = m.compressing
      /\ Calm => m.streaming /\ ~ m.compressing
  BY DEF Back, hist
<1>2. /\ Sent \in Message /\ m.pending \in Message /\ Queued \in Message /\ m.composer \in Message
      /\ IInv
  BY Places DEF PInv
<1>3. Sent' = Sent /\ Queued' = none
  BY <1>1, SentSame, FlattenNothing DEF Queued, none
<1>4. Apart(Sent, m.pending, none, Queued)
  BY <1>2, ApartStill DEF PInv, Whole
<1>5. Whole'
  <2>1. Hand(Sent, m.pending, none, Queued) \subseteq Hand(Sent, m.pending, Queued, m.composer)
    BY Nothing DEF Hand
  <2>2. QED
    BY <1>1, <1>3, <1>4, <2>1 DEF PInv, Whole
<1>6. Spared'
  <2>1. SUFFICES ASSUME Fine(mishaps) PROVE Spared!2'
    BY <1>1 DEF Spared, Fine
  <2>2. Spared!2
    BY <2>1 DEF PInv, Spared, Fine
  <2>3. ~ Busy' /\ Busy
    <3>1. m.streaming /\ ~ m.compressing
      BY <1>1, <1>2, <2>1, FineCalm
    <3>2. QED
      BY <1>1, <3>1 DEF Busy
  <2>4. \A p \in Prompts :
          entered[p] # 0 => p \in dropped \cup Hand(Sent, m.pending, none, Queued)
    BY <2>2, <2>3, Nothing DEF Hand
  <2>5. QED
    BY <1>1, <1>3, <2>3, <2>4
<1>7. Orderly'
  <2>1. SUFFICES ASSUME mishaps = {} PROVE Orderly!2'
    BY <1>1 DEF Orderly
  <2>2. Orderly!2
    BY <2>1 DEF PInv, Orderly
  <2>3. Rising(Sent, m.pending, none, Queued)
    BY <1>2, <2>2, RisingStill
  <2>4. QED
    BY <1>1, <1>3, <2>2, <2>3, Nothing DEF none
<1>8. QED
  BY <1>5, <1>6, <1>7

LEMMA TypeKeeps ==
  ASSUME PInv, Type
  PROVE  Whole' /\ Spared' /\ Orderly'
<1>1. PICK new : new = typed + 1
  OBVIOUS
<1>2. /\ m' = [m EXCEPT !.composer = Append(@, new)] /\ typed' = new /\ typed < MaxPrompts
      /\ UNCHANGED << jobs, sent, entered, dropped, mishaps >>
  BY <1>1 DEF Type, hist
<1>3. /\ Sent \in Message /\ m.pending \in Message /\ Queued \in Message /\ m.composer \in Message
      /\ IInv
  BY Places DEF PInv
<1>4. /\ m'.streaming = m.streaming /\ m'.confirming = m.confirming
      /\ m'.compressing = m.compressing /\ m'.pending = m.pending /\ m'.queued = m.queued
      /\ m'.session = m.session /\ m'.composer = Append(m.composer, new)
  BY <1>2, <1>3, Types DEF Model
<1>5. Sent' = Sent /\ Queued' = Queued
  BY <1>2, <1>4, SentSame, QueuedSame
<1>6. typed \in Nat /\ new \in Prompts /\ new \in Nat /\ new = typed + 1
  BY <1>1, <1>2, <1>3, Types, Bounds DEF Rest, Prompts
<1>7. PICK more : more = << new >>
  OBVIOUS
<1>8. /\ more \in Message /\ ToSet(more) = {new} /\ Distinct(more) /\ Increasing(more)
  <2>1. more \in Message /\ Len(more) = 1 /\ more[1] = new
    BY <1>6, <1>7 DEF Message
  <2>2. ToSet(more) = {new}
    BY <2>1, Members DEF Message
  <2>3. QED
    BY <2>1, <2>2 DEF Distinct, Increasing
<1>9. PICK text : text = m'.composer
  OBVIOUS
<1>10. text = m.composer \o more
  <2>1. text = Append(m.composer, new)
    BY <1>4, <1>9
  <2>2. \A u \in Seq(Prompts) : Append(u, new) = u \o << new >>
    BY <1>6
  <2>3. QED
    BY <1>3, <1>7, <2>1, <2>2 DEF Message
<1>11. /\ Apart(Sent, m.pending, Queued, m.composer)
       /\ Hand(Sent, m.pending, Queued, m.composer) \subseteq 1 .. typed
       /\ \A i \in 1 .. Len(sent) : ToSet(sent[i].prompts) \subseteq ToSet(Sent)
       /\ \A p \in Prompts : p > typed => entered[p] = 0
  BY DEF PInv, Whole
<1>12. new \notin 1 .. typed /\ 1 .. typed \subseteq 1 .. new /\ new \in 1 .. new
       /\ \A x \in 1 .. typed : x < new
  BY <1>6
<1>13. /\ ToSet(Sent) \subseteq 1 .. typed /\ ToSet(m.pending) \subseteq 1 .. typed
       /\ ToSet(Queued) \subseteq 1 .. typed /\ ToSet(m.composer) \subseteq 1 .. typed
  BY <1>11 DEF Hand
<1>14. ToSet(text) = ToSet(m.composer) \cup {new} /\ Distinct(text)
  <2>1. Disjoint(m.composer, more)
    BY <1>8, <1>12, <1>13 DEF Disjoint
  <2>2. ToSet(m.composer \o more) = ToSet(m.composer) \cup {new} /\ Distinct(m.composer \o more)
    BY <1>3, <1>8, <1>11, <2>1, JoinedMessages DEF Apart
  <2>3. QED
    BY <1>10, <2>2, Zenon
<1>15. Whole'
  <2>1. Disjoint(Sent, text) /\ Disjoint(m.pending, text) /\ Disjoint(Queued, text)
    BY <1>11, <1>12, <1>13, <1>14 DEF Apart, Disjoint
  <2>2. Apart(Sent, m.pending, Queued, text)
    BY <1>11, <1>14, <2>1 DEF Apart
  <2>3. Hand(Sent, m.pending, Queued, text) \subseteq 1 .. new
    BY <1>12, <1>13, <1>14 DEF Hand
  <2>4. \A p \in Prompts : p > new => entered[p] = 0
    BY <1>6, <1>11 DEF Prompts
  <2>5. QED
    BY <1>2, <1>4, <1>5, <1>9, <1>11, <2>2, <2>3, <2>4 DEF Whole
<1>16. Spared'
  <2>1. SUFFICES ASSUME Fine(mishaps) PROVE Spared!2'
    BY <1>2 DEF Spared, Fine
  <2>2. Spared!2
    BY <2>1 DEF PInv, Spared, Fine
  <2>3. entered[new] = 0
    BY <1>6, <1>11
  <2>4. (Busy' <=> Busy) /\ Hand(Sent, m.pending, Queued, m.composer) \subseteq Hand(Sent, m.pending, Queued, text)
    BY <1>4, <1>14 DEF Busy, Hand
  <2>5. QED
    BY <1>2, <1>4, <1>5, <1>9, <1>14, <2>2, <2>3, <2>4
<1>17. Orderly'
  <2>1. SUFFICES ASSUME mishaps = {} PROVE Orderly!2'
    BY <1>2 DEF Orderly
  <2>2. Orderly!2
    BY <2>1 DEF PInv, Orderly
  <2>3. Increasing(text)
    <3>1. Before(m.composer, more)
      BY <1>8, <1>12, <1>13 DEF Before
    <3>2. Increasing(m.composer \o more)
      BY <1>3, <1>8, <2>2, <3>1, JoinedMessages DEF Rising
    <3>3. QED
      BY <1>10, <3>2, Zenon
  <2>4. Before(Sent, text) /\ Before(m.pending, text) /\ Before(Queued, text)
    BY <1>12, <1>13, <1>14, <2>2 DEF Rising, Before
  <2>5. Rising(Sent, m.pending, Queued, text)
    BY <2>2, <2>3, <2>4 DEF Rising
  <2>6. Held' <=> Held
    BY <1>4 DEF Held
  <2>7. QED
    BY <1>2, <1>4, <1>5, <1>9, <2>2, <2>5, <2>6
<1>18. QED
  BY <1>15, <1>16, <1>17

LEMMA EnteredNow ==
  ASSUME IInv, NEW text \in Message, Entered(text)
  PROVE  /\ \A p \in Prompts : entered'[p] = IF p \in ToSet(text) THEN m.session ELSE entered[p]
         /\ m.session # 0 /\ ToSet(text) \subseteq Prompts
<1>1. m.session # 0
  BY Types
<1>2. ToSet(text) \subseteq Prompts
  BY Members DEF Message
<1>3. QED
  BY <1>1, <1>2 DEF Entered

LEMMA SendKeeps ==
  ASSUME PInv, Send
  PROVE  Whole' /\ Spared' /\ Orderly'
<1>1. PICK cleared : cleared = [m EXCEPT !.composer = << >>]
  OBVIOUS
<1>2. /\ ~ Busy /\ m.composer # none /\ Entered(m.composer)
      /\ UNCHANGED << typed, dropped, mishaps >>
      /\ \/ StartStream(cleared, pump, m.composer) /\ UNCHANGED jobs
         \/ StartCompression(cleared, pump, m.composer)
  BY <1>1 DEF Send, Idle, Busy, none
<1>3. /\ Sent \in Message /\ m.pending \in Message /\ Queued \in Message /\ m.composer \in Message
      /\ IInv /\ Jobs(jobs)
  BY Places, Types DEF PInv
<1>4. /\ cleared \in Model /\ cleared.session = m.session /\ cleared.pending = m.pending
      /\ cleared.queued = m.queued /\ cleared.composer = none
  BY <1>1, <1>3, Types, Nothing DEF Model, none
<1>5. PICK c : c = m.composer
  OBVIOUS
<1>6. Leaves(c) /\ m'.queued = m.queued /\ m'.composer = none /\ m'.session = m.session
  <2>1. CASE StartStream(cleared, pump, c) /\ UNCHANGED jobs
    BY <1>2, <1>4, <1>5, <2>1, StartTexts DEF Leaves
  <2>2. CASE StartCompression(cleared, pump, c)
    BY <1>2, <1>3, <1>4, <1>5, <2>2, CompressionLeaves
  <2>3. QED
    BY <1>2, <1>5, <2>1, <2>2
<1>7. \/ Sent' = Sent \o c /\ m'.streaming /\ m'.pending \in {m.pending, none}
      \/ Sent' = Sent /\ m'.compressing /\ m'.pending = c
  BY <1>3, <1>5, <1>6, LeavesSent
<1>8. ToSet(Sent \o c) = ToSet(Sent) \cup ToSet(c)
  BY <1>3, <1>5, JoinedMessages
<1>9. Queued' = Queued
  BY <1>6, QueuedSame
<1>10. /\ \A p \in Prompts : entered'[p] = IF p \in ToSet(c) THEN m.session ELSE entered[p]
       /\ m.session # 0 /\ ToSet(c) \subseteq Prompts /\ ToSet(Sent) \subseteq Prompts
       /\ ToSet(Queued) \subseteq Prompts
  BY <1>2, <1>3, <1>5, EnteredNow, Members DEF Message
<1>11. /\ Apart(Sent, m.pending, Queued, c)
       /\ Hand(Sent, m.pending, Queued, c) \subseteq 1 .. typed
       /\ \A p \in Prompts : p > typed => entered[p] = 0
  BY <1>5 DEF PInv, Whole
<1>12. Disjoint(Sent, c) /\ Disjoint(Queued, c)
  BY <1>11 DEF Apart
<1>13. \A p \in ToSet(Sent) : entered'[p] = entered[p]
  BY <1>10, <1>12 DEF Disjoint
<1>14. Whole'
  <2>1. /\ Apart(Sent \o c, m.pending, Queued, none) /\ Apart(Sent \o c, none, Queued, none)
        /\ Apart(Sent, c, Queued, none)
    BY <1>3, <1>5, <1>11, ApartStill
  <2>2. Apart(Sent', m'.pending, Queued, none)
    BY <1>7, <2>1, Zenon
  <2>3. Hand(Sent', m'.pending, Queued, none) \subseteq 1 .. typed
    BY <1>7, <1>8, <1>11, Nothing DEF Hand
  <2>4. \A i \in 1 .. Len(sent') : ToSet(sent'[i].prompts) \subseteq ToSet(Sent')
    BY <1>3, <1>5, <1>6, <1>12, <1>13, LeavesKeeps
  <2>5. \A p \in Prompts : p > typed => entered'[p] = 0
    <3>1. \A p \in ToSet(c) : p <= typed /\ ~ (p > typed)
      BY <1>3, <1>11, Types DEF Hand
    <3>2. QED
      BY <1>10, <1>11, <3>1
  <2>6. QED
    BY <1>2, <1>6, <1>9, <2>2, <2>3, <2>4, <2>5 DEF Whole
<1>15. ASSUME Fine(mishaps) PROVE m.pending = none /\ jobs = {}
  BY <1>2, <1>3, <1>15, FineCalm DEF Busy
<1>16. Spared'
  <2>1. SUFFICES ASSUME Fine(mishaps) PROVE Spared!2'
    BY <1>2 DEF Spared, Fine
  <2>2. \A p \in Prompts : entered[p] # 0 => p \in dropped \cup Hand(Sent, m.pending, Queued, c)
    BY <1>5, <2>1 DEF PInv, Spared, Fine
  <2>3. Hand(Sent', m'.pending, Queued, none) = ToSet(Sent) \cup ToSet(Queued) \cup ToSet(c)
    BY <1>7, <1>8, <1>15, <2>1, Nothing DEF Hand
  <2>4. \A p \in Prompts : entered'[p] # 0 => p \in dropped \cup Hand(Sent', m'.pending, Queued, none)
    BY <1>10, <1>15, <2>1, <2>2, <2>3, Nothing DEF Hand
  <2>5. QED
    BY <1>2, <1>6, <1>9, <2>4, Nothing
<1>17. Orderly'
  <2>1. SUFFICES ASSUME mishaps = {} PROVE Orderly!2'
    BY <1>2 DEF Orderly
  <2>2. Orderly!2 /\ m.pending = none /\ jobs = {}
    BY <1>15, <2>1 DEF PInv, Orderly, Fine
  <2>3. Queued = none
    BY <1>2, <2>2 DEF Held, Busy, none
  <2>4. Rising(Sent', m'.pending, none, none)
    <3>1. Rising(Sent \o c, none, none, none) /\ Rising(Sent, c, none, none)
      BY <1>3, <1>5, <2>2, <2>3, RisingStill
    <3>2. \/ Sent' = Sent \o c /\ m'.pending = none
          \/ Sent' = Sent /\ m'.pending = c
      BY <1>7, <2>2
    <3>3. QED
      BY <3>1, <3>2, Zenon
  <2>5. \A p \in ToSet(c) : entered'[p] = m.session
    BY <1>10
  <2>6. \A p \in ToSet(m'.pending) \cup ToSet(none) : entered'[p] = m.session
    BY <1>7, <2>2, <2>5, Nothing
  <2>7. \A i \in 1 .. Len(sent') : \A p \in ToSet(sent'[i].prompts) : entered'[p] = sent'[i].session
    BY <1>3, <1>5, <1>6, <1>12, <1>13, <2>1, <2>5, LeavesKeeps
  <2>8. \A j \in jobs' : ~ j.stopped
    BY <1>6, <2>2 DEF Leaves
  <2>9. QED
    BY <1>2, <1>6, <1>9, <2>3, <2>4, <2>6, <2>7, <2>8 DEF none
<1>18. QED
  BY <1>14, <1>16, <1>17

LEMMA QueueKeeps ==
  ASSUME PInv, QueueWhileBusy
  PROVE  Whole' /\ Spared' /\ Orderly'
<1>1. /\ m.streaming /\ Entered(m.composer)
      /\ m' = [m EXCEPT !.composer = << >>, !.queued = Append(@, m.composer)]
      /\ UNCHANGED << jobs, typed, sent, dropped, mishaps >>
  BY DEF QueueWhileBusy
<1>2. /\ Sent \in Message /\ m.pending \in Message /\ Queued \in Message /\ m.composer \in Message
      /\ IInv /\ m.queued \in Seq(Message)
  BY Places, Types DEF PInv
<1>3. PICK c : c = m.composer
  OBVIOUS
<1>4. /\ m'.streaming /\ m'.pending = m.pending /\ m'.session = m.session
      /\ m'.composer = none /\ m'.queued = Append(m.queued, c)
  BY <1>1, <1>2, <1>3, Types DEF Model, none
<1>5. Sent' = Sent /\ Queued' = FlattenSeq(Append(m.queued, c))
  BY <1>1, <1>4, SentSame DEF Queued
<1>6. PICK q : q = Queued \o c
  OBVIOUS
<1>7. Queued' = q
  <2>1. FlattenSeq(Append(m.queued, c)) = FlattenSeq(m.queued) \o c
    BY <1>2, <1>3, FlattenAppend DEF Message
  <2>2. QED
    BY <1>5, <1>6, <2>1 DEF Queued
<1>8. ToSet(q) = ToSet(Queued) \cup ToSet(c)
  BY <1>2, <1>3, <1>6, JoinedMessages
<1>9. /\ \A p \in Prompts : entered'[p] = IF p \in ToSet(c) THEN m.session ELSE entered[p]
      /\ m.session # 0 /\ ToSet(c) \subseteq Prompts /\ ToSet(Sent) \subseteq Prompts
      /\ ToSet(Queued) \subseteq Prompts /\ ToSet(m.pending) \subseteq Prompts
  BY <1>1, <1>2, <1>3, EnteredNow, Members DEF Message
<1>10. /\ Apart(Sent, m.pending, Queued, c)
       /\ Hand(Sent, m.pending, Queued, c) \subseteq 1 .. typed
       /\ \A i \in 1 .. Len(sent) : ToSet(sent[i].prompts) \subseteq ToSet(Sent)
       /\ \A p \in Prompts : p > typed => entered[p] = 0
  BY <1>3 DEF PInv, Whole
<1>11. Whole'
  <2>1. Apart(Sent, m.pending, q, none)
    BY <1>2, <1>3, <1>6, <1>10, ApartStill
  <2>2. Hand(Sent, m.pending, q, none) \subseteq 1 .. typed
    BY <1>8, <1>10, Nothing DEF Hand
  <2>3. \A p \in Prompts : p > typed => entered'[p] = 0
    <3>1. \A p \in ToSet(c) : p <= typed /\ ~ (p > typed)
      BY <1>2, <1>10, Types DEF Hand
    <3>2. QED
      BY <1>9, <1>10, <3>1
  <2>4. QED
    BY <1>1, <1>4, <1>5, <1>7, <1>10, <2>1, <2>2, <2>3 DEF Whole
<1>12. Spared'
  <2>1. SUFFICES ASSUME Fine(mishaps) PROVE Spared!2'
    BY <1>1 DEF Spared, Fine
  <2>2. \A p \in Prompts : entered[p] # 0 => p \in dropped \cup Hand(Sent, m.pending, Queued, c)
    BY <1>3, <2>1 DEF PInv, Spared, Fine
  <2>3. Hand(Sent, m.pending, q, none) = Hand(Sent, m.pending, Queued, c)
    BY <1>8, Nothing DEF Hand
  <2>4. \A p \in Prompts : entered'[p] # 0 => p \in dropped \cup Hand(Sent, m.pending, q, none)
    BY <1>9, <2>2, <2>3 DEF Hand
  <2>5. QED
    BY <1>1, <1>4, <1>5, <1>7, <2>4, Nothing
<1>13. Orderly'
  <2>1. SUFFICES ASSUME mishaps = {} PROVE Orderly!2'
    BY <1>1 DEF Orderly
  <2>2. Orderly!2
    BY <2>1 DEF PInv, Orderly
  <2>3. Rising(Sent, m.pending, q, none)
    BY <1>2, <1>3, <1>6, <2>2, RisingStill
  <2>4. \A p \in ToSet(m.pending) \cup ToSet(q) : entered'[p] = m.session
    BY <1>8, <1>9, <2>2
  <2>5. \A i \in 1 .. Len(sent) : \A p \in ToSet(sent[i].prompts) : entered'[p] = sent[i].session
    <3>1. \A p \in ToSet(Sent) : entered'[p] = entered[p]
      BY <1>9, <1>10 DEF Apart, Disjoint
    <3>2. QED
      BY <1>10, <2>2, <3>1
  <2>6. QED
    BY <1>1, <1>4, <1>5, <1>7, <2>2, <2>3, <2>4, <2>5 DEF Held
<1>14. QED
  BY <1>11, <1>12, <1>13

-----------------------------------------------------------------------------
(***************************************************************************)
(* Results of a compression.                                               *)
(***************************************************************************)
LEMMA OnlyJob ==
  ASSUME PInv, NEW j \in jobs, Fine(mishaps)
  PROVE  /\ m.compressing /\ Busy /\ JobsWithout(j) = {}
         /\ ~ m.streaming /\ ~ m.confirming
<1>1. m.compressing /\ Calm
  BY FineCalm DEF PInv
<1>2. QED
  BY <1>1, LastJob DEF PInv, Busy

LEMMA SummaryKeeps ==
  ASSUME PInv, NEW j \in jobs, HandleSummary(j)
  PROVE  Whole' /\ Spared' /\ Orderly'
<1>1. jobs' = JobsWithout(j) /\ UNCHANGED << typed, entered, dropped, mishaps >>
  BY DEF HandleSummary, hist
<1>2. /\ Sent \in Message /\ m.pending \in Message /\ Queued \in Message /\ m.composer \in Message
      /\ IInv
  BY Places DEF PInv
<1>3. /\ Cleared \in Model /\ Cleared.streaming = m.streaming
      /\ Cleared.confirming = m.confirming /\ ~ Cleared.compressing
      /\ Cleared.pending = none /\ Cleared.queued = m.queued
      /\ Cleared.composer = m.composer /\ Cleared.session = m.session
  <2>1. Cleared.session = m.session
    BY <1>2, Types DEF Cleared, Model
  <2>2. QED
    BY <1>2, <2>1, ClearedFields DEF none
<1>4. CASE m.pending = none /\ m' = Cleared /\ UNCHANGED sent
  <2>1. Fine(mishaps') => Busy /\ jobs' = {}
    BY <1>1, OnlyJob DEF Fine
  <2>2. Held' <=> Held
    BY <1>3, <1>4 DEF Held, none
  <2>3. mishaps' = {} => Fine(mishaps')
    BY DEF Fine
  <2>4. Settle
    BY <1>1, <1>3, <1>4, <2>1, <2>2, <2>3 DEF Settle
  <2>5. QED
    BY <2>4, SettleKeeps
<1>5. CASE m.pending # none /\ StartStream(Cleared, pump, m.pending)
  <2>1. PICK h : h = m.pending
    OBVIOUS
  <2>2. /\ sent' = Append(sent, [prompts |-> h, session |-> m.session])
        /\ m'.streaming /\ m'.pending = none /\ m'.queued = m.queued
        /\ m'.composer = m.composer /\ m'.session = m.session
    BY <1>3, <1>5, <2>1, StartTexts
  <2>3. Sent' = Sent \o h /\ Queued' = Queued
    <3>1. Sent' = SentBy(sent')
      BY DEF Sent, SentBy
    <3>2. SentBy(sent') = SentBy(sent) \o h
      BY <1>2, <2>1, <2>2, Types, SentByAll
    <3>3. QED
      BY <1>2, <2>2, <3>1, <3>2, Places, QueuedSame
  <2>4. ToSet(Sent \o h) = ToSet(Sent) \cup ToSet(h)
    BY <1>2, <2>1, JoinedMessages
  <2>5. ToSet(Sent') = ToSet(Sent) \cup ToSet(h)
    BY <2>3, <2>4, Zenon
  <2>6. \A i \in 1 .. Len(sent') :
           \/ i \in 1 .. Len(sent) /\ sent'[i] = sent[i]
           \/ sent'[i].prompts = h /\ sent'[i].session = m.session
    BY <1>2, <2>1, <2>2, SentLast
  <2>7. Hand(Sent', none, Queued, m.composer) = Hand(Sent, m.pending, Queued, m.composer)
    BY <2>1, <2>5, Nothing DEF Hand
  <2>8. Whole'
    <3>1. Apart(Sent \o h, none, Queued, m.composer)
      BY <1>2, <2>1, ApartStill DEF PInv, Whole
    <3>2. Apart(Sent', none, Queued, m.composer)
      BY <2>3, <3>1, Zenon
    <3>3. \A i \in 1 .. Len(sent') : ToSet(sent'[i].prompts) \subseteq ToSet(Sent')
      BY <2>5, <2>6 DEF PInv, Whole
    <3>4. QED
      BY <1>1, <2>2, <2>3, <2>7, <3>2, <3>3 DEF PInv, Whole
  <2>9. Spared'
    <3>1. SUFFICES ASSUME Fine(mishaps) PROVE Spared!2'
      BY <1>1 DEF Spared, Fine
    <3>2. Spared!2 /\ Busy
      BY <3>1, OnlyJob DEF PInv, Spared, Fine
    <3>3. QED
      BY <1>1, <2>2, <2>3, <2>7, <3>2
  <2>10. Orderly'
    <3>1. SUFFICES ASSUME mishaps = {} PROVE Orderly!2'
      BY <1>1 DEF Orderly
    <3>2. Orderly!2 /\ jobs' = {}
      BY <1>1, <3>1, OnlyJob DEF PInv, Orderly, Fine
    <3>3. Rising(Sent \o h, none, Queued, m.composer)
      BY <1>2, <2>1, <3>2, RisingStill
    <3>4. Rising(Sent', none, Queued, m.composer)
      BY <2>3, <3>3, Zenon
    <3>5. \A i \in 1 .. Len(sent') : \A p \in ToSet(sent'[i].prompts) : entered[p] = sent'[i].session
      BY <2>1, <2>6, <3>2
    <3>6. QED
      BY <1>1, <2>2, <2>3, <3>2, <3>4, <3>5, Nothing DEF Held
  <2>11. QED
    BY <2>8, <2>9, <2>10
<1>6. QED
  BY <1>4, <1>5 DEF HandleSummary, none

LEMMA CancelledKeeps ==
  ASSUME PInv, NEW j \in jobs, HandleCancelled(j)
  PROVE  Whole' /\ Spared' /\ Orderly'
<1>1. /\ j.stopped /\ jobs' = JobsWithout(j)
      /\ UNCHANGED << typed, entered, dropped, mishaps, sent >>
      /\ m' = [Cleared EXCEPT !.composer = IF m.pending = << >> THEN @ ELSE m.pending]
  BY DEF HandleCancelled, hist
<1>2. /\ Sent \in Message /\ m.pending \in Message /\ Queued \in Message /\ m.composer \in Message
      /\ IInv
  BY Places DEF PInv
<1>3. /\ m'.streaming = m.streaming /\ m'.confirming = m.confirming /\ ~ m'.compressing
      /\ m'.pending = none /\ m'.queued = m.queued /\ m'.session = m.session
      /\ m'.composer = IF m.pending = none THEN m.composer ELSE m.pending
  <2>1. /\ Cleared \in Model /\ Cleared.session = m.session
        /\ Cleared.streaming = m.streaming /\ Cleared.confirming = m.confirming
        /\ ~ Cleared.compressing /\ Cleared.pending = none /\ Cleared.queued = m.queued
        /\ Cleared.composer = m.composer
    BY <1>2, Types, ClearedFields DEF Cleared, Model, none
  <2>2. QED
    BY <1>1, <1>2, <2>1 DEF Model, none
<1>4. ~ (mishaps = {})
  BY <1>1 DEF PInv, Orderly
<1>5. Orderly'
  BY <1>1, <1>4 DEF Orderly
<1>6. Sent' = Sent /\ Queued' = Queued
  BY <1>1, <1>3, SentSame, QueuedSame
<1>7. CASE m.pending = none
  <2>1. Fine(mishaps') => Busy
    BY <1>1, OnlyJob
  <2>2. mishaps' # {}
    BY <1>1, <1>4
  <2>3. Settle
    BY <1>1, <1>3, <1>7, <2>1, <2>2 DEF Settle
  <2>4. QED
    BY <2>3, SettleKeeps
<1>8. CASE m.pending # none
  <2>1. m'.composer = m.pending
    BY <1>3, <1>8
  <2>2. Hand(Sent, none, Queued, m.pending) \subseteq Hand(Sent, m.pending, Queued, m.composer)
    BY Nothing DEF Hand
  <2>3. Whole'
    <3>1. Apart(Sent, none, Queued, m.pending)
      BY <1>2, ApartStill DEF PInv, Whole
    <3>2. QED
      BY <1>1, <1>3, <1>6, <2>1, <2>2, <3>1 DEF PInv, Whole
  <2>4. Spared'
    <3>1. SUFFICES ASSUME Fine(mishaps) PROVE Spared!2'
      BY <1>1 DEF Spared, Fine
    <3>2. Spared!2 /\ Busy /\ ~ Busy'
      BY <1>3, <3>1, OnlyJob DEF PInv, Spared, Fine, Busy
    <3>3. \A p \in Prompts :
            entered[p] # 0 => p \in dropped \cup Hand(Sent, none, Queued, m.pending)
      BY <3>2, Nothing DEF Hand
    <3>4. QED
      BY <1>1, <1>3, <1>6, <2>1, <3>2, <3>3
  <2>5. QED
    BY <1>5, <2>3, <2>4
<1>9. QED
  BY <1>7, <1>8

LEMMA FailureKeeps ==
  ASSUME PInv, NEW j \in jobs, HandleFailure(j)
  PROVE  Whole' /\ Spared' /\ Orderly'
<1>1. /\ UNCHANGED << typed, entered, dropped, sent >> /\ m' = Cleared
      /\ mishaps \subseteq mishaps' /\ "compression-fails" \in mishaps'
  BY DEF HandleFailure, Noted
<1>2. /\ Cleared.pending = none /\ Cleared.queued = m.queued
      /\ Cleared.composer = m.composer /\ Cleared.session = m.session
  BY Types, ClearedFields DEF PInv, Cleared, Model, none
<1>3. ~ Fine(mishaps') /\ mishaps' # {}
  BY <1>1 DEF Fine
<1>4. Settle
  BY <1>1, <1>2, <1>3 DEF Settle
<1>5. QED
  BY <1>4, SettleKeeps

-----------------------------------------------------------------------------
(***************************************************************************)
(* Another session.                                                        *)
(***************************************************************************)
LEMMA NewSessionKeeps ==
  ASSUME PInv, NewSession
  PROVE  Whole' /\ Spared' /\ Orderly'
<1>1. /\ ~ Busy /\ m.composer = none
      /\ m' = [m EXCEPT !.session = m.opened + 1, !.opened = m.opened + 1, !.queued = << >>]
      /\ dropped' = dropped \cup ToSet(Queued)
      /\ UNCHANGED << jobs, typed, sent, entered, mishaps >>
  BY DEF NewSession, Idle, Busy, Queued, none
<1>2. /\ Sent \in Message /\ m.pending \in Message /\ Queued \in Message /\ m.composer \in Message
      /\ IInv
  BY Places DEF PInv
<1>3. /\ ~ m'.streaming /\ ~ m'.confirming /\ ~ m'.compressing
      /\ m'.pending = m.pending /\ m'.composer = none /\ m'.queued = << >>
  BY <1>1, <1>2, Types DEF Model, Busy
<1>4. Sent' = Sent /\ Queued' = none
  BY <1>1, <1>3, SentSame, FlattenNothing DEF Queued, none
<1>5. Whole'
  <2>1. Apart(Sent, m.pending, none, m.composer)
    BY <1>2, ApartStill DEF PInv, Whole
  <2>2. Hand(Sent, m.pending, none, m.composer) \subseteq Hand(Sent, m.pending, Queued, m.composer)
    BY Nothing DEF Hand
  <2>3. QED
    BY <1>1, <1>3, <1>4, <2>1, <2>2 DEF PInv, Whole
<1>6. Spared'
  <2>1. SUFFICES ASSUME Fine(mishaps) PROVE Spared!2'
    BY <1>1 DEF Spared, Fine
  <2>2. \A p \in Prompts :
          entered[p] # 0 => p \in dropped \cup Hand(Sent, m.pending, Queued, m.composer)
    BY <2>1 DEF PInv, Spared, Fine
  <2>3. \A p \in Prompts :
          entered[p] # 0 => p \in dropped' \cup Hand(Sent, m.pending, none, m.composer)
    BY <1>1, <2>2 DEF Hand
  <2>4. ~ Busy'
    BY <1>3 DEF Busy
  <2>5. QED
    BY <1>1, <1>3, <1>4, <2>3, <2>4
<1>7. Orderly'
  <2>1. SUFFICES ASSUME mishaps = {} PROVE Orderly!2'
    BY <1>1 DEF Orderly
  <2>2. Orderly!2 /\ m.pending = none
    BY <1>1, <1>2, <2>1, FineCalm DEF PInv, Orderly, Fine, Busy
  <2>3. Rising(Sent, m.pending, none, m.composer)
    BY <1>2, <2>2, RisingStill
  <2>4. QED
    BY <1>1, <1>3, <1>4, <2>2, <2>3, Nothing DEF none
<1>8. QED
  BY <1>5, <1>6, <1>7

LEMMA ResumeKeeps ==
  ASSUME PInv, Resume
  PROVE  Whole' /\ Spared' /\ Orderly'
<1>1. PICK id \in 1 .. m.opened :
        m' = [m EXCEPT !.session = id, !.composer = << >>,
                       !.confirming = FALSE, !.cancelled = FALSE, !.streamFailed = FALSE]
  BY DEF Resume
<1>2. /\ ~ Busy /\ dropped' = dropped \cup ToSet(m.composer)
      /\ UNCHANGED << jobs, typed, sent, entered, mishaps >>
  BY DEF Resume, Idle, Busy
<1>3. /\ Sent \in Message /\ m.pending \in Message /\ Queued \in Message /\ m.composer \in Message
      /\ IInv
  BY Places DEF PInv
<1>4. /\ ~ m'.streaming /\ ~ m'.confirming /\ ~ m'.compressing
      /\ m'.pending = m.pending /\ m'.composer = none /\ m'.queued = m.queued
  BY <1>1, <1>2, <1>3, Types DEF Model, Busy, none
<1>5. Sent' = Sent /\ Queued' = Queued
  BY <1>2, <1>4, SentSame, QueuedSame
<1>6. Whole'
  <2>1. Apart(Sent, m.pending, Queued, none)
    BY <1>3, ApartStill DEF PInv, Whole
  <2>2. Hand(Sent, m.pending, Queued, none) \subseteq Hand(Sent, m.pending, Queued, m.composer)
    BY Nothing DEF Hand
  <2>3. QED
    BY <1>2, <1>4, <1>5, <2>1, <2>2 DEF PInv, Whole
<1>7. Spared'
  <2>1. SUFFICES ASSUME Fine(mishaps) PROVE Spared!2'
    BY <1>2 DEF Spared, Fine
  <2>2. \A p \in Prompts :
          entered[p] # 0 => p \in dropped \cup Hand(Sent, m.pending, Queued, m.composer)
    BY <2>1 DEF PInv, Spared, Fine
  <2>3. \A p \in Prompts :
          entered[p] # 0 => p \in dropped' \cup Hand(Sent, m.pending, Queued, none)
    BY <1>2, <2>2 DEF Hand
  <2>4. ~ Busy'
    BY <1>4 DEF Busy
  <2>5. QED
    BY <1>2, <1>4, <1>5, <2>3, <2>4
<1>8. Orderly'
  <2>1. SUFFICES ASSUME mishaps = {} PROVE Orderly!2'
    BY <1>2 DEF Orderly
  <2>2. Orderly!2 /\ m.pending = none
    BY <1>2, <1>3, <2>1, FineCalm DEF PInv, Orderly, Fine, Busy
  <2>3. Queued = none
    BY <1>2, <2>2 DEF Held, Busy, none
  <2>4. Rising(Sent, m.pending, Queued, none)
    BY <1>3, <2>2, RisingStill
  <2>5. QED
    BY <1>2, <1>4, <1>5, <2>2, <2>3, <2>4, Nothing DEF none
<1>9. QED
  BY <1>6, <1>7, <1>8

-----------------------------------------------------------------------------
(***************************************************************************)
(* Everything stays, also after these.                                     *)
(***************************************************************************)
LEMMA CalmKeysKeep ==
  ASSUME PInv, CancelStream \/ AnswerConfirmation \/ CompressCommand \/ CancelCompression
  PROVE  Whole' /\ Spared' /\ Orderly'
<1>1. /\ IInv /\ m \in Model /\ Jobs(jobs) /\ none \in Message
  BY Types, Nothing DEF PInv
<1>2. CASE CancelStream
  <2>1. /\ m' = [m EXCEPT !.cancelled = TRUE]
        /\ UNCHANGED << jobs, typed, sent, entered, dropped, mishaps >>
    BY <1>2 DEF CancelStream, hist
  <2>2. /\ m'.queued = m.queued /\ m'.composer = m.composer /\ m'.session = m.session
        /\ m'.pending = m.pending /\ m'.streaming = m.streaming
        /\ m'.confirming = m.confirming /\ m'.compressing = m.compressing
    BY <1>1, <2>1 DEF Model
  <2>3. Settle
    BY <2>1, <2>2 DEF Settle, Busy, Held
  <2>4. QED
    BY <2>3, SettleKeeps
<1>3. CASE AnswerConfirmation
  <2>1. PICK model : model = [m EXCEPT !.confirming = FALSE]
    OBVIOUS
  <2>2. /\ m.confirming /\ StartStream(model, pump, none) /\ mishaps \subseteq mishaps'
        /\ UNCHANGED << jobs, typed, entered, dropped >>
    BY <1>3, <2>1 DEF AnswerConfirmation, Noted, none
  <2>3. /\ model \in Model /\ model.queued = m.queued /\ model.composer = m.composer
        /\ model.session = m.session /\ model.pending = m.pending
    BY <1>1, <2>1 DEF Model
  <2>4. /\ m'.queued = m.queued /\ m'.composer = m.composer /\ m'.session = m.session
        /\ m'.pending = m.pending /\ m'.streaming /\ sent' = sent
    BY <2>2, <2>3, StartTexts
  <2>5. Settle
    BY <2>2, <2>4 DEF Settle, Busy, Held
  <2>6. QED
    BY <2>5, SettleKeeps
<1>4. CASE CompressCommand
  <2>1. /\ ~ Busy /\ m.composer = none /\ StartCompression(m, pump, none)
        /\ UNCHANGED << typed, entered, dropped, mishaps >>
    BY <1>4 DEF CompressCommand, Idle, Busy, hist, none
  <2>2. /\ m'.queued = m.queued /\ m'.composer = m.composer /\ m'.session = m.session
        /\ m'.confirming = m.confirming /\ sent' = sent
        /\ \/ m' = m /\ jobs' = jobs
           \/ /\ m'.pending = none /\ m'.streaming = m.streaming
              /\ \E j : jobs' = jobs \cup {j} /\ ~ j.stopped
    BY <1>1, <2>1, CompressionLeaves
  <2>3. Fine(mishaps) => m.pending = none
    BY <1>1, <2>1, FineCalm DEF Busy
  <2>4. m'.pending = m.pending \/ (m'.pending = none /\ ~ Fine(mishaps'))
    BY <2>1, <2>2, <2>3
  <2>5. mishaps' = {} => (Held' <=> Held)
    BY <2>1, <2>2, <2>3 DEF Held, Fine, none
  <2>6. Settle
    BY <2>1, <2>2, <2>4, <2>5 DEF Settle
  <2>7. QED
    BY <2>6, SettleKeeps
<1>5. CASE CancelCompression
  <2>1. /\ m' = m /\ UNCHANGED << typed, sent, entered, dropped >>
        /\ mishaps \subseteq mishaps' /\ mishaps' # {}
    BY <1>5 DEF CancelCompression, Noted
  <2>2. Settle
    BY <2>1 DEF Settle, Busy, Held
  <2>3. QED
    BY <2>2, SettleKeeps
<1>6. QED
  BY <1>2, <1>3, <1>4, <1>5

LEMMA CalmStepsKeep ==
  ASSUME PInv, \/ UNCHANGED vars \/ \E r \in Runs : RunStep(r) \/ HandleEvent(r)
  PROVE  Whole' /\ Spared' /\ Orderly'
<1>1. IInv /\ m \in Model
  BY Types DEF PInv
<1>2. ASSUME UNCHANGED << m, jobs, typed, sent, hist >> PROVE Settle
  BY <1>2 DEF Settle, Busy, Held, hist
<1>3. CASE UNCHANGED vars
  BY <1>2, <1>3, SettleKeeps DEF vars
<1>4. ASSUME NEW r \in Runs, RunStep(r) PROVE UNCHANGED << m, jobs, typed, sent, hist >>
  BY <1>4 DEF RunStep, RunAppends, RunFails, RunAsks, RunReturns, StoppedRunEnds, RunYields
<1>5. ASSUME NEW r \in Runs, HandleEvent(r) PROVE Settle
  <2>1. PICK asked \in BOOLEAN : m' = [m EXCEPT !.confirming = @ \/ asked]
    BY <1>5 DEF HandleEvent
  <2>2. UNCHANGED << jobs, typed, sent, entered, dropped, mishaps >> /\ pump.waiters[r] > 0
    BY <1>5 DEF HandleEvent, hist
  <2>3. /\ m'.queued = m.queued /\ m'.composer = m.composer /\ m'.session = m.session
        /\ m'.pending = m.pending /\ m'.streaming = m.streaming
        /\ m'.compressing = m.compressing /\ (m.confirming => m'.confirming)
    BY <1>1, <2>1 DEF Model
  <2>4. Fine(mishaps) => Busy
    BY <1>1, <2>2, OnScreen, FineCalm DEF Busy
  <2>5. QED
    BY <2>2, <2>3, <2>4 DEF Settle, Held
<1>6. QED
  BY <1>2, <1>3, <1>4, <1>5, SettleKeeps

-----------------------------------------------------------------------------
(***************************************************************************)
(* The end of a run: finishStreaming.                                      *)
(***************************************************************************)
LEMMA FinishKeeps ==
  ASSUME PInv, IInv', NEW model \in Model, NEW p, NEW r \in Runs, pump.waiters[r] > 0,
         FinishStreaming(model, p), UNCHANGED << typed, hist >>,
         model.confirming = m.confirming, model.compressing = m.compressing,
         model.pending = m.pending, model.queued = m.queued,
         model.composer = m.composer, model.session = m.session
  PROVE  Whole' /\ Spared' /\ Orderly'
<1>1. /\ IInv /\ Jobs(jobs) /\ none \in Message /\ m.queued \in Seq(Message)
      /\ \A k \in 1 .. Len(m.queued) : m.queued[k] # << >>
      /\ m.queued # << >> <=> Queued # none
      /\ UNCHANGED << typed, entered, dropped, mishaps >>
  BY Types, Nothing, Places DEF PInv, hist
<1>2. Calm => m.streaming /\ ~ m.compressing
  BY <1>1, OnScreen
<1>3. Fine(mishaps) => Busy /\ m.pending = none
  BY <1>1, <1>2, FineCalm DEF Busy
<1>4. PICK other \in Model : Finished(model, p, other)
  BY FinishCases
<1>5. /\ ~ other.streaming
      /\ other.confirming = m.confirming /\ other.compressing = m.compressing
      /\ other.pending = m.pending /\ other.session = m.session
  BY <1>4 DEF Finished
<1>6. CASE /\ other.queued = m.queued /\ other.composer = m.composer
           /\ m.confirming \/ m.queued = << >>
           /\ m' = other /\ UNCHANGED << jobs, sent >>
  <2>1. Queued # none => Held'
    BY <1>1, <1>5, <1>6 DEF Held
  <2>2. Settle
    BY <1>1, <1>3, <1>5, <1>6, <2>1 DEF Settle
  <2>3. QED
    BY <2>2, SettleKeeps
<1>7. CASE /\ ~ m.confirming /\ m.queued # << >>
           /\ other.queued = << >> /\ other.composer = Queued
           /\ m' = other /\ UNCHANGED << jobs, sent >>
  <2>1. Back
    BY <1>1, <1>2, <1>5, <1>7 DEF Back, hist
  <2>2. QED
    BY <2>1, BackKeeps
<1>8. CASE /\ ~ m.confirming /\ m.queued # << >>
           /\ other.queued = Tail(m.queued) /\ other.composer = m.composer
           /\ \/ StartStream(other, p, Head(m.queued)) /\ UNCHANGED jobs
              \/ StartCompression(other, p, Head(m.queued))
  <2>1. PICK h : h = Head(m.queued)
    OBVIOUS
  <2>2. h \in Message /\ h # none
    <3>1. h \in Message /\ h = m.queued[1] /\ 1 \in 1 .. Len(m.queued)
      BY <1>1, <1>8, <2>1, Behead
    <3>2. QED
      BY <1>1, <3>1 DEF none
  <2>3. Leaves(h) /\ m'.queued = Tail(m.queued) /\ m'.composer = m.composer
        /\ m'.session = m.session
    <3>1. CASE StartStream(other, p, h) /\ UNCHANGED jobs
      BY <1>5, <1>8, <2>2, <3>1, StartTexts DEF Leaves
    <3>2. CASE StartCompression(other, p, h)
      BY <1>1, <1>5, <1>8, <2>2, <3>2, CompressionLeaves
    <3>3. QED
      BY <1>8, <2>1, <3>1, <3>2
  <2>4. Queued = h \o Queued'
    <3>1. FlattenSeq(m.queued) = Head(m.queued) \o FlattenSeq(Tail(m.queued))
      BY <1>1, <1>8, FlattenHead DEF Message
    <3>2. QED
      BY <2>1, <2>3, <3>1 DEF Queued
  <2>5. Pop(h)
    BY <1>1, <1>2, <2>2, <2>3, <2>4 DEF Pop, hist
  <2>6. QED
    BY <2>5, PopKeeps
<1>9. CASE /\ m.queued = << >> /\ other.queued = << >> /\ other.composer = m.composer
           /\ StartCompression(other, p, none)
  <2>1. /\ m'.queued = m.queued /\ m'.composer = m.composer /\ m'.session = m.session
        /\ sent' = sent
        /\ m'.pending = m.pending \/ m'.pending = none
        /\ \A j \in jobs' : j \in jobs \/ ~ j.stopped
    BY <1>1, <1>5, <1>9, CompressionLeaves
  <2>2. m'.pending = m.pending \/ (m'.pending = none /\ ~ Fine(mishaps'))
    BY <1>1, <1>3, <2>1
  <2>3. Settle
    BY <1>1, <1>3, <1>9, <2>1, <2>2 DEF Settle
  <2>4. QED
    BY <2>3, SettleKeeps
<1>10. QED
  BY <1>1, <1>4, <1>6, <1>7, <1>8, <1>9 DEF Finished, Queued, none

LEMMA EndKeeps ==
  ASSUME PInv, NEW r \in Runs, HandleError(r) \/ HandleDone(r)
  PROVE  Whole' /\ Spared' /\ Orderly'
<1>1. IInv /\ IInv' /\ m \in Model
  BY Types, ErrorStep, DoneStep DEF PInv
<1>2. CASE HandleError(r)
  <2>1. PICK failed : failed = [m EXCEPT !.cancelled = FALSE, !.streamFailed = TRUE]
    OBVIOUS
  <2>2. PICK p : p = Taken([pump EXCEPT !.run[r].out = Tail(@)], r)
    OBVIOUS
  <2>3. /\ pump.waiters[r] > 0 /\ FinishStreaming(failed, p) /\ UNCHANGED << typed, hist >>
    BY <1>2, <2>1, <2>2 DEF HandleError
  <2>4. /\ failed \in Model /\ failed.confirming = m.confirming
        /\ failed.compressing = m.compressing /\ failed.pending = m.pending
        /\ failed.queued = m.queued /\ failed.composer = m.composer
        /\ failed.session = m.session
    BY <1>1, <2>1 DEF Model
  <2>5. QED
    BY <1>1, <2>3, <2>4, FinishKeeps
<1>3. CASE HandleDone(r)
  BY <1>1, <1>3, FinishKeeps DEF HandleDone
<1>4. QED
  BY <1>2, <1>3

-----------------------------------------------------------------------------
(***************************************************************************)
(* The invariant.                                                          *)
(***************************************************************************)
LEMMA InitPrompts ==
  ASSUME Init
  PROVE  PInv
<1>1. /\ m.pending = none /\ m.queued = << >> /\ m.composer = none /\ sent = << >>
      /\ jobs = {} /\ entered = [p \in Prompts |-> 0] /\ typed = 0
      /\ ~ m.streaming /\ ~ m.compressing /\ ~ m.confirming
  BY DEF Init, none
<1>2. IInv
  BY InitInvariant
<1>3. Queued = none /\ Len(sent) = 0
  BY <1>1, FlattenNothing DEF Queued, none
<1>4. Sent = none
  <2>1. [i \in 1 .. Len(sent) |-> sent[i].prompts] = << >>
    BY <1>3
  <2>2. QED
    BY <2>1, FlattenNothing DEF Sent, none
<1>5. Apart(none, none, none, none) /\ Rising(none, none, none, none)
      /\ Hand(none, none, none, none) = {}
  BY Nothing DEF Apart, Rising, Hand
<1>6. \A p \in Prompts : entered[p] = 0
  BY <1>1
<1>7. Whole
  BY <1>1, <1>3, <1>4, <1>5, <1>6 DEF Whole
<1>8. Spared
  BY <1>1, <1>6, Nothing DEF Spared
<1>9. Orderly
  BY <1>1, <1>3, <1>4, <1>5, Nothing DEF Orderly, none
<1>10. QED
  BY <1>2, <1>7, <1>8, <1>9 DEF PInv

LEMMA NextPrompts ==
  ASSUME PInv, [Next]_vars
  PROVE  PInv'
<1>1. IInv'
  BY NextInvariant DEF PInv
<1>2. ASSUME Keys PROVE Whole' /\ Spared' /\ Orderly'
  BY <1>2, TypeKeeps, SendKeeps, QueueKeeps, CalmKeysKeep, NewSessionKeeps, ResumeKeeps
     DEF Keys
<1>3. ASSUME NEW r \in Runs, RunStep(r) \/ Deliver(r) PROVE Whole' /\ Spared' /\ Orderly'
  BY <1>3, CalmStepsKeep, EndKeeps DEF Deliver
<1>4. ASSUME NEW j \in jobs, Result(j) PROVE Whole' /\ Spared' /\ Orderly'
  BY <1>4, SummaryKeeps, CancelledKeeps, FailureKeeps DEF Result
<1>5. ASSUME UNCHANGED vars PROVE Whole' /\ Spared' /\ Orderly'
  BY <1>5, CalmStepsKeep
<1>6. Whole' /\ Spared' /\ Orderly'
  BY <1>2, <1>3, <1>4, <1>5 DEF Next
<1>7. QED
  BY <1>1, <1>6 DEF PInv

\* The invariant of this module holds of every behaviour.
THEOREM PromptsInvariance == Spec => []PInv
<1>1. Init => PInv
  BY InitPrompts
<1>2. PInv /\ [Next]_vars => PInv'
  BY NextPrompts
<1>3. QED
  BY <1>1, <1>2, PTL DEF Spec

\* Whatever goes wrong, no prompt is in two places at once, and none is sent twice:
\* however often a message is queued, held back by a compression, handed back to
\* the composer by an interrupt and entered again, its prompts are there once.
THEOREM SentOnce == Spec => []NeverTwice
<1>1. ASSUME PInv PROVE NeverTwice
  <2>1. /\ Sent \in Message /\ m.pending \in Message /\ Queued \in Message
        /\ m.composer \in Message
    BY <1>1, Places DEF PInv
  <2>2. Apart(Sent, m.pending, Queued, m.composer)
    BY <1>1 DEF PInv, Whole
  <2>3. PICK a : a = Sent \o m.pending
    OBVIOUS
  <2>4. PICK b : b = a \o Queued
    OBVIOUS
  <2>5. a \in Message /\ ToSet(a) = ToSet(Sent) \cup ToSet(m.pending) /\ Distinct(a)
    BY <2>1, <2>2, <2>3, JoinedMessages DEF Apart
  <2>6. Disjoint(a, Queued) /\ Disjoint(a, m.composer)
    BY <2>2, <2>5 DEF Apart, Disjoint
  <2>7. b \in Message /\ ToSet(b) = ToSet(a) \cup ToSet(Queued) /\ Distinct(b)
    BY <2>1, <2>2, <2>4, <2>5, <2>6, JoinedMessages DEF Apart
  <2>8. Disjoint(b, m.composer)
    BY <2>2, <2>6, <2>7 DEF Apart, Disjoint
  <2>9. b \o m.composer \in Message /\ Distinct(b \o m.composer)
    BY <2>1, <2>2, <2>7, <2>8, JoinedMessages DEF Apart
  <2>10. Cardinality(ToSet(b \o m.composer)) = Len(b \o m.composer)
    BY <2>9, DistinctCount DEF Message
  <2>11. QED
    BY <2>3, <2>4, <2>10 DEF NeverTwice
<1>2. QED
  BY <1>1, PromptsInvariance, PTL

\* Unless a compression fails or a confirmation is answered early, a prompt that
\* was entered is sent, waits to be, or is back in the composer, or the user left
\* its session: a draft may be overwritten, never a prompt that was entered.
THEOREM NothingEnteredLost == Spec => []EnteredKept
<1>1. ASSUME PInv PROVE EnteredKept
  <2>1. /\ Sent \in Message /\ m.pending \in Message /\ Queued \in Message
        /\ m.composer \in Message
    BY <1>1, Places DEF PInv
  <2>2. PICK a : a = Sent \o m.pending
    OBVIOUS
  <2>3. PICK b : b = a \o Queued
    OBVIOUS
  <2>4. a \in Message /\ ToSet(a) = ToSet(Sent) \cup ToSet(m.pending)
    BY <2>1, <2>2, JoinedMessages
  <2>5. b \in Message /\ ToSet(b) = ToSet(a) \cup ToSet(Queued)
    BY <2>1, <2>3, <2>4, JoinedMessages
  <2>6. ToSet(b \o m.composer) = ToSet(b) \cup ToSet(m.composer)
    BY <2>1, <2>5, JoinedMessages
  <2>7. InHand = Hand(Sent, m.pending, Queued, m.composer)
    BY <2>2, <2>3, <2>4, <2>5, <2>6 DEF InHand, Hand
  <2>8. QED
    BY <1>1, <2>7 DEF PInv, Spared, EnteredKept
<1>2. QED
  BY <1>1, PromptsInvariance, PTL

\* When nothing goes wrong, prompts are sent in the order they were typed in: the
\* front of the queue, a message held back by a compression and one handed back by
\* an interrupt never overtake each other.
THEOREM OrderIsKept == Spec => []SentInOrder
<1>1. ASSUME PInv, mishaps = {} PROVE Increasing(Sent)
  BY <1>1 DEF PInv, Orderly, Rising
<1>2. PInv => SentInOrder
  <2>1. ASSUME PInv, mishaps = {}
        PROVE  \A i, j \in 1 .. Len(Sent) : i < j => Sent[i] < Sent[j]
    BY <1>1, <2>1 DEF Increasing
  <2>2. QED
    BY <2>1 DEF SentInOrder
<1>3. QED
  BY <1>2, PromptsInvariance, PTL

\* When nothing goes wrong, a prompt goes to the session it was entered in: no
\* other session is opened while it is queued or held back.
THEOREM SessionIsKept == Spec => []SentWhereEntered
<1>1. PInv => SentWhereEntered
  BY DEF PInv, Orderly, SentWhereEntered
<1>2. QED
  BY <1>1, PromptsInvariance, PTL
=============================================================================
