------------------------------ MODULE StreamProofs ------------------------------
(***************************************************************************)
(* An answer on its way: from the server to the builders of the client,    *)
(* and from the client to the screen.                                      *)
(*                                                                         *)
(* First the pump of StreamPump, which implements StreamDelivery for       *)
(* every capacity of the channel and of the batches and every number of    *)
(* items.  The invariant follows the items through the pump.  What is in   *)
(* the raw channel, in the batch and in the messages about to be sent are  *)
(* consecutive items that end where the feeder is; what is in the channel  *)
(* to the screen and on it ends right before them or, of a cancelled run,  *)
(* earlier.                                                                *)
(*                                                                         *)
(* Then LlmStream, for every number of calls, requests and lines, and a    *)
(* connection that holds any number of them.  The invariant reads ahead:   *)
(* what the builders hold, with every line on its way read into them, is   *)
(* what the server has said so far, as long as nothing of it is lost; and  *)
(* the history that the next request is made of is told by the messages    *)
(* made of it.                                                             *)
(***************************************************************************)
EXTENDS StreamPump, LlmStream, OperatorProofs, FiniteSetTheorems

LastItem(s) == Delivery!Last(s)

Single(e) == << e >>

\* The items that come after a, in order.
Consecutive(s, a) == \A k \in 1 .. Len(s) : s[k] = a + k

Deltas(s) == \A k \in 1 .. Len(s) : kinds[s[k]] = "delta"

\* A message is a batch of deltas or a single item.
Message(m) == Len(m) >= 1 /\ (Len(m) = 1 \/ Deltas(m))

ErrorAt(n) == n > 0 /\ kinds[n] = "error"

\* The last item before those the coalescer holds, when it has received the
\* first "taken".
Before(taken) ==
  IF todo = << >> THEN taken - Len(batch) ELSE taken - (Len(todo) - 1) - Len(todo[1])

\* The raw channel holds what the feeder has sent and the coalescer has not
\* received; a feeder that sees the run cancelled drops the item in its hand.
RawFollows(taken) ==
  /\ Consecutive(raw, taken)
  /\ feeder = "pull" => taken + Len(raw) = Len(kinds)
  /\ feeder = "send" => taken + Len(raw) = Len(kinds) - 1
  /\ feeder = "done" => \/ taken + Len(raw) = Len(kinds)
                        \/ stopped /\ taken + Len(raw) = Len(kinds) - 1

BatchFollows(taken) ==
  /\ Consecutive(batch, taken - Len(batch)) /\ Deltas(batch)
  /\ batch = << >> \/ todo = << >>

TodoFollows(taken) ==
  /\ todo # << >> => Message(todo[1]) /\ Consecutive(todo[1], Before(taken))
  /\ Len(todo) > 1 => todo[2] = Single(taken)

\* The last item before those in the channel to the screen.
Next1(taken) == IF ch = << >> THEN Before(taken) ELSE ch[1][1] - 1

ShownFollows(taken) ==
  /\ LastItem(shown) <= Next1(taken) /\ (~ stopped => LastItem(shown) = Next1(taken))
  /\ ch # << >> =>
       /\ Message(ch[1]) /\ Consecutive(ch[1], Next1(taken))
       /\ Next1(taken) + Len(ch[1]) <= Before(taken)
       /\ ~ stopped => Next1(taken) + Len(ch[1]) = Before(taken)

\* A coalescer that returns of itself has seen the feeder finish or an error.
Finishes(taken) ==
  coalescer \in {"leave", "done"} /\ ~ stopped =>
    /\ batch = << >>
    /\ coalescer = "done" => todo = << >>
    /\ (feeder = "done" /\ raw = << >>) \/ ErrorAt(taken)

Flow(taken) ==
  /\ RawFollows(taken) /\ BatchFollows(taken) /\ TodoFollows(taken)
  /\ ShownFollows(taken) /\ Finishes(taken)

\* A run whose error has been shown is over; one that is over was cancelled, or
\* has shown an error, or its runner has returned.
Ends ==
  /\ ErrorAt(LastItem(shown)) => ended
  /\ ended => stopped \/ ErrorAt(LastItem(shown)) \/ feeder = "done"

IInv ==
  /\ TypeOK /\ Len(kinds) <= MaxYields /\ Ends
  /\ \E taken \in 0 .. Len(kinds) : Flow(taken)
-----------------------------------------------------------------------------
(***************************************************************************)
(* Sequences.                                                              *)
(***************************************************************************)
LEMMA Appended ==
  ASSUME NEW S, NEW s \in Seq(S), NEW e \in S
  PROVE  /\ Append(s, e) \in Seq(S) /\ Len(Append(s, e)) = Len(s) + 1
         /\ \A k \in 1 .. Len(s) : Append(s, e)[k] = s[k]
         /\ Append(s, e)[Len(s) + 1] = e /\ Append(s, e) # << >>
BY AppendProperties

LEMMA Behead ==
  ASSUME NEW S, NEW s \in Seq(S), s # << >>
  PROVE  /\ Len(s) \in Nat \ {0} /\ Head(s) = s[1] /\ Head(s) \in S
         /\ Tail(s) \in Seq(S) /\ Len(Tail(s)) = Len(s) - 1
         /\ \A k \in 1 .. Len(s) - 1 : Tail(s)[k] = s[k + 1]
         /\ Len(s) = 1 => Tail(s) = << >>
<1>1. Len(s) \in Nat \ {0} /\ Head(s) = s[1]
  BY EmptySeq
<1>2. /\ Head(s) \in S /\ Tail(s) \in Seq(S) /\ Len(Tail(s)) = Len(s) - 1
      /\ \A k \in 1 .. Len(Tail(s)) : Tail(s)[k] = s[k + 1]
  BY HeadTailProperties
<1>3. Len(s) = 1 => Tail(s) = << >>
  <2>1. Tail(s) # << >> => Len(Tail(s)) \in Nat \ {0}
    BY <1>2, EmptySeq
  <2>2. QED
    BY <1>2, <2>1
<1>4. QED
  BY <1>1, <1>2, <1>3

LEMMA One ==
  ASSUME NEW S, NEW e \in S
  PROVE  /\ << e >> \in Seq(S) /\ Len(<< e >>) = 1 /\ ~ (Len(<< e >>) > 1)
         /\ << e >>[1] = e /\ << e >> # << >>
OBVIOUS

LEMMA OneItem ==
  ASSUME NEW S, NEW e \in S
  PROVE  /\ Single(e) \in Seq(S) /\ Len(Single(e)) = 1 /\ Single(e)[1] = e
         /\ Single(e) # << >>
BY DEF Single

LEMMA LastOf ==
  ASSUME NEW s \in Seq(Items)
  PROVE  LastItem(s) \in Nat /\ (s # << >> => LastItem(s) = s[Len(s)] /\ LastItem(s) \in Items)
<1>1. CASE s = << >>
  BY <1>1 DEF LastItem, Delivery!Last
<1>2. CASE s # << >>
  <2>1. Len(s) \in 1 .. Len(s)
    BY <1>2, EmptySeq, LenProperties
  <2>2. s[Len(s)] \in Items
    BY <2>1, ElementOfSeq
  <2>3. QED
    BY <1>2, <2>2 DEF LastItem, Delivery!Last, Items
<1>3. QED
  BY <1>1, <1>2

\* What comes next goes behind, what is first comes off the front.
LEMMA ConsecutiveAppend ==
  ASSUME NEW s \in Seq(Items), NEW a \in Int, Consecutive(s, a),
         NEW e \in Items, e = a + Len(s) + 1
  PROVE  Consecutive(Append(s, e), a)
<1>1. /\ Len(Append(s, e)) = Len(s) + 1 /\ Append(s, e)[Len(s) + 1] = e
      /\ \A k \in 1 .. Len(s) : Append(s, e)[k] = s[k]
  BY Appended
<1>2. Len(s) \in Nat
  BY LenProperties
<1>3. QED
  BY <1>1, <1>2 DEF Consecutive

LEMMA ConsecutiveTail ==
  ASSUME NEW s \in Seq(Items), NEW a \in Int, Consecutive(s, a), s # << >>
  PROVE  Head(s) = a + 1 /\ Consecutive(Tail(s), a + 1)
<1>1. /\ Len(s) \in Nat \ {0} /\ Head(s) = s[1] /\ Len(Tail(s)) = Len(s) - 1
      /\ \A k \in 1 .. Len(s) - 1 : Tail(s)[k] = s[k + 1]
  BY Behead
<1>2. QED
  BY <1>1 DEF Consecutive

-----------------------------------------------------------------------------
(***************************************************************************)
(* The invariant is inductive.                                             *)
(***************************************************************************)
LEMMA Bounds ==
  RawCap \in Nat \ {0} /\ BatchCap \in Nat \ {0} /\ MaxYields \in Nat
BY PumpAssumption DEF PumpAssumption

\* Where the items are, as numbers.
LEMMA Positions ==
  ASSUME TypeOK, NEW taken \in 0 .. Len(kinds), Flow(taken)
  PROVE  /\ Len(kinds) \in Nat /\ Len(raw) \in Nat /\ Len(batch) \in Nat
         /\ Len(todo) \in 0 .. 2 /\ Len(ch) \in 0 .. 1
         /\ todo = << >> <=> Len(todo) = 0
         /\ ch = << >> <=> Len(ch) = 0
         /\ batch = << >> <=> Len(batch) = 0
         /\ todo # << >> => todo[1] \in Seq(Items) /\ Len(todo[1]) \in Nat \ {0}
         /\ ch # << >> => ch[1] \in Seq(Items) /\ Len(ch[1]) \in Nat \ {0}
         /\ LastItem(shown) \in Nat /\ Next1(taken) \in Nat /\ Before(taken) \in Nat
         /\ Before(taken) <= taken /\ LastItem(shown) <= Next1(taken)
         /\ Next1(taken) <= Before(taken)
<1>1. /\ Len(kinds) \in Nat /\ Len(raw) \in Nat /\ Len(batch) \in Nat
      /\ Len(todo) \in 0 .. 2 /\ Len(ch) \in 0 .. 1
  <2>1. /\ kinds \in Seq({"delta", "event", "error"}) /\ raw \in Seq(Items)
        /\ batch \in Seq(Items) /\ todo \in Seq(Seq(Items)) /\ ch \in Seq(Seq(Items))
    BY DEF TypeOK
  <2>2. Len(kinds) \in Nat /\ Len(raw) \in Nat /\ Len(batch) \in Nat
    BY <2>1
  <2>3. Len(todo) \in Nat /\ Len(ch) \in Nat
    BY <2>1
  <2>4. Len(todo) <= 2 /\ Len(ch) <= 1
    BY DEF TypeOK
  <2>5. \A n \in Nat : (n <= 2 => n \in 0 .. 2) /\ (n <= 1 => n \in 0 .. 1)
    OBVIOUS
  <2>6. QED
    BY <2>2, <2>3, <2>4, <2>5
<1>2. /\ todo = << >> <=> Len(todo) = 0
      /\ ch = << >> <=> Len(ch) = 0
      /\ batch = << >> <=> Len(batch) = 0
  BY <1>1, EmptySeq DEF TypeOK
<1>3. todo # << >> => todo[1] \in Seq(Items) /\ Len(todo[1]) \in Nat \ {0}
  <2> SUFFICES ASSUME todo # << >> PROVE todo[1] \in Seq(Items) /\ Len(todo[1]) \in Nat \ {0}
    OBVIOUS
  <2>1. todo[1] \in Seq(Items)
    BY <1>1, <1>2, ElementOfSeq DEF TypeOK
  <2>2. Len(todo[1]) \in Nat
    BY <2>1, LenProperties
  <2>3. QED
    BY <2>1, <2>2 DEF Flow, TodoFollows, Message
<1>4. ch # << >> => ch[1] \in Seq(Items) /\ Len(ch[1]) \in Nat \ {0}
  <2> SUFFICES ASSUME ch # << >> PROVE ch[1] \in Seq(Items) /\ Len(ch[1]) \in Nat \ {0}
    OBVIOUS
  <2>1. ch[1] \in Seq(Items)
    BY <1>1, <1>2, ElementOfSeq DEF TypeOK
  <2>2. Len(ch[1]) \in Nat
    BY <2>1, LenProperties
  <2>3. QED
    BY <2>1, <2>2 DEF Flow, ShownFollows, Message
<1>5. LastItem(shown) \in Nat
  BY LastOf DEF TypeOK
<1>6. Before(taken) \in Int /\ Before(taken) <= taken
  <2>1. CASE todo = << >>
    BY <1>1, <2>1 DEF Before
  <2>2. CASE todo # << >>
    <3>1. Len(todo) \in {1, 2} /\ Len(todo[1]) \in Nat
      BY <1>1, <1>2, <1>3, <2>2
    <3>2. Before(taken) = taken - (Len(todo) - 1) - Len(todo[1])
      BY <2>2 DEF Before
    <3>3. QED
      BY <3>1, <3>2
  <2>3. QED
    BY <2>1, <2>2
<1>7. Next1(taken) \in Int /\ Next1(taken) <= Before(taken)
  <2>1. CASE ch = << >>
    BY <1>6, <2>1 DEF Next1
  <2>2. CASE ch # << >>
    <3>1. ch[1][1] \in Items
      BY <1>4, <2>2, ElementOfSeq
    <3>2. Next1(taken) \in Int
      BY <2>2, <3>1 DEF Next1, Items
    <3>3. Next1(taken) + Len(ch[1]) <= Before(taken)
      BY <2>2 DEF Flow, ShownFollows
    <3>4. QED
      BY <1>4, <1>6, <2>2, <3>2, <3>3
  <2>3. QED
    BY <2>1, <2>2
<1>8. LastItem(shown) <= Next1(taken)
  BY DEF Flow, ShownFollows
<1>9. QED
  BY <1>1, <1>2, <1>3, <1>4, <1>5, <1>6, <1>7, <1>8

LEMMA InitInv == Init => IInv
<1> SUFFICES ASSUME Init PROVE IInv
  OBVIOUS
<1>1. /\ \A S : << >> \in Seq(S)
      /\ Len(<< >>) = 0
  BY EmptySeq
<1>2. TypeOK /\ Len(kinds) <= MaxYields
  <2>1. 0 <= RawCap /\ 0 < BatchCap /\ 0 <= MaxYields /\ 0 <= 1 /\ 0 <= 2
    BY Bounds
  <2>2. /\ kinds \in Seq({"delta", "event", "error"}) /\ raw \in Seq(Items)
        /\ batch \in Seq(Items) /\ todo \in Seq(Seq(Items)) /\ ch \in Seq(Seq(Items))
        /\ shown \in Seq(Items)
    BY <1>1 DEF Init
  <2>3. QED
    BY <1>1, <2>1, <2>2 DEF Init, TypeOK
<1>3. LastItem(shown) = 0
  BY DEF Init, LastItem, Delivery!Last
<1>4. Ends
  BY <1>3 DEF Init, Ends, ErrorAt
<1>5. Flow(0)
  <2>1. Before(0) = 0 /\ Next1(0) = 0
    BY <1>1, 0 - 0 = 0 DEF Init, Before, Next1
  <2>2. RawFollows(0) /\ BatchFollows(0)
    BY <1>1 DEF Init, RawFollows, BatchFollows, Consecutive, Deltas
  <2>3. TodoFollows(0) /\ ShownFollows(0) /\ Finishes(0)
    BY <1>1, <1>3, <2>1 DEF Init, TodoFollows, ShownFollows, Finishes
  <2>4. QED
    BY <2>2, <2>3 DEF Flow
<1>6. 0 \in 0 .. Len(kinds)
  BY <1>1 DEF Init
<1>7. QED
  BY <1>2, <1>4, <1>5, <1>6 DEF IInv

\* The items stay where they are; the run may have been cancelled.
LEMMA SameItems ==
  ASSUME NEW taken, Flow(taken), UNCHANGED << kinds, raw, batch, todo, ch, shown >>,
         stopped => stopped', RawFollows(taken)', Finishes(taken)'
  PROVE  Flow(taken)'
<1>1. UNCHANGED << LastItem(shown), Before(taken), Next1(taken) >>
  BY DEF LastItem, Delivery!Last, Before, Next1
<1>2. BatchFollows(taken)' /\ TodoFollows(taken)'
  BY <1>1 DEF Flow, BatchFollows, TodoFollows, Deltas, Message
<1>3. ShownFollows(taken)'
  BY <1>1 DEF Flow, ShownFollows, Message, Deltas
<1>4. QED
  BY <1>2, <1>3 DEF Flow

\* The coalescer's first message leaves it.
HeadLeaves == todo # << >> /\ todo' = Tail(todo) /\ UNCHANGED << kinds, batch >>

LEMMA TodoShrinks ==
  ASSUME TypeOK, NEW taken \in 0 .. Len(kinds), Flow(taken), HeadLeaves
  PROVE  /\ todo' \in Seq(Seq(Items)) /\ Len(todo') = Len(todo) - 1
         /\ Before(taken)' = Before(taken) + Len(todo[1])
         /\ TodoFollows(taken)'
<1> DEFINE n == Len(todo)
<1>1. /\ n \in Nat /\ n <= 2 /\ n # 0 /\ batch = << >>
      /\ taken \in Int /\ Len(todo[1]) \in Nat
  BY Positions DEF Flow, BatchFollows, TypeOK, HeadLeaves
<1>2. /\ todo' \in Seq(Seq(Items)) /\ Len(todo') = n - 1
      /\ \A k \in 1 .. n - 1 : todo'[k] = todo[k + 1]
      /\ n = 1 => todo' = << >>
      /\ UNCHANGED << kinds, batch >> /\ todo # << >>
  BY Behead DEF TypeOK, HeadLeaves
<1>3. Before(taken) = taken - (n - 1) - Len(todo[1])
  BY <1>2 DEF Before
<1>4. n > 1 => todo[2] = Single(taken)
  BY DEF Flow, TodoFollows
<1> HIDE DEF n
<1>5. CASE n = 1
  <2>1. todo' = << >> /\ batch' = << >> /\ Len(<< >>) = 0
    BY <1>1, <1>2, <1>5
  <2>2. Before(taken)' = taken - 0
    BY <2>1 DEF Before
  <2>3. TodoFollows(taken)'
    BY <2>1 DEF TodoFollows
  <2>4. Before(taken)' = Before(taken) + Len(todo[1])
    BY <1>1, <1>3, <1>5, <2>2
  <2>5. QED
    BY <1>2, <2>3, <2>4 DEF n
<1>6. CASE n = 2
  <2>1. todo'[1] = Single(taken) /\ Len(todo') = 1
    BY <1>2, <1>4, <1>6
  <2>2. todo' # << >>
    BY <2>1
  <2>3. Len(Single(taken)) = 1 /\ Single(taken)[1] = taken
    BY OneItem
  <2>4. Before(taken)' = taken - (1 - 1) - 1
    BY <2>1, <2>2, <2>3 DEF Before
  <2>5. taken - (1 - 1) - 1 = taken - 1 /\ taken - 1 + 1 = taken
    BY <1>1
  <2>6. Message(todo[1])' /\ Consecutive(todo'[1], taken - 1)
    BY <2>1, <2>3, <2>5 DEF Message, Consecutive
  <2>7. TodoFollows(taken)'
    BY <2>1, <2>4, <2>5, <2>6 DEF TodoFollows
  <2>8. Before(taken)' = Before(taken) + Len(todo[1])
    BY <1>1, <1>3, <1>6, <2>4
  <2>9. QED
    BY <1>2, <2>7, <2>8 DEF n
<1>7. QED
  BY <1>1, <1>5, <1>6

\* The coalescer receives the next item.
Receives == raw # << >> /\ raw' = Tail(raw) /\ UNCHANGED << kinds, feeder, stopped >>

LEMMA RawShrinks ==
  ASSUME TypeOK, NEW taken \in 0 .. Len(kinds), Flow(taken), Receives
  PROVE  /\ Head(raw) = taken + 1 /\ Head(raw) \in Items /\ taken + 1 \in 0 .. Len(kinds)
         /\ raw' \in Seq(Items) /\ Len(raw') <= RawCap
         /\ RawFollows(taken + 1)'
<1> DEFINE n == Len(raw)
<1>1. n \in Nat /\ taken \in Int /\ Len(kinds) \in Nat /\ RawCap \in Nat /\ n <= RawCap
  BY Positions, Bounds DEF TypeOK
<1>2. /\ raw' \in Seq(Items) /\ Len(raw') = n - 1 /\ n # 0 /\ Head(raw) \in Items
      /\ UNCHANGED << kinds, feeder, stopped >>
  BY Behead DEF Receives, TypeOK
<1>3. Head(raw) = taken + 1 /\ Consecutive(raw', taken + 1)
  BY <1>1, ConsecutiveTail DEF TypeOK, Receives, Flow, RawFollows
<1>4. /\ feeder = "pull" => taken + n = Len(kinds)
      /\ feeder = "send" => taken + n = Len(kinds) - 1
      /\ feeder = "done" => taken + n = Len(kinds) \/ (stopped /\ taken + n = Len(kinds) - 1)
      /\ feeder \in {"pull", "send", "done"}
  BY DEF Flow, RawFollows, TypeOK
<1> HIDE DEF n
<1>5. taken + n <= Len(kinds) /\ taken + 1 <= taken + n
  BY <1>1, <1>2, <1>4
<1>6. taken + 1 + (n - 1) = taken + n
  BY <1>1
<1>7. RawFollows(taken + 1)'
  BY <1>2, <1>3, <1>4, <1>6 DEF RawFollows
<1>8. taken + 1 \in 0 .. Len(kinds) /\ n - 1 <= RawCap
  BY <1>1, <1>2, <1>5
<1>9. QED
  BY <1>2, <1>3, <1>7, <1>8

\* A delta joins the batch.
LEMMA BatchGrows ==
  ASSUME TypeOK, NEW taken \in 0 .. Len(kinds), Flow(taken), NEW e \in Items,
         e = taken + 1, kinds[e] = "delta", todo = << >>
  PROVE  LET grown == Append(batch, e)
         IN  /\ grown \in Seq(Items) /\ Len(grown) = Len(batch) + 1 /\ grown # << >>
             /\ Consecutive(grown, Before(taken)) /\ Deltas(grown)
             /\ Before(taken) = taken - Len(batch)
<1>1. /\ Append(batch, e) \in Seq(Items) /\ Len(Append(batch, e)) = Len(batch) + 1
      /\ \A k \in 1 .. Len(batch) : Append(batch, e)[k] = batch[k]
      /\ Append(batch, e)[Len(batch) + 1] = e /\ Append(batch, e) # << >>
  BY Appended DEF TypeOK
<1>2. Before(taken) = taken - Len(batch)
  BY DEF Before
<1>3. Len(batch) \in Nat /\ taken \in Int
  BY Positions
<1>4. Consecutive(Append(batch, e), taken - Len(batch))
  <2>1. Consecutive(batch, taken - Len(batch)) /\ taken - Len(batch) \in Int
    BY <1>3 DEF Flow, BatchFollows
  <2>2. e = (taken - Len(batch)) + Len(batch) + 1
    BY <1>3
  <2>3. QED
    BY <2>1, <2>2, ConsecutiveAppend DEF TypeOK
<1>5. Deltas(Append(batch, e))
  BY <1>1, <1>3 DEF Deltas, Flow, BatchFollows
<1>6. QED
  BY <1>1, <1>2, <1>4, <1>5

\* What is about to be sent changes, and what is in the channel and on the screen
\* stays right before it.
LEMMA SameShown ==
  ASSUME NEW t, NEW u, Flow(t), Before(u)' = Before(t),
         UNCHANGED << kinds, ch, shown, stopped >>
  PROVE  ShownFollows(u)'
<1>1. LastItem(shown)' = LastItem(shown) /\ Next1(u)' = Next1(t)
  BY DEF LastItem, Delivery!Last, Next1
<1>2. QED
  BY <1>1 DEF Flow, ShownFollows, Message, Deltas

LEMMA StepReceiveDelta == IInv /\ ReceiveDelta => IInv'
<1> SUFFICES ASSUME IInv, ReceiveDelta PROVE IInv'
  OBVIOUS
<1>1. PICK taken \in 0 .. Len(kinds) : Flow(taken)
  BY DEF IInv
<1>2. TypeOK /\ Len(kinds) <= MaxYields /\ Ends
  BY DEF IInv
<1>3. PICK h, grown : h = Head(raw) /\ grown = Append(batch, h)
  OBVIOUS
<1> DEFINE full == Len(grown) >= BatchCap
<1>4. /\ Receives /\ coalescer = "select" /\ todo = << >> /\ kinds[h] = "delta"
      /\ full => batch' = << >> /\ todo' = << grown >>
      /\ ~ full => batch' = grown /\ todo' = << >>
      /\ UNCHANGED << kinds, feeder, coalescer, ch, shown, ended, stopped >>
  BY <1>3 DEF ReceiveDelta, Selecting, Receives, runner
<1>5. /\ h = taken + 1 /\ h \in Items /\ taken + 1 \in 0 .. Len(kinds)
      /\ raw' \in Seq(Items) /\ Len(raw') <= RawCap /\ RawFollows(taken + 1)'
  BY <1>3, <1>1, <1>2, <1>4, RawShrinks
<1>6. /\ grown \in Seq(Items) /\ Len(grown) = Len(batch) + 1 /\ grown # << >>
      /\ Consecutive(grown, Before(taken)) /\ Deltas(grown)
      /\ Before(taken) = taken - Len(batch)
  BY <1>3, <1>1, <1>2, <1>4, <1>5, BatchGrows
<1>7. Len(batch) \in Nat /\ taken \in Int /\ BatchCap \in Nat \ {0}
  BY <1>1, <1>2, Positions, Bounds
<1>8. ~ full => Len(grown) < BatchCap
  BY <1>6, <1>7
<1>9. full => /\ todo' \in Seq(Seq(Items)) /\ todo' # << >> /\ todo'[1] = grown
              /\ Len(todo') = 1 /\ ~ (Len(todo') > 1)
  BY <1>4, <1>6, One
<1> HIDE DEF full
<1>10. TypeOK'
  <2>1. batch' \in Seq(Items) /\ Len(batch') < BatchCap
    <3>1. << >> \in Seq(Items) /\ Len(<< >>) = 0 /\ 0 < BatchCap
      BY <1>7, EmptySeq
    <3>2. QED
      BY <1>4, <1>6, <1>8, <3>1
  <2>2. todo' \in Seq(Seq(Items)) /\ Len(todo') <= 2
    <3>1. << >> \in Seq(Seq(Items)) /\ Len(<< >>) = 0 /\ 0 <= 2 /\ 1 <= 2
      BY EmptySeq
    <3>2. CASE full
      BY <1>9, <3>1, <3>2
    <3>3. CASE ~ full
      BY <1>4, <3>1, <3>3
    <3>4. QED
      BY <3>2, <3>3
  <2>3. QED
    BY <1>2, <1>4, <1>5, <2>1, <2>2 DEF TypeOK
<1>11. Before(taken + 1)' = Before(taken)
  <2>1. CASE full
    <3>1. Before(taken + 1)' = (taken + 1) - (1 - 1) - Len(grown)
      BY <1>9, <2>1 DEF Before
    <3>2. QED
      BY <1>6, <1>7, <3>1
  <2>2. CASE ~ full
    <3>1. Before(taken + 1)' = (taken + 1) - Len(grown)
      BY <1>4, <2>2 DEF Before
    <3>2. QED
      BY <1>6, <1>7, <3>1
  <2>3. QED
    BY <2>1, <2>2
<1>12. BatchFollows(taken + 1)' /\ TodoFollows(taken + 1)'
  <2>1. Deltas(grown)'
    BY <1>4, <1>6 DEF Deltas
  <2>2. CASE full
    <3>1. batch' = << >> /\ Len(<< >>) = 0
      BY <1>4, <2>2
    <3>2. BatchFollows(taken + 1)'
      BY <3>1 DEF BatchFollows, Consecutive, Deltas
    <3>3. Message(grown)'
      BY <1>6, <1>7, <2>1 DEF Message
    <3>4. TodoFollows(taken + 1)'
      BY <1>6, <1>11, <1>9, <2>2, <3>3 DEF TodoFollows
    <3>5. QED
      BY <3>2, <3>4
  <2>3. CASE ~ full
    <3>1. batch' = grown /\ todo' = << >> /\ Len(<< >>) = 0 /\ ~ (0 > 1)
      BY <1>4, <2>3
    <3>2. (taken + 1) - Len(grown) = Before(taken)
      BY <1>6, <1>7
    <3>3. BatchFollows(taken + 1)'
      BY <1>6, <2>1, <3>1, <3>2 DEF BatchFollows
    <3>4. TodoFollows(taken + 1)'
      BY <3>1 DEF TodoFollows
    <3>5. QED
      BY <3>3, <3>4
  <2>4. QED
    BY <2>2, <2>3
<1>13. ShownFollows(taken + 1)'
  BY <1>1, <1>4, <1>11, SameShown
<1>14. Finishes(taken + 1)'
  BY <1>4 DEF Finishes
<1>15. Ends'
  BY <1>2, <1>4 DEF Ends, ErrorAt, LastItem, Delivery!Last
<1>16. QED
  BY <1>2, <1>4, <1>5, <1>10, <1>12, <1>13, <1>14, <1>15 DEF IInv, Flow

\* A batch that is flushed is a message, and the item that had it flushed is
\* another behind it.
LEMMA FlushedIs ==
  ASSUME NEW b \in Seq(Items)
  PROVE  /\ Flushed(b) \in Seq(Seq(Items)) /\ Len(Flushed(b)) <= 1 /\ ~ (Len(Flushed(b)) > 1)
         /\ b = << >> => Flushed(b) = << >> /\ Len(Flushed(b)) = 0
         /\ b # << >> => Flushed(b) # << >> /\ Flushed(b)[1] = b /\ Len(Flushed(b)) = 1
<1>1. CASE b = << >>
  BY <1>1, EmptySeq DEF Flushed
<1>2. CASE b # << >>
  <2>1. /\ << b >> \in Seq(Seq(Items)) /\ Len(<< b >>) = 1 /\ ~ (Len(<< b >>) > 1)
        /\ << b >>[1] = b /\ << b >> # << >> /\ Len(<< b >>) <= 1
    BY One
  <2>2. QED
    BY <1>2, <2>1 DEF Flushed
<1>3. QED
  BY <1>1, <1>2

FlushedWith(b, e) == Append(Flushed(b), Single(e))

LEMMA FlushedThen ==
  ASSUME NEW b \in Seq(Items), NEW e \in Items, NEW td, td = FlushedWith(b, e)
  PROVE  /\ td \in Seq(Seq(Items)) /\ Len(td) <= 2 /\ td # << >>
         /\ b = << >> => td[1] = Single(e) /\ Len(td) = 1 /\ ~ (Len(td) > 1)
         /\ b # << >> => td[1] = b /\ td[2] = Single(e) /\ Len(td) = 2
<1> DEFINE f == Flushed(b)
<1>1. Single(e) \in Seq(Items)
  BY OneItem
<1>2. /\ f \in Seq(Seq(Items))
      /\ b = << >> => Len(f) = 0
      /\ b # << >> => f[1] = b /\ Len(f) = 1
  BY FlushedIs
<1>9. 0 + 1 = 1 /\ 1 + 1 = 2 /\ 1 <= 2 /\ 2 <= 2 /\ ~ (1 > 1)
  OBVIOUS
<1> HIDE DEF f
<1>3. /\ Append(f, Single(e)) \in Seq(Seq(Items)) /\ Len(Append(f, Single(e))) = Len(f) + 1
      /\ \A k \in 1 .. Len(f) : Append(f, Single(e))[k] = f[k]
      /\ Append(f, Single(e))[Len(f) + 1] = Single(e) /\ Append(f, Single(e)) # << >>
  BY <1>1, <1>2, Appended
<1>4. td = Append(f, Single(e))
  BY DEF f, FlushedWith
<1>5. CASE b = << >>
  BY <1>2, <1>9, <1>3, <1>4, <1>5
<1>6. CASE b # << >>
  <2>1. Len(td) = Len(f) + 1 /\ td[Len(f) + 1] = Single(e) /\ td[1] = b
    BY <1>2, <1>3, <1>4, <1>6
  <2>2. Len(td) = 2 /\ td[2] = Single(e)
    BY <1>2, <1>9, <1>6, <2>1
  <2>3. QED
    BY <1>9, <1>3, <1>4, <1>6, <2>1, <2>2
<1>7. QED
  BY <1>5, <1>6

\* A batch of deltas that is not empty is a message.
LEMMA BatchIsMessage ==
  ASSUME TypeOK, NEW taken \in 0 .. Len(kinds), Flow(taken), batch # << >>,
         UNCHANGED kinds
  PROVE  /\ Consecutive(batch, Before(taken)) /\ todo = << >>
         /\ \A b : b = batch => Message(b)'
<1>1. Len(batch) \in Nat /\ Len(batch) # 0
  BY Positions
<1>2. todo = << >> /\ Deltas(batch) /\ Consecutive(batch, taken - Len(batch))
  BY DEF Flow, BatchFollows
<1>3. Consecutive(batch, Before(taken))
  BY <1>2 DEF Before
<1>4. \A b : b = batch => Message(b)'
  BY <1>1, <1>2 DEF Message, Deltas
<1>5. QED
  BY <1>2, <1>3, <1>4

\* The whole batch is about to be sent, nothing else changes place.
LEMMA FlushKeepsFlow ==
  ASSUME TypeOK, NEW taken \in 0 .. Len(kinds), Flow(taken), todo = << >>,
         todo' = Flushed(batch), batch' = << >>,
         UNCHANGED << kinds, feeder, raw, ch, shown, stopped >>, Finishes(taken)'
  PROVE  Flow(taken)'
<1>1. PICK b : b = batch
  OBVIOUS
<1>2. /\ ~ (Len(todo') > 1)
      /\ b = << >> => todo' = << >> /\ Len(b) = 0
      /\ b # << >> => todo' # << >> /\ todo'[1] = b /\ Len(todo') = 1
  BY <1>1, FlushedIs DEF TypeOK
<1>3. Len(b) \in Nat /\ taken \in Int /\ Len(<< >>) = 0
  BY <1>1, Positions
<1>4. Before(taken) = taken - Len(b)
  BY <1>1 DEF Before
<1>5. Before(taken)' = Before(taken)
  <2>1. CASE b = << >>
    BY <1>2, <1>3, <1>4, <2>1 DEF Before
  <2>2. CASE b # << >>
    <3>1. Before(taken)' = taken - (1 - 1) - Len(b)
      BY <1>2, <2>2 DEF Before
    <3>2. QED
      BY <1>3, <1>4, <3>1
  <2>3. QED
    BY <2>1, <2>2
<1>6. RawFollows(taken)'
  BY DEF Flow, RawFollows
<1>7. BatchFollows(taken)'
  BY <1>3 DEF BatchFollows, Consecutive, Deltas
<1>8. TodoFollows(taken)'
  <2>1. CASE b = << >>
    BY <1>2, <2>1 DEF TodoFollows
  <2>2. CASE b # << >>
    <3>1. Message(b)' /\ Consecutive(b, Before(taken))
      BY <1>1, <2>2, BatchIsMessage
    <3>2. QED
      BY <1>2, <1>5, <2>2, <3>1 DEF TodoFollows
  <2>3. QED
    BY <2>1, <2>2
<1>9. ShownFollows(taken)'
  BY <1>5, SameShown
<1>10. QED
  BY <1>6, <1>7, <1>8, <1>9 DEF Flow

LEMMA StepFlush == IInv /\ (ReceiveEnd \/ Tick) => IInv'
<1> SUFFICES ASSUME IInv, ReceiveEnd \/ Tick PROVE IInv'
  OBVIOUS
<1>1. PICK taken \in 0 .. Len(kinds) : Flow(taken)
  BY DEF IInv
<1>2. TypeOK /\ Len(kinds) <= MaxYields /\ Ends
  BY DEF IInv
<1>3. /\ todo = << >> /\ todo' = Flushed(batch) /\ batch' = << >> /\ coalescer = "select"
      /\ \/ coalescer' = "leave" /\ feeder = "done" /\ raw = << >>
         \/ coalescer' = "select"
      /\ UNCHANGED << kinds, feeder, raw, ch, shown, ended, stopped >>
  BY DEF ReceiveEnd, Tick, Selecting, Flushed, runner
<1>4. Finishes(taken)'
  BY <1>3 DEF Finishes
<1>5. Flow(taken)'
  BY <1>1, <1>2, <1>3, <1>4, FlushKeepsFlow
<1>6. TypeOK'
  <2>1. << >> \in Seq(Items) /\ Len(<< >>) < BatchCap
    BY Bounds, EmptySeq
  <2>2. todo' \in Seq(Seq(Items)) /\ Len(todo') <= 1
    BY <1>2, <1>3, FlushedIs DEF TypeOK
  <2>3. Len(todo') \in Nat
    BY <2>2, LenProperties
  <2>4. \A n \in Nat : n <= 1 => n <= 2
    OBVIOUS
  <2>5. QED
    BY <1>2, <1>3, <2>1, <2>2, <2>3, <2>4 DEF TypeOK
<1>7. Ends'
  BY <1>2, <1>3 DEF Ends, ErrorAt, LastItem, Delivery!Last
<1>8. QED
  BY <1>2, <1>3, <1>5, <1>6, <1>7 DEF IInv

LEMMA StepReceiveOther == IInv /\ ReceiveOther => IInv'
<1> SUFFICES ASSUME IInv, ReceiveOther PROVE IInv'
  OBVIOUS
<1>1. PICK taken \in 0 .. Len(kinds) : Flow(taken)
  BY DEF IInv
<1>2. TypeOK /\ Len(kinds) <= MaxYields /\ Ends
  BY DEF IInv
<1>3. PICK h, b : h = Head(raw) /\ b = batch
  OBVIOUS
<1>4. /\ Receives /\ todo = << >> /\ todo' = FlushedWith(b, h) /\ batch' = << >>
      /\ coalescer' \in {"select", "leave"} /\ (coalescer' = "leave" => kinds[h] = "error")
      /\ UNCHANGED << kinds, feeder, ch, shown, ended, stopped >>
  BY <1>3 DEF ReceiveOther, Selecting, Receives, runner, FlushedWith, Single
<1>5. /\ h = taken + 1 /\ h \in Items /\ taken + 1 \in 0 .. Len(kinds)
      /\ raw' \in Seq(Items) /\ Len(raw') <= RawCap /\ RawFollows(taken + 1)'
  BY <1>1, <1>2, <1>3, <1>4, RawShrinks
<1>6. b \in Seq(Items) /\ Len(b) \in Nat /\ taken \in Nat /\ (b = << >> => Len(b) = 0)
  BY <1>1, <1>2, <1>3, Positions DEF TypeOK
<1>7. /\ todo' \in Seq(Seq(Items)) /\ Len(todo') <= 2 /\ todo' # << >>
      /\ b = << >> => todo'[1] = Single(h) /\ Len(todo') = 1 /\ ~ (Len(todo') > 1)
      /\ b # << >> => todo'[1] = b /\ todo'[2] = Single(h) /\ Len(todo') = 2
  <2>1. h \in Items /\ todo' = FlushedWith(b, h) /\ b \in Seq(Items)
    BY <1>4, <1>5, <1>6
  <2>2. QED
    BY <2>1, FlushedThen
<1>8. Len(Single(h)) = 1 /\ Single(h)[1] = h
  BY OneItem
<1>9. Before(taken) = taken - Len(b)
  BY <1>3, <1>4 DEF Before
<1>10. Before(taken + 1)' = Before(taken)
  <2>1. CASE b = << >>
    <3>1. Before(taken + 1)' = (taken + 1) - (1 - 1) - 1
      BY <1>7, <1>8, <2>1 DEF Before
    <3>2. QED
      BY <1>6, <1>9, <2>1, <3>1
  <2>2. CASE b # << >>
    <3>1. Before(taken + 1)' = (taken + 1) - (2 - 1) - Len(b)
      BY <1>7, <2>2 DEF Before
    <3>2. QED
      BY <1>6, <1>9, <3>1
  <2>3. QED
    BY <2>1, <2>2
<1>11. TypeOK'
  <2>1. << >> \in Seq(Items) /\ Len(<< >>) < BatchCap
    BY Bounds, EmptySeq
  <2>2. QED
    BY <1>2, <1>4, <1>5, <1>7, <2>1 DEF TypeOK
<1>12. BatchFollows(taken + 1)'
  <2>1. Len(<< >>) = 0
    OBVIOUS
  <2>2. QED
    BY <1>4, <2>1 DEF BatchFollows, Consecutive, Deltas
<1>13. TodoFollows(taken + 1)'
  <2>1. CASE b = << >>
    <3>1. Message(Single(h))'
      BY <1>8 DEF Message
    <3>2. Consecutive(Single(h), Before(taken))
      BY <1>5, <1>6, <1>8, <1>9, <2>1 DEF Consecutive
    <3>3. QED
      BY <1>7, <1>10, <2>1, <3>1, <3>2 DEF TodoFollows
  <2>2. CASE b # << >>
    <3>1. Message(b)' /\ Consecutive(b, Before(taken))
      BY <1>1, <1>2, <1>3, <1>4, <2>2, BatchIsMessage
    <3>2. QED
      BY <1>5, <1>7, <1>10, <2>2, <3>1 DEF TodoFollows
  <2>3. QED
    BY <2>1, <2>2
<1>14. ShownFollows(taken + 1)'
  BY <1>1, <1>4, <1>10, SameShown
<1>15. Finishes(taken + 1)'
  BY <1>4, <1>5, <1>6 DEF Finishes, ErrorAt
<1>16. Ends'
  BY <1>2, <1>4 DEF Ends, ErrorAt, LastItem, Delivery!Last
<1>17. QED
  BY <1>2, <1>4, <1>5, <1>11, <1>12, <1>13, <1>14, <1>15, <1>16 DEF IInv, Flow

LEMMA StepSendDrop == IInv /\ (Send \/ Drop) => IInv'
<1> SUFFICES ASSUME IInv, Send \/ Drop PROVE IInv'
  OBVIOUS
<1>1. PICK taken \in 0 .. Len(kinds) : Flow(taken)
  BY DEF IInv
<1>2. TypeOK /\ Len(kinds) <= MaxYields /\ Ends
  BY DEF IInv
<1>3. /\ HeadLeaves
      /\ \/ ch = << >> /\ ch' = << Head(todo) >> /\ UNCHANGED coalescer
         \/ stopped /\ UNCHANGED ch /\ coalescer' \in {"done", coalescer}
      /\ UNCHANGED << kinds, feeder, raw, batch, shown, ended, stopped >>
  BY DEF Send, Drop, HeadLeaves, runner
<1>4. /\ todo' \in Seq(Seq(Items)) /\ Len(todo') = Len(todo) - 1
      /\ Before(taken)' = Before(taken) + Len(todo[1])
      /\ TodoFollows(taken)'
  BY <1>1, <1>2, <1>3, TodoShrinks
<1>5. PICK m : m = todo[1]
  OBVIOUS
<1>6. /\ todo # << >> /\ batch = << >> /\ m \in Seq(Items) /\ Len(m) \in Nat \ {0}
      /\ Before(taken) \in Nat /\ Next1(taken) \in Nat /\ Next1(taken) <= Before(taken)
      /\ Head(todo) = m /\ Message(m) /\ Consecutive(m, Before(taken))
  <2>1. todo # << >> /\ Head(todo) = todo[1]
    BY <1>2, <1>3, Behead DEF HeadLeaves, TypeOK
  <2>2. batch = << >> /\ Message(m) /\ Consecutive(m, Before(taken))
    BY <1>1, <1>5, <2>1 DEF Flow, BatchFollows, TodoFollows
  <2>3. QED
    BY <1>1, <1>2, <1>5, <2>1, <2>2, Positions
<1>7. /\ ch' \in Seq(Seq(Items)) /\ Len(ch') <= 1
      /\ ch' # << >> => (ch # << >> /\ ch' = ch) \/ (ch = << >> /\ ch'[1] = m)
      /\ ch' = << >> => ch = << >> /\ stopped
  <2>1. CASE ch = << >> /\ ch' = << m >>
    <3>1. << m >> \in Seq(Seq(Items)) /\ Len(<< m >>) <= 1 /\ << m >>[1] = m /\ << m >> # << >>
      BY <1>6, One
    <3>2. QED
      BY <2>1, <3>1
  <2>2. CASE stopped /\ ch' = ch
    <3>1. ch \in Seq(Seq(Items)) /\ Len(ch) <= 1
      BY <1>2 DEF TypeOK
    <3>2. QED
      BY <2>2, <3>1
  <2>3. QED
    BY <1>3, <1>6, <2>1, <2>2
<1>8. TypeOK'
  <2>1. Len(todo) \in Nat /\ Len(todo) <= 2
    BY <1>1, <1>2, Positions DEF TypeOK
  <2>2. Len(todo') <= 2
    BY <1>4, <2>1
  <2>3. QED
    BY <1>2, <1>3, <1>4, <1>7, <2>2 DEF TypeOK
<1>9. RawFollows(taken)' /\ BatchFollows(taken)'
  BY <1>1, <1>3, <1>6 DEF Flow, RawFollows, BatchFollows, Deltas
<1>10. ShownFollows(taken)'
  <2>1. LastItem(shown)' = LastItem(shown)
    BY <1>3 DEF LastItem, Delivery!Last
  <2>2. \A x : Message(x) => Message(x)'
    BY <1>3 DEF Message, Deltas
  <2>3. m[1] - 1 = Before(taken)
    BY <1>6 DEF Consecutive
  <2>4. CASE ch = << >> /\ ch' # << >>
    <3>1. ch'[1] = m /\ Next1(taken) = Before(taken)
      BY <1>7, <2>4 DEF Next1
    <3>2. Next1(taken)' = Before(taken)
      BY <2>3, <2>4, <3>1 DEF Next1
    <3>3. LastItem(shown) <= Before(taken) /\ (~ stopped => LastItem(shown) = Before(taken))
      BY <1>1, <3>1 DEF Flow, ShownFollows
    <3>4. Before(taken)' = Before(taken) + Len(m) /\ Before(taken)' <= Before(taken)'
      BY <1>4, <1>5, <1>6
    <3>5. QED
      BY <1>3, <1>6, <2>1, <2>2, <3>1, <3>2, <3>3, <3>4 DEF ShownFollows
  <2>5. CASE ch = << >> /\ ch' = << >>
    <3>1. stopped' /\ Next1(taken)' = Before(taken)' /\ Next1(taken) = Before(taken)
      BY <1>3, <1>7, <2>5 DEF Next1
    <3>2. LastItem(shown) \in Nat /\ LastItem(shown) <= Before(taken)
      BY <1>1, <1>2, <3>1, Positions
    <3>3. LastItem(shown) <= Before(taken) + Len(m)
      BY <1>6, <3>2
    <3>4. QED
      BY <1>4, <1>5, <2>1, <2>5, <3>1, <3>3 DEF ShownFollows
  <2>6. CASE ch # << >>
    <3>1. stopped /\ ch' = ch
      BY <1>3, <2>6
    <3>2. Next1(taken)' = Next1(taken)
      BY <2>6, <3>1 DEF Next1
    <3>3. /\ LastItem(shown) <= Next1(taken) /\ Message(ch[1]) /\ Consecutive(ch[1], Next1(taken))
          /\ Next1(taken) + Len(ch[1]) <= Before(taken)
      BY <1>1, <2>6 DEF Flow, ShownFollows
    <3>4. Len(ch[1]) \in Nat
      BY <1>1, <1>2, <2>6, Positions
    <3>5. Next1(taken) + Len(ch[1]) <= Before(taken) + Len(m)
      BY <1>6, <3>3, <3>4
    <3>6. QED
      BY <1>3, <1>4, <1>5, <2>1, <2>2, <3>1, <3>2, <3>3, <3>5 DEF ShownFollows
  <2>7. QED
    BY <2>4, <2>5, <2>6
<1>11. Finishes(taken)'
  BY <1>1, <1>3, <1>6 DEF Flow, Finishes, ErrorAt
<1>12. Ends'
  BY <1>2, <1>3 DEF Ends, ErrorAt, LastItem, Delivery!Last
<1>13. QED
  BY <1>2, <1>3, <1>4, <1>8, <1>9, <1>10, <1>11, <1>12 DEF IInv, Flow

\* Where the screen is after a message.
LEMMA ShownGrows ==
  ASSUME NEW s \in Seq(Items), NEW m \in Seq(Items), Len(m) \in Nat \ {0}
  PROVE  s \o m \in Seq(Items) /\ LastItem(s \o m) = m[Len(m)]
<1>1. /\ s \o m \in Seq(Items) /\ Len(s \o m) = Len(s) + Len(m)
      /\ Len(s) \in Nat
      /\ \A k \in 1 .. Len(m) : (s \o m)[Len(s) + k] = m[k]
  BY ConcatProperties, LenProperties
<1>2. (s \o m)[Len(s \o m)] = m[Len(m)] /\ Len(s \o m) # 0
  BY <1>1
<1>3. s \o m # << >>
  BY <1>1, <1>2, EmptySeq
<1>4. QED
  BY <1>1, <1>2, <1>3 DEF LastItem, Delivery!Last

\* What a message of the channel does to the screen.
LEMMA Handles ==
  ASSUME TypeOK, NEW taken \in 0 .. Len(kinds), Flow(taken), Handle,
         NEW m, m = ch[1]
  PROVE  /\ m \in Seq(Items) /\ Message(m) /\ Len(m) \in Nat \ {0}
         /\ Next1(taken) \in Nat /\ Consecutive(m, Next1(taken))
         /\ shown' = shown \o m /\ ch' = << >>
         /\ ended' = (kinds[m[1]] = "error")
         /\ LastItem(shown)' = Next1(taken) + Len(m)
<1>1. /\ ch # << >> /\ shown' = shown \o Head(ch) /\ ch' = << >>
      /\ ended' = (kinds[Head(ch)[1]] = "error")
  BY DEF Handle
<1>2. Head(ch) = m
  BY <1>1, Behead DEF TypeOK
<1>3. /\ m \in Seq(Items) /\ Message(m) /\ Len(m) \in Nat \ {0}
      /\ Next1(taken) \in Nat /\ Consecutive(m, Next1(taken))
  BY <1>1, Positions DEF Flow, ShownFollows
<1>4. m[Len(m)] = Next1(taken) + Len(m)
  BY <1>3 DEF Consecutive
<1>5. LastItem(shown)' = m[Len(m)]
  <2>1. LastItem(shown \o m) = m[Len(m)]
    BY <1>3, ShownGrows DEF TypeOK
  <2>2. QED
    BY <1>1, <1>2, <2>1 DEF LastItem, Delivery!Last
<1>6. QED
  BY <1>1, <1>2, <1>3, <1>4, <1>5

LEMMA StepHandle == IInv /\ Handle => IInv'
<1> SUFFICES ASSUME IInv, Handle PROVE IInv'
  OBVIOUS
<1>1. PICK taken \in 0 .. Len(kinds) : Flow(taken)
  BY DEF IInv
<1>2. TypeOK /\ Len(kinds) <= MaxYields /\ Ends
  BY DEF IInv
<1>3. /\ ~ ended /\ ch # << >>
      /\ UNCHANGED << kinds, feeder, raw, coalescer, batch, todo, stopped >>
  BY DEF Handle, runner
<1>4. PICK m : m = ch[1]
  OBVIOUS
<1>5. /\ m \in Seq(Items) /\ Message(m) /\ Len(m) \in Nat \ {0}
      /\ Next1(taken) \in Nat /\ Consecutive(m, Next1(taken))
      /\ shown' = shown \o m /\ ch' = << >>
      /\ ended' = (kinds[m[1]] = "error")
      /\ LastItem(shown)' = Next1(taken) + Len(m)
  BY <1>1, <1>2, <1>4, Handles
<1>6. m[1] = Next1(taken) + 1 /\ m[Len(m)] = Next1(taken) + Len(m)
  BY <1>5 DEF Consecutive
<1>7. TypeOK'
  <2>1. shown' \in Seq(Items)
    BY <1>2, <1>5, ShownGrows DEF TypeOK
  <2>2. << >> \in Seq(Seq(Items)) /\ Len(<< >>) <= 1
    BY EmptySeq
  <2>3. ended' \in BOOLEAN
    BY <1>5
  <2>4. QED
    BY <1>2, <1>3, <1>5, <2>1, <2>2, <2>3 DEF TypeOK
<1>8. Ends'
  <2>1. ErrorAt(LastItem(shown))' <=> kinds[m[Len(m)]] = "error"
    BY <1>3, <1>5, <1>6 DEF ErrorAt
  <2>2. kinds[m[Len(m)]] = "error" <=> kinds[m[1]] = "error"
    <3>1. CASE Len(m) = 1
      BY <3>1
    <3>2. CASE Deltas(m)
      <4>1. kinds[m[1]] = "delta" /\ kinds[m[Len(m)]] = "delta"
        BY <1>5, <3>2 DEF Deltas
      <4>2. QED
        BY <4>1
    <3>3. QED
      BY <1>5, <3>1, <3>2 DEF Message
  <2>3. QED
    BY <1>5, <2>1, <2>2 DEF Ends
<1>9. Before(taken)' = Before(taken) /\ Next1(taken)' = Before(taken)
  BY <1>3, <1>5 DEF Before, Next1
<1>10. RawFollows(taken)' /\ BatchFollows(taken)' /\ TodoFollows(taken)'
  BY <1>1, <1>3, <1>9 DEF Flow, RawFollows, BatchFollows, TodoFollows, Deltas, Message
<1>11. ShownFollows(taken)'
  <2>1. /\ Next1(taken) + Len(m) <= Before(taken)
        /\ ~ stopped => Next1(taken) + Len(m) = Before(taken)
    BY <1>1, <1>3, <1>4 DEF Flow, ShownFollows
  <2>2. QED
    BY <1>3, <1>5, <1>9, <2>1 DEF ShownFollows
<1>12. Finishes(taken)'
  BY <1>1, <1>3 DEF Flow, Finishes, ErrorAt
<1>13. QED
  BY <1>2, <1>3, <1>7, <1>8, <1>10, <1>11, <1>12 DEF IInv, Flow

\* An end that is not cancelled leaves nothing in the pump.
LEMMA NothingLeft ==
  ASSUME TypeOK, Ends, NEW taken \in 0 .. Len(kinds), Flow(taken), HandleDone, ~ stopped
  PROVE  feeder = "done" /\ LastItem(shown) = Len(kinds)
<1>1. ~ ended /\ ch = << >> /\ coalescer = "done"
  BY DEF HandleDone
<1>2. batch = << >> /\ todo = << >> /\ ((feeder = "done" /\ raw = << >>) \/ ErrorAt(taken))
  BY <1>1 DEF Flow, Finishes
<1>3. Len(<< >>) = 0 /\ taken \in Nat /\ Len(kinds) \in Nat
  BY Positions
<1>4. LastItem(shown) = taken
  <2>1. Before(taken) = taken - 0
    BY <1>2, <1>3 DEF Before
  <2>2. LastItem(shown) = taken - 0
    BY <1>1, <2>1 DEF Flow, ShownFollows, Next1
  <2>3. QED
    BY <1>3, <2>2
<1>5. feeder = "done" /\ raw = << >>
  BY <1>1, <1>2, <1>4 DEF Ends
<1>6. taken + 0 = Len(kinds)
  BY <1>3, <1>5 DEF Flow, RawFollows
<1>7. QED
  BY <1>3, <1>4, <1>5, <1>6

\* Steps that move no item.
LEMMA StepFlags ==
  IInv /\ (RunnerReturns \/ FeederStops \/ SeesStop \/ Leave \/ HandleDone \/ Stop
             \/ UNCHANGED vars) => IInv'
<1> DEFINE Step == RunnerReturns \/ FeederStops \/ SeesStop \/ Leave \/ HandleDone \/ Stop
                     \/ UNCHANGED vars
<1> SUFFICES ASSUME IInv, Step PROVE IInv'
  OBVIOUS
<1>1. PICK taken \in 0 .. Len(kinds) : Flow(taken)
  BY DEF IInv
<1>2. TypeOK /\ Len(kinds) <= MaxYields /\ Ends
  BY DEF IInv
<1>3. UNCHANGED << kinds, raw, batch, todo, ch, shown >>
  BY DEF RunnerReturns, FeederStops, SeesStop, Leave, HandleDone, Stop, vars, runner
<1>4. TypeOK'
  BY <1>2, <1>3 DEF TypeOK, RunnerReturns, FeederStops, SeesStop, Leave, HandleDone, Stop,
                    vars, runner
<1>5. stopped => stopped'
  BY DEF RunnerReturns, FeederStops, SeesStop, Leave, HandleDone, Stop, vars, runner
<1>6. RawFollows(taken)'
  BY <1>1, <1>3 DEF Flow, RawFollows, RunnerReturns, FeederStops, SeesStop, Leave,
                    HandleDone, Stop, vars, runner
<1>7. Finishes(taken)'
  <2>1. CASE UNCHANGED coalescer \/ stopped'
    <3>1. feeder = "done" => feeder' = "done"
      BY DEF RunnerReturns, FeederStops, SeesStop, Leave, HandleDone, Stop, vars, runner
    <3>2. QED
      BY <1>1, <1>3, <1>5, <2>1, <3>1 DEF Flow, Finishes, ErrorAt
  <2>2. CASE ~ UNCHANGED coalescer /\ ~ stopped'
    <3>1. coalescer = "leave" /\ todo = << >> /\ UNCHANGED << feeder, stopped >>
      BY <2>2 DEF RunnerReturns, FeederStops, SeesStop, Leave, HandleDone, Stop, vars, runner
    <3>2. QED
      BY <1>1, <1>3, <3>1 DEF Flow, Finishes, ErrorAt
  <2>3. QED
    BY <2>1, <2>2
<1>8. Flow(taken)'
  BY <1>1, <1>3, <1>5, <1>6, <1>7, SameItems
<1>9. Ends'
  <2>1. UNCHANGED << ErrorAt(LastItem(shown)) >>
    BY <1>3 DEF ErrorAt, LastItem, Delivery!Last
  <2>2. CASE HandleDone
    <3>1. stopped \/ feeder = "done"
      BY <1>1, <1>2, <2>2, NothingLeft
    <3>2. QED
      BY <2>2, <3>1 DEF Ends, HandleDone, runner
  <2>3. CASE ~ HandleDone
    <3>1. UNCHANGED ended /\ (feeder = "done" => feeder' = "done")
      BY <2>3 DEF RunnerReturns, FeederStops, SeesStop, Leave, Stop, vars, runner
    <3>2. QED
      BY <1>2, <1>5, <2>1, <3>1 DEF Ends
  <2>4. QED
    BY <2>2, <2>3
<1>10. QED
  BY <1>2, <1>3, <1>4, <1>8, <1>9 DEF IInv

LEMMA StepFeederSends == IInv /\ FeederSends => IInv'
<1> SUFFICES ASSUME IInv, FeederSends PROVE IInv'
  OBVIOUS
<1>1. PICK taken \in 0 .. Len(kinds) : Flow(taken)
  BY DEF IInv
<1>2. TypeOK /\ Len(kinds) <= MaxYields /\ Ends
  BY DEF IInv
<1>3. PICK e : e = Len(kinds)
  OBVIOUS
<1>4. /\ feeder = "send" /\ Len(raw) < RawCap /\ raw' = Append(raw, e) /\ feeder' = "pull"
      /\ UNCHANGED << kinds, coalescer, batch, todo, ch, shown, ended, stopped >>
  BY <1>3 DEF FeederSends
<1>5. /\ Len(raw) \in Nat /\ taken \in Nat /\ e \in Nat
      /\ taken + Len(raw) = e - 1 /\ Consecutive(raw, taken)
  BY <1>1, <1>2, <1>3, <1>4, Positions DEF Flow, RawFollows
<1>6. e \in Items /\ e = taken + Len(raw) + 1
  BY <1>2, <1>3, <1>5, Bounds DEF Items
<1>7. /\ raw' \in Seq(Items) /\ Len(raw') = Len(raw) + 1 /\ Consecutive(raw', taken)
  <2>1. raw \in Seq(Items) /\ raw' = Append(raw, e)
    BY <1>2, <1>4 DEF TypeOK
  <2>2. Append(raw, e) \in Seq(Items) /\ Len(Append(raw, e)) = Len(raw) + 1
    BY <1>6, <2>1, Appended
  <2>3. taken \in Int /\ Consecutive(raw, taken)
    BY <1>5
  <2>4. Consecutive(Append(raw, e), taken)
    BY <1>6, <2>1, <2>3, ConsecutiveAppend
  <2>5. QED
    BY <2>1, <2>2, <2>4
<1>8. TypeOK'
  <2>1. Len(raw') <= RawCap
    BY <1>4, <1>5, <1>7, Bounds
  <2>2. QED
    BY <1>2, <1>4, <1>7, <2>1 DEF TypeOK
<1>9. RawFollows(taken)'
  BY <1>3, <1>4, <1>5, <1>6, <1>7 DEF RawFollows
<1>10. Before(taken)' = Before(taken)
  BY <1>4 DEF Before
<1>11. BatchFollows(taken)' /\ TodoFollows(taken)'
  BY <1>1, <1>4, <1>10 DEF Flow, BatchFollows, TodoFollows, Deltas, Message
<1>12. ShownFollows(taken)'
  BY <1>1, <1>4, <1>10, SameShown
<1>13. Finishes(taken)' /\ Ends'
  BY <1>1, <1>2, <1>4 DEF Flow, Finishes, Ends, ErrorAt, LastItem, Delivery!Last
<1>14. QED
  BY <1>2, <1>4, <1>8, <1>9, <1>11, <1>12, <1>13 DEF IInv, Flow

\* What the runner yields goes behind what it has yielded.
LEMMA StepYield == IInv /\ Yield => IInv'
<1> SUFFICES ASSUME IInv, Yield PROVE IInv'
  OBVIOUS
<1>1. PICK taken \in 0 .. Len(kinds) : Flow(taken)
  BY DEF IInv
<1>2. TypeOK /\ Len(kinds) <= MaxYields /\ Ends
  BY DEF IInv
<1>3. /\ feeder = "pull" /\ Len(kinds) < MaxYields /\ feeder' = "send"
      /\ UNCHANGED << raw, coalescer, batch, todo, ch, shown, ended, stopped >>
  BY DEF Yield
<1>4. /\ kinds' \in Seq({"delta", "event", "error"}) /\ Len(kinds') = Len(kinds) + 1
      /\ \A n \in 1 .. Len(kinds) : kinds'[n] = kinds[n]
  BY <1>2, Appended DEF Yield, TypeOK
<1>5. /\ Len(kinds) \in Nat /\ Len(batch) \in Nat /\ Len(raw) \in Nat /\ taken \in Nat
      /\ taken <= Len(kinds)
      /\ Before(taken) \in Nat /\ Before(taken) <= taken
      /\ Next1(taken) \in Nat /\ Next1(taken) <= Before(taken)
      /\ LastItem(shown) \in Nat /\ LastItem(shown) <= Next1(taken)
      /\ todo # << >> => todo[1] \in Seq(Items) /\ Len(todo[1]) \in Nat \ {0}
      /\ ch # << >> => ch[1] \in Seq(Items) /\ Len(ch[1]) \in Nat \ {0}
  BY <1>1, <1>2, Positions
<1>6. \A n \in Nat : n <= Len(kinds) => (ErrorAt(n)' <=> ErrorAt(n))
  BY <1>4, <1>5 DEF ErrorAt
<1>7. ASSUME NEW m \in Seq(Items), NEW a \in Nat, Consecutive(m, a), a + Len(m) <= Len(kinds)
      PROVE  /\ Deltas(m) => Deltas(m)'
             /\ Message(m) => Message(m)'
  <2>1. Len(m) \in Nat
    BY LenProperties
  <2>2. \A k \in 1 .. Len(m) : m[k] \in 1 .. Len(kinds)
    BY <1>5, <1>7, <2>1 DEF Consecutive
  <2>3. Deltas(m) => Deltas(m)'
    BY <1>4, <2>2 DEF Deltas
  <2>4. QED
    BY <2>3 DEF Message
<1>8. UNCHANGED << Before(taken), Next1(taken), LastItem(shown) >>
  BY <1>3 DEF Before, Next1, LastItem, Delivery!Last
<1>9. TypeOK' /\ Len(kinds') <= MaxYields
  <2>1. Len(kinds') <= MaxYields
    BY <1>3, <1>4, <1>5, Bounds
  <2>2. QED
    BY <1>2, <1>3, <1>4, <2>1 DEF TypeOK
<1>10. RawFollows(taken)'
  BY <1>1, <1>3, <1>4, <1>5 DEF Flow, RawFollows
<1>11. BatchFollows(taken)'
  <2>1. /\ Consecutive(batch, taken - Len(batch)) /\ Deltas(batch)
        /\ batch = << >> \/ todo = << >>
    BY <1>1 DEF Flow, BatchFollows
  <2>2. Deltas(batch)'
    <3>1. CASE batch = << >>
      BY <1>3, <3>1 DEF Deltas
    <3>2. CASE todo = << >>
      <4>1. Before(taken) = taken - Len(batch)
        BY <3>2 DEF Before
      <4>2. PICK b : b = batch
        OBVIOUS
      <4>3. taken - Len(b) \in Nat /\ (taken - Len(b)) + Len(b) <= Len(kinds)
        BY <1>5, <4>1, <4>2
      <4>4. Deltas(b)'
        BY <1>2, <1>7, <2>1, <4>2, <4>3 DEF TypeOK
      <4>5. QED
        BY <1>3, <4>2, <4>4 DEF Deltas
    <3>3. QED
      BY <2>1, <3>1, <3>2
  <2>3. QED
    BY <1>3, <2>1, <2>2 DEF BatchFollows
<1>12. TodoFollows(taken)'
  <2>1. CASE todo = << >>
    BY <1>1, <1>3, <2>1 DEF Flow, TodoFollows
  <2>2. CASE todo # << >>
    <3>1. PICK m : m = todo[1]
      OBVIOUS
    <3>2. Message(m) /\ Consecutive(m, Before(taken)) /\ m \in Seq(Items)
      BY <1>1, <1>5, <2>2, <3>1 DEF Flow, TodoFollows
    <3>3. Before(taken) + Len(m) <= taken
      <4>1. Len(todo) \in Nat /\ Len(todo) # 0 /\ Len(m) \in Nat
        BY <1>1, <1>2, <2>2, <3>1, Positions
      <4>2. Before(taken) = taken - (Len(todo) - 1) - Len(m)
        BY <2>2, <3>1 DEF Before
      <4>3. QED
        BY <1>5, <4>1, <4>2
    <3>4. Before(taken) + Len(m) <= Len(kinds)
      BY <1>5, <3>2, <3>3, LenProperties
    <3>5. Message(m)'
      BY <1>5, <1>7, <3>2, <3>4
    <3>6. QED
      BY <1>1, <1>3, <1>8, <2>2, <3>1, <3>2, <3>5 DEF Flow, TodoFollows
  <2>3. QED
    BY <2>1, <2>2
<1>13. ShownFollows(taken)'
  <2>1. CASE ch = << >>
    BY <1>1, <1>3, <1>8, <2>1 DEF Flow, ShownFollows
  <2>2. CASE ch # << >>
    <3>1. PICK m : m = ch[1]
      OBVIOUS
    <3>2. /\ Message(m) /\ Consecutive(m, Next1(taken)) /\ m \in Seq(Items)
          /\ Next1(taken) + Len(m) <= Before(taken)
      BY <1>1, <1>5, <2>2, <3>1 DEF Flow, ShownFollows
    <3>3. Next1(taken) + Len(m) <= Len(kinds)
      BY <1>5, <3>2, LenProperties
    <3>4. Message(m)'
      BY <1>5, <1>7, <3>2, <3>3
    <3>5. QED
      BY <1>1, <1>3, <1>8, <2>2, <3>1, <3>2, <3>4 DEF Flow, ShownFollows
  <2>3. QED
    BY <2>1, <2>2
<1>14. Finishes(taken)'
  <2>1. ErrorAt(taken) => ErrorAt(taken)'
    BY <1>5, <1>6
  <2>2. QED
    BY <1>1, <1>3, <2>1 DEF Flow, Finishes
<1>15. Ends'
  <2>1. ErrorAt(LastItem(shown))' <=> ErrorAt(LastItem(shown))
    <3>1. PICK n : n = LastItem(shown)
      OBVIOUS
    <3>2. n \in Nat /\ n <= Len(kinds) /\ LastItem(shown)' = n
      BY <1>5, <1>8, <3>1
    <3>3. ErrorAt(n)' <=> ErrorAt(n)
      BY <1>6, <3>2
    <3>4. QED
      BY <3>1, <3>2, <3>3 DEF ErrorAt
  <2>2. QED
    BY <1>2, <1>3, <2>1 DEF Ends
<1>16. taken \in 0 .. Len(kinds')
  BY <1>4, <1>5
<1>17. QED
  BY <1>9, <1>10, <1>11, <1>12, <1>13, <1>14, <1>15, <1>16 DEF IInv, Flow

LEMMA StepInv == IInv /\ [Next]_vars => IInv'
<1> SUFFICES ASSUME IInv, [Next]_vars PROVE IInv'
  OBVIOUS
<1>1. CASE Yield
  BY <1>1, StepYield
<1>2. CASE FeederSends
  BY <1>2, StepFeederSends
<1>3. CASE ReceiveDelta
  BY <1>3, StepReceiveDelta
<1>4. CASE ReceiveOther
  BY <1>4, StepReceiveOther
<1>5. CASE ReceiveEnd \/ Tick
  BY <1>5, StepFlush
<1>6. CASE Send \/ Drop
  BY <1>6, StepSendDrop
<1>7. CASE Handle
  BY <1>7, StepHandle
<1>8. CASE RunnerReturns \/ FeederStops \/ SeesStop \/ Leave \/ HandleDone \/ Stop
             \/ UNCHANGED vars
  BY <1>8, StepFlags
<1>9. QED
  BY <1>1, <1>2, <1>3, <1>4, <1>5, <1>6, <1>7, <1>8 DEF Next, Feeder, Coalescer, Screen

THEOREM Invariance == Spec => []IInv
<1>1. Init => IInv
  BY InitInv
<1>2. IInv /\ [Next]_vars => IInv'
  BY StepInv
<1>3. QED
  BY <1>1, <1>2, PTL DEF Spec

\* No channel or batch outgrows its capacity, and everything in the pump is an
\* item that the runner yielded.
THEOREM TypeCorrect == Spec => []TypeOK
BY Invariance, PTL DEF IInv
-----------------------------------------------------------------------------
(***************************************************************************)
(* Every step is one of StreamDelivery or changes nothing that it sees.    *)
(***************************************************************************)
LEMMA HandleShows == IInv /\ Handle => Delivery!Show
<1> SUFFICES ASSUME IInv, Handle PROVE Delivery!Show
  OBVIOUS
<1>1. PICK taken \in 0 .. Len(kinds) : Flow(taken)
  BY DEF IInv
<1>2. PICK m : m = ch[1]
  OBVIOUS
<1>3. PICK c : c = Next1(taken)
  OBVIOUS
<1>4. /\ m \in Seq(Items) /\ Message(m) /\ Len(m) \in Nat \ {0}
      /\ c \in Nat /\ Consecutive(m, c)
  BY <1>1, <1>2, <1>3, Handles DEF IInv
<1>5. /\ ~ ended /\ UNCHANGED << kinds, stopped >>
      /\ c + Len(m) <= Before(taken) /\ LastItem(shown) <= c
      /\ ~ stopped => LastItem(shown) = c
  BY <1>1, <1>2, <1>3 DEF Handle, runner, Flow, ShownFollows
<1>6. /\ Before(taken) \in Nat /\ Before(taken) <= Len(kinds) /\ Len(kinds) \in Nat
      /\ LastItem(shown) \in Nat
  <2>1. taken <= Len(kinds) /\ taken \in Nat /\ Len(kinds) \in Nat
    BY <1>1, Positions DEF IInv
  <2>2. QED
    BY <1>1, <2>1, Positions DEF IInv
<1> DEFINE size == Len(m)
<1> DEFINE a == c + 1
           b == c + size
<1>7. a \in 1 .. Len(kinds) /\ b \in 1 .. Len(kinds) /\ a <= b /\ b - a + 1 = size
  <2>1. size \in Nat \ {0} /\ c \in Nat /\ c + size <= Before(taken)
    BY <1>4, <1>5
  <2> HIDE DEF size
  <2>2. QED
    BY <1>6, <2>1
<1>8. IF stopped THEN a > LastItem(shown) ELSE a = LastItem(shown) + 1
  BY <1>4, <1>5, <1>6
<1>9. a = b \/ (a < b /\ \A n \in a .. b : kinds[n] = "delta")
  <2>1. CASE Len(m) = 1
    BY <1>4, <2>1
  <2>2. CASE Deltas(m) /\ Len(m) # 1
    <3>1. a < b
      <4>1. size \in Nat \ {0} /\ size # 1 /\ c \in Nat
        BY <1>4, <2>2
      <4> HIDE DEF size
      <4>2. QED
        BY <4>1
    <3>2. ASSUME NEW k \in a .. b PROVE kinds[k] = "delta"
      <4>1. k - c \in 1 .. Len(m) /\ c + (k - c) = k
        BY <1>4, <3>2
      <4>2. m[k - c] = k
        BY <1>4, <4>1 DEF Consecutive
      <4>3. QED
        BY <2>2, <4>1, <4>2 DEF Deltas
    <3>3. QED
      BY <3>1, <3>2
  <2>3. QED
    BY <1>4, <2>1, <2>2 DEF Message
<1>10. m = Delivery!Upto(a, b)
  <2>1. m = [i \in 1 .. Len(m) |-> m[i]]
    BY <1>4
  <2>2. \A i \in 1 .. Len(m) : m[i] = a + i - 1
    BY <1>4 DEF Consecutive
  <2>3. QED
    BY <1>7, <2>1, <2>2 DEF Delivery!Upto
<1>11. shown' = shown \o m /\ ended' = (kinds[a] = "error")
  <2>1. shown' = shown \o m /\ ended' = (kinds[m[1]] = "error")
    BY <1>1, <1>2, <1>3, Handles DEF IInv
  <2>2. m[1] = a
    BY <1>4 DEF Consecutive
  <2>3. QED
    BY <2>1, <2>2
<1> HIDE DEF a, b
<1>12. QED
  BY <1>5, <1>7, <1>8, <1>9, <1>10, <1>11 DEF Delivery!Show, LastItem

LEMMA StepDelivery == IInv /\ [Next]_vars => [Delivery!Next]_Delivery!vars
<1> SUFFICES ASSUME IInv, [Next]_vars PROVE [Delivery!Next]_Delivery!vars
  OBVIOUS
<1>1. CASE Yield
  <2>1. ended => stopped \/ (shown # << >> /\ kinds[LastItem(shown)] = "error")
    <3>1. ended => stopped \/ ErrorAt(LastItem(shown))
      BY <1>1 DEF Yield, IInv, Ends
    <3>2. ErrorAt(LastItem(shown)) => shown # << >>
      BY DEF ErrorAt, LastItem, Delivery!Last
    <3>3. QED
      BY <3>1, <3>2 DEF ErrorAt
  <2>2. Delivery!Yield
    BY <1>1, <2>1 DEF Yield, Delivery!Yield, LastItem
  <2>3. QED
    BY <2>2 DEF Delivery!Next
<1>2. CASE Handle
  BY <1>2, HandleShows DEF Delivery!Next
<1>3. CASE HandleDone
  <2>1. stopped \/ LastItem(shown) = Len(kinds)
    BY <1>3, NothingLeft DEF IInv
  <2>2. Delivery!End
    BY <1>3, <2>1 DEF HandleDone, Delivery!End, runner, LastItem
  <2>3. QED
    BY <2>2 DEF Delivery!Next
<1>4. CASE Stop
  BY <1>4 DEF Stop, runner, Delivery!Stop, Delivery!Next
<1>5. CASE RunnerReturns \/ Feeder \/ Tick \/ ReceiveDelta \/ ReceiveOther \/ ReceiveEnd
             \/ SeesStop \/ Send \/ Drop \/ Leave \/ UNCHANGED vars
  BY <1>5 DEF RunnerReturns, Feeder, FeederSends, FeederStops, Tick, ReceiveDelta,
              ReceiveOther, ReceiveEnd, SeesStop, Send, Drop, Leave, vars, runner,
              Delivery!vars
<1>6. QED
  BY <1>1, <1>2, <1>3, <1>4, <1>5 DEF Next, Coalescer, Screen

\* No item is shown twice, out of order or, unless the run is cancelled, with a
\* gap before it; an event does not overtake the deltas before it; and a run that
\* ends by itself has shown everything, or everything up to its first error.
\* About startStream's two goroutines and waitForADK.
THEOREM DeliveryIsKept == Spec => KeepsDelivery
<1>1. Init => Delivery!Init
  BY DEF Init, Delivery!Init
<1>2. IInv /\ [Next]_vars => [Delivery!Next]_Delivery!vars
  BY StepDelivery
<1>3. QED
  BY <1>1, <1>2, Invariance, PTL DEF Spec, KeepsDelivery, Delivery!Spec

-----------------------------------------------------------------------------
(***************************************************************************)
(* What is sent, and what the client makes of it.                          *)
(***************************************************************************)
PieceSet == Nat \X {1, 2}
CallRec == [id : Nat, name : {"tool", Missing}, args : Seq(PieceSet)]
FinishReasons == {"stop", "length", "tool_calls", Missing}
Reasons == {"STOP", "MAX_TOKENS", "OTHER", "UNSPECIFIED", Missing}

Indices == 0 .. MaxCalls - 1
Frag == [index : Indices, id : Nat, name : {"tool", Missing}, args : Seq(PieceSet)]
Chunk ==
  [kind   : {"chunk"}, content : Seq(Nat), reasoning : Seq(Nat),
   frags  : Seq(Frag), finish : FinishReasons, usage : Nat]
Line == Chunk \cup [kind : {"usage"}, usage : Nat] \cup [kind : {"junk", "error", "done"}]

Answered ==
  [content : Seq(Nat), reasoning : Seq(Nat), calls : Seq(CallRec), finish : FinishReasons,
   usage : Nat]
Built ==
  [content : Seq(Nat), reasoning : Seq(Nat), order : Seq(Indices),
   call : [Indices -> CallRec], finish : Reasons, usage : Nat]

\* What is left out is no name and no reason.
LEMMA MissingIs ==
  /\ "tool" # Missing /\ "stop" # Missing /\ "length" # Missing /\ "tool_calls" # Missing
BY DEF Missing

LEMMA ReasonIs ==
  ASSUME NEW r \in FinishReasons \ {Missing}
  PROVE  mapFinishReason(r) \in Reasons \ {Missing}
<1>1. /\ "STOP" # Missing /\ "MAX_TOKENS" # Missing /\ "OTHER" # Missing
  BY DEF Missing
<1>2. /\ r = "stop" => mapFinishReason(r) = "STOP"
      /\ r = "length" => mapFinishReason(r) = "MAX_TOKENS"
      /\ r = "tool_calls" => mapFinishReason(r) = "OTHER"
  <2>1. CASE r = "stop"
    BY <2>1 DEF mapFinishReason
  <2>2. CASE r = "length"
    BY <2>2 DEF mapFinishReason
  <2>3. CASE r = "tool_calls"
    BY <2>3, MissingIs DEF mapFinishReason
  <2>4. QED
    BY <2>1, <2>2, <2>3
<1>3. r \in {"stop", "length", "tool_calls"}
  BY DEF FinishReasons
<1>4. QED
  BY <1>1, <1>2, <1>3 DEF Reasons

LEMMA AddCallType ==
  ASSUME NEW a \in Built, NEW f \in Frag
  PROVE  /\ AddCall(a, f) \in Built
         /\ AddCall(a, f).content = a.content /\ AddCall(a, f).reasoning = a.reasoning
         /\ AddCall(a, f).finish = a.finish /\ AddCall(a, f).usage = a.usage
<1>1. /\ f.index \in Indices /\ f.id \in Nat /\ f.name \in {"tool", Missing}
      /\ f.args \in Seq(PieceSet)
  BY DEF Frag
<1>2. PICK old : old = a.call[f.index]
  OBVIOUS
<1>3. old \in CallRec
  BY <1>1, <1>2 DEF Built
<1>4. PICK one : one = [id   |-> IF f.id = 0 THEN old.id ELSE f.id,
                        name |-> IF f.name = Missing THEN old.name ELSE f.name,
                        args |-> old.args \o f.args]
  OBVIOUS
<1>5. one \in CallRec
  <2>1. old.args \o f.args \in Seq(PieceSet)
    BY <1>1, <1>3, ConcatProperties DEF CallRec
  <2>2. QED
    BY <1>1, <1>3, <1>4, <2>1 DEF CallRec
<1>6. PICK order : order = IF \E i \in DOMAIN a.order : a.order[i] = f.index THEN a.order
                           ELSE Append(a.order, f.index)
  OBVIOUS
<1>7. order \in Seq(Indices)
  <2>1. a.order \in Seq(Indices)
    BY DEF Built
  <2>2. Append(a.order, f.index) \in Seq(Indices)
    BY <1>1, <2>1, AppendProperties
  <2>3. QED
    BY <1>6, <2>1, <2>2
<1>8. PICK known : known = [a.call EXCEPT ![f.index] = one]
  OBVIOUS
<1>9. known \in [Indices -> CallRec]
  BY <1>1, <1>5, <1>8 DEF Built
<1>10. AddCall(a, f) = [a EXCEPT !.order = order, !.call = known]
  BY <1>2, <1>4, <1>6, <1>8 DEF AddCall
<1>11. QED
  BY <1>7, <1>9, <1>10 DEF Built

\* AddCall, along a sequence.
AddCallFold(base, E) == [s \in Seq(E) |-> FoldLeft(AddCall, base, s)]

AddCallDoes(V, E) == [q \in V \X E |-> AddCall(q[1], q[2])]

LEMMA AddCallFolds ==
  ASSUME NEW V, NEW E, NEW base \in V,
         \A v \in V : \A e \in E : AddCall(v, e) \in V
  PROVE  FoldLaws(AddCallFold(base, E), AddCallDoes(V, E), base, V, E)
<1>1. ASSUME NEW s \in Seq(E)
      PROVE  \E g : /\ Traced(g, V, base, Along(AddCallDoes(V, E), V, s, Len(s)), Len(s))
                    /\ FoldLeft(AddCall, base, s) = g[Len(s)]
  <2>1. PICK n : n = Len(s)
    OBVIOUS
  <2>2. n \in Nat /\ DOMAIN s = 1 .. n /\ \A i \in 1 .. n : s[i] \in E
    BY <2>1, LenProperties, ElementOfSeq
  <2> DEFINE step == Along(AddCallDoes(V, E), V, s, n)
             It(f) == f = [t \in SUBSET (1 .. n) |->
                             IF t = {} THEN base ELSE AddCall(f[t \ {Max(t)}], s[Max(t)])]
  <2>3. \A v \in V : \A k \in 1 .. n : step[<< v, k >>] = AddCall(v, s[k])
    BY <2>2 DEF Along, AddCallDoes
  <2>4. step \in [V \X (1 .. n) -> V]
    BY <2>2 DEF Along, AddCallDoes
  <2> HIDE DEF step
  <2>5. \E f : It(f)
    <3>1. PICK f \in [SUBSET (1 .. n) -> V] : Iterates(f, base, step, n)
      BY <2>2, <2>4, IteratesExists
    <3>2. ASSUME NEW t \in SUBSET (1 .. n), t # {}
          PROVE  step[<< f[t \ {Max(t)}], Max(t) >>] = AddCall(f[t \ {Max(t)}], s[Max(t)])
      <4>1. Max(t) \in 1 .. n
        BY <2>2, <3>2, MaxFound
      <4>2. f[t \ {Max(t)}] \in V
        OBVIOUS
      <4>3. QED
        BY <2>3, <4>1, <4>2
    <3>3. It(f)
      BY <3>1, <3>2 DEF Iterates
    <3>4. QED
      BY <3>3
  <2>6. \E f : It(f) /\ FoldLeft(AddCall, base, s) = f[1 .. n]
    BY <2>2, <2>5 DEF FoldLeft, MapThenFoldSet
  <2>7. PICK f : It(f) /\ FoldLeft(AddCall, base, s) = f[1 .. n]
    BY <2>6
  <2>8. f[{}] = base
    BY <2>7
  <2>9. ASSUME NEW k \in 1 .. n, f[1 .. k - 1] \in V
        PROVE  f[1 .. k] = step[<< f[1 .. k - 1], k >>]
    <3>1. 1 .. k \in SUBSET (1 .. n) /\ 1 .. k # {} /\ k \in Nat /\ k # 0
      BY <2>2, UpTo
    <3>2. Max(1 .. k) = k /\ (1 .. k) \ {k} = 1 .. k - 1
      BY <3>1, MaxUpTo
    <3>3. f[1 .. k] = AddCall(f[1 .. k - 1], s[k])
      BY <2>7, <3>1, <3>2
    <3>4. QED
      BY <2>3, <2>9, <3>3
  <2> DEFINE g == [k \in 0 .. n |-> f[1 .. k]]
  <2> HIDE DEF It
  <2>10. Traced(g, V, base, step, n)
    BY <2>2, <2>4, <2>8, <2>9, TracedBy
  <2>11. g[n] = f[1 .. n]
    BY <2>2
  <2> HIDE DEF g
  <2>12. QED
    BY <2>1, <2>7, <2>10, <2>11 DEF step
<1>2. FoldsAs(AddCallFold(base, E), AddCallDoes(V, E), base, V, E)
  BY <1>1 DEF FoldsAs, AddCallFold
<1>3. QED
  BY <1>2, FoldObeys

\* What the fragments of a chunk leave alone.
LEMMA FragsKeep ==
  ASSUME NEW a \in Built, NEW fs \in Seq(Frag), NEW b, b = FoldLeft(AddCall, a, fs)
  PROVE  b \in Built /\ b.content = a.content /\ b.reasoning = a.reasoning
         /\ b.finish = a.finish /\ b.usage = a.usage
<1> DEFINE F == AddCallFold(a, Frag)
           op == AddCallDoes(Built, Frag)
<1>1. FoldLaws(F, op, a, Built, Frag)
  BY AddCallType, AddCallFolds
<1>2. \A s \in Seq(Frag) : F[s] = FoldLeft(AddCall, a, s)
  BY DEF AddCallFold
<1>3. \A v \in Built : \A e \in Frag : op[<< v, e >>] = AddCall(v, e)
  BY DEF AddCallDoes
<1> HIDE DEF F, op
<1> DEFINE T == { s \in Seq(Frag) : /\ F[s].content = a.content /\ F[s].reasoning = a.reasoning
                                    /\ F[s].finish = a.finish /\ F[s].usage = a.usage }
<1>4. << >> \in T
  BY <1>1, EmptySeq DEF FoldLaws
<1>5. ASSUME NEW s \in Seq(Frag), NEW e \in Frag, s \in T PROVE Append(s, e) \in T
  <2>1. F[s] \in Built /\ F[Append(s, e)] = AddCall(F[s], e)
    BY <1>1, <1>3 DEF FoldLaws
  <2>2. Append(s, e) \in Seq(Frag)
    BY AppendProperties
  <2>3. QED
    BY <1>5, <2>1, <2>2, AddCallType
<1> HIDE DEF T
<1>6. fs \in T
  BY <1>4, <1>5, SeqInductive
<1>7. F[fs] \in Built /\ F[fs] = b
  BY <1>1, <1>2 DEF FoldLaws
<1>8. QED
  BY <1>6, <1>7 DEF T

\* A chunk without a call, or with one fragment of one.
LEMMA FragsFew ==
  ASSUME NEW a \in Built
  PROVE  /\ FoldLeft(AddCall, a, << >>) = a
         /\ \A f \in Frag : FoldLeft(AddCall, a, << f >>) = AddCall(a, f)
<1> DEFINE F == AddCallFold(a, Frag)
           op == AddCallDoes(Built, Frag)
<1>1. FoldLaws(F, op, a, Built, Frag)
  BY AddCallType, AddCallFolds
<1>2. \A s \in Seq(Frag) : F[s] = FoldLeft(AddCall, a, s)
  BY DEF AddCallFold
<1>3. \A v \in Built : \A e \in Frag : op[<< v, e >>] = AddCall(v, e)
  BY DEF AddCallDoes
<1> HIDE DEF F, op
<1>4. PICK none : none = << >>
  OBVIOUS
<1>5. none \in Seq(Frag) /\ F[none] = a
  BY <1>1, <1>4, EmptySeq DEF FoldLaws
<1>6. ASSUME NEW f \in Frag PROVE FoldLeft(AddCall, a, << f >>) = AddCall(a, f)
  <2>1. PICK one : one = << f >>
    OBVIOUS
  <2>2. one = Append(none, f) /\ one \in Seq(Frag)
    BY <1>4, <2>1
  <2>3. F[one] = AddCall(a, f)
    BY <1>1, <1>3, <1>5, <2>2 DEF FoldLaws
  <2>4. QED
    BY <1>2, <2>1, <2>2, <2>3
<1>7. QED
  BY <1>2, <1>4, <1>5, <1>6

-----------------------------------------------------------------------------
(***************************************************************************)
(* What the client will have built when it has read what is on its way.    *)
(***************************************************************************)
Gained(a, c) ==
  LET text == [a EXCEPT !.content = @ \o c.content]
  IN  [text EXCEPT !.reasoning = @ \o c.reasoning]

TakenChunk(a, c) ==
  LET rest == FoldLeft(AddCall, Gained(a, c), c.frags)
  IN  IF c.finish = Missing THEN rest ELSE [rest EXCEPT !.finish = mapFinishReason(c.finish)]

\* A line that is read to its end.
Taken(a, l) ==
  IF l.kind = "chunk" THEN TakenChunk(a, l)
  ELSE IF l.kind = "usage" THEN [a EXCEPT !.usage = l.usage] ELSE a

Ahead(a, lines) == FoldLeft(Taken, a, lines)

GainedAs(a, c, g) ==
  /\ g \in Built /\ g.content = a.content \o c.content
  /\ g.reasoning = a.reasoning \o c.reasoning
  /\ g.order = a.order /\ g.call = a.call /\ g.finish = a.finish /\ g.usage = a.usage

LEMMA GainedType ==
  ASSUME NEW a \in Built, NEW c \in Chunk, NEW g, g = Gained(a, c)
  PROVE  GainedAs(a, c, g)
<1>1. PICK x, y : x = a.content \o c.content /\ y = a.reasoning \o c.reasoning
  OBVIOUS
<1>2. x \in Seq(Nat) /\ y \in Seq(Nat)
  BY <1>1, ConcatProperties DEF Built, Chunk
<1>3. g = [a EXCEPT !.content = x, !.reasoning = y]
  BY <1>1 DEF Gained, Built
<1>4. QED
  BY <1>1, <1>2, <1>3 DEF Built, GainedAs

LEMMA TakenChunkType ==
  ASSUME NEW a \in Built, NEW c \in Chunk, NEW t, t = TakenChunk(a, c)
  PROVE  /\ t \in Built /\ t.content = a.content \o c.content
         /\ t.reasoning = a.reasoning \o c.reasoning /\ t.usage = a.usage
         /\ t.finish = IF c.finish = Missing THEN a.finish ELSE mapFinishReason(c.finish)
<1>1. PICK g, rest : g = Gained(a, c) /\ rest = FoldLeft(AddCall, g, c.frags)
  OBVIOUS
<1>2. /\ g \in Built /\ g.content = a.content \o c.content
      /\ g.reasoning = a.reasoning \o c.reasoning /\ g.finish = a.finish /\ g.usage = a.usage
  BY <1>1, GainedType DEF GainedAs
<1>3. c.frags \in Seq(Frag) /\ c.finish \in FinishReasons
  BY DEF Chunk
<1>4. rest \in Built /\ rest.content = g.content /\ rest.reasoning = g.reasoning
      /\ rest.finish = g.finish /\ rest.usage = g.usage
  BY <1>1, <1>2, <1>3, FragsKeep
<1>5. t = IF c.finish = Missing THEN rest ELSE [rest EXCEPT !.finish = mapFinishReason(c.finish)]
  BY <1>1 DEF TakenChunk
<1>6. CASE c.finish = Missing
  BY <1>2, <1>4, <1>5, <1>6
<1>7. CASE c.finish # Missing
  <2>1. PICK r : r = mapFinishReason(c.finish)
    OBVIOUS
  <2>2. r \in Reasons
    BY <1>3, <1>7, <2>1, ReasonIs
  <2>3. t = [rest EXCEPT !.finish = r]
    BY <1>5, <1>7, <2>1
  <2>4. QED
    BY <1>2, <1>4, <1>7, <2>1, <2>2, <2>3 DEF Built
<1>8. QED
  BY <1>6, <1>7

LEMMA LineIs ==
  ASSUME NEW l \in Line
  PROVE  /\ l.kind = "chunk" => l \in Chunk
         /\ l.kind = "usage" => l.usage \in Nat
         /\ l.kind \in {"chunk", "usage", "junk", "error", "done"}
BY DEF Line, Chunk

LEMMA TakenType ==
  ASSUME NEW a \in Built, NEW l \in Line
  PROVE  Taken(a, l) \in Built
<1>1. CASE l.kind = "chunk"
  BY <1>1, LineIs, TakenChunkType DEF Taken
<1>2. CASE l.kind = "usage"
  <2>1. PICK u : u = l.usage
    OBVIOUS
  <2>2. u \in Nat
    BY <1>2, <2>1, LineIs
  <2>3. Taken(a, l) = [a EXCEPT !.usage = u]
    BY <1>2, <2>1 DEF Taken
  <2>4. QED
    BY <2>2, <2>3 DEF Built
<1>3. CASE l.kind \notin {"chunk", "usage"}
  BY <1>3 DEF Taken
<1>4. QED
  BY <1>1, <1>2, <1>3

\* Taken, along a sequence.
TakenFold(base, E) == [s \in Seq(E) |-> FoldLeft(Taken, base, s)]

TakenDoes(V, E) == [q \in V \X E |-> Taken(q[1], q[2])]

LEMMA TakenFolds ==
  ASSUME NEW V, NEW E, NEW base \in V,
         \A v \in V : \A e \in E : Taken(v, e) \in V
  PROVE  FoldLaws(TakenFold(base, E), TakenDoes(V, E), base, V, E)
<1>1. ASSUME NEW s \in Seq(E)
      PROVE  \E g : /\ Traced(g, V, base, Along(TakenDoes(V, E), V, s, Len(s)), Len(s))
                    /\ FoldLeft(Taken, base, s) = g[Len(s)]
  <2>1. PICK n : n = Len(s)
    OBVIOUS
  <2>2. n \in Nat /\ DOMAIN s = 1 .. n /\ \A i \in 1 .. n : s[i] \in E
    BY <2>1, LenProperties, ElementOfSeq
  <2> DEFINE step == Along(TakenDoes(V, E), V, s, n)
             It(f) == f = [t \in SUBSET (1 .. n) |->
                             IF t = {} THEN base ELSE Taken(f[t \ {Max(t)}], s[Max(t)])]
  <2>3. \A v \in V : \A k \in 1 .. n : step[<< v, k >>] = Taken(v, s[k])
    BY <2>2 DEF Along, TakenDoes
  <2>4. step \in [V \X (1 .. n) -> V]
    BY <2>2 DEF Along, TakenDoes
  <2> HIDE DEF step
  <2>5. \E f : It(f)
    <3>1. PICK f \in [SUBSET (1 .. n) -> V] : Iterates(f, base, step, n)
      BY <2>2, <2>4, IteratesExists
    <3>2. ASSUME NEW t \in SUBSET (1 .. n), t # {}
          PROVE  step[<< f[t \ {Max(t)}], Max(t) >>] = Taken(f[t \ {Max(t)}], s[Max(t)])
      <4>1. Max(t) \in 1 .. n
        BY <2>2, <3>2, MaxFound
      <4>2. f[t \ {Max(t)}] \in V
        OBVIOUS
      <4>3. QED
        BY <2>3, <4>1, <4>2
    <3>3. It(f)
      BY <3>1, <3>2 DEF Iterates
    <3>4. QED
      BY <3>3
  <2>6. \E f : It(f) /\ FoldLeft(Taken, base, s) = f[1 .. n]
    BY <2>2, <2>5 DEF FoldLeft, MapThenFoldSet
  <2>7. PICK f : It(f) /\ FoldLeft(Taken, base, s) = f[1 .. n]
    BY <2>6
  <2>8. f[{}] = base
    BY <2>7
  <2>9. ASSUME NEW k \in 1 .. n, f[1 .. k - 1] \in V
        PROVE  f[1 .. k] = step[<< f[1 .. k - 1], k >>]
    <3>1. 1 .. k \in SUBSET (1 .. n) /\ 1 .. k # {} /\ k \in Nat /\ k # 0
      BY <2>2, UpTo
    <3>2. Max(1 .. k) = k /\ (1 .. k) \ {k} = 1 .. k - 1
      BY <3>1, MaxUpTo
    <3>3. f[1 .. k] = Taken(f[1 .. k - 1], s[k])
      BY <2>7, <3>1, <3>2
    <3>4. QED
      BY <2>3, <2>9, <3>3
  <2> DEFINE g == [k \in 0 .. n |-> f[1 .. k]]
  <2> HIDE DEF It
  <2>10. Traced(g, V, base, step, n)
    BY <2>2, <2>4, <2>8, <2>9, TracedBy
  <2>11. g[n] = f[1 .. n]
    BY <2>2
  <2> HIDE DEF g
  <2>12. QED
    BY <2>1, <2>7, <2>10, <2>11 DEF step
<1>2. FoldsAs(TakenFold(base, E), TakenDoes(V, E), base, V, E)
  BY <1>1 DEF FoldsAs, TakenFold
<1>3. QED
  BY <1>2, FoldObeys

LEMMA AheadLaws ==
  ASSUME NEW a \in Built
  PROVE  /\ Ahead(a, << >>) = a
         /\ \A s \in Seq(Line) : Ahead(a, s) \in Built
         /\ \A s \in Seq(Line) : \A l \in Line : Ahead(a, Append(s, l)) = Taken(Ahead(a, s), l)
<1> DEFINE F == TakenFold(a, Line)
           op == TakenDoes(Built, Line)
<1>1. FoldLaws(F, op, a, Built, Line)
  BY TakenType, TakenFolds
<1>2. \A s \in Seq(Line) : F[s] = Ahead(a, s)
  BY DEF TakenFold, Ahead
<1>3. \A v \in Built : \A l \in Line : op[<< v, l >>] = Taken(v, l)
  BY DEF TakenDoes
<1> HIDE DEF F, op
<1>4. PICK none : none = << >>
  OBVIOUS
<1>5. none \in Seq(Line) /\ F[none] = a
  BY <1>1, <1>4, EmptySeq DEF FoldLaws
<1>6. Ahead(a, << >>) = a
  BY <1>2, <1>4, <1>5
<1>7. ASSUME NEW s \in Seq(Line) PROVE Ahead(a, s) \in Built
  BY <1>1, <1>2 DEF FoldLaws
<1>8. ASSUME NEW s \in Seq(Line), NEW l \in Line
      PROVE  Ahead(a, Append(s, l)) = Taken(Ahead(a, s), l)
  <2>1. PICK t : t = Append(s, l)
    OBVIOUS
  <2>2. t \in Seq(Line) /\ F[s] \in Built
    BY <1>1, <2>1, AppendProperties DEF FoldLaws
  <2>3. F[t] = Taken(F[s], l)
    BY <1>1, <1>3, <2>1, <2>2 DEF FoldLaws
  <2>4. QED
    BY <1>2, <2>1, <2>2, <2>3
<1>9. QED
  BY <1>6, <1>7, <1>8

\* Reading the first line leaves what will have been built.
LEMMA AheadFirst ==
  ASSUME NEW a \in Built, NEW l \in Line, NEW s \in Seq(Line)
  PROVE  Ahead(a, << l >> \o s) = Ahead(Taken(a, l), s)
<1>1. PICK b : b = Taken(a, l)
  OBVIOUS
<1>2. b \in Built
  BY <1>1, TakenType
<1> DEFINE T == { t \in Seq(Line) : Ahead(a, << l >> \o t) = Ahead(b, t) }
<1>3. << >> \in T
  <2>1. PICK one, none : one = << l >> /\ none = << >>
    OBVIOUS
  <2>2. one = Append(none, l) /\ one \in Seq(Line) /\ none \in Seq(Line)
    BY <2>1
  <2>3. one \o none = one
    BY <2>1, <2>2, ConcatEmptySeq
  <2>4. Ahead(a, one) = Taken(Ahead(a, none), l) /\ Ahead(a, none) = a /\ Ahead(b, none) = b
    <3>1. Ahead(a, << >>) = a /\ Ahead(b, << >>) = b
      BY <1>2, AheadLaws
    <3>2. Ahead(a, none) = a /\ Ahead(b, none) = b
      BY <2>1, <3>1
    <3>3. Ahead(a, Append(none, l)) = Taken(Ahead(a, none), l)
      BY <2>2, AheadLaws
    <3>4. QED
      BY <2>2, <3>2, <3>3
  <2>5. Ahead(a, one \o none) = Ahead(b, none)
    BY <1>1, <2>3, <2>4
  <2>6. Ahead(a, << l >> \o none) = Ahead(b, none)
    BY <2>1, <2>5
  <2>7. none \in T
    BY <2>2, <2>6
  <2> HIDE DEF T
  <2>8. QED
    BY <2>1, <2>7
<1>4. ASSUME NEW t \in Seq(Line), NEW e \in Line, t \in T PROVE Append(t, e) \in T
  <2>1. PICK one, more, long : one = << l >> /\ more = Append(t, e) /\ long = one \o t
    OBVIOUS
  <2>2. one \in Seq(Line) /\ more \in Seq(Line) /\ long \in Seq(Line)
    <3>1. one \in Seq(Line) /\ more \in Seq(Line)
      BY <2>1, AppendProperties
    <3>2. QED
      BY <2>1, <3>1, ConcatProperties
  <2>3. one \o more = Append(long, e)
    BY <2>1, <2>2
  <2>4. Ahead(a, Append(long, e)) = Taken(Ahead(a, long), e)
    BY <2>2, AheadLaws
  <2>5. Ahead(b, more) = Taken(Ahead(b, t), e)
    BY <1>2, <2>1, AheadLaws
  <2>6. Ahead(a, long) = Ahead(b, t)
    BY <1>4, <2>1
  <2>7. QED
    BY <2>1, <2>2, <2>3, <2>4, <2>5, <2>6
<1> HIDE DEF T
<1>5. s \in T
  BY <1>3, <1>4, SeqInductive
<1>6. QED
  BY <1>1, <1>5 DEF T

LEMMA AheadHead ==
  ASSUME NEW a \in Built, NEW s \in Seq(Line), s # << >>
  PROVE  /\ Head(s) \in Line /\ Tail(s) \in Seq(Line)
         /\ Ahead(Taken(a, Head(s)), Tail(s)) = Ahead(a, s)
<1>1. PICK h, t : h = Head(s) /\ t = Tail(s)
  OBVIOUS
<1>2. h \in Line /\ t \in Seq(Line) /\ s = << h >> \o t
  <2>1. h \in Line /\ t \in Seq(Line)
    BY <1>1, HeadTailProperties
  <2>2. s = << h >> \o t
    <3>1. PICK one, u : one = << h >> /\ u = one \o t
      OBVIOUS
    <3>2. one \in Seq(Line) /\ Len(one) = 1 /\ one[1] = h
      BY <2>1, <3>1
    <3>3. /\ Len(s) \in Nat /\ Len(s) # 0 /\ Len(t) = Len(s) - 1 /\ h = s[1]
          /\ \A i \in 1 .. Len(t) : t[i] = s[i + 1]
      <4>1. Len(s) \in Nat /\ Len(s) # 0
        BY EmptySeq, LenProperties
      <4>2. Len(t) = Len(s) - 1 /\ \A i \in 1 .. Len(t) : t[i] = s[i + 1]
        BY <1>1, HeadTailProperties
      <4>3. h = s[1]
        BY <1>1
      <4>4. QED
        BY <4>1, <4>2, <4>3
    <3>4. /\ u \in Seq(Line) /\ Len(u) = Len(one) + Len(t)
          /\ \A i \in 1 .. Len(one) + Len(t) :
               u[i] = IF i <= Len(one) THEN one[i] ELSE t[i - Len(one)]
      BY <2>1, <3>1, <3>2, ConcatProperties
    <3>5. Len(u) = Len(s)
      BY <3>2, <3>3, <3>4
    <3>6. ASSUME NEW i \in 1 .. Len(s) PROVE u[i] = s[i]
      <4>1. CASE i = 1
        BY <3>2, <3>3, <3>4, <4>1
      <4>2. CASE i # 1
        <5>1. i - 1 \in 1 .. Len(t) /\ i \in 1 .. Len(one) + Len(t) /\ ~ (i <= 1)
          BY <3>2, <3>3, <4>2
        <5>2. u[i] = t[i - 1]
          BY <3>2, <3>4, <5>1
        <5>3. t[i - 1] = s[i - 1 + 1]
          BY <3>3, <5>1
        <5>4. i - 1 + 1 = i
          OBVIOUS
        <5>5. QED
          BY <5>2, <5>3, <5>4
      <4>3. QED
        BY <4>1, <4>2
    <3>7. s = u
      BY <3>4, <3>5, <3>6, SeqEqual
    <3>8. QED
      BY <3>1, <3>7
  <2>3. QED
    BY <2>1, <2>2
<1>3. Ahead(a, << h >> \o t) = Ahead(Taken(a, h), t)
  BY <1>2, AheadFirst
<1>4. QED
  BY <1>1, <1>2, <1>3

-----------------------------------------------------------------------------
(***************************************************************************)
(* What has been built of an answer, and what the server adds to both.     *)
(***************************************************************************)
NoCall == [id |-> 0, name |-> Missing, args |-> << >>]

Represents(a, ans) ==
  /\ a.content = ans.content /\ a.reasoning = ans.reasoning /\ a.usage = ans.usage
  /\ a.finish = IF ans.finish = Missing THEN Missing ELSE mapFinishReason(ans.finish)
  /\ Len(ans.calls) <= MaxCalls /\ Len(a.order) = Len(ans.calls)
  /\ \A i \in 1 .. Len(ans.calls) : /\ a.order[i] = i - 1 /\ a.call[i - 1] = ans.calls[i]
                                    /\ ans.calls[i].name = "tool"
  /\ \A i \in Indices : Len(ans.calls) <= i => a.call[i] = NoCall

LEMMA NothingBuilt ==
  /\ NoAcc \in Built /\ NoAnswer \in Answered /\ Represents(NoAcc, NoAnswer)
<1>1. PICK none : none = << >>
  OBVIOUS
<1>2. /\ none \in Seq(Nat) /\ none \in Seq(Indices) /\ none \in Seq(CallRec)
      /\ none \in Seq(PieceSet) /\ Len(none) = 0
  BY <1>1, EmptySeq
<1>3. PICK one : one = NoCall
  OBVIOUS
<1>4. one \in CallRec /\ one = [id |-> 0, name |-> Missing, args |-> none]
  BY <1>1, <1>2, <1>3 DEF NoCall, CallRec
<1>5. PICK known : known = [i \in Indices |-> one]
  OBVIOUS
<1>6. /\ NoAcc = [content |-> none, reasoning |-> none, order |-> none, call |-> known,
                  finish |-> Missing, usage |-> 0]
      /\ NoAnswer = [content |-> none, reasoning |-> none, calls |-> none, finish |-> Missing,
                     usage |-> 0]
  BY <1>1, <1>4, <1>5 DEF NoAcc, NoAnswer, Indices
<1>7. NoAcc \in Built /\ NoAnswer \in Answered
  BY <1>2, <1>4, <1>5, <1>6 DEF Built, Answered, Reasons, FinishReasons
<1>8. MaxCalls \in Nat
  BY StreamAssumption
<1>9. Represents(NoAcc, NoAnswer)
  BY <1>2, <1>3, <1>5, <1>6, <1>8 DEF Represents
<1>10. QED
  BY <1>7, <1>9

\* A chunk that says only this.
ChunkOf(x, y, fs, r) == [kind |-> "chunk", content |-> x, reasoning |-> y, frags |-> fs,
                         finish |-> r, usage |-> 0]

LEMMA ChunkIs ==
  ASSUME NEW x \in Seq(Nat), NEW y \in Seq(Nat), NEW fs \in Seq(Frag), NEW r \in FinishReasons
  PROVE  ChunkOf(x, y, fs, r) \in Chunk /\ ChunkOf(x, y, fs, r) \in Line
BY DEF ChunkOf, Chunk, Line

\* The chunk of a text and a thought, as the server makes it.
TextLine(x, y) == [EmptyChunk EXCEPT !.content = x, !.reasoning = y]

LEMMA SentAre ==
  ASSUME NEW none, none = << >>
  PROVE  /\ \A x, y : TextLine(x, y) = ChunkOf(x, y, none, Missing)
         /\ \A fs : [EmptyChunk EXCEPT !.frags = fs] = ChunkOf(none, none, fs, Missing)
         /\ \A r : [EmptyChunk EXCEPT !.finish = r] = ChunkOf(none, none, none, r)
<1>1. PICK e : e = EmptyChunk
  OBVIOUS
<1>2. e = [kind |-> "chunk", content |-> none, reasoning |-> none, frags |-> none,
           finish |-> Missing, usage |-> 0]
  BY <1>1 DEF EmptyChunk
<1>3. ASSUME NEW x, NEW y
      PROVE  [e EXCEPT !.content = x, !.reasoning = y] = ChunkOf(x, y, none, Missing)
  <2>1. [e EXCEPT !.content = x] = ChunkOf(x, none, none, Missing)
    BY <1>2 DEF ChunkOf
  <2>2. PICK f : f = ChunkOf(x, none, none, Missing)
    OBVIOUS
  <2>3. [f EXCEPT !.reasoning = y] = ChunkOf(x, y, none, Missing)
    BY <2>2 DEF ChunkOf
  <2>4. QED
    BY <1>2, <2>1, <2>2, <2>3
<1>4. ASSUME NEW fs PROVE [e EXCEPT !.frags = fs] = ChunkOf(none, none, fs, Missing)
  BY <1>2 DEF ChunkOf
<1>5. ASSUME NEW r PROVE [e EXCEPT !.finish = r] = ChunkOf(none, none, none, r)
  BY <1>2 DEF ChunkOf
<1>6. \A x, y : TextLine(x, y) = ChunkOf(x, y, none, Missing)
  BY <1>1, <1>3 DEF TextLine
<1>7. QED
  BY <1>1, <1>4, <1>5, <1>6

LEMMA TextSent ==
  ASSUME NEW a \in Built, NEW ans \in Answered, NEW x \in Seq(Nat), NEW y \in Seq(Nat),
         NEW none, none = << >>, NEW l, l = ChunkOf(x, y, none, Missing),
         NEW m, m = [ans EXCEPT !.content = @ \o x, !.reasoning = @ \o y]
  PROVE  /\ l \in Line /\ m \in Answered
         /\ Represents(a, ans) => Represents(Taken(a, l), m)
<1>1. none \in Seq(Frag) /\ Missing \in FinishReasons
  BY EmptySeq DEF FinishReasons
<1>2. l \in Chunk /\ l \in Line
  BY <1>1, ChunkIs
<1>3. PICK g : g = Gained(a, l)
  OBVIOUS
<1>4. /\ g \in Built /\ g.content = a.content \o x /\ g.reasoning = a.reasoning \o y
      /\ g.order = a.order /\ g.call = a.call /\ g.finish = a.finish /\ g.usage = a.usage
  <2>1. l.content = x /\ l.reasoning = y
    BY DEF ChunkOf
  <2>2. GainedAs(a, l, g)
    BY <1>2, <1>3, GainedType
  <2>3. QED
    BY <2>1, <2>2 DEF GainedAs
<1>5. FoldLeft(AddCall, g, none) = g
  BY <1>4, FragsFew
<1>6. Taken(a, l) = g
  BY <1>3, <1>5 DEF Taken, TakenChunk, ChunkOf
<1>7. PICK u, v : u = ans.content \o x /\ v = ans.reasoning \o y
  OBVIOUS
<1>8. u \in Seq(Nat) /\ v \in Seq(Nat)
  BY <1>7, ConcatProperties DEF Answered
<1>9. m = [ans EXCEPT !.content = u, !.reasoning = v]
  BY <1>7
<1>10. m \in Answered /\ m.content = u /\ m.reasoning = v /\ m.calls = ans.calls
       /\ m.finish = ans.finish /\ m.usage = ans.usage
  BY <1>8, <1>9 DEF Answered
<1>11. ASSUME Represents(a, ans) PROVE Represents(g, m)
  BY <1>4, <1>7, <1>10, <1>11 DEF Represents
<1>12. QED
  BY <1>2, <1>6, <1>10, <1>11

LEMMA FinishSent ==
  ASSUME NEW a \in Built, NEW ans \in Answered, NEW r \in FinishReasons \ {Missing},
         NEW none, none = << >>, NEW l, l = ChunkOf(none, none, none, r),
         NEW m, m = [ans EXCEPT !.finish = r]
  PROVE  /\ l \in Line /\ m \in Answered
         /\ Represents(a, ans) => Represents(Taken(a, l), m)
<1>1. none \in Seq(Frag) /\ none \in Seq(Nat)
  BY EmptySeq
<1>2. l \in Chunk /\ l \in Line
  BY <1>1, ChunkIs
<1>3. PICK g : g = Gained(a, l)
  OBVIOUS
<1>4. /\ g \in Built /\ g.content = a.content \o none /\ g.reasoning = a.reasoning \o none
      /\ g.order = a.order /\ g.call = a.call /\ g.finish = a.finish /\ g.usage = a.usage
  <2>1. l.content = none /\ l.reasoning = none
    BY DEF ChunkOf
  <2>2. GainedAs(a, l, g)
    BY <1>2, <1>3, GainedType
  <2>3. QED
    BY <2>1, <2>2 DEF GainedAs
<1>5. g.content = a.content /\ g.reasoning = a.reasoning
  <2>1. a.content \in Seq(Nat) /\ a.reasoning \in Seq(Nat)
    BY DEF Built
  <2>2. a.content \o << >> = a.content /\ a.reasoning \o << >> = a.reasoning
    BY <2>1, ConcatEmptySeq
  <2>3. QED
    BY <1>4, <2>2
<1>6. FoldLeft(AddCall, g, none) = g
  BY <1>4, FragsFew
<1>7. PICK reason : reason = mapFinishReason(r)
  OBVIOUS
<1>8. Taken(a, l) = [g EXCEPT !.finish = reason]
  BY <1>3, <1>6, <1>7 DEF Taken, TakenChunk, ChunkOf
<1>9. m \in Answered /\ m.content = ans.content /\ m.reasoning = ans.reasoning
       /\ m.calls = ans.calls /\ m.finish = r /\ m.usage = ans.usage
  BY DEF Answered
<1>10. PICK t : t = Taken(a, l)
  OBVIOUS
<1>11. /\ t.content = a.content /\ t.reasoning = a.reasoning /\ t.order = a.order
       /\ t.call = a.call /\ t.finish = reason /\ t.usage = a.usage
  BY <1>4, <1>5, <1>8, <1>10 DEF Built
<1>12. ASSUME Represents(a, ans) PROVE Represents(t, m)
  BY <1>7, <1>9, <1>11, <1>12 DEF Represents
<1>13. QED
  BY <1>2, <1>9, <1>10, <1>12

LEMMA UsageSent ==
  ASSUME NEW a \in Built, NEW ans \in Answered, NEW u \in Nat,
         NEW l, l = [kind |-> "usage", usage |-> u], NEW m, m = [ans EXCEPT !.usage = u]
  PROVE  /\ l \in Line /\ m \in Answered
         /\ Represents(a, ans) => Represents(Taken(a, l), m)
<1>1. l \in Line /\ m \in Answered
  BY DEF Line, Answered
<1>2. Taken(a, l) = [a EXCEPT !.usage = u]
  BY DEF Taken
<1>3. ASSUME Represents(a, ans) PROVE Represents(Taken(a, l), m)
  BY <1>2, <1>3 DEF Represents, Built, Answered
<1>4. QED
  BY <1>1, <1>3

LEMMA OtherSent ==
  ASSUME NEW a \in Built, NEW k \in {"junk", "error", "done"}, NEW l, l = [kind |-> k]
  PROVE  l \in Line /\ Taken(a, l) = a
BY DEF Line, Taken

-----------------------------------------------------------------------------
(***************************************************************************)
(* Fragments of calls.                                                     *)
(***************************************************************************)
LEMMA FragTaken ==
  ASSUME NEW a \in Built, NEW f \in Frag, NEW none, none = << >>, NEW fs, fs = << f >>,
         NEW l, l = ChunkOf(none, none, fs, Missing)
  PROVE  l \in Line /\ Taken(a, l) = AddCall(a, f)
<1>1. none \in Seq(Nat) /\ fs \in Seq(Frag) /\ Missing \in FinishReasons
  BY EmptySeq DEF FinishReasons
<1>2. l \in Chunk /\ l \in Line
  BY <1>1, ChunkIs
<1>3. l.content = none /\ l.reasoning = none /\ l.frags = fs /\ l.finish = Missing
      /\ l.kind = "chunk"
  BY DEF ChunkOf
<1>4. Gained(a, l) = a
  <2>1. PICK x, y : x = a.content /\ y = a.reasoning
    OBVIOUS
  <2>2. x \in Seq(Nat) /\ y \in Seq(Nat)
    BY <2>1 DEF Built
  <2>3. x \o << >> = x /\ y \o << >> = y
    BY <2>2, ConcatEmptySeq
  <2>4. PICK b : b = [a EXCEPT !.content = x]
    OBVIOUS
  <2>5. b = a
    BY <2>1, <2>4 DEF Built
  <2>6. [b EXCEPT !.reasoning = y] = b
    BY <2>1, <2>5 DEF Built
  <2>7. a.content \o l.content = x /\ b.reasoning \o l.reasoning = y
    BY <1>3, <2>1, <2>3, <2>5
  <2>8. Gained(a, l) = [[a EXCEPT !.content = a.content \o l.content] EXCEPT
                          !.reasoning = [a EXCEPT !.content = a.content \o l.content].reasoning
                                          \o l.reasoning]
    BY DEF Gained
  <2>9. QED
    BY <2>4, <2>5, <2>6, <2>7, <2>8
<1>5. FoldLeft(AddCall, a, << f >>) = AddCall(a, f)
  BY FragsFew
<1>6. TakenChunk(a, l) = FoldLeft(AddCall, a, fs)
  BY <1>3, <1>4 DEF TakenChunk
<1>7. Taken(a, l) = TakenChunk(a, l)
  BY <1>3 DEF Taken
<1>8. QED
  BY <1>2, <1>5, <1>6, <1>7

\* What a fragment does to the order and to the call of its index.
Added(a, f, old, b) ==
  /\ b.order = IF \E i \in DOMAIN a.order : a.order[i] = f.index THEN a.order
               ELSE Append(a.order, f.index)
  /\ DOMAIN a.call = Indices
  /\ b.call = [a.call EXCEPT ![f.index] =
                 [id   |-> IF f.id = 0 THEN old.id ELSE f.id,
                  name |-> IF f.name = Missing THEN old.name ELSE f.name,
                  args |-> old.args \o f.args]]

LEMMA AddCallIs ==
  ASSUME NEW a \in Built, NEW f \in Frag, NEW b, b = AddCall(a, f),
         NEW old, old = a.call[f.index]
  PROVE  b \in Built /\ Added(a, f, old, b)
<1>1. b \in Built
  BY AddCallType
<1>2. PICK order : order = IF \E i \in DOMAIN a.order : a.order[i] = f.index THEN a.order
                           ELSE Append(a.order, f.index)
  OBVIOUS
<1>3. PICK known : known = [a.call EXCEPT ![f.index] =
                              [id   |-> IF f.id = 0 THEN old.id ELSE f.id,
                               name |-> IF f.name = Missing THEN old.name ELSE f.name,
                               args |-> old.args \o f.args]]
  OBVIOUS
<1>4. b = [a EXCEPT !.order = order, !.call = known]
  BY <1>2, <1>3 DEF AddCall
<1>5. b.order = order /\ b.call = known /\ DOMAIN a.call = Indices
  BY <1>4 DEF Built
<1>6. QED
  BY <1>1, <1>2, <1>3, <1>5 DEF Added

OpensCall(a, ans, k, f, call, m) ==
  /\ m \in Answered
  /\ Represents(a, ans) /\ f.index = k - 1 /\ call.name = "tool" => Represents(AddCall(a, f), m)

LEMMA CallOpened ==
  ASSUME NEW a \in Built, NEW ans \in Answered, NEW k, k = Len(ans.calls) + 1, k <= MaxCalls,
         NEW f \in Frag, f.id # 0, NEW call \in CallRec,
         call = [id |-> f.id, name |-> f.name, args |-> f.args],
         NEW m, m = [ans EXCEPT !.calls = Append(@, call)]
  PROVE  OpensCall(a, ans, k, f, call, m)
<1>1. PICK index, id, name, args : /\ index = f.index /\ id = f.id /\ name = f.name
                                   /\ args = f.args
  OBVIOUS
<1>2. /\ index \in Indices /\ id \in Nat \ {0} /\ name \in {"tool", Missing}
      /\ args \in Seq(PieceSet) /\ call = [id |-> id, name |-> name, args |-> args]
  BY <1>1 DEF Frag
<1>4. PICK calls : calls = Append(ans.calls, call)
  OBVIOUS
<1>5. call \in CallRec /\ ans.calls \in Seq(CallRec) /\ Len(ans.calls) \in Nat
  <2>1. ans.calls \in Seq(CallRec)
    BY DEF Answered
  <2>2. QED
    BY <2>1, LenProperties
<1>6. /\ calls \in Seq(CallRec) /\ Len(calls) = k /\ calls[k] = call
      /\ \A i \in 1 .. Len(ans.calls) : calls[i] = ans.calls[i]
  BY <1>4, <1>5, AppendProperties
<1>7. m = [ans EXCEPT !.calls = calls]
  BY <1>4
<1>8. m \in Answered /\ m.content = ans.content /\ m.reasoning = ans.reasoning
      /\ m.calls = calls /\ m.finish = ans.finish /\ m.usage = ans.usage
  BY <1>6, <1>7 DEF Answered
<1>9. ASSUME Represents(a, ans), f.index = k - 1, call.name = "tool"
      PROVE  Represents(AddCall(a, f), m)
  <2>1. PICK b, old, order, n : /\ b = AddCall(a, f) /\ old = a.call[index] /\ order = a.order
                                /\ n = Len(ans.calls)
    OBVIOUS
  <2>2. n \in Nat /\ k = n + 1 /\ index = n /\ f.index = n /\ n \in Indices
    BY <1>1, <1>2, <1>5, <1>9, <2>1
  <2>3. old = NoCall
    BY <1>9, <2>1, <2>2 DEF Represents
  <2>4. /\ b \in Built /\ DOMAIN a.call = Indices
        /\ b.order = IF \E i \in DOMAIN order : order[i] = n THEN order ELSE Append(order, n)
        /\ b.call = [a.call EXCEPT ![n] = [id   |-> IF f.id = 0 THEN old.id ELSE f.id,
                                           name |-> IF f.name = Missing THEN old.name ELSE f.name,
                                           args |-> old.args \o f.args]]
    <3>1. b \in Built /\ Added(a, f, old, b)
      BY <1>1, <2>1, AddCallIs
    <3>2. QED
      BY <2>1, <2>2, <3>1 DEF Added
  <2>5. /\ order \in Seq(Indices) /\ Len(order) = n /\ DOMAIN order = 1 .. n
        /\ \A i \in 1 .. n : order[i] = i - 1
    <3>1. order \in Seq(Indices)
      BY <2>1 DEF Built
    <3>2. Len(order) = n /\ \A i \in 1 .. n : order[i] = i - 1
      BY <1>9, <2>1 DEF Represents
    <3>3. QED
      BY <3>1, <3>2, LenProperties
  <2>6. ~ \E i \in DOMAIN order : order[i] = n
    BY <2>2, <2>5
  <2>7. b.order = Append(order, n)
    BY <2>4, <2>6
  <2>8. Len(b.order) = k /\ \A i \in 1 .. k : b.order[i] = i - 1
    BY <2>2, <2>5, <2>7, AppendProperties
  <2>9. b.call = [a.call EXCEPT ![n] = call]
    <3>1. f.id = id /\ f.name = name /\ f.args = args
      BY <1>1
    <3>2. old.args \o f.args = args
      <4>1. << >> \o args = args
        BY <1>2, ConcatEmptySeq
      <4>2. old.args = << >>
        BY <2>3 DEF NoCall
      <4>3. QED
        BY <3>1, <4>1, <4>2
    <3>3. id # 0 /\ name # Missing
      <4>1. name = "tool"
        BY <1>2, <1>9
      <4>2. QED
        BY <1>2, <4>1, MissingIs
    <3>4. QED
      BY <1>2, <2>4, <3>1, <3>2, <3>3
  <2>10. /\ b.call[n] = call
         /\ \A i \in Indices : i # n => b.call[i] = a.call[i]
    BY <2>2, <2>4, <2>9
  <2>11. ASSUME NEW i \in 1 .. k
         PROVE  b.call[i - 1] = calls[i] /\ calls[i].name = "tool"
    <3>1. CASE i = k
      <4>1. i - 1 = n /\ b.call[n] = call /\ calls[i] = call
        BY <1>6, <2>2, <2>10, <3>1
      <4>2. call.name = "tool"
        BY <1>9
      <4>3. QED
        BY <4>1, <4>2
    <3>2. CASE i # k
      <4>1. i \in 1 .. n /\ i - 1 \in Indices /\ i - 1 # n
        <5>1. MaxCalls \in Nat
          BY StreamAssumption
        <5>2. i \in Nat /\ 1 <= i /\ i <= n
          BY <2>2, <3>2
        <5>3. QED
          BY <2>2, <5>1, <5>2 DEF Indices
      <4>2. a.call[i - 1] = ans.calls[i] /\ ans.calls[i].name = "tool"
        BY <1>9, <2>1, <4>1 DEF Represents
      <4>3. calls[i] = ans.calls[i]
        BY <1>6, <2>1, <4>1
      <4>4. QED
        BY <2>10, <4>1, <4>2, <4>3
    <3>3. QED
      BY <3>1, <3>2
  <2>12. ASSUME NEW i \in Indices, k <= i PROVE b.call[i] = NoCall
    <3>1. n <= i /\ i # n
      BY <2>2, <2>12 DEF Indices
    <3>2. a.call[i] = NoCall
      BY <1>9, <2>1, <3>1 DEF Represents
    <3>3. QED
      BY <2>10, <3>1, <3>2
  <2>13. /\ b.content = a.content /\ b.reasoning = a.reasoning /\ b.finish = a.finish
         /\ b.usage = a.usage
    BY <2>1, AddCallType
  <2>14. Represents(b, m)
    <3>1. /\ m.content = a.content /\ m.reasoning = a.reasoning /\ m.usage = a.usage
          /\ a.finish = IF m.finish = Missing THEN Missing ELSE mapFinishReason(m.finish)
      BY <1>8, <1>9 DEF Represents
    <3>2. Len(m.calls) = k
      BY <1>6, <1>8
    <3>3. QED
      BY <1>8, <2>8, <2>11, <2>12, <2>13, <3>1, <3>2 DEF Represents
  <2>15. QED
    BY <2>1, <2>14
<1>10. QED
  BY <1>8, <1>9 DEF OpensCall

LEMMA CallGrown ==
  ASSUME NEW a \in Built, NEW ans \in Answered, NEW k \in 1 .. Len(ans.calls),
         NEW piece \in PieceSet, NEW index \in Indices, NEW args, args = << piece >>,
         NEW f, f = [index |-> index, id |-> 0, name |-> Missing, args |-> args],
         NEW none, none = << >>, NEW fs, fs = << f >>, NEW l, l = ChunkOf(none, none, fs, Missing),
         NEW m, m = [ans EXCEPT !.calls = WithPiece(@, k, piece)]
  PROVE  /\ l \in Line /\ m \in Answered
         /\ Represents(a, ans) /\ index = k - 1 => Represents(Taken(a, l), m)
<1>1. args \in Seq(PieceSet)
  OBVIOUS
<1>2. f \in Frag
  BY <1>1 DEF Frag
<1>3. l \in Line /\ Taken(a, l) = AddCall(a, f)
  BY <1>2, FragTaken
<1>4. PICK old, call, n, calls :
        /\ old = ans.calls[k] /\ n = Len(ans.calls)
        /\ call = [old EXCEPT !.args = Append(old.args, piece)]
        /\ calls = [ans.calls EXCEPT ![k] = call]
  OBVIOUS
<1>5. ans.calls \in Seq(CallRec) /\ n \in Nat /\ DOMAIN ans.calls = 1 .. n /\ old \in CallRec
  <2>1. ans.calls \in Seq(CallRec)
    BY DEF Answered
  <2>2. QED
    BY <1>4, <2>1, LenProperties, ElementOfSeq
<1>6. call \in CallRec /\ call.name = old.name
  <2>1. Append(old.args, piece) \in Seq(PieceSet)
    BY <1>5, AppendProperties DEF CallRec
  <2>2. QED
    BY <1>4, <1>5, <2>1 DEF CallRec
<1>7. /\ calls \in Seq(CallRec) /\ Len(calls) = n /\ calls[k] = call
      /\ \A i \in 1 .. n : i # k => calls[i] = ans.calls[i]
  <2>1. k \in 1 .. n
    BY <1>4
  <2>2. QED
    BY <1>4, <1>5, <1>6, <2>1, ExceptSeq
<1>8. m = [ans EXCEPT !.calls = calls]
  BY <1>4 DEF WithPiece
<1>9. m \in Answered /\ m.content = ans.content /\ m.reasoning = ans.reasoning
      /\ m.calls = calls /\ m.finish = ans.finish /\ m.usage = ans.usage
  BY <1>7, <1>8 DEF Answered
<1>10. ASSUME Represents(a, ans), index = k - 1 PROVE Represents(Taken(a, l), m)
  <2>1. PICK b, order : b = AddCall(a, f) /\ order = a.order
    OBVIOUS
  <2>2. a.call[index] = old /\ f.index = index /\ k \in 1 .. n
    BY <1>4, <1>10 DEF Represents
  <2>3. /\ b \in Built /\ DOMAIN a.call = Indices
        /\ b.order = IF \E i \in DOMAIN order : order[i] = index THEN order
                     ELSE Append(order, index)
        /\ b.call = [a.call EXCEPT ![index] =
                       [id   |-> IF f.id = 0 THEN old.id ELSE f.id,
                        name |-> IF f.name = Missing THEN old.name ELSE f.name,
                        args |-> old.args \o f.args]]
    <3>1. b \in Built /\ Added(a, f, old, b)
      BY <1>2, <2>1, <2>2, AddCallIs
    <3>2. QED
      BY <2>1, <2>2, <3>1 DEF Added
  <2>4. order \in Seq(Indices) /\ Len(order) = n /\ order[k] = index /\ k \in DOMAIN order
        /\ \A i \in 1 .. n : order[i] = i - 1
    <3>1. order \in Seq(Indices)
      BY <2>1 DEF Built
    <3>2. Len(order) = n /\ order[k] = k - 1 /\ \A i \in 1 .. n : order[i] = i - 1
      BY <1>4, <1>10, <2>1 DEF Represents
    <3>3. QED
      BY <1>10, <2>2, <3>1, <3>2, LenProperties
  <2>5. b.order = order
    BY <2>3, <2>4
  <2>6. b.call = [a.call EXCEPT ![index] = call]
    <3>1. f.id = 0 /\ f.name = Missing /\ f.args = args
      OBVIOUS
    <3>2. old.args \o f.args = Append(old.args, piece)
      <4>1. old.args \in Seq(PieceSet)
        BY <1>5 DEF CallRec
      <4>2. old.args \o << piece >> = Append(old.args, piece)
        BY <4>1, AppendIsConcat
      <4>3. QED
        BY <3>1, <4>2
    <3>3. call = [id |-> old.id, name |-> old.name, args |-> Append(old.args, piece)]
      BY <1>4, <1>5 DEF CallRec
    <3>4. QED
      BY <2>3, <3>1, <3>2, <3>3
  <2>7. b.call[index] = call /\ \A i \in Indices : i # index => b.call[i] = a.call[i]
    BY <2>3, <2>6
  <2>8. ASSUME NEW i \in 1 .. n
        PROVE  b.call[i - 1] = calls[i] /\ calls[i].name = "tool"
    <3>1. a.call[i - 1] = ans.calls[i] /\ ans.calls[i].name = "tool"
      BY <1>4, <1>10 DEF Represents
    <3>2. CASE i = k
      BY <1>4, <1>6, <1>7, <1>10, <2>7, <3>1, <3>2
    <3>3. CASE i # k
      <4>1. i - 1 \in Indices /\ i - 1 # index
        <5>1. n <= MaxCalls
          BY <1>4, <1>10 DEF Represents
        <5>2. QED
          BY <1>5, <1>10, <2>2, <3>3, <5>1, StreamAssumption DEF Indices
      <4>2. QED
        BY <1>7, <2>7, <3>1, <3>3, <4>1
    <3>4. QED
      BY <3>2, <3>3
  <2>9. ASSUME NEW i \in Indices, n <= i PROVE b.call[i] = NoCall
    <3>1. i # index
      BY <1>5, <1>10, <2>2, <2>9 DEF Indices
    <3>2. a.call[i] = NoCall
      BY <1>4, <1>10, <2>9 DEF Represents
    <3>3. QED
      BY <2>7, <3>1, <3>2
  <2>10. /\ b.content = a.content /\ b.reasoning = a.reasoning /\ b.finish = a.finish
         /\ b.usage = a.usage
    BY <1>2, <2>1, AddCallType
  <2>11. Represents(b, m)
    <3>1. /\ m.content = a.content /\ m.reasoning = a.reasoning /\ m.usage = a.usage
          /\ a.finish = IF m.finish = Missing THEN Missing ELSE mapFinishReason(m.finish)
          /\ n <= MaxCalls
      BY <1>4, <1>9, <1>10 DEF Represents
    <3>2. QED
      BY <1>7, <1>9, <2>4, <2>5, <2>8, <2>9, <2>10, <3>1 DEF Represents
  <2>12. QED
    BY <1>3, <2>1, <2>11
<1>11. QED
  BY <1>3, <1>9, <1>10

-----------------------------------------------------------------------------
(***************************************************************************)
(* A sequence made of what each element of another gives.                  *)
(***************************************************************************)
MapOf(f, s) == [i \in DOMAIN s |-> f[s[i]]]

FlatMap(f, s) == FlattenSeq(MapOf(f, s))

IsMap(f, s, V, t) == t \in Seq(V) /\ Len(t) = Len(s) /\ \A i \in 1 .. Len(s) : t[i] = f[s[i]]

LEMMA MapType ==
  ASSUME NEW E, NEW V, NEW f \in [E -> V], NEW s \in Seq(E), NEW t, t = MapOf(f, s)
  PROVE  IsMap(f, s, V, t)
<1>1. PICK n : n = Len(s)
  OBVIOUS
<1>2. n \in Nat /\ DOMAIN s = 1 .. n /\ \A i \in 1 .. n : s[i] \in E
  BY <1>1, LenProperties, ElementOfSeq
<1>3. t = [i \in 1 .. n |-> f[s[i]]] /\ \A i \in 1 .. n : f[s[i]] \in V
  BY <1>2 DEF MapOf
<1>4. t \in Seq(V) /\ Len(t) = Len(s)
  BY <1>1, <1>2, <1>3
<1>5. QED
  BY <1>1, <1>2, <1>3, <1>4 DEF IsMap

LEMMA MapAppend ==
  ASSUME NEW E, NEW V, NEW f \in [E -> V], NEW s \in Seq(E), NEW e \in E, NEW u, u = Append(s, e)
  PROVE  MapOf(f, u) = Append(MapOf(f, s), f[e])
<1>1. PICK n, a, b, v, c : /\ n = Len(s) /\ a = MapOf(f, u)
                           /\ b = MapOf(f, s) /\ v = f[e] /\ c = Append(b, v)
  OBVIOUS
<1>2. n \in Nat /\ u \in Seq(E) /\ Len(u) = n + 1 /\ u[n + 1] = e
      /\ \A i \in 1 .. n : u[i] = s[i]
  BY <1>1, AppendProperties, LenProperties
<1>3. a \in Seq(V) /\ Len(a) = n + 1 /\ \A i \in 1 .. n + 1 : a[i] = f[u[i]]
  <2>1. IsMap(f, u, V, a)
    BY <1>1, <1>2, MapType
  <2>2. QED
    BY <1>2, <2>1 DEF IsMap
<1>4. b \in Seq(V) /\ Len(b) = n /\ \A i \in 1 .. n : b[i] = f[s[i]]
  <2>1. IsMap(f, s, V, b)
    BY <1>1, MapType
  <2>2. QED
    BY <1>1, <2>1 DEF IsMap
<1>5. v \in V
  BY <1>1
<1>6. c \in Seq(V) /\ Len(c) = n + 1 /\ c[n + 1] = v /\ \A i \in 1 .. n : c[i] = b[i]
  BY <1>1, <1>4, <1>5, AppendProperties
<1>7. ASSUME NEW i \in 1 .. n + 1 PROVE a[i] = c[i]
  <2>1. CASE i = n + 1
    BY <1>1, <1>2, <1>3, <1>6, <2>1
  <2>2. CASE i # n + 1
    <3>1. i \in 1 .. n
      BY <1>2, <2>2
    <3>2. QED
      BY <1>2, <1>3, <1>4, <1>6, <3>1
  <2>3. QED
    BY <2>1, <2>2
<1>8. a = c
  BY <1>3, <1>6, <1>7, SeqEqual
<1>9. QED
  BY <1>1, <1>8

Spreads(f, s, t, u) == MapOf(f, u) = MapOf(f, s) \o MapOf(f, t)

LEMMA MapConcat ==
  ASSUME NEW E, NEW V, NEW f \in [E -> V], NEW s \in Seq(E), NEW t \in Seq(E), NEW u, u = s \o t
  PROVE  Spreads(f, s, t, u)
<1>1. PICK n, k, a, b, c, d :
        /\ n = Len(s) /\ k = Len(t) /\ a = MapOf(f, u)
        /\ b = MapOf(f, s) /\ c = MapOf(f, t) /\ d = b \o c
  OBVIOUS
<1>2. /\ n \in Nat /\ k \in Nat /\ u \in Seq(E) /\ Len(u) = n + k
      /\ \A i \in 1 .. n + k : u[i] = IF i <= n THEN s[i] ELSE t[i - n]
  BY <1>1, ConcatProperties, LenProperties
<1>3. a \in Seq(V) /\ Len(a) = n + k /\ \A i \in 1 .. n + k : a[i] = f[u[i]]
  <2>1. IsMap(f, u, V, a)
    BY <1>1, <1>2, MapType
  <2>2. QED
    BY <1>2, <2>1 DEF IsMap
<1>4. b \in Seq(V) /\ Len(b) = n /\ \A i \in 1 .. n : b[i] = f[s[i]]
  <2>1. IsMap(f, s, V, b)
    BY <1>1, MapType
  <2>2. QED
    BY <1>1, <2>1 DEF IsMap
<1>5. c \in Seq(V) /\ Len(c) = k /\ \A i \in 1 .. k : c[i] = f[t[i]]
  <2>1. IsMap(f, t, V, c)
    BY <1>1, MapType
  <2>2. QED
    BY <1>1, <2>1 DEF IsMap
<1>6. /\ d \in Seq(V) /\ Len(d) = n + k
      /\ \A i \in 1 .. n + k : d[i] = IF i <= n THEN b[i] ELSE c[i - n]
  <2>1. /\ b \o c \in Seq(V) /\ Len(b \o c) = Len(b) + Len(c)
        /\ \A i \in 1 .. Len(b) + Len(c) :
             (b \o c)[i] = IF i <= Len(b) THEN b[i] ELSE c[i - Len(b)]
    BY <1>4, <1>5, ConcatProperties
  <2>2. QED
    BY <1>1, <1>4, <1>5, <2>1
<1>7. ASSUME NEW i \in 1 .. n + k PROVE a[i] = d[i]
  <2>1. CASE i <= n
    <3>1. i \in 1 .. n
      BY <1>2, <2>1
    <3>2. QED
      <4>1. u[i] = s[i]
        BY <1>2, <2>1
      <4>2. d[i] = b[i]
        BY <1>6, <2>1
      <4>3. b[i] = f[s[i]] /\ a[i] = f[u[i]]
        BY <1>3, <1>4, <3>1
      <4>4. QED
        BY <4>1, <4>2, <4>3
  <2>2. CASE ~ (i <= n)
    <3>1. i - n \in 1 .. k
      BY <1>2, <2>2
    <3>2. u[i] = t[i - n] /\ d[i] = c[i - n] /\ a[i] = f[u[i]] /\ c[i - n] = f[t[i - n]]
      BY <1>2, <1>3, <1>5, <1>6, <2>2, <3>1
    <3>3. QED
      BY <3>2
  <2>3. QED
    BY <2>1, <2>2
<1>8. a = d
  BY <1>3, <1>6, <1>7, SeqEqual
<1>9. QED
  BY <1>1, <1>8 DEF Spreads

LEMMA FlattenConcat ==
  ASSUME NEW S, NEW ss \in Seq(Seq(S)), NEW tt \in Seq(Seq(S))
  PROVE  FlattenSeq(ss \o tt) = FlattenSeq(ss) \o FlattenSeq(tt)
<1>1. PICK a : a = FlattenSeq(ss)
  OBVIOUS
<1>2. a \in Seq(S)
  BY <1>1, FlattenType
<1> DEFINE T == { uu \in Seq(Seq(S)) : FlattenSeq(ss \o uu) = a \o FlattenSeq(uu) }
<1>3. << >> \in T
  <2>1. PICK none : none = << >>
    OBVIOUS
  <2>2. none \in Seq(Seq(S)) /\ ss \o << >> = ss /\ a \o << >> = a /\ FlattenSeq(<< >>) = << >>
    BY <1>2, <2>1, EmptySeq, ConcatEmptySeq, FlattenNothing
  <2>3. FlattenSeq(ss \o none) = a \o FlattenSeq(none)
    BY <1>1, <2>1, <2>2
  <2>4. none \in T
    BY <2>2, <2>3
  <2> HIDE DEF T
  <2>5. QED
    BY <2>1, <2>4
<1>4. ASSUME NEW uu \in Seq(Seq(S)), NEW s \in Seq(S), uu \in T PROVE Append(uu, s) \in T
  <2>1. PICK more, both, b : /\ more = Append(uu, s) /\ both = ss \o uu /\ b = FlattenSeq(uu)
    OBVIOUS
  <2>2. more \in Seq(Seq(S)) /\ both \in Seq(Seq(S)) /\ b \in Seq(S)
    <3>1. more \in Seq(Seq(S))
      BY <2>1, AppendProperties
    <3>2. both \in Seq(Seq(S))
      BY <2>1, ConcatProperties
    <3>3. QED
      BY <2>1, <3>1, <3>2, FlattenType
  <2>3. ss \o more = Append(both, s)
    BY <2>1, <2>2
  <2>4. FlattenSeq(Append(both, s)) = FlattenSeq(both) \o s
    BY <2>2, FlattenAppend
  <2>5. FlattenSeq(more) = b \o s
    BY <2>1, FlattenAppend
  <2>6. FlattenSeq(both) = a \o b
    BY <1>4, <2>1
  <2>7. (a \o b) \o s = a \o (b \o s)
    <3> HIDE DEF T
    <3>1. a \in Seq(S) /\ b \in Seq(S) /\ s \in Seq(S)
      BY <1>2, <2>2
    <3>2. QED
      <4>1. Regroups(a, b, s)
        BY <3>1, Regroup
      <4>2. QED
        BY <4>1 DEF Regroups
  <2>8. QED
    BY <2>1, <2>2, <2>3, <2>4, <2>5, <2>6, <2>7
<1> HIDE DEF T
<1>5. tt \in T
  BY <1>3, <1>4, SeqInductive
<1>6. QED
  BY <1>1, <1>5 DEF T

FlatMapLaws(f, E, S) ==
  /\ FlatMap(f, << >>) = << >>
  /\ \A s \in Seq(E) : FlatMap(f, s) \in Seq(S)
  /\ \A e \in E : FlatMap(f, << e >>) = f[e]
  /\ \A s \in Seq(E) : \A e \in E : FlatMap(f, Append(s, e)) = FlatMap(f, s) \o f[e]
  /\ \A s \in Seq(E) : \A t \in Seq(E) : FlatMap(f, s \o t) = FlatMap(f, s) \o FlatMap(f, t)

LEMMA FlatMapObeys ==
  ASSUME NEW E, NEW S, NEW f \in [E -> Seq(S)]
  PROVE  FlatMapLaws(f, E, S)
<1>1. FlatMap(f, << >>) = << >>
  <2>1. PICK none, m : none = << >> /\ m = MapOf(f, none)
    OBVIOUS
  <2>2. none \in Seq(E) /\ Len(none) = 0
    BY <2>1, EmptySeq
  <2>3. m \in Seq(Seq(S)) /\ Len(m) = 0
    <3>1. IsMap(f, none, Seq(S), m)
      BY <2>1, <2>2, MapType
    <3>2. QED
      BY <2>2, <3>1 DEF IsMap
  <2>4. m = << >>
    BY <2>3, EmptySeq
  <2>5. FlatMap(f, none) = FlattenSeq(m)
    BY <2>1 DEF FlatMap
  <2>6. QED
    BY <2>1, <2>4, <2>5, FlattenNothing
<1>2. ASSUME NEW s \in Seq(E) PROVE FlatMap(f, s) \in Seq(S)
  <2>1. PICK m : m = MapOf(f, s)
    OBVIOUS
  <2>2. m \in Seq(Seq(S))
    BY <2>1, MapType DEF IsMap
  <2>3. QED
    BY <2>1, <2>2, FlattenType DEF FlatMap
<1>3. ASSUME NEW s \in Seq(E), NEW e \in E PROVE FlatMap(f, Append(s, e)) = FlatMap(f, s) \o f[e]
  <2>1. PICK u, m, v : u = Append(s, e) /\ m = MapOf(f, s) /\ v = f[e]
    OBVIOUS
  <2>2. m \in Seq(Seq(S)) /\ v \in Seq(S)
    BY <2>1, MapType DEF IsMap
  <2>3. MapOf(f, u) = Append(m, v)
    BY <2>1, MapAppend
  <2>4. FlattenSeq(Append(m, v)) = FlattenSeq(m) \o v
    BY <2>2, FlattenAppend
  <2>5. QED
    BY <2>1, <2>3, <2>4 DEF FlatMap
<1>4. ASSUME NEW s \in Seq(E), NEW t \in Seq(E)
      PROVE  FlatMap(f, s \o t) = FlatMap(f, s) \o FlatMap(f, t)
  <2>1. PICK u, m, k : /\ u = s \o t /\ m = MapOf(f, s)
                       /\ k = MapOf(f, t)
    OBVIOUS
  <2>2. m \in Seq(Seq(S)) /\ k \in Seq(Seq(S))
    BY <2>1, MapType DEF IsMap
  <2>3. MapOf(f, u) = m \o k
    <3>1. Spreads(f, s, t, u)
      BY <2>1, MapConcat
    <3>2. QED
      BY <2>1, <3>1 DEF Spreads
  <2>4. FlattenSeq(m \o k) = FlattenSeq(m) \o FlattenSeq(k)
    BY <2>2, FlattenConcat
  <2>5. QED
    BY <2>1, <2>3, <2>4 DEF FlatMap
<1>5. ASSUME NEW e \in E PROVE FlatMap(f, << e >>) = f[e]
  <2>1. PICK none, one, v : none = << >> /\ one = << e >> /\ v = f[e]
    OBVIOUS
  <2>2. none \in Seq(E) /\ one = Append(none, e) /\ v \in Seq(S)
    BY <2>1
  <2>3. FlatMap(f, one) = FlatMap(f, none) \o v
    BY <1>3, <2>1, <2>2
  <2>4. FlatMap(f, none) = << >>
    BY <1>1, <2>1
  <2>5. << >> \o v = v
    BY <2>2, ConcatEmptySeq
  <2>6. QED
    BY <2>1, <2>3, <2>4, <2>5
<1>6. QED
  BY <1>1, <1>2, <1>3, <1>4, <1>5 DEF FlatMapLaws

-----------------------------------------------------------------------------
(***************************************************************************)
(* Messages and contents, as what each of their elements gives.            *)
(***************************************************************************)
ChatMessage ==
  [role : {"user", "assistant", "tool"}, text : Seq(Nat), calls : Seq(Nat), answers : Nat]
CallParts == [kind : {"call"}, id : Nat, name : {"tool", Missing},
              args : [raw : BOOLEAN, text : Seq(PieceSet)]]
PartSet ==
  [kind : {"text", "thought"}, text : Seq(Nat)] \cup [kind : {"result"}, id : Nat] \cup CallParts
ContentSet == [role : {"user", "model"}, parts : Seq(PartSet)]
Senders == {"user", "assistant"}

Answer(m) == IF m.role = "tool" THEN << m.answers >> ELSE << >>
Heard(m) == m.text \o m.calls \o Answer(m)
HeardMap == [m \in ChatMessage |-> Heard(m)]

Held(p) ==
  CASE p.kind = "text" -> p.text
    [] p.kind \in {"call", "result"} -> << p.id >>
    [] OTHER -> << >>
HeldMap == [p \in PartSet |-> Held(p)]

TextIf(kind, p) == IF p.kind = kind THEN p.text ELSE << >>
TextMap(kind) == [p \in PartSet |-> TextIf(kind, p)]

HistoryMap == [c \in ContentSet |-> HeldBy(c.parts)]
SentMap == [c \in ContentSet |-> contentToMessages(c)]

LEMMA PartIs ==
  ASSUME NEW p \in PartSet
  PROVE  /\ p.kind \in {"text", "thought", "result", "call"}
         /\ p.kind \in {"text", "thought"} => p.text \in Seq(Nat)
         /\ p.kind \in {"call", "result"} => p.id \in Nat
<1>1. CASE p \in [kind : {"text", "thought"}, text : Seq(Nat)]
  BY <1>1
<1>2. CASE p \in [kind : {"result"}, id : Nat]
  BY <1>2
<1>3. CASE p \in CallParts
  BY <1>3 DEF CallParts
<1>4. QED
  BY <1>1, <1>2, <1>3 DEF PartSet

LEMMA HeardType == HeardMap \in [ChatMessage -> Seq(Nat)]
<1>1. ASSUME NEW m \in ChatMessage PROVE Heard(m) \in Seq(Nat)
  <2>1. PICK a, x : a = Answer(m) /\ x = m.text \o m.calls
    OBVIOUS
  <2>2. m.text \in Seq(Nat) /\ m.calls \in Seq(Nat) /\ m.answers \in Nat
    BY DEF ChatMessage
  <2>3. a \in Seq(Nat)
    <3>1. << m.answers >> \in Seq(Nat)
      BY <2>2
    <3>2. << >> \in Seq(Nat)
      BY EmptySeq
    <3>3. QED
      BY <2>1, <3>1, <3>2 DEF Answer
  <2>4. x \in Seq(Nat)
    BY <2>1, <2>2, ConcatProperties
  <2>5. x \o a \in Seq(Nat)
    BY <2>3, <2>4, ConcatProperties
  <2>6. QED
    BY <2>1, <2>5 DEF Heard
<1>2. QED
  BY <1>1 DEF HeardMap

LEMMA HeldIs ==
  ASSUME NEW p \in PartSet
  PROVE  /\ p.kind = "text" => Held(p) = p.text
         /\ p.kind \in {"call", "result"} => Held(p) = << p.id >>
         /\ p.kind = "thought" => Held(p) = << >>
         /\ Held(p) \in Seq(Nat)
<1>1. CASE p.kind = "text"
  <2>1. Held(p) = p.text
    BY <1>1 DEF Held
  <2>2. QED
    BY <1>1, <2>1, PartIs
<1>2. CASE p.kind \in {"call", "result"}
  <2>1. Held(p) = << p.id >>
    BY <1>2 DEF Held
  <2>2. << p.id >> \in Seq(Nat)
    BY <1>2, PartIs
  <2>3. QED
    BY <1>2, <2>1, <2>2
<1>3. CASE p.kind = "thought"
  <2>1. Held(p) = << >>
    BY <1>3 DEF Held
  <2>2. QED
    BY <1>3, <2>1, EmptySeq
<1>4. QED
  BY <1>1, <1>2, <1>3, PartIs

LEMMA HeldType == HeldMap \in [PartSet -> Seq(Nat)]
BY HeldIs DEF HeldMap

LEMMA TextType ==
  ASSUME NEW kind \in {"text", "thought"}
  PROVE  TextMap(kind) \in [PartSet -> Seq(Nat)]
<1>1. ASSUME NEW p \in PartSet PROVE TextIf(kind, p) \in Seq(Nat)
  BY PartIs, EmptySeq DEF TextIf
<1>2. QED
  BY <1>1 DEF TextMap

\* The definitions of the model are flat maps.
LEMMA ToldIs ==
  ASSUME NEW msgs \in Seq(ChatMessage)
  PROVE  ToldBy(msgs) = FlatMap(HeardMap, msgs)
<1>1. \A i \in DOMAIN msgs : msgs[i] \in ChatMessage
  BY ElementOfSeq, LenProperties
<1>2. \A i \in DOMAIN msgs : HeardMap[msgs[i]] = Heard(msgs[i])
  BY <1>1 DEF HeardMap
<1>3. MapOf(HeardMap, msgs) = [i \in DOMAIN msgs |-> Heard(msgs[i])]
  BY <1>2 DEF MapOf
<1>4. ToldBy(msgs) = FlattenSeq([i \in DOMAIN msgs |-> Heard(msgs[i])])
  BY DEF ToldBy, Heard, Answer
<1>5. QED
  BY <1>3, <1>4 DEF FlatMap

LEMMA HeldByIs ==
  ASSUME NEW parts \in Seq(PartSet)
  PROVE  HeldBy(parts) = FlatMap(HeldMap, parts) /\ HeldBy(parts) \in Seq(Nat)
<1>1. \A i \in DOMAIN parts : parts[i] \in PartSet
  BY ElementOfSeq, LenProperties
<1>2. \A i \in DOMAIN parts : HeldMap[parts[i]] = Held(parts[i])
  BY <1>1 DEF HeldMap
<1>3. MapOf(HeldMap, parts) = [i \in DOMAIN parts |-> Held(parts[i])]
  BY <1>2 DEF MapOf
<1>4. HeldBy(parts) = FlattenSeq([i \in DOMAIN parts |-> Held(parts[i])])
  BY DEF HeldBy, Held
<1>5. HeldBy(parts) = FlatMap(HeldMap, parts)
  BY <1>3, <1>4 DEF FlatMap
<1>6. FlatMapLaws(HeldMap, PartSet, Nat)
  BY HeldType, FlatMapObeys
<1>7. QED
  BY <1>5, <1>6 DEF FlatMapLaws

LEMMA TextOfIs ==
  ASSUME NEW kind, NEW parts \in Seq(PartSet)
  PROVE  TextOf(kind, parts) = FlatMap(TextMap(kind), parts)
<1>1. \A i \in DOMAIN parts : parts[i] \in PartSet
  BY ElementOfSeq, LenProperties
<1>2. \A i \in DOMAIN parts : TextMap(kind)[parts[i]] = TextIf(kind, parts[i])
  BY <1>1 DEF TextMap
<1>3. MapOf(TextMap(kind), parts) = [i \in DOMAIN parts |-> TextIf(kind, parts[i])]
  BY <1>2 DEF MapOf
<1>4. TextOf(kind, parts) = FlattenSeq([i \in DOMAIN parts |-> TextIf(kind, parts[i])])
  BY DEF TextOf, TextIf
<1>5. QED
  BY <1>3, <1>4 DEF FlatMap

LEMMA HistoryType == HistoryMap \in [ContentSet -> Seq(Nat)]
<1>1. ASSUME NEW c \in ContentSet PROVE HeldBy(c.parts) \in Seq(Nat)
  <2>1. c.parts \in Seq(PartSet)
    BY DEF ContentSet
  <2>2. QED
    BY <2>1, HeldByIs
<1>2. QED
  BY <1>1 DEF HistoryMap

LEMMA HistoryIs ==
  ASSUME NEW cs \in Seq(ContentSet)
  PROVE  FlattenSeq([i \in DOMAIN cs |-> HeldBy(cs[i].parts)]) = FlatMap(HistoryMap, cs)
<1>1. \A i \in DOMAIN cs : cs[i] \in ContentSet
  BY ElementOfSeq, LenProperties
<1>2. \A i \in DOMAIN cs : HistoryMap[cs[i]] = HeldBy(cs[i].parts)
  BY <1>1 DEF HistoryMap
<1>3. MapOf(HistoryMap, cs) = [i \in DOMAIN cs |-> HeldBy(cs[i].parts)]
  BY <1>2 DEF MapOf
<1>4. QED
  BY <1>3 DEF FlatMap

LEMMA SentIs ==
  ASSUME NEW cs \in Seq(ContentSet)
  PROVE  toChatMessages(cs) = FlatMap(SentMap, cs)
<1>1. \A i \in DOMAIN cs : cs[i] \in ContentSet
  BY ElementOfSeq, LenProperties
<1>2. \A i \in DOMAIN cs : SentMap[cs[i]] = contentToMessages(cs[i])
  BY <1>1 DEF SentMap
<1>3. MapOf(SentMap, cs) = [i \in DOMAIN cs |-> contentToMessages(cs[i])]
  BY <1>2 DEF MapOf
<1>4. QED
  BY <1>3 DEF FlatMap, toChatMessages

-----------------------------------------------------------------------------
(***************************************************************************)
(* One content as messages.                                                *)
(***************************************************************************)
Gather == [msgs : Seq(ChatMessage), text : Seq(Nat), calls : Seq(Nat)]
ToolMessage(id) == [role |-> "tool", text |-> << >>, calls |-> << >>, answers |-> id]

LEMMA FlushedMessageIs ==
  ASSUME NEW role \in Senders, NEW t \in Seq(Nat), NEW ids \in Seq(Nat)
  PROVE  /\ FlushedMessage(role, t, ids) \in Seq(ChatMessage)
         /\ [role |-> role, text |-> t, calls |-> ids, answers |-> 0] \in ChatMessage
<1>1. PICK m : m = [role |-> role, text |-> t, calls |-> ids, answers |-> 0]
  OBVIOUS
<1>2. m \in ChatMessage
  BY <1>1 DEF ChatMessage, Senders
<1>3. << m >> \in Seq(ChatMessage)
  BY <1>2
<1>4. << >> \in Seq(ChatMessage)
  BY EmptySeq
<1>5. QED
  BY <1>1, <1>2, <1>3, <1>4 DEF FlushedMessage

LEMMA ToolMessageIs == ASSUME NEW id \in Nat PROVE ToolMessage(id) \in ChatMessage
<1>1. PICK none : none = << >>
  OBVIOUS
<1>2. none \in Seq(Nat)
  BY <1>1, EmptySeq
<1>3. ToolMessage(id) = [role |-> "tool", text |-> none, calls |-> none, answers |-> id]
  BY <1>1 DEF ToolMessage
<1>4. QED
  BY <1>2, <1>3 DEF ChatMessage

GatheredAs(role, s, p, g) ==
  /\ p.kind = "thought" => g = s
  /\ p.kind = "text" => g = [msgs |-> s.msgs, text |-> s.text \o p.text, calls |-> s.calls]
  /\ p.kind = "call" => g = [msgs |-> s.msgs, text |-> s.text, calls |-> Append(s.calls, p.id)]
  /\ p.kind = "result" =>
       g = [msgs |-> s.msgs \o FlushedMessage(role, s.text, s.calls) \o << ToolMessage(p.id) >>,
            text |-> << >>, calls |-> << >>]

LEMMA GatheredIs ==
  ASSUME NEW role, NEW s \in Gather, NEW p \in PartSet, NEW g, g = Gathered(role, s, p)
  PROVE  GatheredAs(role, s, p, g)
<1>1. CASE p.kind = "thought"
  <2>1. g = s
    BY <1>1 DEF Gathered
  <2>2. QED
    BY <1>1, <2>1 DEF GatheredAs
<1>2. CASE p.kind = "text"
  <2>1. PICK t : t = s.text \o p.text
    OBVIOUS
  <2>2. g = [s EXCEPT !.text = t]
    BY <1>2, <2>1 DEF Gathered
  <2>3. g = [msgs |-> s.msgs, text |-> t, calls |-> s.calls]
    BY <2>2 DEF Gather
  <2>4. QED
    BY <1>2, <2>1, <2>3 DEF GatheredAs
<1>3. CASE p.kind = "call"
  <2>1. PICK t : t = Append(s.calls, p.id)
    OBVIOUS
  <2>2. g = [s EXCEPT !.calls = t]
    BY <1>3, <2>1 DEF Gathered
  <2>3. g = [msgs |-> s.msgs, text |-> s.text, calls |-> t]
    BY <2>2 DEF Gather
  <2>4. QED
    BY <1>3, <2>1, <2>3 DEF GatheredAs
<1>4. CASE p.kind = "result"
  <2>1. g = [msgs |-> s.msgs \o FlushedMessage(role, s.text, s.calls) \o << ToolMessage(p.id) >>,
             text |-> << >>, calls |-> << >>]
    BY <1>4 DEF Gathered, ToolMessage
  <2>2. QED
    BY <1>4, <2>1 DEF GatheredAs
<1>5. QED
  BY <1>1, <1>2, <1>3, <1>4, PartIs

LEMMA GatheredType ==
  ASSUME NEW role \in Senders, NEW s \in Gather, NEW p \in PartSet
  PROVE  Gathered(role, s, p) \in Gather
<1>1. PICK g : g = Gathered(role, s, p)
  OBVIOUS
<1>2. GatheredAs(role, s, p, g)
  BY <1>1, GatheredIs
<1>3. s.msgs \in Seq(ChatMessage) /\ s.text \in Seq(Nat) /\ s.calls \in Seq(Nat)
  BY DEF Gather
<1>4. CASE p.kind = "thought"
  BY <1>1, <1>2, <1>4 DEF GatheredAs
<1>5. CASE p.kind = "text"
  <2>1. s.text \o p.text \in Seq(Nat)
    BY <1>3, <1>5, PartIs, ConcatProperties
  <2>2. g = [msgs |-> s.msgs, text |-> s.text \o p.text, calls |-> s.calls]
    BY <1>2, <1>5 DEF GatheredAs
  <2>3. QED
    BY <1>1, <1>3, <2>1, <2>2 DEF Gather
<1>6. CASE p.kind = "call"
  <2>1. Append(s.calls, p.id) \in Seq(Nat)
    BY <1>3, <1>6, PartIs, AppendProperties
  <2>2. g = [msgs |-> s.msgs, text |-> s.text, calls |-> Append(s.calls, p.id)]
    BY <1>2, <1>6 DEF GatheredAs
  <2>3. QED
    BY <1>1, <1>3, <2>1, <2>2 DEF Gather
<1>7. CASE p.kind = "result"
  <2>1. PICK u, v, w, none : /\ u = s.msgs \o FlushedMessage(role, s.text, s.calls)
                             /\ v = ToolMessage(p.id) /\ w = u \o << v >> /\ none = << >>
    OBVIOUS
  <2>2. FlushedMessage(role, s.text, s.calls) \in Seq(ChatMessage)
    BY <1>3, FlushedMessageIs
  <2>3. u \in Seq(ChatMessage)
    BY <1>3, <2>1, <2>2, ConcatProperties
  <2>4. v \in ChatMessage
    BY <1>7, <2>1, PartIs, ToolMessageIs
  <2>5. << v >> \in Seq(ChatMessage)
    BY <2>4
  <2>6. w \in Seq(ChatMessage)
    BY <2>1, <2>3, <2>5, ConcatProperties
  <2>7. g = [msgs |-> w, text |-> none, calls |-> none]
    BY <1>2, <1>7, <2>1 DEF GatheredAs
  <2>8. none \in Seq(Nat)
    BY <2>1, EmptySeq
  <2>9. QED
    BY <1>1, <2>6, <2>7, <2>8 DEF Gather
<1>8. QED
  BY <1>4, <1>5, <1>6, <1>7, PartIs

\* Gathered, along a sequence.
GatheredFold(role, base, E) == [s \in Seq(E) |-> FoldLeft(LAMBDA got, part : Gathered(role, got, part), base, s)]

GatheredDoes(role, V, E) == [q \in V \X E |-> Gathered(role, q[1], q[2])]

LEMMA GatheredFolds ==
  ASSUME NEW V, NEW E, NEW role, NEW base \in V,
         \A v \in V : \A e \in E : Gathered(role, v, e) \in V
  PROVE  FoldLaws(GatheredFold(role, base, E), GatheredDoes(role, V, E), base, V, E)
<1>1. ASSUME NEW s \in Seq(E)
      PROVE  \E g : /\ Traced(g, V, base, Along(GatheredDoes(role, V, E), V, s, Len(s)), Len(s))
                    /\ FoldLeft(LAMBDA got, part : Gathered(role, got, part), base, s) = g[Len(s)]
  <2>1. PICK n : n = Len(s)
    OBVIOUS
  <2>2. n \in Nat /\ DOMAIN s = 1 .. n /\ \A i \in 1 .. n : s[i] \in E
    BY <2>1, LenProperties, ElementOfSeq
  <2> DEFINE step == Along(GatheredDoes(role, V, E), V, s, n)
             It(f) == f = [t \in SUBSET (1 .. n) |->
                             IF t = {} THEN base ELSE Gathered(role, f[t \ {Max(t)}], s[Max(t)])]
  <2>3. \A v \in V : \A k \in 1 .. n : step[<< v, k >>] = Gathered(role, v, s[k])
    BY <2>2 DEF Along, GatheredDoes
  <2>4. step \in [V \X (1 .. n) -> V]
    BY <2>2 DEF Along, GatheredDoes
  <2> HIDE DEF step
  <2>5. \E f : It(f)
    <3>1. PICK f \in [SUBSET (1 .. n) -> V] : Iterates(f, base, step, n)
      BY <2>2, <2>4, IteratesExists
    <3>2. ASSUME NEW t \in SUBSET (1 .. n), t # {}
          PROVE  step[<< f[t \ {Max(t)}], Max(t) >>] = Gathered(role, f[t \ {Max(t)}], s[Max(t)])
      <4>1. Max(t) \in 1 .. n
        BY <2>2, <3>2, MaxFound
      <4>2. f[t \ {Max(t)}] \in V
        OBVIOUS
      <4>3. QED
        BY <2>3, <4>1, <4>2
    <3>3. It(f)
      BY <3>1, <3>2 DEF Iterates
    <3>4. QED
      BY <3>3
  <2>6. \E f : It(f) /\ FoldLeft(LAMBDA got, part : Gathered(role, got, part), base, s) = f[1 .. n]
    BY <2>2, <2>5 DEF FoldLeft, MapThenFoldSet
  <2>7. PICK f : It(f) /\ FoldLeft(LAMBDA got, part : Gathered(role, got, part), base, s) = f[1 .. n]
    BY <2>6
  <2>8. f[{}] = base
    BY <2>7
  <2>9. ASSUME NEW k \in 1 .. n, f[1 .. k - 1] \in V
        PROVE  f[1 .. k] = step[<< f[1 .. k - 1], k >>]
    <3>1. 1 .. k \in SUBSET (1 .. n) /\ 1 .. k # {} /\ k \in Nat /\ k # 0
      BY <2>2, UpTo
    <3>2. Max(1 .. k) = k /\ (1 .. k) \ {k} = 1 .. k - 1
      BY <3>1, MaxUpTo
    <3>3. f[1 .. k] = Gathered(role, f[1 .. k - 1], s[k])
      BY <2>7, <3>1, <3>2
    <3>4. QED
      BY <2>3, <2>9, <3>3
  <2> DEFINE g == [k \in 0 .. n |-> f[1 .. k]]
  <2> HIDE DEF It
  <2>10. Traced(g, V, base, step, n)
    BY <2>2, <2>4, <2>8, <2>9, TracedBy
  <2>11. g[n] = f[1 .. n]
    BY <2>2
  <2> HIDE DEF g
  <2>12. QED
    BY <2>1, <2>7, <2>10, <2>11 DEF step
<1>2. FoldsAs(GatheredFold(role, base, E), GatheredDoes(role, V, E), base, V, E)
  BY <1>1 DEF FoldsAs, GatheredFold
<1>3. QED
  BY <1>2, FoldObeys

GatheredFrom(role, parts) ==
  FoldLeft(LAMBDA got, part : Gathered(role, got, part), NothingGathered, parts)

LEMMA GatherLaws ==
  ASSUME NEW role \in Senders
  PROVE  /\ NothingGathered \in Gather
         /\ GatheredFrom(role, << >>) = NothingGathered
         /\ \A s \in Seq(PartSet) : GatheredFrom(role, s) \in Gather
         /\ \A s \in Seq(PartSet) : \A p \in PartSet :
              GatheredFrom(role, Append(s, p)) = Gathered(role, GatheredFrom(role, s), p)
<1>0. NothingGathered \in Gather
  <2>1. PICK none : none = << >>
    OBVIOUS
  <2>2. none \in Seq(Nat) /\ none \in Seq(ChatMessage)
    BY <2>1, EmptySeq
  <2>3. NothingGathered = [msgs |-> none, text |-> none, calls |-> none]
    BY <2>1 DEF NothingGathered
  <2>4. QED
    BY <2>2, <2>3 DEF Gather
<1> DEFINE F == GatheredFold(role, NothingGathered, PartSet)
           op == GatheredDoes(role, Gather, PartSet)
<1>1. FoldLaws(F, op, NothingGathered, Gather, PartSet)
  BY <1>0, GatheredType, GatheredFolds
<1>2. \A s \in Seq(PartSet) : F[s] = GatheredFrom(role, s)
  BY DEF GatheredFold, GatheredFrom
<1>3. \A v \in Gather : \A p \in PartSet : op[<< v, p >>] = Gathered(role, v, p)
  BY DEF GatheredDoes
<1> HIDE DEF F, op
<1>4. PICK none : none = << >>
  OBVIOUS
<1>5. none \in Seq(PartSet) /\ F[none] = NothingGathered
  BY <1>1, <1>4, EmptySeq DEF FoldLaws
<1>6. GatheredFrom(role, << >>) = NothingGathered
  BY <1>2, <1>4, <1>5
<1>7. ASSUME NEW s \in Seq(PartSet) PROVE GatheredFrom(role, s) \in Gather
  BY <1>1, <1>2 DEF FoldLaws
<1>8. ASSUME NEW s \in Seq(PartSet), NEW p \in PartSet
      PROVE  GatheredFrom(role, Append(s, p)) = Gathered(role, GatheredFrom(role, s), p)
  <2>1. PICK t : t = Append(s, p)
    OBVIOUS
  <2>2. t \in Seq(PartSet) /\ F[s] \in Gather
    BY <1>1, <2>1, AppendProperties DEF FoldLaws
  <2>3. F[t] = Gathered(role, F[s], p)
    BY <1>1, <1>3, <2>1, <2>2 DEF FoldLaws
  <2>4. QED
    BY <1>2, <2>1, <2>2, <2>3
<1>9. QED
  BY <1>0, <1>6, <1>7, <1>8

\* The messages of a content, from what is gathered of its parts.
Says(c, role, end) ==
  contentToMessages(c) = end.msgs \o FlushedMessage(role, end.text, end.calls)

LEMMA MessagesAre ==
  ASSUME NEW c \in ContentSet, NEW role, role = mapRole(c.role),
         NEW end, end = GatheredFrom(role, c.parts)
  PROVE  /\ role \in Senders /\ c.parts \in Seq(PartSet) /\ end \in Gather
         /\ Says(c, role, end) /\ contentToMessages(c) \in Seq(ChatMessage)
<1>1. role \in Senders /\ c.parts \in Seq(PartSet)
  <2>1. c.parts \in Seq(PartSet)
    BY DEF ContentSet
  <2>2. role = "assistant" \/ role = "user"
    BY DEF mapRole
  <2>3. QED
    BY <2>1, <2>2 DEF Senders
<1>2. end \in Gather
  <2>1. PICK parts : parts = c.parts
    OBVIOUS
  <2>2. GatheredFrom(role, parts) \in Gather
    BY <1>1, <2>1, GatherLaws
  <2>3. QED
    BY <2>1, <2>2
<1>3. contentToMessages(c) = end.msgs \o FlushedMessage(role, end.text, end.calls)
  <2>1. contentToMessages(c)
          = GatheredFrom(mapRole(c.role), c.parts).msgs
              \o FlushedMessage(mapRole(c.role), GatheredFrom(mapRole(c.role), c.parts).text,
                                GatheredFrom(mapRole(c.role), c.parts).calls)
    BY DEF contentToMessages, GatheredFrom
  <2>2. QED
    BY <2>1
<1>4. end.msgs \in Seq(ChatMessage) /\ end.text \in Seq(Nat) /\ end.calls \in Seq(Nat)
  BY <1>2 DEF Gather
<1>5. FlushedMessage(role, end.text, end.calls) \in Seq(ChatMessage)
  BY <1>1, <1>4, FlushedMessageIs
<1>6. end.msgs \o FlushedMessage(role, end.text, end.calls) \in Seq(ChatMessage)
  BY <1>4, <1>5, ConcatProperties
<1>7. QED
  BY <1>1, <1>2, <1>3, <1>6 DEF Says

LEMMA SentType == SentMap \in [ContentSet -> Seq(ChatMessage)]
<1>1. ASSUME NEW c \in ContentSet PROVE contentToMessages(c) \in Seq(ChatMessage)
  <2>1. PICK role, end : role = mapRole(c.role) /\ end = GatheredFrom(role, c.parts)
    OBVIOUS
  <2>2. QED
    BY <2>1, MessagesAre
<1>2. QED
  BY <1>1 DEF SentMap

-----------------------------------------------------------------------------
(***************************************************************************)
(* The parts of an answer: a thought, a text, calls, and their results.    *)
(***************************************************************************)
CallMap == [c \in CallRec |-> CallPart(c)]
IdMap == [c \in CallRec |-> c.id]
ResultPart(id) == [kind |-> "result", id |-> id]
ResultMap == [c \in CallRec |-> ResultPart(c.id)]
ToolMap == [c \in CallRec |-> ToolMessage(c.id)]

TextsOf(r, t) == TextPart("thought", r) \o TextPart("text", t)
AnswerParts(r, t, calls) == TextsOf(r, t) \o MapOf(CallMap, calls)

LEMMA CallPartIs ==
  ASSUME NEW c \in CallRec, NEW p, p = CallPart(c)
  PROVE  p \in CallParts /\ p \in PartSet /\ p.kind = "call" /\ p.id = c.id /\ c.id \in Nat
<1>1. PICK bad : bad = (c.args # << >> /\ ~ IsJSON(c.args))
  OBVIOUS
<1>2. bad \in BOOLEAN
  BY <1>1
<1>3. c.id \in Nat /\ c.name \in {"tool", Missing} /\ c.args \in Seq(PieceSet)
  BY DEF CallRec
<1>4. PICK a : a = [raw |-> bad, text |-> c.args]
  OBVIOUS
<1>5. a \in [raw : BOOLEAN, text : Seq(PieceSet)]
  BY <1>2, <1>3, <1>4
<1>6. Args(c.args) = a
  BY <1>1, <1>4 DEF Args
<1>7. p = [kind |-> "call", id |-> c.id, name |-> c.name, args |-> a]
  BY <1>6 DEF CallPart
<1>8. QED
  BY <1>3, <1>5, <1>7 DEF CallParts, PartSet

LEMMA ResultPartIs ==
  ASSUME NEW id \in Nat, NEW p, p = ResultPart(id)
  PROVE  p \in PartSet /\ p.kind = "result" /\ p.id = id
BY DEF ResultPart, PartSet

LEMMA CallMaps ==
  /\ CallMap \in [CallRec -> PartSet] /\ IdMap \in [CallRec -> Nat]
  /\ ResultMap \in [CallRec -> PartSet] /\ ToolMap \in [CallRec -> ChatMessage]
<1>1. ASSUME NEW c \in CallRec
      PROVE  CallPart(c) \in PartSet /\ c.id \in Nat /\ ResultPart(c.id) \in PartSet
             /\ ToolMessage(c.id) \in ChatMessage
  <2>1. CallPart(c) \in PartSet /\ c.id \in Nat
    BY CallPartIs
  <2>2. QED
    BY <2>1, ResultPartIs, ToolMessageIs
<1>2. QED
  BY <1>1 DEF CallMap, IdMap, ResultMap, ToolMap

\* What one call more gives.
CallMore(s, c, u) ==
  /\ MapOf(CallMap, u) = Append(MapOf(CallMap, s), CallPart(c))
  /\ MapOf(IdMap, u) = Append(MapOf(IdMap, s), c.id)
  /\ MapOf(ResultMap, u) = Append(MapOf(ResultMap, s), ResultPart(c.id))
  /\ MapOf(ToolMap, u) = Append(MapOf(ToolMap, s), ToolMessage(c.id))

LEMMA CallJoins ==
  ASSUME NEW s \in Seq(CallRec), NEW c \in CallRec, NEW u, u = Append(s, c)
  PROVE  CallMore(s, c, u)
<1>1. ASSUME NEW V, NEW f \in [CallRec -> V]
      PROVE  MapOf(f, u) = Append(MapOf(f, s), f[c])
  BY <1>1, MapAppend
<1>2. /\ CallMap[c] = CallPart(c) /\ IdMap[c] = c.id /\ ResultMap[c] = ResultPart(c.id)
      /\ ToolMap[c] = ToolMessage(c.id)
  BY DEF CallMap, IdMap, ResultMap, ToolMap
<1>3. MapOf(CallMap, u) = Append(MapOf(CallMap, s), CallPart(c))
  BY <1>1, <1>2, CallMaps
<1>4. MapOf(IdMap, u) = Append(MapOf(IdMap, s), c.id)
  BY <1>1, <1>2, CallMaps
<1>5. MapOf(ResultMap, u) = Append(MapOf(ResultMap, s), ResultPart(c.id))
  BY <1>1, <1>2, CallMaps
<1>6. MapOf(ToolMap, u) = Append(MapOf(ToolMap, s), ToolMessage(c.id))
  BY <1>1, <1>2, CallMaps
<1>7. QED
  BY <1>3, <1>4, <1>5, <1>6 DEF CallMore

LEMMA TextPartIs ==
  ASSUME NEW kind \in {"text", "thought"}, NEW s \in Seq(Nat)
  PROVE  TextPart(kind, s) \in Seq(PartSet) /\ [kind |-> kind, text |-> s] \in PartSet
<1>1. PICK p : p = [kind |-> kind, text |-> s]
  OBVIOUS
<1>2. p \in PartSet
  BY <1>1 DEF PartSet
<1>3. << p >> \in Seq(PartSet) /\ << >> \in Seq(PartSet)
  BY <1>2, EmptySeq
<1>4. QED
  BY <1>1, <1>2, <1>3 DEF TextPart

LEMMA AnswerPartsType ==
  ASSUME NEW r \in Seq(Nat), NEW t \in Seq(Nat), NEW calls \in Seq(CallRec)
  PROVE  /\ TextsOf(r, t) \in Seq(PartSet) /\ MapOf(CallMap, calls) \in Seq(PartSet)
         /\ AnswerParts(r, t, calls) \in Seq(PartSet)
<1>1. TextPart("thought", r) \in Seq(PartSet) /\ TextPart("text", t) \in Seq(PartSet)
  BY TextPartIs
<1>2. TextsOf(r, t) \in Seq(PartSet)
  BY <1>1, ConcatProperties DEF TextsOf
<1>3. PICK m : m = MapOf(CallMap, calls)
  OBVIOUS
<1>4. m \in Seq(PartSet)
  BY <1>3, CallMaps, MapType DEF IsMap
<1>5. TextsOf(r, t) \o m \in Seq(PartSet)
  BY <1>2, <1>4, ConcatProperties
<1>6. QED
  BY <1>2, <1>3, <1>4, <1>5 DEF AnswerParts

\* What a map of the parts gives along an answer.
LEMMA FlatTextPart ==
  ASSUME NEW f \in [PartSet -> Seq(Nat)], NEW kind \in {"text", "thought"}, NEW s \in Seq(Nat),
         NEW p, p = [kind |-> kind, text |-> s], NEW l, l = TextPart(kind, s)
  PROVE  FlatMap(f, l) = IF s = << >> THEN << >> ELSE f[p]
<1>1. p \in PartSet
  BY TextPartIs
<1>2. FlatMapLaws(f, PartSet, Nat)
  BY FlatMapObeys
<1>3. CASE s = << >>
  <2>1. l = << >>
    BY <1>3 DEF TextPart
  <2>2. FlatMap(f, << >>) = << >>
    BY <1>2 DEF FlatMapLaws
  <2>3. FlatMap(f, l) = FlatMap(f, << >>)
    BY <2>1
  <2>4. QED
    BY <1>3, <2>2, <2>3
<1>4. CASE s # << >>
  <2>1. l = << p >>
    BY <1>4 DEF TextPart
  <2>2. FlatMap(f, << p >>) = f[p]
    BY <1>1, <1>2 DEF FlatMapLaws
  <2>3. FlatMap(f, l) = FlatMap(f, << p >>)
    BY <2>1
  <2>4. QED
    BY <1>4, <2>2, <2>3
<1>5. QED
  BY <1>3, <1>4

FlatIs(f, r, t, calls, p, q, x, y, z, parts) == FlatMap(f, parts) = (x \o y) \o z

LEMMA FlatAnswer ==
  ASSUME NEW f \in [PartSet -> Seq(Nat)],
         NEW r \in Seq(Nat), NEW t \in Seq(Nat), NEW calls \in Seq(CallRec),
         NEW p, p = [kind |-> "thought", text |-> r], NEW q, q = [kind |-> "text", text |-> t],
         NEW x, x = IF r = << >> THEN << >> ELSE f[p],
         NEW y, y = IF t = << >> THEN << >> ELSE f[q],
         NEW z, z = FlatMap(f, MapOf(CallMap, calls)), NEW parts, parts = AnswerParts(r, t, calls)
  PROVE  FlatIs(f, r, t, calls, p, q, x, y, z, parts)
<1>1. PICK a, b, c, d : /\ a = TextPart("thought", r) /\ b = TextPart("text", t)
                        /\ c = MapOf(CallMap, calls) /\ d = a \o b
  OBVIOUS
<1>2. a \in Seq(PartSet) /\ b \in Seq(PartSet) /\ c \in Seq(PartSet)
  BY <1>1, TextPartIs, AnswerPartsType
<1>3. d \in Seq(PartSet)
  BY <1>1, <1>2, ConcatProperties
<1>4. FlatMapLaws(f, PartSet, Nat)
  BY FlatMapObeys
<1>5. FlatMap(f, a \o b) = FlatMap(f, a) \o FlatMap(f, b)
  BY <1>2, <1>4 DEF FlatMapLaws
<1>6. FlatMap(f, d \o c) = FlatMap(f, d) \o FlatMap(f, c)
  BY <1>2, <1>3, <1>4 DEF FlatMapLaws
<1>7. AnswerParts(r, t, calls) = d \o c
  BY <1>1 DEF AnswerParts, TextsOf
<1>8. FlatMap(f, a) = x
  BY <1>1, FlatTextPart
<1>9. FlatMap(f, b) = y
  BY <1>1, FlatTextPart
<1>10. QED
  BY <1>1, <1>5, <1>6, <1>7, <1>8, <1>9 DEF FlatIs

LEMMA FlatCalls ==
  ASSUME NEW calls \in Seq(CallRec)
  PROVE  /\ FlatMap(HeldMap, MapOf(CallMap, calls)) = MapOf(IdMap, calls)
         /\ \A kind \in {"text", "thought"} :
              FlatMap(TextMap(kind), MapOf(CallMap, calls)) = << >>
<1>1. FlatMapLaws(HeldMap, PartSet, Nat)
  BY HeldType, FlatMapObeys
<1>2. ASSUME NEW kind \in {"text", "thought"} PROVE FlatMapLaws(TextMap(kind), PartSet, Nat)
  BY TextType, FlatMapObeys
<1> DEFINE T == { s \in Seq(CallRec) :
                    /\ FlatMap(HeldMap, MapOf(CallMap, s)) = MapOf(IdMap, s)
                    /\ \A kind \in {"text", "thought"} :
                         FlatMap(TextMap(kind), MapOf(CallMap, s)) = << >> }
<1>3. << >> \in T
  <2>1. PICK none, m, k : none = << >> /\ m = MapOf(CallMap, none) /\ k = MapOf(IdMap, none)
    OBVIOUS
  <2>2. none \in Seq(CallRec) /\ Len(none) = 0
    BY <2>1, EmptySeq
  <2>3. IsMap(CallMap, none, PartSet, m) /\ IsMap(IdMap, none, Nat, k)
    <3>1. IsMap(CallMap, none, PartSet, m)
      BY <2>1, <2>2, CallMaps, MapType
    <3>2. IsMap(IdMap, none, Nat, k)
      BY <2>1, <2>2, CallMaps, MapType
    <3>3. QED
      BY <3>1, <3>2
  <2>4. m = << >> /\ k = << >>
    <3>1. m \in Seq(PartSet) /\ Len(m) = 0 /\ k \in Seq(Nat) /\ Len(k) = 0
      BY <2>2, <2>3 DEF IsMap
    <3>2. QED
      BY <3>1, EmptySeq
  <2>5. FlatMap(HeldMap, m) = k
    <3>1. FlatMap(HeldMap, << >>) = << >>
      BY <1>1 DEF FlatMapLaws
    <3>2. QED
      BY <2>4, <3>1
  <2>6. ASSUME NEW kind \in {"text", "thought"} PROVE FlatMap(TextMap(kind), m) = << >>
    <3>1. FlatMap(TextMap(kind), << >>) = << >>
      BY <1>2 DEF FlatMapLaws
    <3>2. QED
      BY <2>4, <3>1
  <2>7. none \in T
    BY <2>1, <2>2, <2>5, <2>6
  <2> HIDE DEF T
  <2>8. QED
    BY <2>1, <2>7
<1>4. ASSUME NEW s \in Seq(CallRec), NEW c \in CallRec, s \in T PROVE Append(s, c) \in T
  <2>1. PICK u, p, m : u = Append(s, c) /\ p = CallPart(c) /\ m = MapOf(CallMap, s)
    OBVIOUS
  <2>2. u \in Seq(CallRec)
    BY <2>1, AppendProperties
  <2>3. p \in PartSet /\ p.kind = "call" /\ p.id = c.id /\ c.id \in Nat
    BY <2>1, CallPartIs
  <2>4. m \in Seq(PartSet)
    BY <2>1, AnswerPartsType, EmptySeq
  <2>5. MapOf(CallMap, u) = Append(m, p)
    <3>1. CallMore(s, c, u)
      BY <2>1, CallJoins
    <3>2. QED
      BY <2>1, <3>1 DEF CallMore
  <2>6. MapOf(IdMap, u) = Append(MapOf(IdMap, s), c.id)
    <3>1. CallMore(s, c, u)
      BY <2>1, CallJoins
    <3>2. QED
      BY <2>1, <3>1 DEF CallMore
  <2>7. FlatMap(HeldMap, Append(m, p)) = Append(MapOf(IdMap, s), c.id)
    <3>1. FlatMap(HeldMap, Append(m, p)) = FlatMap(HeldMap, m) \o HeldMap[p]
      BY <1>1, <2>3, <2>4 DEF FlatMapLaws
    <3>2. HeldMap[p] = << c.id >>
      <4>1. Held(p) = << p.id >>
        BY <2>3, HeldIs
      <4>2. QED
        BY <2>3, <4>1 DEF HeldMap
    <3>3. PICK ids : ids = MapOf(IdMap, s)
      OBVIOUS
    <3>4. ids \in Seq(Nat)
      BY <3>3, CallMaps, MapType DEF IsMap
    <3>5. ids \o << c.id >> = Append(ids, c.id)
      BY <2>3, <3>4, AppendIsConcat
    <3>6. FlatMap(HeldMap, m) = ids
      BY <1>4, <2>1, <3>3
    <3>7. QED
      BY <3>1, <3>2, <3>3, <3>5, <3>6
  <2>8. ASSUME NEW kind \in {"text", "thought"}
        PROVE  FlatMap(TextMap(kind), Append(m, p)) = << >>
    <3>1. FlatMap(TextMap(kind), Append(m, p)) = FlatMap(TextMap(kind), m) \o TextMap(kind)[p]
      BY <1>2, <2>3, <2>4 DEF FlatMapLaws
    <3>2. TextMap(kind)[p] = << >>
      BY <2>3 DEF TextMap, TextIf
    <3>3. FlatMap(TextMap(kind), m) = << >>
      BY <1>4, <2>1
    <3>4. PICK none : none = << >>
      OBVIOUS
    <3>5. none \in Seq(Nat) /\ none \o none = none
      BY <3>4, EmptySeq, ConcatEmptySeq
    <3>6. QED
      BY <3>1, <3>2, <3>3, <3>4, <3>5
  <2>9. QED
    BY <2>1, <2>2, <2>5, <2>6, <2>7, <2>8
<1> HIDE DEF T
<1>5. calls \in T
  BY <1>3, <1>4, SeqInductive
<1>6. QED
  BY <1>5 DEF T

\* What an answer holds, and the texts in it.
LEMMA AnswerHolds ==
  ASSUME NEW r \in Seq(Nat), NEW t \in Seq(Nat), NEW calls \in Seq(CallRec),
         NEW parts, parts = AnswerParts(r, t, calls)
  PROVE  /\ HeldBy(parts) = t \o MapOf(IdMap, calls)
         /\ TextOf("text", parts) = t /\ TextOf("thought", parts) = r
<1>1. PICK p, q, none : /\ p = [kind |-> "thought", text |-> r]
                        /\ q = [kind |-> "text", text |-> t] /\ none = << >>
  OBVIOUS
<1>2. p \in PartSet /\ q \in PartSet /\ p.kind = "thought" /\ q.kind = "text" /\ p.text = r
      /\ q.text = t
  BY <1>1, TextPartIs
<1>3. parts \in Seq(PartSet)
  BY AnswerPartsType
<1>4. HeldBy(parts) = t \o MapOf(IdMap, calls)
  <2>1. PICK f, x, y, z : /\ f = HeldMap /\ z = FlatMap(f, MapOf(CallMap, calls))
                          /\ x = IF r = << >> THEN << >> ELSE f[p]
                          /\ y = IF t = << >> THEN << >> ELSE f[q]
    OBVIOUS
  <2>2. f \in [PartSet -> Seq(Nat)]
    BY <2>1, HeldType
  <2>3. f[p] = << >> /\ f[q] = t
    BY <1>2, <2>1, HeldIs DEF HeldMap
  <2>4. x = << >> /\ y = t
    BY <2>1, <2>3
  <2>5. z = MapOf(IdMap, calls)
    BY <2>1, FlatCalls
  <2>6. FlatMap(f, parts) = (x \o y) \o z
    <3>1. FlatIs(f, r, t, calls, p, q, x, y, z, parts)
      BY <1>1, <2>1, <2>2, FlatAnswer
    <3>2. QED
      BY <3>1 DEF FlatIs
  <2>7. << >> \o t = t
    BY ConcatEmptySeq
  <2>8. HeldBy(parts) = FlatMap(f, parts)
    BY <1>3, <2>1, HeldByIs
  <2>9. QED
    BY <2>4, <2>5, <2>6, <2>7, <2>8
<1>5. TextOf("text", parts) = t
  <2>1. PICK f, x, y, z : /\ f = TextMap("text") /\ z = FlatMap(f, MapOf(CallMap, calls))
                          /\ x = IF r = << >> THEN << >> ELSE f[p]
                          /\ y = IF t = << >> THEN << >> ELSE f[q]
    OBVIOUS
  <2>2. f \in [PartSet -> Seq(Nat)]
    BY <2>1, TextType
  <2>3. f[p] = << >> /\ f[q] = t
    BY <1>2, <2>1 DEF TextMap, TextIf
  <2>4. x = << >> /\ y = t
    BY <2>1, <2>3
  <2>5. z = << >>
    BY <2>1, FlatCalls
  <2>6. FlatMap(f, parts) = (x \o y) \o z
    <3>1. FlatIs(f, r, t, calls, p, q, x, y, z, parts)
      BY <1>1, <2>1, <2>2, FlatAnswer
    <3>2. QED
      BY <3>1 DEF FlatIs
  <2>7. << >> \o t = t /\ t \o << >> = t
    BY ConcatEmptySeq
  <2>8. TextOf("text", parts) = FlatMap(f, parts)
    BY <1>3, <2>1, TextOfIs
  <2>9. QED
    BY <2>4, <2>5, <2>6, <2>7, <2>8
<1>6. TextOf("thought", parts) = r
  <2>1. PICK f, x, y, z : /\ f = TextMap("thought") /\ z = FlatMap(f, MapOf(CallMap, calls))
                          /\ x = IF r = << >> THEN << >> ELSE f[p]
                          /\ y = IF t = << >> THEN << >> ELSE f[q]
    OBVIOUS
  <2>2. f \in [PartSet -> Seq(Nat)]
    BY <2>1, TextType
  <2>3. f[p] = r /\ f[q] = << >>
    BY <1>2, <2>1 DEF TextMap, TextIf
  <2>4. x = r /\ y = << >>
    BY <2>1, <2>3
  <2>5. z = << >>
    BY <2>1, FlatCalls
  <2>6. FlatMap(f, parts) = (x \o y) \o z
    <3>1. FlatIs(f, r, t, calls, p, q, x, y, z, parts)
      BY <1>1, <2>1, <2>2, FlatAnswer
    <3>2. QED
      BY <3>1 DEF FlatIs
  <2>7. r \o << >> = r
    BY ConcatEmptySeq
  <2>8. TextOf("thought", parts) = FlatMap(f, parts)
    BY <1>3, <2>1, TextOfIs
  <2>9. QED
    BY <2>4, <2>5, <2>6, <2>7, <2>8
<1>7. QED
  BY <1>4, <1>5, <1>6

\* The parts of one kind, by a set that does not depend on the sequence.
Kinds(kind) == { p \in PartSet : p.kind = kind }

LEMMA OfKindIs ==
  ASSUME NEW kind, NEW parts \in Seq(PartSet)
  PROVE  OfKind(kind, parts) = Those(parts, Kinds(kind))
<1>1. PICK K, L : K = { p \in ToSet(parts) : p.kind = kind } /\ L = Kinds(kind)
  OBVIOUS
<1>2. ToSet(parts) \subseteq PartSet
  BY SetOfSeq
<1>3. \A x \in ToSet(parts) : x \in K <=> x \in L
  BY <1>1, <1>2 DEF Kinds
<1>4. Those(parts, K) = Those(parts, L)
  BY <1>3, ThoseAgree
<1>5. OfKind(kind, parts) = Those(parts, K)
  BY <1>1 DEF OfKind
<1>6. QED
  BY <1>1, <1>4, <1>5

LEMMA CallsOfAnswer ==
  ASSUME NEW r \in Seq(Nat), NEW t \in Seq(Nat), NEW calls \in Seq(CallRec),
         NEW parts, parts = AnswerParts(r, t, calls)
  PROVE  OfKind("call", parts) = MapOf(CallMap, calls)
<1>1. PICK K, a, b, c, d : /\ K = Kinds("call") /\ a = TextPart("thought", r)
                           /\ b = TextPart("text", t) /\ c = MapOf(CallMap, calls) /\ d = a \o b
  OBVIOUS
<1>2. a \in Seq(PartSet) /\ b \in Seq(PartSet) /\ c \in Seq(PartSet)
  BY <1>1, TextPartIs, AnswerPartsType
<1>3. d \in Seq(PartSet) /\ parts = d \o c /\ parts \in Seq(PartSet)
  <2>1. d \in Seq(PartSet)
    BY <1>1, <1>2, ConcatProperties
  <2>2. parts = d \o c
    BY <1>1 DEF AnswerParts, TextsOf
  <2>3. QED
    BY <2>1, <2>2, AnswerPartsType
<1>4. ASSUME NEW kind \in {"text", "thought"}, NEW s \in Seq(Nat), NEW l, l = TextPart(kind, s)
      PROVE  Those(l, K) = << >>
  <2>1. CASE s = << >>
    <3>1. l = << >>
      BY <1>4, <2>1 DEF TextPart
    <3>2. QED
      BY <3>1, ThoseNothing
  <2>2. CASE s # << >>
    <3>1. PICK p, none : p = [kind |-> kind, text |-> s] /\ none = << >>
      OBVIOUS
    <3>2. p \in PartSet /\ p \notin K /\ none \in Seq(PartSet)
      <4>1. p \in PartSet
        BY <3>1, TextPartIs
      <4>2. p.kind = kind /\ kind # "call"
        BY <3>1
      <4>3. QED
        BY <1>1, <3>1, <4>1, <4>2, EmptySeq DEF Kinds
    <3>3. l = << p >>
      BY <1>4, <2>2, <3>1 DEF TextPart
    <3>4. l = Append(none, p)
      BY <3>1, <3>3
    <3>5. Those(Append(none, p), K) = Those(none, K)
      BY <3>2, ThoseAppend
    <3>6. Those(<< >>, K) = << >>
      BY ThoseNothing
    <3>7. QED
      BY <3>1, <3>4, <3>5, <3>6
  <2>3. QED
    BY <2>1, <2>2
<1>5. Those(a, K) = << >> /\ Those(b, K) = << >>
  BY <1>1, <1>4
<1>6. Those(c, K) = c
  <2>1. IsMap(CallMap, calls, PartSet, c)
    BY <1>1, CallMaps, MapType
  <2>2. ASSUME NEW x \in ToSet(c) PROVE x \in K
    <3>1. PICK i \in 1 .. Len(c) : x = c[i]
      BY <1>2, SetOfSeq
    <3>2. i \in 1 .. Len(calls) /\ x = CallMap[calls[i]]
      BY <2>1, <3>1 DEF IsMap
    <3>3. calls[i] \in CallRec
      BY <3>2, ElementOfSeq
    <3>4. x = CallPart(calls[i])
      BY <3>2, <3>3 DEF CallMap
    <3>5. x \in PartSet /\ x.kind = "call"
      BY <3>3, <3>4, CallPartIs
    <3>6. QED
      BY <1>1, <3>5 DEF Kinds
  <2>3. ToSet(c) \subseteq K
    BY <2>2
  <2>4. QED
    BY <1>2, <2>3, ThoseAll
<1>7. Those(d, K) = Those(a, K) \o Those(b, K)
  <2>1. Those(a \o b, K) = Those(a, K) \o Those(b, K)
    BY <1>2, ThoseConcat
  <2>2. QED
    BY <1>1, <2>1
<1>8. Those(parts, K) = Those(d, K) \o Those(c, K)
  <2>1. Those(d \o c, K) = Those(d, K) \o Those(c, K)
    <3>1. d \in Seq(PartSet) /\ c \in Seq(PartSet)
      BY <1>2, <1>3
    <3>2. QED
      BY <3>1, ThoseConcat
  <2>2. QED
    BY <1>3, <2>1
<1>9. << >> \o << >> = << >> /\ << >> \o c = c
  <2>1. PICK none : none = << >>
    OBVIOUS
  <2>2. none \in Seq(PartSet) /\ none \o << >> = none
    BY <2>1, EmptySeq, ConcatEmptySeq
  <2>3. << >> \o c = c
    BY <1>2, ConcatEmptySeq
  <2>4. QED
    BY <2>1, <2>2, <2>3
<1>10. OfKind("call", parts) = Those(parts, K)
  BY <1>1, <1>3, OfKindIs
<1>11. QED
  BY <1>1, <1>5, <1>6, <1>7, <1>8, <1>9, <1>10

\* What is gathered of an answer, and of the results of its calls.
Held3(msgs, t, ids) == [msgs |-> msgs, text |-> t, calls |-> ids]

LEMMA GatherTexts ==
  ASSUME NEW role \in Senders, NEW r \in Seq(Nat), NEW t \in Seq(Nat), NEW none, none = << >>
  PROVE  GatheredFrom(role, TextsOf(r, t)) = Held3(none, t, none)
<1>1. PICK p, q, a, b : /\ p = [kind |-> "thought", text |-> r]
                        /\ q = [kind |-> "text", text |-> t]
                        /\ a = TextPart("thought", r) /\ b = TextPart("text", t)
  OBVIOUS
<1>2. p \in PartSet /\ q \in PartSet /\ p.kind = "thought" /\ q.kind = "text" /\ q.text = t
      /\ a \in Seq(PartSet) /\ b \in Seq(PartSet) /\ none \in Seq(PartSet)
  BY <1>1, TextPartIs, EmptySeq
<1>3. PICK z : z = NothingGathered
  OBVIOUS
<1>4. z = Held3(none, none, none) /\ z \in Gather /\ GatheredFrom(role, none) = z
  <2>1. z = Held3(none, none, none)
    BY <1>3 DEF NothingGathered, Held3
  <2>2. NothingGathered \in Gather /\ GatheredFrom(role, << >>) = NothingGathered
    BY GatherLaws
  <2>3. QED
    BY <1>3, <2>1, <2>2
<1>5. GatheredFrom(role, a) = z
  <2>1. CASE r = << >>
    BY <1>1, <1>4, <2>1 DEF TextPart
  <2>2. CASE r # << >>
    <3>1. a = << p >>
      BY <1>1, <2>2 DEF TextPart
    <3>2. a = Append(none, p)
      BY <3>1
    <3>3. GatheredFrom(role, Append(none, p)) = Gathered(role, z, p)
      BY <1>2, <1>4, GatherLaws
    <3>4. PICK g : g = Gathered(role, z, p)
      OBVIOUS
    <3>5. g = z
      <4>1. GatheredAs(role, z, p, g)
        BY <1>2, <1>4, <3>4, GatheredIs
      <4>2. QED
        BY <1>2, <4>1 DEF GatheredAs
    <3>6. QED
      BY <3>2, <3>3, <3>4, <3>5
  <2>3. QED
    BY <2>1, <2>2
<1>6. GatheredFrom(role, a \o b) = Held3(none, t, none)
  <2>1. CASE t = << >>
    <3>1. b = << >>
      BY <1>1, <2>1 DEF TextPart
    <3>2. a \o << >> = a
      BY <1>2, ConcatEmptySeq
    <3>3. a \o b = a
      BY <3>1, <3>2
    <3>4. t = none
      BY <2>1
    <3>5. QED
      BY <1>4, <1>5, <3>3, <3>4
  <2>2. CASE t # << >>
    <3>1. b = << q >>
      BY <1>1, <2>2 DEF TextPart
    <3>2. a \o << q >> = Append(a, q)
      BY <1>2, AppendIsConcat
    <3>3. GatheredFrom(role, Append(a, q)) = Gathered(role, z, q)
      BY <1>2, <1>5, GatherLaws
    <3>4. PICK g : g = Gathered(role, z, q)
      OBVIOUS
    <3>5. g = [msgs |-> z.msgs, text |-> z.text \o q.text, calls |-> z.calls]
      <4>1. GatheredAs(role, z, q, g)
        BY <1>2, <1>4, <3>4, GatheredIs
      <4>2. QED
        BY <1>2, <4>1 DEF GatheredAs
    <3>6. z.msgs = none /\ z.text = none /\ z.calls = none
      BY <1>4 DEF Held3
    <3>7. << >> \o t = t
      BY ConcatEmptySeq
    <3>8. z.text \o q.text = t
      BY <1>2, <3>6, <3>7
    <3>9. g = Held3(none, t, none)
      BY <3>5, <3>6, <3>8 DEF Held3
    <3>10. QED
      BY <3>1, <3>2, <3>3, <3>4, <3>9
  <2>3. QED
    BY <2>1, <2>2
<1>7. TextsOf(r, t) = a \o b
  BY <1>1 DEF TextsOf
<1>8. QED
  BY <1>6, <1>7

LEMMA GatherAnswer ==
  ASSUME NEW role \in Senders, NEW r \in Seq(Nat), NEW t \in Seq(Nat), NEW calls \in Seq(CallRec),
         NEW none, none = << >>
  PROVE  GatheredFrom(role, AnswerParts(r, t, calls)) = Held3(none, t, MapOf(IdMap, calls))
<1>1. PICK d : d = TextsOf(r, t)
  OBVIOUS
<1>2. d \in Seq(PartSet) /\ GatheredFrom(role, d) = Held3(none, t, none)
  BY <1>1, AnswerPartsType, EmptySeq, GatherTexts
<1> DEFINE T == { s \in Seq(CallRec) :
                    GatheredFrom(role, d \o MapOf(CallMap, s)) = Held3(none, t, MapOf(IdMap, s)) }
<1>3. none \in T
  <2>1. none \in Seq(CallRec) /\ Len(none) = 0
    BY EmptySeq
  <2>2. PICK m, k : m = MapOf(CallMap, none) /\ k = MapOf(IdMap, none)
    OBVIOUS
  <2>3. IsMap(CallMap, none, PartSet, m)
    BY <2>1, <2>2, CallMaps, MapType
  <2>4. IsMap(IdMap, none, Nat, k)
    BY <2>1, <2>2, CallMaps, MapType
  <2>5. m \in Seq(PartSet) /\ Len(m) = 0 /\ k \in Seq(Nat) /\ Len(k) = 0
    BY <2>1, <2>3, <2>4 DEF IsMap
  <2>6. m = << >> /\ k = << >>
    BY <2>5, EmptySeq
  <2>7. d \o << >> = d
    BY <1>2, ConcatEmptySeq
  <2>8. d \o m = d /\ k = none
    BY <2>6, <2>7
  <2>9. QED
    BY <1>2, <2>1, <2>2, <2>8
<1>4. ASSUME NEW s \in Seq(CallRec), NEW c \in CallRec, s \in T PROVE Append(s, c) \in T
  <2>1. PICK u, p, m, e, ids : /\ u = Append(s, c) /\ p = CallPart(c) /\ m = MapOf(CallMap, s)
                               /\ e = d \o m /\ ids = MapOf(IdMap, s)
    OBVIOUS
  <2>2. u \in Seq(CallRec) /\ p \in PartSet /\ p.kind = "call" /\ p.id = c.id /\ c.id \in Nat
    <3>1. u \in Seq(CallRec)
      BY <2>1, AppendProperties
    <3>2. QED
      BY <2>1, <3>1, CallPartIs
  <2>3. m \in Seq(PartSet) /\ ids \in Seq(Nat)
    <3>1. IsMap(CallMap, s, PartSet, m)
      BY <2>1, CallMaps, MapType
    <3>2. IsMap(IdMap, s, Nat, ids)
      BY <2>1, CallMaps, MapType
    <3>3. QED
      BY <3>1, <3>2 DEF IsMap
  <2>4. e \in Seq(PartSet)
    BY <1>2, <2>1, <2>3, ConcatProperties
  <2>5. MapOf(CallMap, u) = Append(m, p)
    <3>1. CallMore(s, c, u)
      BY <2>1, CallJoins
    <3>2. QED
      BY <2>1, <3>1 DEF CallMore
  <2>6. MapOf(IdMap, u) = Append(ids, c.id)
    <3>1. CallMore(s, c, u)
      BY <2>1, CallJoins
    <3>2. QED
      BY <2>1, <3>1 DEF CallMore
  <2>7. d \o Append(m, p) = Append(e, p)
    <3>1. AppendsBehind(d, m, p)
      BY <1>2, <2>2, <2>3, AppendOnConcat
    <3>2. QED
      BY <2>1, <3>1 DEF AppendsBehind
  <2>8. GatheredFrom(role, Append(e, p)) = Gathered(role, GatheredFrom(role, e), p)
    BY <2>2, <2>4, GatherLaws
  <2>9. PICK z, g : z = GatheredFrom(role, e) /\ g = Gathered(role, z, p)
    OBVIOUS
  <2>10. z = Held3(none, t, ids) /\ z \in Gather
    <3>1. z = Held3(none, t, ids)
      BY <1>4, <2>1, <2>9
    <3>2. z \in Gather
      BY <2>4, <2>9, GatherLaws
    <3>3. QED
      BY <3>1, <3>2
  <2>11. g = [msgs |-> z.msgs, text |-> z.text, calls |-> Append(z.calls, p.id)]
    <3>1. GatheredAs(role, z, p, g)
      BY <2>2, <2>9, <2>10, GatheredIs
    <3>2. QED
      BY <2>2, <3>1 DEF GatheredAs
  <2>12. z.msgs = none /\ z.text = t /\ z.calls = ids
    BY <2>10 DEF Held3
  <2>13. g = Held3(none, t, Append(ids, c.id))
    BY <2>2, <2>11, <2>12 DEF Held3
  <2>14. QED
    BY <2>2, <2>5, <2>6, <2>7, <2>8, <2>9, <2>13, <2>1
<1>5. << >> \in T
  BY <1>3
<1> HIDE DEF T
<1>6. calls \in T
  BY <1>4, <1>5, SeqInductive
<1>7. AnswerParts(r, t, calls) = d \o MapOf(CallMap, calls)
  BY <1>1 DEF AnswerParts
<1>8. QED
  BY <1>6, <1>7 DEF T

LEMMA GatherResults ==
  ASSUME NEW role \in Senders, NEW calls \in Seq(CallRec), NEW none, none = << >>
  PROVE  GatheredFrom(role, MapOf(ResultMap, calls)) = Held3(MapOf(ToolMap, calls), none, none)
<1> DEFINE T == { s \in Seq(CallRec) :
                    GatheredFrom(role, MapOf(ResultMap, s)) = Held3(MapOf(ToolMap, s), none, none) }
<1>1. none \in Seq(CallRec) /\ none \in Seq(Nat) /\ Len(none) = 0
  BY EmptySeq
<1>2. none \in T
  <2>1. PICK m, k : m = MapOf(ResultMap, none) /\ k = MapOf(ToolMap, none)
    OBVIOUS
  <2>2. IsMap(ResultMap, none, PartSet, m)
    BY <1>1, <2>1, CallMaps, MapType
  <2>3. IsMap(ToolMap, none, ChatMessage, k)
    BY <1>1, <2>1, CallMaps, MapType
  <2>4. m \in Seq(PartSet) /\ Len(m) = 0 /\ k \in Seq(ChatMessage) /\ Len(k) = 0
    BY <1>1, <2>2, <2>3 DEF IsMap
  <2>5. m = << >> /\ k = none
    BY <2>4, EmptySeq
  <2>6. GatheredFrom(role, << >>) = NothingGathered
    BY GatherLaws
  <2>7. NothingGathered = Held3(none, none, none)
    BY DEF NothingGathered, Held3
  <2>8. QED
    BY <1>1, <2>1, <2>5, <2>6, <2>7
<1>3. ASSUME NEW s \in Seq(CallRec), NEW c \in CallRec, s \in T PROVE Append(s, c) \in T
  <2>1. PICK u, p, m, k, x : /\ u = Append(s, c) /\ p = ResultPart(c.id) /\ m = MapOf(ResultMap, s)
                             /\ k = MapOf(ToolMap, s) /\ x = ToolMessage(c.id)
    OBVIOUS
  <2>2. u \in Seq(CallRec)
    BY <2>1, AppendProperties
  <2>3. c.id \in Nat /\ p \in PartSet /\ p.kind = "result" /\ p.id = c.id /\ x \in ChatMessage
    <3>1. c.id \in Nat
      BY CallPartIs
    <3>2. p \in PartSet /\ p.kind = "result" /\ p.id = c.id
      BY <2>1, <3>1, ResultPartIs
    <3>3. QED
      BY <2>1, <3>1, <3>2, ToolMessageIs
  <2>4. m \in Seq(PartSet) /\ k \in Seq(ChatMessage)
    <3>1. IsMap(ResultMap, s, PartSet, m)
      BY <2>1, CallMaps, MapType
    <3>2. IsMap(ToolMap, s, ChatMessage, k)
      BY <2>1, CallMaps, MapType
    <3>3. QED
      BY <3>1, <3>2 DEF IsMap
  <2>5. MapOf(ResultMap, u) = Append(m, p)
    <3>1. CallMore(s, c, u)
      BY <2>1, CallJoins
    <3>2. QED
      BY <2>1, <3>1 DEF CallMore
  <2>6. MapOf(ToolMap, u) = Append(k, x)
    <3>1. CallMore(s, c, u)
      BY <2>1, CallJoins
    <3>2. QED
      BY <2>1, <3>1 DEF CallMore
  <2>7. GatheredFrom(role, Append(m, p)) = Gathered(role, GatheredFrom(role, m), p)
    BY <2>3, <2>4, GatherLaws
  <2>8. PICK z, g, f : /\ z = GatheredFrom(role, m) /\ g = Gathered(role, z, p)
                       /\ f = FlushedMessage(role, none, none)
    OBVIOUS
  <2>9. z = Held3(k, none, none) /\ z \in Gather
    <3>1. z = Held3(k, none, none)
      BY <1>3, <2>1, <2>8
    <3>2. z \in Gather
      BY <2>4, <2>8, GatherLaws
    <3>3. QED
      BY <3>1, <3>2
  <2>10. z.msgs = k /\ z.text = none /\ z.calls = none
    BY <2>9 DEF Held3
  <2>11. g = [msgs |-> z.msgs \o FlushedMessage(role, z.text, z.calls) \o << ToolMessage(p.id) >>,
              text |-> << >>, calls |-> << >>]
    <3>1. GatheredAs(role, z, p, g)
      BY <2>3, <2>8, <2>9, GatheredIs
    <3>2. QED
      BY <2>3, <3>1 DEF GatheredAs
  <2>12. f = << >>
    BY <2>8 DEF FlushedMessage
  <2>13. k \o << >> = k
    BY <2>4, ConcatEmptySeq
  <2>14. k \o << x >> = Append(k, x)
    BY <2>3, <2>4, AppendIsConcat
  <2>15. z.msgs \o FlushedMessage(role, z.text, z.calls) = k
    BY <2>8, <2>10, <2>12, <2>13
  <2>16. z.msgs \o FlushedMessage(role, z.text, z.calls) \o << ToolMessage(p.id) >> = Append(k, x)
    BY <2>1, <2>3, <2>14, <2>15
  <2>17. g = Held3(Append(k, x), none, none)
    BY <2>11, <2>16 DEF Held3
  <2>18. QED
    BY <2>1, <2>2, <2>5, <2>6, <2>7, <2>8, <2>17
<1>4. << >> \in T
  BY <1>2
<1> HIDE DEF T
<1>5. calls \in T
  BY <1>3, <1>4, SeqInductive
<1>6. QED
  BY <1>5 DEF T

-----------------------------------------------------------------------------
(***************************************************************************)
(* What a request tells, as the history grows.                             *)
(***************************************************************************)
CalledFor(msgs, j) ==
  \E i \in 1 .. j - 1 :
     /\ msgs[i].role = "assistant"
     /\ msgs[j].answers \in ToSet(msgs[i].calls)
     /\ \A n \in i + 1 .. j - 1 : msgs[n].role = "tool"

Answering(msgs) == \A j \in DOMAIN msgs : msgs[j].role = "tool" => CalledFor(msgs, j)

Tells(cs) ==
  /\ ToldBy(toChatMessages(cs)) = FlatMap(HistoryMap, cs)
  /\ Answering(toChatMessages(cs))

Speakers == {"user", "model"}

\* The content of an answer, or of what a user says, is one message or none.
SpokenAs(c, role, t, calls) ==
  /\ contentToMessages(c) = FlushedMessage(mapRole(role), t, MapOf(IdMap, calls))
  /\ HeldBy(c.parts) = t \o MapOf(IdMap, calls)

LEMMA AnswerMessage ==
  ASSUME NEW role \in Speakers, NEW r \in Seq(Nat), NEW t \in Seq(Nat), NEW calls \in Seq(CallRec),
         NEW parts, parts = AnswerParts(r, t, calls), NEW c, c = [role |-> role, parts |-> parts]
  PROVE  c \in ContentSet /\ SpokenAs(c, role, t, calls)
<1>1. parts \in Seq(PartSet)
  BY AnswerPartsType
<1>2. c \in ContentSet /\ c.role = role /\ c.parts = parts
  BY <1>1 DEF ContentSet, Speakers
<1>3. PICK who, end, none, ids : /\ who = mapRole(role) /\ none = << >>
                                 /\ end = GatheredFrom(who, parts) /\ ids = MapOf(IdMap, calls)
  OBVIOUS
<1>4. who \in Senders
  BY <1>3 DEF mapRole, Senders
<1>5. end = Held3(none, t, ids)
  BY <1>3, <1>4, GatherAnswer
<1>6. contentToMessages(c) = end.msgs \o FlushedMessage(who, end.text, end.calls)
  <2>1. who = mapRole(c.role) /\ end = GatheredFrom(who, c.parts)
    BY <1>2, <1>3
  <2>2. Says(c, who, end)
    BY <1>2, <2>1, MessagesAre
  <2>3. QED
    BY <2>2 DEF Says
<1>7. end.msgs = none /\ end.text = t /\ end.calls = ids
  BY <1>5 DEF Held3
<1>8. ids \in Seq(Nat)
  <2>1. IsMap(IdMap, calls, Nat, ids)
    BY <1>3, CallMaps, MapType
  <2>2. QED
    BY <2>1 DEF IsMap
<1>9. FlushedMessage(who, t, ids) \in Seq(ChatMessage)
  BY <1>4, <1>8, FlushedMessageIs
<1>10. << >> \o FlushedMessage(who, t, ids) = FlushedMessage(who, t, ids)
  BY <1>9, ConcatEmptySeq
<1>11. HeldBy(parts) = t \o ids
  <2>1. HeldBy(parts) = t \o MapOf(IdMap, calls)
    BY AnswerHolds
  <2>2. QED
    BY <1>3, <2>1
<1>12. QED
  BY <1>2, <1>3, <1>6, <1>7, <1>10, <1>11 DEF SpokenAs

\* The content of results is one message each.
LEMMA ResultMessages ==
  ASSUME NEW calls \in Seq(CallRec), NEW parts, parts = MapOf(ResultMap, calls),
         NEW c, c = [role |-> "user", parts |-> parts]
  PROVE  /\ c \in ContentSet
         /\ contentToMessages(c) = MapOf(ToolMap, calls)
         /\ parts \in Seq(PartSet)
<1>1. parts \in Seq(PartSet)
  BY CallMaps, MapType DEF IsMap
<1>2. c \in ContentSet /\ c.role = "user" /\ c.parts = parts
  BY <1>1 DEF ContentSet
<1>3. PICK who, end, none, tools : /\ who = mapRole("user") /\ none = << >>
                                   /\ end = GatheredFrom(who, parts)
                                   /\ tools = MapOf(ToolMap, calls)
  OBVIOUS
<1>4. who \in Senders
  BY <1>3 DEF mapRole, Senders
<1>5. end = Held3(tools, none, none)
  BY <1>3, <1>4, GatherResults
<1>6. contentToMessages(c) = end.msgs \o FlushedMessage(who, end.text, end.calls)
  <2>1. who = mapRole(c.role) /\ end = GatheredFrom(who, c.parts)
    BY <1>2, <1>3
  <2>2. Says(c, who, end)
    BY <1>2, <2>1, MessagesAre
  <2>3. QED
    BY <2>2 DEF Says
<1>7. end.msgs = tools /\ end.text = none /\ end.calls = none
  BY <1>5 DEF Held3
<1>8. FlushedMessage(who, none, none) = << >>
  BY <1>3 DEF FlushedMessage
<1>9. tools \in Seq(ChatMessage)
  BY <1>3, CallMaps, MapType DEF IsMap
<1>10. tools \o << >> = tools
  BY <1>9, ConcatEmptySeq
<1>11. QED
  BY <1>1, <1>2, <1>3, <1>6, <1>7, <1>8, <1>10

\* What these messages tell.
TellsAll(role, f, t, ids) == ToldBy(f) = t \o ids

LEMMA FlushedTold ==
  ASSUME NEW role \in Senders, NEW t \in Seq(Nat), NEW ids \in Seq(Nat),
         NEW f, f = FlushedMessage(role, t, ids)
  PROVE  TellsAll(role, f, t, ids)
<1>1. f \in Seq(ChatMessage)
  BY FlushedMessageIs
<1>2. FlatMapLaws(HeardMap, ChatMessage, Nat)
  BY HeardType, FlatMapObeys
<1>3. ToldBy(f) = FlatMap(HeardMap, f)
  BY <1>1, ToldIs
<1>4. CASE t = << >> /\ ids = << >>
  <2>1. f = << >>
    BY <1>4 DEF FlushedMessage
  <2>2. FlatMap(HeardMap, << >>) = << >>
    BY <1>2 DEF FlatMapLaws
  <2>3. t \o << >> = t
    BY ConcatEmptySeq
  <2>4. QED
    BY <1>3, <1>4, <2>1, <2>2, <2>3 DEF TellsAll
<1>5. CASE ~ (t = << >> /\ ids = << >>)
  <2>1. PICK m : m = [role |-> role, text |-> t, calls |-> ids, answers |-> 0]
    OBVIOUS
  <2>2. f = << m >>
    BY <1>5, <2>1 DEF FlushedMessage
  <2>3. m \in ChatMessage
    BY <2>1, FlushedMessageIs
  <2>4. FlatMap(HeardMap, << m >>) = HeardMap[m]
    BY <1>2, <2>3 DEF FlatMapLaws
  <2>5. HeardMap[m] = Heard(m)
    BY <2>3 DEF HeardMap
  <2>6. Answer(m) = << >> /\ m.text = t /\ m.calls = ids
    BY <2>1 DEF Answer, Senders
  <2>7. t \o ids \in Seq(Nat)
    BY ConcatProperties
  <2>8. (t \o ids) \o << >> = t \o ids
    BY <2>7, ConcatEmptySeq
  <2>9. Heard(m) = t \o ids
    BY <2>6, <2>8 DEF Heard
  <2>10. QED
    BY <1>3, <2>2, <2>4, <2>5, <2>9 DEF TellsAll
<1>6. QED
  BY <1>4, <1>5 DEF TellsAll

LEMMA ResultsTold ==
  ASSUME NEW calls \in Seq(CallRec)
  PROVE  /\ ToldBy(MapOf(ToolMap, calls)) = MapOf(IdMap, calls)
         /\ HeldBy(MapOf(ResultMap, calls)) = MapOf(IdMap, calls)
<1>1. FlatMapLaws(HeldMap, PartSet, Nat) /\ FlatMapLaws(HeardMap, ChatMessage, Nat)
  BY HeldType, HeardType, FlatMapObeys
<1> DEFINE T == { s \in Seq(CallRec) :
                    /\ FlatMap(HeldMap, MapOf(ResultMap, s)) = MapOf(IdMap, s)
                    /\ FlatMap(HeardMap, MapOf(ToolMap, s)) = MapOf(IdMap, s) }
<1>2. PICK none : none = << >>
  OBVIOUS
<1>3. none \in Seq(CallRec) /\ none \in Seq(Nat) /\ Len(none) = 0
  BY <1>2, EmptySeq
<1>4. none \in T
  <2>1. PICK m, k, l : /\ m = MapOf(ResultMap, none) /\ k = MapOf(ToolMap, none)
                       /\ l = MapOf(IdMap, none)
    OBVIOUS
  <2>2. IsMap(ResultMap, none, PartSet, m)
    BY <1>3, <2>1, CallMaps, MapType
  <2>3. IsMap(ToolMap, none, ChatMessage, k)
    BY <1>3, <2>1, CallMaps, MapType
  <2>4. IsMap(IdMap, none, Nat, l)
    BY <1>3, <2>1, CallMaps, MapType
  <2>5. /\ m \in Seq(PartSet) /\ Len(m) = 0 /\ k \in Seq(ChatMessage) /\ Len(k) = 0
        /\ l \in Seq(Nat) /\ Len(l) = 0
    BY <1>3, <2>2, <2>3, <2>4 DEF IsMap
  <2>6. m = << >> /\ k = << >> /\ l = << >>
    BY <2>5, EmptySeq
  <2>7. FlatMap(HeldMap, << >>) = << >> /\ FlatMap(HeardMap, << >>) = << >>
    BY <1>1 DEF FlatMapLaws
  <2>8. QED
    BY <1>3, <2>1, <2>6, <2>7
<1>5. ASSUME NEW s \in Seq(CallRec), NEW c \in CallRec, s \in T PROVE Append(s, c) \in T
  <2>1. PICK u, p, m, k, x, ids :
          /\ u = Append(s, c) /\ p = ResultPart(c.id) /\ m = MapOf(ResultMap, s)
          /\ k = MapOf(ToolMap, s) /\ x = ToolMessage(c.id) /\ ids = MapOf(IdMap, s)
    OBVIOUS
  <2>2. u \in Seq(CallRec)
    BY <2>1, AppendProperties
  <2>3. c.id \in Nat /\ p \in PartSet /\ p.kind = "result" /\ p.id = c.id /\ x \in ChatMessage
    <3>1. c.id \in Nat
      BY CallPartIs
    <3>2. p \in PartSet /\ p.kind = "result" /\ p.id = c.id
      BY <2>1, <3>1, ResultPartIs
    <3>3. QED
      BY <2>1, <3>1, <3>2, ToolMessageIs
  <2>4. m \in Seq(PartSet) /\ k \in Seq(ChatMessage) /\ ids \in Seq(Nat)
    <3>1. IsMap(ResultMap, s, PartSet, m)
      BY <2>1, CallMaps, MapType
    <3>2. IsMap(ToolMap, s, ChatMessage, k)
      BY <2>1, CallMaps, MapType
    <3>3. IsMap(IdMap, s, Nat, ids)
      BY <2>1, CallMaps, MapType
    <3>4. QED
      BY <3>1, <3>2, <3>3 DEF IsMap
  <2>5. /\ MapOf(ResultMap, u) = Append(m, p) /\ MapOf(ToolMap, u) = Append(k, x)
        /\ MapOf(IdMap, u) = Append(ids, c.id)
    <3>1. CallMore(s, c, u)
      BY <2>1, CallJoins
    <3>2. QED
      BY <2>1, <3>1 DEF CallMore
  <2>6. FlatMap(HeldMap, Append(m, p)) = FlatMap(HeldMap, m) \o HeldMap[p]
    BY <1>1, <2>3, <2>4 DEF FlatMapLaws
  <2>7. FlatMap(HeardMap, Append(k, x)) = FlatMap(HeardMap, k) \o HeardMap[x]
    BY <1>1, <2>3, <2>4 DEF FlatMapLaws
  <2>8. HeldMap[p] = << c.id >>
    <3>1. Held(p) = << p.id >>
      BY <2>3, HeldIs
    <3>2. QED
      BY <2>3, <3>1 DEF HeldMap
  <2>9. HeardMap[x] = << c.id >>
    <3>1. x.text = none /\ x.calls = none /\ Answer(x) = << c.id >>
      BY <1>2, <2>1 DEF ToolMessage, Answer
    <3>2. none \o << >> = none
      BY <1>3, ConcatEmptySeq
    <3>3. << c.id >> \in Seq(Nat)
      BY <2>3
    <3>4. << >> \o << c.id >> = << c.id >>
      BY <3>3, ConcatEmptySeq
    <3>5. Heard(x) = << c.id >>
      BY <1>2, <3>1, <3>2, <3>4 DEF Heard
    <3>6. QED
      BY <2>3, <3>5 DEF HeardMap
  <2>10. ids \o << c.id >> = Append(ids, c.id)
    BY <2>3, <2>4, AppendIsConcat
  <2>11. FlatMap(HeldMap, m) = ids /\ FlatMap(HeardMap, k) = ids
    BY <1>5, <2>1
  <2>12. QED
    BY <2>1, <2>2, <2>5, <2>6, <2>7, <2>8, <2>9, <2>10, <2>11
<1>6. << >> \in T
  BY <1>2, <1>4
<1> HIDE DEF T
<1>7. calls \in T
  BY <1>5, <1>6, SeqInductive
<1>8. PICK parts, tools : parts = MapOf(ResultMap, calls) /\ tools = MapOf(ToolMap, calls)
  OBVIOUS
<1>9. parts \in Seq(PartSet) /\ tools \in Seq(ChatMessage)
  <2>1. IsMap(ResultMap, calls, PartSet, parts)
    BY <1>8, CallMaps, MapType
  <2>2. IsMap(ToolMap, calls, ChatMessage, tools)
    BY <1>8, CallMaps, MapType
  <2>3. QED
    BY <2>1, <2>2 DEF IsMap
<1>10. HeldBy(parts) = FlatMap(HeldMap, parts) /\ ToldBy(tools) = FlatMap(HeardMap, tools)
  BY <1>9, HeldByIs, ToldIs
<1>11. QED
  BY <1>7, <1>8, <1>10 DEF T

\* Results stay behind the message that calls for them, whatever follows.
LEMMA AnsweringOn ==
  ASSUME NEW ms \in Seq(ChatMessage), Answering(ms), NEW x \in ChatMessage, x.role # "tool"
  PROVE  Answering(Append(ms, x))
<1>1. PICK l, n : l = Append(ms, x) /\ n = Len(ms)
  OBVIOUS
<1>2. n \in Nat /\ DOMAIN ms = 1 .. n /\ DOMAIN l = 1 .. n + 1 /\ l[n + 1] = x
      /\ \A i \in 1 .. n : l[i] = ms[i]
  <2>1. l \in Seq(ChatMessage) /\ Len(l) = n + 1 /\ l[n + 1] = x /\ \A i \in 1 .. n : l[i] = ms[i]
    BY <1>1, AppendProperties
  <2>2. QED
    BY <1>1, <2>1, LenProperties
<1>3. ASSUME NEW j \in DOMAIN l, l[j].role = "tool" PROVE CalledFor(l, j)
  <2>1. j \in 1 .. n /\ l[j] = ms[j] /\ j \in DOMAIN ms
    <3>1. j # n + 1
      BY <1>2, <1>3
    <3>2. j \in 1 .. n
      BY <1>2, <3>1
    <3>3. QED
      BY <1>2, <3>2
  <2>2. PICK i \in 1 .. j - 1 :
          /\ ms[i].role = "assistant" /\ ms[j].answers \in ToSet(ms[i].calls)
          /\ \A k \in i + 1 .. j - 1 : ms[k].role = "tool"
    BY <1>3, <2>1 DEF Answering, CalledFor
  <2>3. i \in 1 .. n /\ \A k \in i + 1 .. j - 1 : k \in 1 .. n
    BY <1>2, <2>1
  <2>4. l[i] = ms[i] /\ \A k \in i + 1 .. j - 1 : l[k] = ms[k]
    BY <1>2, <2>3
  <2>5. QED
    BY <2>1, <2>2, <2>4 DEF CalledFor
<1>4. QED
  BY <1>1, <1>3 DEF Answering

LEMMA AnsweringFlushed ==
  ASSUME NEW ms \in Seq(ChatMessage), Answering(ms), NEW role \in Senders,
         NEW t \in Seq(Nat), NEW ids \in Seq(Nat), NEW f, f = FlushedMessage(role, t, ids)
  PROVE  Answering(ms \o f)
<1>1. CASE t = << >> /\ ids = << >>
  <2>1. f = << >>
    BY <1>1 DEF FlushedMessage
  <2>2. ms \o << >> = ms
    BY ConcatEmptySeq
  <2>3. QED
    BY <2>1, <2>2
<1>2. CASE ~ (t = << >> /\ ids = << >>)
  <2>1. PICK m : m = [role |-> role, text |-> t, calls |-> ids, answers |-> 0]
    OBVIOUS
  <2>2. f = << m >>
    BY <1>2, <2>1 DEF FlushedMessage
  <2>3. m \in ChatMessage /\ m.role # "tool"
    <3>1. m \in ChatMessage
      BY <2>1, FlushedMessageIs
    <3>2. QED
      BY <2>1, <3>1 DEF Senders
  <2>4. ms \o << m >> = Append(ms, m)
    BY <2>3, AppendIsConcat
  <2>5. Answering(Append(ms, m))
    BY <2>3, AnsweringOn
  <2>6. QED
    BY <2>2, <2>4, <2>5
<1>3. QED
  BY <1>1, <1>2

LEMMA AnsweringTools ==
  ASSUME NEW ms \in Seq(ChatMessage), Answering(ms), NEW a \in ChatMessage, a.role = "assistant",
         NEW calls \in Seq(CallRec), a.calls = MapOf(IdMap, calls), NEW l, l = Append(ms, a),
         NEW tools, tools = MapOf(ToolMap, calls), NEW all, all = l \o tools
  PROVE  Answering(all)
<1>1. PICK n, k, ids : n = Len(l) /\ k = Len(calls) /\ ids = MapOf(IdMap, calls)
  OBVIOUS
<1>2. l \in Seq(ChatMessage) /\ n \in Nat /\ n # 0 /\ l[n] = a /\ k \in Nat
  <2>1. l \in Seq(ChatMessage) /\ Len(l) = Len(ms) + 1 /\ l[Len(ms) + 1] = a /\ Len(ms) \in Nat
    BY AppendProperties, LenProperties
  <2>2. QED
    BY <1>1, <2>1, LenProperties
<1>3. DOMAIN l = 1 .. n
  BY <1>1, <1>2, LenProperties
<1>4. Answering(l)
  <2>1. a.role # "tool"
    OBVIOUS
  <2>2. Answering(Append(ms, a))
    BY <2>1, AnsweringOn
  <2>3. QED
    BY <2>2
<1>5. /\ tools \in Seq(ChatMessage) /\ Len(tools) = k
      /\ \A i \in 1 .. k : tools[i] = ToolMessage(calls[i].id)
  <2>1. IsMap(ToolMap, calls, ChatMessage, tools)
    BY CallMaps, MapType
  <2>2. \A i \in 1 .. k : calls[i] \in CallRec
    BY <1>1, ElementOfSeq
  <2>3. \A i \in 1 .. k : ToolMap[calls[i]] = ToolMessage(calls[i].id)
    BY <2>2 DEF ToolMap
  <2>4. QED
    BY <1>1, <2>1, <2>3 DEF IsMap
<1>6. /\ ids \in Seq(Nat) /\ Len(ids) = k
      /\ \A i \in 1 .. k : ids[i] = calls[i].id
  <2>1. IsMap(IdMap, calls, Nat, ids)
    BY <1>1, CallMaps, MapType
  <2>2. \A i \in 1 .. k : calls[i] \in CallRec
    BY <1>1, ElementOfSeq
  <2>3. \A i \in 1 .. k : IdMap[calls[i]] = calls[i].id
    BY <2>2 DEF IdMap
  <2>4. QED
    BY <1>1, <2>1, <2>3 DEF IsMap
<1>7. /\ DOMAIN all = 1 .. n + k
      /\ \A i \in 1 .. n : all[i] = l[i]
      /\ \A i \in n + 1 .. n + k : all[i] = tools[i - n]
  <2>1. /\ l \o tools \in Seq(ChatMessage) /\ Len(l \o tools) = Len(l) + Len(tools)
        /\ \A i \in 1 .. Len(l) + Len(tools) :
             (l \o tools)[i] = IF i <= Len(l) THEN l[i] ELSE tools[i - Len(l)]
    BY <1>2, <1>5, ConcatProperties
  <2>2. /\ all \in Seq(ChatMessage) /\ Len(all) = n + k
        /\ \A i \in 1 .. n + k : all[i] = IF i <= n THEN l[i] ELSE tools[i - n]
    BY <1>1, <1>5, <2>1
  <2>3. DOMAIN all = 1 .. n + k
    BY <2>2, LenProperties
  <2>4. \A i \in 1 .. n : i \in 1 .. n + k /\ i <= n
    BY <1>2
  <2>5. \A i \in n + 1 .. n + k : i \in 1 .. n + k /\ ~ (i <= n)
    BY <1>2
  <2>6. QED
    BY <2>2, <2>3, <2>4, <2>5
<1>8. ASSUME NEW i \in n + 1 .. n + k
      PROVE  all[i].role = "tool" /\ all[i].answers \in ToSet(a.calls)
  <2>1. i - n \in 1 .. k
    BY <1>2
  <2>2. all[i] = ToolMessage(calls[i - n].id)
    BY <1>5, <1>7, <2>1
  <2>3. ids[i - n] = calls[i - n].id /\ ids[i - n] \in ToSet(ids)
    <3>1. i - n \in 1 .. Len(ids)
      BY <1>6, <2>1
    <3>2. QED
      BY <1>6, <2>1, <3>1, SetOfSeq
  <2>4. all[i].role = "tool" /\ all[i].answers = calls[i - n].id
    BY <2>2 DEF ToolMessage
  <2>5. QED
    BY <1>1, <2>3, <2>4
<1>9. ASSUME NEW j \in DOMAIN all, all[j].role = "tool" PROVE CalledFor(all, j)
  <2>1. CASE j \in 1 .. n
    <3>1. all[j] = l[j] /\ j \in DOMAIN l
      BY <1>3, <1>7, <2>1
    <3>2. PICK i \in 1 .. j - 1 :
            /\ l[i].role = "assistant" /\ l[j].answers \in ToSet(l[i].calls)
            /\ \A m \in i + 1 .. j - 1 : l[m].role = "tool"
      BY <1>4, <1>9, <3>1 DEF Answering, CalledFor
    <3>3. i \in 1 .. n /\ \A m \in i + 1 .. j - 1 : m \in 1 .. n
      BY <1>2, <2>1
    <3>4. all[i] = l[i] /\ \A m \in i + 1 .. j - 1 : all[m] = l[m]
      BY <1>7, <3>3
    <3>5. QED
      BY <3>1, <3>2, <3>4 DEF CalledFor
  <2>2. CASE j \notin 1 .. n
    <3>1. j \in n + 1 .. n + k /\ n \in 1 .. n /\ n \in 1 .. j - 1
          /\ \A m \in n + 1 .. j - 1 : m \in n + 1 .. n + k
      BY <1>2, <1>7, <2>2
    <3>2. all[n] = a
      BY <1>2, <1>7, <3>1
    <3>3. all[j].answers \in ToSet(all[n].calls)
      BY <1>8, <3>1, <3>2
    <3>4. \A m \in n + 1 .. j - 1 : all[m].role = "tool"
      BY <1>8, <3>1
    <3>5. QED
      BY <3>1, <3>2, <3>3, <3>4 DEF CalledFor
  <2>3. QED
    BY <2>1, <2>2
<1>10. QED
  BY <1>9 DEF Answering

TellsWith(cs, c, ms, new, ds) ==
  /\ ds \in Seq(ContentSet) /\ ms \in Seq(ChatMessage) /\ new \in Seq(ChatMessage)
  /\ Answering(ms)
  /\ toChatMessages(ds) = ms \o new
  /\ ToldBy(new) = HeldBy(c.parts) /\ Answering(ms \o new) => Tells(ds)

LEMMA TellsMore ==
  ASSUME NEW cs \in Seq(ContentSet), NEW c \in ContentSet, Tells(cs),
         NEW ms, ms = toChatMessages(cs), NEW new, new = contentToMessages(c),
         NEW ds, ds = Append(cs, c)
  PROVE  TellsWith(cs, c, ms, new, ds)
<1>1. ds \in Seq(ContentSet)
  BY AppendProperties
<1>2. FlatMapLaws(SentMap, ContentSet, ChatMessage)
  BY SentType, FlatMapObeys
<1>3. HistoryMap \in [ContentSet -> Seq(Nat)]
  BY HistoryType
<1>4. FlatMapLaws(HistoryMap, ContentSet, Nat)
  BY <1>3, FlatMapObeys
<1>5. ms = FlatMap(SentMap, cs) /\ toChatMessages(ds) = FlatMap(SentMap, ds)
  BY <1>1, SentIs
<1>6. new = SentMap[c] /\ new \in Seq(ChatMessage)
  <2>1. new = SentMap[c]
    BY DEF SentMap
  <2>2. QED
    BY <2>1, SentType
<1>7. ms \in Seq(ChatMessage)
  BY <1>2, <1>5 DEF FlatMapLaws
<1>8. FlatMap(SentMap, Append(cs, c)) = FlatMap(SentMap, cs) \o SentMap[c]
  BY <1>2 DEF FlatMapLaws
<1>9. toChatMessages(ds) = ms \o new
  BY <1>5, <1>6, <1>8
<1>10. Answering(ms) /\ ToldBy(ms) = FlatMap(HistoryMap, cs)
  BY DEF Tells
<1>11. ASSUME ToldBy(new) = HeldBy(c.parts), Answering(ms \o new) PROVE Tells(ds)
  <2>1. FlatMap(HistoryMap, Append(cs, c)) = FlatMap(HistoryMap, cs) \o HistoryMap[c]
    BY <1>4 DEF FlatMapLaws
  <2>2. HistoryMap[c] = HeldBy(c.parts)
    BY DEF HistoryMap
  <2>3. ToldBy(ms \o new) = ToldBy(ms) \o ToldBy(new)
    <3>1. FlatMapLaws(HeardMap, ChatMessage, Nat)
      BY HeardType, FlatMapObeys
    <3>2. FlatMap(HeardMap, ms \o new) = FlatMap(HeardMap, ms) \o FlatMap(HeardMap, new)
      BY <1>6, <1>7, <3>1 DEF FlatMapLaws
    <3>3. PICK both : both = ms \o new
      OBVIOUS
    <3>4. both \in Seq(ChatMessage)
      BY <1>6, <1>7, <3>3, ConcatProperties
    <3>5. ToldBy(both) = FlatMap(HeardMap, both)
      BY <3>4, ToldIs
    <3>6. ToldBy(ms) = FlatMap(HeardMap, ms) /\ ToldBy(new) = FlatMap(HeardMap, new)
      BY <1>6, <1>7, ToldIs
    <3>7. QED
      BY <3>2, <3>3, <3>5, <3>6
  <2>4. QED
    BY <1>9, <1>10, <1>11, <2>1, <2>2, <2>3 DEF Tells
<1>12. QED
  BY <1>1, <1>6, <1>7, <1>9, <1>10, <1>11 DEF TellsWith

\* The history stays told when a user speaks, and when an answer joins it.
LEMMA UserTells ==
  ASSUME NEW cs \in Seq(ContentSet), Tells(cs), NEW ds, ds = Append(cs, UserText)
  PROVE  UserText \in ContentSet /\ ds \in Seq(ContentSet) /\ Tells(ds)
<1>1. PICK none, t, parts, c : /\ none = << >> /\ t = << 0 >> /\ parts = AnswerParts(none, t, none)
                               /\ c = [role |-> "user", parts |-> parts]
  OBVIOUS
<1>2. none \in Seq(Nat) /\ none \in Seq(CallRec) /\ t \in Seq(Nat) /\ Len(none) = 0
      /\ none \in Seq(PartSet)
  BY <1>1, EmptySeq
<1>3. MapOf(CallMap, none) = << >> /\ MapOf(IdMap, none) = << >>
  <2>1. PICK m, k : m = MapOf(CallMap, none) /\ k = MapOf(IdMap, none)
    OBVIOUS
  <2>2. IsMap(CallMap, none, PartSet, m)
    BY <1>2, <2>1, CallMaps, MapType
  <2>3. IsMap(IdMap, none, Nat, k)
    BY <1>2, <2>1, CallMaps, MapType
  <2>4. m \in Seq(PartSet) /\ Len(m) = 0 /\ k \in Seq(Nat) /\ Len(k) = 0
    BY <1>2, <2>2, <2>3 DEF IsMap
  <2>5. m = << >> /\ k = << >>
    BY <2>4, EmptySeq
  <2>6. QED
    BY <2>1, <2>5
<1>4. UserText = c
  <2>1. PICK p, l : p = [kind |-> "text", text |-> t] /\ l = << p >>
    OBVIOUS
  <2>2. TextPart("thought", none) = << >>
    BY <1>1 DEF TextPart
  <2>3. TextPart("text", t) = l
    <3>1. t # << >>
      <4>1. Len(t) = 1
        BY <1>1
      <4>2. Len(none) # 1
        BY <1>2
      <4>3. t # none
        BY <4>1, <4>2
      <4>4. QED
        BY <1>1, <4>3
    <3>2. QED
      BY <2>1, <3>1 DEF TextPart
  <2>4. l \in Seq(PartSet)
    <3>1. p \in PartSet
      BY <1>2, <2>1, TextPartIs
    <3>2. QED
      BY <2>1, <3>1
  <2>5. << >> \o l = l /\ l \o << >> = l
    BY <2>4, ConcatEmptySeq
  <2>6. parts = l
    BY <1>1, <1>3, <2>2, <2>3, <2>5 DEF AnswerParts, TextsOf
  <2>7. UserText = [role |-> "user", parts |-> l]
    BY <1>1, <2>1 DEF UserText
  <2>8. QED
    BY <1>1, <2>6, <2>7
<1>5. PICK ids, who, f : ids = MapOf(IdMap, none) /\ who = mapRole("user")
                         /\ f = FlushedMessage(who, t, ids)
  OBVIOUS
<1>6. ids \in Seq(Nat) /\ who = "user" /\ who \in Senders /\ "user" \in Speakers
  BY <1>2, <1>3, <1>5, EmptySeq DEF mapRole, Senders, Speakers
<1>7. c \in ContentSet /\ contentToMessages(c) = f /\ HeldBy(c.parts) = t \o ids
  <2>1. PICK role : role = "user"
    OBVIOUS
  <2>2. c \in ContentSet /\ SpokenAs(c, role, t, none)
    BY <1>1, <1>2, <1>6, <2>1, AnswerMessage
  <2>3. QED
    BY <1>5, <2>1, <2>2 DEF SpokenAs
<1>8. ToldBy(f) = t \o ids
  <2>1. TellsAll(who, f, t, ids)
    BY <1>2, <1>5, <1>6, FlushedTold
  <2>2. QED
    BY <2>1 DEF TellsAll
<1>9. PICK ms : ms = toChatMessages(cs)
  OBVIOUS
<1>10. /\ ds \in Seq(ContentSet) /\ ms \in Seq(ChatMessage) /\ f \in Seq(ChatMessage)
       /\ Answering(ms)
       /\ ToldBy(f) = HeldBy(c.parts) /\ Answering(ms \o f) => Tells(ds)
  <2>1. ds = Append(cs, c) /\ f = contentToMessages(c)
    BY <1>4, <1>7
  <2>2. QED
    <3>1. TellsWith(cs, c, ms, f, ds)
      BY <1>7, <1>9, <2>1, TellsMore
    <3>2. QED
      BY <3>1 DEF TellsWith
<1>11. Answering(ms \o f)
  BY <1>5, <1>6, <1>10, <1>2, AnsweringFlushed
<1>12. QED
  BY <1>4, <1>7, <1>8, <1>10, <1>11

AnswerJoins(r, t, calls, parts, c, next, ds) ==
  c \in ContentSet /\ next \in ContentSet /\ ds \in Seq(ContentSet) /\ Tells(ds)

LEMMA AnswerTells ==
  ASSUME NEW cs \in Seq(ContentSet), Tells(cs),
         NEW r \in Seq(Nat), NEW t \in Seq(Nat), NEW calls \in Seq(CallRec),
         NEW parts, parts = AnswerParts(r, t, calls),
         NEW c, c = [role |-> "model", parts |-> parts],
         NEW next, next = IF calls = << >> THEN UserText
                          ELSE [role |-> "user", parts |-> MapOf(ResultMap, calls)],
         NEW ds, ds = Append(Append(cs, c), next)
  PROVE  AnswerJoins(r, t, calls, parts, c, next, ds)
<1>1. PICK ids, who, role, f, ms, es :
        /\ ids = MapOf(IdMap, calls) /\ who = "assistant" /\ role = "model"
        /\ f = FlushedMessage(who, t, ids)
        /\ ms = toChatMessages(cs) /\ es = Append(cs, c)
  OBVIOUS
<1>2. ids \in Seq(Nat) /\ Len(ids) = Len(calls)
  <2>1. IsMap(IdMap, calls, Nat, ids)
    BY <1>1, CallMaps, MapType
  <2>2. QED
    BY <2>1 DEF IsMap
<1>3. c \in ContentSet /\ contentToMessages(c) = f /\ HeldBy(c.parts) = t \o ids
  <2>1. mapRole(role) = who /\ role \in Speakers
    BY <1>1 DEF mapRole, Speakers
  <2>2. c \in ContentSet /\ SpokenAs(c, role, t, calls)
    BY <1>1, <2>1, AnswerMessage
  <2>3. QED
    BY <1>1, <2>1, <2>2 DEF SpokenAs
<1>4. who \in Senders
  BY <1>1 DEF Senders
<1>5. ToldBy(f) = t \o ids
  <2>1. TellsAll(who, f, t, ids)
    BY <1>1, <1>2, <1>4, FlushedTold
  <2>2. QED
    BY <2>1 DEF TellsAll
<1>6. /\ es \in Seq(ContentSet) /\ ms \in Seq(ChatMessage) /\ f \in Seq(ChatMessage)
      /\ Answering(ms)
      /\ toChatMessages(es) = ms \o f
      /\ ToldBy(f) = HeldBy(c.parts) /\ Answering(ms \o f) => Tells(es)
  <2>1. TellsWith(cs, c, ms, f, es)
    BY <1>1, <1>3, TellsMore
  <2>2. QED
    BY <2>1 DEF TellsWith
<1>7. Answering(ms \o f)
  BY <1>1, <1>2, <1>4, <1>6, AnsweringFlushed
<1>8. Tells(es)
  BY <1>3, <1>5, <1>6, <1>7
<1>9. CASE calls = << >>
  <2>1. next = UserText
    BY <1>9
  <2>2. ds = Append(es, UserText)
    BY <1>1, <2>1
  <2>3. UserText \in ContentSet /\ ds \in Seq(ContentSet) /\ Tells(ds)
    BY <1>6, <1>8, <2>2, UserTells
  <2>4. QED
    BY <1>3, <2>1, <2>3 DEF AnswerJoins
<1>10. CASE calls # << >>
  <2>1. PICK back, tools, ks : /\ back = MapOf(ResultMap, calls) /\ tools = MapOf(ToolMap, calls)
                               /\ ks = toChatMessages(es)
    OBVIOUS
  <2>2. next = [role |-> "user", parts |-> back] /\ next.parts = back
    BY <1>10, <2>1
  <2>3. next \in ContentSet /\ contentToMessages(next) = tools
    <3>1. next \in ContentSet /\ contentToMessages(next) = MapOf(ToolMap, calls)
      BY <2>1, <2>2, ResultMessages
    <3>2. QED
      BY <2>1, <3>1
  <2>4. ToldBy(tools) = HeldBy(next.parts)
    BY <2>1, <2>2, ResultsTold
  <2>5. /\ ds \in Seq(ContentSet) /\ ks \in Seq(ChatMessage)
        /\ ToldBy(tools) = HeldBy(next.parts) /\ Answering(ks \o tools) => Tells(ds)
    <3>1. ds = Append(es, next)
      BY <1>1
    <3>2. QED
      <4>1. TellsWith(es, next, ks, tools, ds)
        BY <1>6, <1>8, <2>1, <2>3, <3>1, TellsMore
      <4>2. QED
        BY <4>1 DEF TellsWith
  <2>6. Answering(ks \o tools)
    <3>1. PICK a : a = [role |-> who, text |-> t, calls |-> ids, answers |-> 0]
      OBVIOUS
    <3>2. a \in ChatMessage /\ a.role = "assistant" /\ a.calls = ids
      <4>1. a \in ChatMessage
        BY <1>2, <1>4, <3>1, FlushedMessageIs
      <4>2. QED
        BY <1>1, <3>1, <4>1
    <3>3. ids # << >>
      <4>1. Len(calls) # 0
        BY <1>10, EmptySeq
      <4>2. QED
        BY <1>2, <4>1
    <3>4. f = << a >>
      BY <1>1, <3>1, <3>3 DEF FlushedMessage
    <3>5. ms \o << a >> = Append(ms, a)
      BY <1>6, <3>2, AppendIsConcat
    <3>6. PICK l, all : l = Append(ms, a) /\ all = l \o tools
      OBVIOUS
    <3>7. ks = l
      BY <1>6, <2>1, <3>4, <3>5, <3>6
    <3>8. Answering(all)
      BY <1>1, <1>6, <2>1, <3>2, <3>6, AnsweringTools
    <3>9. QED
      BY <3>6, <3>7, <3>8
  <2>7. QED
    BY <1>3, <2>3, <2>4, <2>5, <2>6 DEF AnswerJoins
<1>11. QED
  BY <1>9, <1>10

-----------------------------------------------------------------------------
(***************************************************************************)
(* The final response, of what was built and of the whole answer.          *)
(***************************************************************************)
ResponseIs(resp, r, t, calls, finish, usage) ==
  /\ resp = [parts |-> AnswerParts(r, t, calls), finish |-> finish, usage |-> usage]
  /\ resp.parts = AnswerParts(r, t, calls)

LEMMA ResponseMade ==
  ASSUME NEW r, NEW t, NEW calls \in Seq(CallRec), NEW finish, NEW usage,
         NEW resp, resp = buildFinalLLMResponse(t, r, calls, finish, usage)
  PROVE  ResponseIs(resp, r, t, calls, finish, usage)
<1>1. \A i \in DOMAIN calls : calls[i] \in CallRec
  BY ElementOfSeq, LenProperties
<1>2. \A i \in DOMAIN calls : CallMap[calls[i]] = CallPart(calls[i])
  BY <1>1 DEF CallMap
<1>3. [i \in DOMAIN calls |-> CallPart(calls[i])] = MapOf(CallMap, calls)
  BY <1>2 DEF MapOf
<1>4. PICK m, parts : /\ m = [i \in DOMAIN calls |-> CallPart(calls[i])]
                      /\ parts = TextPart("thought", r) \o TextPart("text", t) \o m
  OBVIOUS
<1>5. resp = [parts |-> parts, finish |-> finish, usage |-> usage]
  BY <1>4 DEF buildFinalLLMResponse
<1>6. parts = AnswerParts(r, t, calls)
  BY <1>3, <1>4 DEF AnswerParts, TextsOf
<1>7. QED
  BY <1>5, <1>6 DEF ResponseIs

CallsBuilt(a) == MapOf(a.call, a.order)

LEMMA FinalIs ==
  ASSUME NEW a \in Built, NEW calls, calls = CallsBuilt(a), NEW resp, resp = FinalOf(a)
  PROVE  /\ calls \in Seq(CallRec) /\ a.reasoning \in Seq(Nat) /\ a.content \in Seq(Nat)
         /\ Len(calls) = Len(a.order) /\ \A i \in 1 .. Len(a.order) : calls[i] = a.call[a.order[i]]
         /\ ResponseIs(resp, a.reasoning, a.content, calls, a.finish, a.usage)
<1>1. PICK f, s : f = a.call /\ s = a.order
  OBVIOUS
<1>2. f \in [Indices -> CallRec] /\ s \in Seq(Indices)
  BY <1>1 DEF Built
<1>3. calls = MapOf(f, s)
  BY <1>1 DEF CallsBuilt
<1>4. IsMap(f, s, CallRec, calls)
  BY <1>2, <1>3, MapType
<1>5. calls \in Seq(CallRec) /\ Len(calls) = Len(s) /\ \A i \in 1 .. Len(s) : calls[i] = f[s[i]]
  BY <1>4 DEF IsMap
<1>6. [i \in DOMAIN a.order |-> a.call[a.order[i]]] = calls
  BY <1>1, <1>3 DEF MapOf
<1>7. resp = buildFinalLLMResponse(a.content, a.reasoning, calls, a.finish, a.usage)
  BY <1>6 DEF FinalOf
<1>8. PICK r, t, e, u : r = a.reasoning /\ t = a.content /\ e = a.finish /\ u = a.usage
  OBVIOUS
<1>9. ResponseIs(resp, r, t, calls, e, u)
  BY <1>5, <1>7, <1>8, ResponseMade
<1>10. r \in Seq(Nat) /\ t \in Seq(Nat)
  BY <1>8 DEF Built
<1>11. QED
  BY <1>1, <1>5, <1>8, <1>9, <1>10

LEMMA WholeIs ==
  ASSUME NEW ans \in Answered, \A i \in 1 .. Len(ans.calls) : ans.calls[i].name = "tool",
         NEW resp, resp = Whole(ans)
  PROVE  ResponseIs(resp, ans.reasoning, ans.content, ans.calls, mapFinishReason(ans.finish),
                    ans.usage)
<1>1. PICK calls, T : calls = ans.calls /\ T = { c \in ToSet(calls) : c.name # Missing }
  OBVIOUS
<1>2. calls \in Seq(CallRec)
  BY <1>1 DEF Answered
<1>3. ASSUME NEW c \in ToSet(calls) PROVE c \in T
  <2>1. PICK i \in 1 .. Len(calls) : c = calls[i]
    BY <1>2, SetOfSeq
  <2>2. c.name = "tool"
    BY <1>1, <2>1
  <2>3. QED
    BY <1>1, <2>2, MissingIs
<1>4. Those(calls, T) = calls
  <2>1. ToSet(calls) \subseteq T
    BY <1>3
  <2>2. QED
    BY <1>2, <2>1, ThoseAll
<1>5. parseToolCalls(calls) = calls
  BY <1>1, <1>4 DEF parseToolCalls
<1>6. PICK r, t, e, u : /\ r = ans.reasoning /\ t = ans.content /\ e = mapFinishReason(ans.finish)
                        /\ u = ans.usage
  OBVIOUS
<1>7. resp = buildFinalLLMResponse(t, r, calls, e, u)
  BY <1>1, <1>5, <1>6 DEF Whole
<1>8. ResponseIs(resp, r, t, calls, e, u)
  BY <1>2, <1>7, ResponseMade
<1>9. QED
  BY <1>1, <1>6, <1>8

\* What represents a finished answer makes the response that reading it as a
\* whole makes.
LEMMA SameResponse ==
  ASSUME NEW a \in Built, NEW ans \in Answered, Represents(a, ans), ans.finish # Missing
  PROVE  FinalOf(a) = Whole(ans)
<1>1. PICK built, calls, x, y : /\ built = CallsBuilt(a) /\ calls = ans.calls /\ x = FinalOf(a)
                                /\ y = Whole(ans)
  OBVIOUS
<1>2. /\ built \in Seq(CallRec) /\ Len(built) = Len(a.order)
      /\ \A i \in 1 .. Len(a.order) : built[i] = a.call[a.order[i]]
      /\ ResponseIs(x, a.reasoning, a.content, built, a.finish, a.usage)
  BY <1>1, FinalIs
<1>3. calls \in Seq(CallRec)
  BY <1>1 DEF Answered
<1>4. /\ a.content = ans.content /\ a.reasoning = ans.reasoning /\ a.usage = ans.usage
      /\ a.finish = mapFinishReason(ans.finish) /\ Len(a.order) = Len(calls)
      /\ \A i \in 1 .. Len(calls) : /\ a.order[i] = i - 1 /\ a.call[i - 1] = calls[i]
                                    /\ calls[i].name = "tool"
  BY <1>1 DEF Represents
<1>5. built = calls
  <2>1. \A i \in 1 .. Len(calls) : built[i] = calls[i]
    BY <1>2, <1>4
  <2>2. QED
    BY <1>2, <1>3, <1>4, <2>1, SeqEqual
<1>6. ResponseIs(y, ans.reasoning, ans.content, calls, mapFinishReason(ans.finish), ans.usage)
  BY <1>1, <1>4, WholeIs
<1>7. x = y
  BY <1>2, <1>4, <1>5, <1>6 DEF ResponseIs
<1>8. QED
  BY <1>1, <1>7

\* What the runner makes of a final response.
LEMMA HistoryAnswered ==
  ASSUME NEW cs \in Seq(ContentSet), Tells(cs), NEW a \in Built, NEW resp, resp = FinalOf(a),
         NEW parts, parts = resp.parts, NEW calls, calls = OfKind("call", parts),
         NEW results, results = [i \in DOMAIN calls |-> [kind |-> "result", id |-> calls[i].id]],
         NEW next, next = IF calls = << >> THEN UserText ELSE [role |-> "user", parts |-> results],
         NEW ds, ds = cs \o << [role |-> "model", parts |-> parts], next >>
  PROVE  ds \in Seq(ContentSet) /\ Tells(ds)
<1>1. PICK built, r, t : built = CallsBuilt(a) /\ r = a.reasoning /\ t = a.content
  OBVIOUS
<1>2. built \in Seq(CallRec) /\ r \in Seq(Nat) /\ t \in Seq(Nat) /\ parts = AnswerParts(r, t, built)
  <2>1. /\ built \in Seq(CallRec) /\ r \in Seq(Nat) /\ t \in Seq(Nat)
        /\ ResponseIs(resp, a.reasoning, a.content, built, a.finish, a.usage)
    BY <1>1, FinalIs
  <2>2. QED
    BY <1>1, <2>1 DEF ResponseIs
<1>3. calls = MapOf(CallMap, built)
  BY <1>2, CallsOfAnswer
<1>4. /\ calls \in Seq(PartSet) /\ Len(calls) = Len(built)
      /\ \A i \in 1 .. Len(built) : calls[i] = CallMap[built[i]]
  <2>1. IsMap(CallMap, built, PartSet, calls)
    BY <1>2, <1>3, CallMaps, MapType
  <2>2. QED
    BY <2>1 DEF IsMap
<1>5. DOMAIN calls = DOMAIN built /\ \A i \in DOMAIN built : calls[i].id = built[i].id
  <2>1. DOMAIN calls = 1 .. Len(built) /\ DOMAIN built = 1 .. Len(built)
    BY <1>2, <1>4, LenProperties
  <2>2. ASSUME NEW i \in 1 .. Len(built) PROVE calls[i].id = built[i].id
    <3>1. built[i] \in CallRec
      BY <1>2, ElementOfSeq
    <3>2. calls[i] = CallPart(built[i])
      BY <1>4, <3>1 DEF CallMap
    <3>3. QED
      BY <3>1, <3>2, CallPartIs
  <2>3. QED
    BY <2>1, <2>2
<1>6. results = MapOf(ResultMap, built)
  <2>1. results = [i \in DOMAIN built |-> ResultPart(built[i].id)]
    <3>1. \A i \in DOMAIN built : [kind |-> "result", id |-> calls[i].id] = ResultPart(built[i].id)
      BY <1>5 DEF ResultPart
    <3>2. results = [i \in DOMAIN built |-> [kind |-> "result", id |-> calls[i].id]]
      BY <1>5
    <3>3. QED
      BY <3>1, <3>2
  <2>2. \A i \in DOMAIN built : ResultMap[built[i]] = ResultPart(built[i].id)
    <3>1. \A i \in DOMAIN built : built[i] \in CallRec
      BY <1>2, ElementOfSeq, LenProperties
    <3>2. QED
      BY <3>1 DEF ResultMap
  <2>3. QED
    BY <2>1, <2>2 DEF MapOf
<1>7. calls = << >> <=> built = << >>
  BY <1>2, <1>4, EmptySeq
<1>8. PICK c, es : c = [role |-> "model", parts |-> parts] /\ es = Append(Append(cs, c), next)
  OBVIOUS
<1>9. next = IF built = << >> THEN UserText
             ELSE [role |-> "user", parts |-> MapOf(ResultMap, built)]
  <2>1. CASE built = << >>
    BY <1>7, <2>1
  <2>2. CASE built # << >>
    BY <1>6, <1>7, <2>2
  <2>3. QED
    BY <2>1, <2>2
<1>10. c \in ContentSet /\ next \in ContentSet /\ es \in Seq(ContentSet) /\ Tells(es)
  <2>1. AnswerJoins(r, t, built, parts, c, next, es)
    BY <1>2, <1>8, <1>9, AnswerTells
  <2>2. QED
    BY <2>1 DEF AnswerJoins
<1>11. ds = es
  <2>1. ds = cs \o << c, next >>
    BY <1>8
  <2>2. cs \o << c, next >> = Append(Append(cs, c), next)
    BY <1>10
  <2>3. QED
    BY <1>8, <2>1, <2>2
<1>12. QED
  BY <1>10, <1>11

-----------------------------------------------------------------------------
(***************************************************************************)
(* The inductive invariant.                                                *)
(***************************************************************************)
Behaviours == {"none", "careless", "short"}

StreamTypes ==
  /\ wire \in Seq(Line) /\ acc \in Built /\ answer \in Answered /\ written \in Nat
  /\ contents \in Seq(ContentSet) /\ quirk \in Behaviours

\* The partial responses, put together, are what the builders hold.
YieldsKept == yielded = [content |-> acc.content, reasoning |-> acc.reasoning]

\* Nothing is left over from one request to the next.
IdleInv ==
  phase = "idle" =>
    acc = NoAcc /\ answer = NoAnswer /\ wire = << >> /\ mode = "stream" /\ outcome.kind = "none"

DoneIn(lines) == \E i \in 1 .. Len(lines) : lines[i].kind = "done"

\* [DONE] is the last line, and follows the reason.
DoneLast ==
  DoneIn(wire) => /\ conn # "open" /\ answer.finish # Missing
                  /\ \A i \in 1 .. Len(wire) : wire[i].kind = "done" => i = Len(wire)

\* Nothing that was sent is lost: what has been read and what is on its way are
\* together the answer.
NothingLost(w, c) == c # "broken" \/ DoneIn(w)

AllArrives ==
  quirk # "careless" /\ NothingLost(wire, conn) => Represents(Ahead(acc, wire), answer)

ReadingInv ==
  phase = "reading" =>
    /\ request = toChatMessages(contents) /\ outcome.kind = "none"
    /\ AllArrives /\ DoneLast
    /\ conn = "closed" /\ quirk # "short" => answer.finish # Missing

EndedInv ==
  Streamed =>
    /\ outcome.final = FinalOf(acc)
    /\ quirk # "short" => answer.finish # Missing
    /\ quirk # "careless" => Represents(acc, answer)

LlmInv ==
  /\ StreamTypes /\ YieldsKept /\ Tells(contents)
  /\ IdleInv /\ ReadingInv /\ EndedInv

LEMMA LlmStarts == LlmInit => LlmInv
<1> SUFFICES ASSUME LlmInit PROVE LlmInv
  OBVIOUS
<1>1. PICK none : none = << >>
  OBVIOUS
<1>2. none \in Seq(Line) /\ none \in Seq(ContentSet)
  BY <1>1, EmptySeq
<1>3. Tells(none)
  <2>1. toChatMessages(none) = << >> /\ FlatMap(HistoryMap, none) = << >>
    <3>1. FlatMapLaws(SentMap, ContentSet, ChatMessage) /\ FlatMapLaws(HistoryMap, ContentSet, Nat)
      BY SentType, HistoryType, FlatMapObeys
    <3>2. FlatMap(SentMap, << >>) = << >> /\ FlatMap(HistoryMap, << >>) = << >>
      BY <3>1 DEF FlatMapLaws
    <3>3. toChatMessages(none) = FlatMap(SentMap, none)
      BY <1>2, SentIs
    <3>4. QED
      BY <1>1, <3>2, <3>3
  <2>2. none \in Seq(ChatMessage) /\ Len(none) = 0
    BY <1>1, EmptySeq
  <2>3. ToldBy(none) = << >>
    <3>1. FlatMapLaws(HeardMap, ChatMessage, Nat)
      BY HeardType, FlatMapObeys
    <3>2. FlatMap(HeardMap, << >>) = << >>
      BY <3>1 DEF FlatMapLaws
    <3>3. ToldBy(none) = FlatMap(HeardMap, none)
      BY <2>2, ToldIs
    <3>4. QED
      BY <1>1, <3>2, <3>3
  <2>4. Answering(none)
    <3>1. DOMAIN none = {}
      BY <2>2, LenProperties
    <3>2. QED
      BY <3>1 DEF Answering
  <2>5. toChatMessages(none) = none
    BY <1>1, <2>1
  <2>6. QED
    BY <2>1, <2>3, <2>4, <2>5 DEF Tells
<1>4. contents \in Seq(ContentSet) /\ Tells(contents)
  <2>1. PICK ds : ds = Append(none, UserText)
    OBVIOUS
  <2>2. ds \in Seq(ContentSet) /\ Tells(ds)
    BY <1>2, <1>3, <2>1, UserTells
  <2>3. contents = ds
    BY <1>1, <2>1 DEF LlmInit
  <2>4. QED
    BY <2>2, <2>3
<1>5. StreamTypes
  <2>1. wire \in Seq(Line)
    BY <1>1, <1>2 DEF LlmInit
  <2>2. acc \in Built /\ answer \in Answered
    BY NothingBuilt DEF LlmInit
  <2>3. quirk \in Behaviours /\ written \in Nat
    BY StreamAssumption DEF LlmInit, Behaviours
  <2>4. QED
    BY <1>4, <2>1, <2>2, <2>3 DEF StreamTypes
<1>6. YieldsKept
  BY DEF LlmInit, YieldsKept, NoAcc, NoYielded
<1>7. IdleInv
  BY DEF LlmInit, IdleInv, NoOutcome
<1>8. ReadingInv /\ EndedInv
  BY DEF LlmInit, ReadingInv, EndedInv, Streamed
<1>9. QED
  BY <1>4, <1>5, <1>6, <1>7, <1>8 DEF LlmInv

LEMMA PostKeeps == LlmInv /\ Post => LlmInv'
<1> SUFFICES ASSUME LlmInv, Post PROVE LlmInv'
  OBVIOUS
<1>1. /\ StreamTypes /\ YieldsKept /\ Tells(contents) /\ phase = "idle"
      /\ acc = NoAcc /\ answer = NoAnswer /\ wire = << >> /\ outcome.kind = "none"
  BY DEF LlmInv, Post, IdleInv
<1>2. /\ contents' = contents /\ wire' = wire /\ acc' = acc /\ answer' = answer /\ quirk' = quirk
      /\ written' = written /\ yielded' = yielded /\ request' = toChatMessages(contents)
  BY DEF Post, server, client
<1>3. StreamTypes' /\ YieldsKept' /\ Tells(contents)'
  BY <1>1, <1>2 DEF StreamTypes, YieldsKept
<1>4. CASE phase' = "reading" /\ conn' = "open" /\ UNCHANGED outcome
  <2>1. Represents(Ahead(acc, wire), answer)
    <3>1. Ahead(NoAcc, << >>) = NoAcc
      BY NothingBuilt, AheadLaws
    <3>2. QED
      BY <1>1, <3>1, NothingBuilt
  <2>2. AllArrives'
    BY <1>2, <2>1 DEF AllArrives
  <2>3. ~ DoneIn(wire)
    <3>1. Len(wire) = 0
      BY <1>1
    <3>2. QED
      BY <3>1 DEF DoneIn
  <2>4. DoneLast'
    BY <1>2, <2>3 DEF DoneLast
  <2>5. ReadingInv'
    BY <1>1, <1>2, <1>4, <2>2, <2>4 DEF ReadingInv
  <2>6. IdleInv' /\ EndedInv'
    BY <1>4 DEF IdleInv, EndedInv, Streamed
  <2>7. QED
    BY <1>3, <2>5, <2>6 DEF LlmInv
<1>5. CASE phase' = "ended" /\ outcome' = [NoOutcome EXCEPT !.kind = "error"]
  <2>1. outcome'.kind = "error"
    BY <1>5 DEF NoOutcome
  <2>2. IdleInv' /\ ReadingInv' /\ EndedInv'
    BY <1>5, <2>1 DEF IdleInv, ReadingInv, EndedInv, Streamed
  <2>3. QED
    BY <1>3, <2>2 DEF LlmInv
<1>6. QED
  BY <1>4, <1>5 DEF Post

LEMMA CompleteKeeps == LlmInv /\ Complete => LlmInv'
<1> SUFFICES ASSUME LlmInv, Complete PROVE LlmInv'
  OBVIOUS
<1>1. StreamTypes /\ YieldsKept /\ Tells(contents)
  BY DEF LlmInv
<1>2. /\ contents' = contents /\ wire' = wire /\ acc' = acc /\ answer' = answer /\ quirk' = quirk
      /\ written' = written /\ yielded' = yielded /\ mode' = "whole" /\ phase' = "ended"
  BY DEF Complete, server, client
<1>3. StreamTypes' /\ YieldsKept' /\ Tells(contents)'
  BY <1>1, <1>2 DEF StreamTypes, YieldsKept
<1>4. IdleInv' /\ ReadingInv' /\ EndedInv'
  BY <1>2 DEF IdleInv, ReadingInv, EndedInv, Streamed
<1>5. QED
  BY <1>3, <1>4 DEF LlmInv

-----------------------------------------------------------------------------
(***************************************************************************)
(* What the server and the connection do.                                  *)
(***************************************************************************)
Still ==
  /\ contents' = contents /\ request' = request /\ mode' = mode /\ phase' = phase
  /\ acc' = acc /\ yielded' = yielded /\ outcome' = outcome /\ quirk' = quirk

LEMMA StillKeeps ==
  ASSUME LlmInv, Still, phase = "reading", wire' \in Seq(Line), answer' \in Answered,
         written' \in Nat, AllArrives', DoneLast',
         conn' = "closed" /\ quirk # "short" => answer'.finish # Missing
  PROVE  LlmInv'
<1>1. StreamTypes' /\ YieldsKept' /\ Tells(contents)'
  BY DEF LlmInv, Still, StreamTypes, YieldsKept
<1>2. ReadingInv'
  BY DEF LlmInv, Still, ReadingInv
<1>3. IdleInv' /\ EndedInv'
  BY DEF Still, IdleInv, EndedInv, Streamed
<1>4. QED
  BY <1>1, <1>2, <1>3 DEF LlmInv

SaidOn(l, m) == wire' = Append(wire, l) /\ answer' = m /\ conn' = conn

\* A line that says what it adds to the answer.
LEMMA SayingKeeps ==
  ASSUME LlmInv, Still, phase = "reading", conn = "open", written' \in Nat,
         NEW l \in Line, NEW m \in Answered, SaidOn(l, m), l.kind # "done",
         quirk # "careless" /\ Represents(Ahead(acc, wire), answer)
            => Represents(Taken(Ahead(acc, wire), l), m)
  PROVE  LlmInv'
<1>1. acc \in Built /\ wire \in Seq(Line) /\ AllArrives /\ DoneLast
  BY DEF LlmInv, StreamTypes, ReadingInv
<1>2. PICK w : w = Append(wire, l)
  OBVIOUS
<1>3. /\ w \in Seq(Line) /\ Len(w) = Len(wire) + 1 /\ w[Len(wire) + 1] = l
      /\ \A i \in 1 .. Len(wire) : w[i] = wire[i]
  BY <1>1, <1>2, AppendProperties
<1>4. wire' = w /\ answer' = m /\ conn' = "open" /\ acc' = acc /\ quirk' = quirk
  BY <1>2 DEF SaidOn, Still
<1>5. AllArrives'
  <2>1. SUFFICES ASSUME quirk # "careless" PROVE Represents(Ahead(acc, w), m)
    BY <1>4 DEF AllArrives
  <2>2. Represents(Ahead(acc, wire), answer)
    BY <1>1, <2>1 DEF AllArrives, NothingLost
  <2>3. Ahead(acc, w) = Taken(Ahead(acc, wire), l)
    BY <1>1, <1>2, AheadLaws
  <2>4. QED
    BY <2>1, <2>2, <2>3
<1>6. ~ DoneIn(w)
  <2>1. \A i \in 1 .. Len(wire) : wire[i].kind # "done"
    BY <1>1 DEF DoneLast, DoneIn
  <2>2. \A i \in 1 .. Len(w) : i = Len(wire) + 1 \/ i \in 1 .. Len(wire)
    <3>1. Len(wire) \in Nat
      BY <1>1
    <3>2. QED
      BY <1>3, <3>1
  <2>3. ASSUME NEW i \in 1 .. Len(w) PROVE w[i].kind # "done"
    <3>1. CASE i = Len(wire) + 1
      BY <1>3, <3>1
    <3>2. CASE i \in 1 .. Len(wire)
      BY <1>3, <2>1, <3>2
    <3>3. QED
      BY <2>2, <3>1, <3>2
  <2>4. QED
    BY <2>3 DEF DoneIn
<1>7. DoneLast'
  BY <1>4, <1>6 DEF DoneLast
<1>8. QED
  <2>1. wire' \in Seq(Line) /\ answer' \in Answered /\ conn' = "open"
    BY <1>3, <1>4
  <2>2. QED
    BY <1>5, <1>7, <2>1, StillKeeps

LEMMA TextKeeps == LlmInv /\ WriteText => LlmInv'
<1> SUFFICES ASSUME LlmInv, WriteText PROVE LlmInv'
  OBVIOUS
<1>1. /\ Still /\ phase = "reading" /\ conn = "open" /\ conn' = conn /\ written' = written + 1
  BY DEF WriteText, Writing, Still, client
<1>2. /\ acc \in Built /\ answer \in Answered /\ wire \in Seq(Line) /\ written \in Nat
  BY DEF LlmInv, StreamTypes
<1>3. PICK fields \in SUBSET {"content", "reasoning"} :
        LET Delta(f) == IF f \in fields THEN << written' >> ELSE << >>
        IN  /\ answer' = [answer EXCEPT !.content = @ \o Delta("content"),
                                        !.reasoning = @ \o Delta("reasoning")]
            /\ SendLine([EmptyChunk EXCEPT !.content = Delta("content"),
                                           !.reasoning = Delta("reasoning")])
  BY DEF WriteText
<1>4. PICK none, one : none = << >> /\ one = << written' >>
  OBVIOUS
<1>5. none \in Seq(Nat) /\ one \in Seq(Nat) /\ written' \in Nat
  <2>1. written' \in Nat
    BY <1>1, <1>2
  <2>2. QED
    BY <1>4, <2>1, EmptySeq
<1>6. PICK x, y : /\ x = (IF "content" \in fields THEN one ELSE none)
                  /\ y = (IF "reasoning" \in fields THEN one ELSE none)
  OBVIOUS
<1>7. x \in Seq(Nat) /\ y \in Seq(Nat)
  BY <1>5, <1>6
<1>8. PICK l, m : l = ChunkOf(x, y, none, Missing)
                  /\ m = [answer EXCEPT !.content = @ \o x, !.reasoning = @ \o y]
  OBVIOUS
<1>9. answer' = m /\ wire' = Append(wire, TextLine(x, y))
  BY <1>3, <1>4, <1>6, <1>8 DEF SendLine, TextLine
<1>10. TextLine(x, y) = l
  BY <1>4, <1>8, SentAre
<1>11. SaidOn(l, m) /\ l.kind = "chunk"
  BY <1>1, <1>8, <1>9, <1>10 DEF SaidOn, ChunkOf
<1>12. Ahead(acc, wire) \in Built
  BY <1>2, AheadLaws
<1>13. l \in Line /\ m \in Answered
       /\ (Represents(Ahead(acc, wire), answer) => Represents(Taken(Ahead(acc, wire), l), m))
  <2>1. PICK a, ans : a = Ahead(acc, wire) /\ ans = answer
    OBVIOUS
  <2>2. a \in Built /\ ans \in Answered /\ m = [ans EXCEPT !.content = @ \o x, !.reasoning = @ \o y]
    BY <1>2, <1>8, <1>12, <2>1
  <2>3. l \in Line /\ m \in Answered /\ (Represents(a, ans) => Represents(Taken(a, l), m))
    BY <1>4, <1>7, <1>8, <2>2, TextSent
  <2>4. QED
    BY <2>1, <2>3
<1>14. l.kind # "done"
  BY <1>11
<1>15. QED
  BY <1>1, <1>5, <1>11, <1>13, <1>14, SayingKeeps

LEMMA FinishKeeps == LlmInv /\ WriteFinish => LlmInv'
<1> SUFFICES ASSUME LlmInv, WriteFinish PROVE LlmInv'
  OBVIOUS
<1>1. /\ Still /\ phase = "reading" /\ conn = "open" /\ conn' = conn /\ written' = written
  BY DEF WriteFinish, Writing, Still, client
<1>2. /\ acc \in Built /\ answer \in Answered /\ wire \in Seq(Line) /\ written \in Nat
  BY DEF LlmInv, StreamTypes
<1>3. PICK r \in {"stop", "length", "tool_calls"} :
        answer' = [answer EXCEPT !.finish = r] /\ SendLine([EmptyChunk EXCEPT !.finish = r])
  BY DEF WriteFinish
<1>4. r \in FinishReasons \ {Missing}
  BY MissingIs DEF FinishReasons
<1>5. PICK none, a, ans : none = << >> /\ a = Ahead(acc, wire) /\ ans = answer
  OBVIOUS
<1>6. PICK l, m : l = ChunkOf(none, none, none, r) /\ m = [ans EXCEPT !.finish = r]
  OBVIOUS
<1>7. [EmptyChunk EXCEPT !.finish = r] = l
  BY <1>5, <1>6, SentAre
<1>8. SaidOn(l, m) /\ l.kind = "chunk"
  BY <1>1, <1>3, <1>5, <1>6, <1>7 DEF SaidOn, ChunkOf, SendLine
<1>9. a \in Built /\ ans \in Answered
  BY <1>2, <1>5, AheadLaws
<1>10. l \in Line /\ m \in Answered /\ (Represents(a, ans) => Represents(Taken(a, l), m))
  BY <1>4, <1>5, <1>6, <1>9, FinishSent
<1>11. Represents(Ahead(acc, wire), answer) => Represents(Taken(Ahead(acc, wire), l), m)
  BY <1>5, <1>10
<1>12. l.kind # "done" /\ written' \in Nat
  BY <1>1, <1>2, <1>8
<1>13. QED
  BY <1>1, <1>8, <1>10, <1>11, <1>12, SayingKeeps

LEMMA UsageKeeps == LlmInv /\ WriteUsage => LlmInv'
<1> SUFFICES ASSUME LlmInv, WriteUsage PROVE LlmInv'
  OBVIOUS
<1>1. /\ Still /\ phase = "reading" /\ conn = "open" /\ conn' = conn /\ written' = written
  BY DEF WriteUsage, Writing, Still, client
<1>2. /\ acc \in Built /\ answer \in Answered /\ wire \in Seq(Line) /\ written \in Nat
      /\ contents \in Seq(ContentSet) /\ request = toChatMessages(contents)
  BY <1>1 DEF LlmInv, StreamTypes, ReadingInv
<1>3. PICK u : u = 1 + Len(request)
  OBVIOUS
<1>4. u \in Nat
  <2>1. toChatMessages(contents) \in Seq(ChatMessage)
    <3>1. toChatMessages(contents) = FlatMap(SentMap, contents)
      BY <1>2, SentIs
    <3>2. FlatMapLaws(SentMap, ContentSet, ChatMessage)
      BY SentType, FlatMapObeys
    <3>3. QED
      BY <1>2, <3>1, <3>2 DEF FlatMapLaws
  <2>2. Len(request) \in Nat
    BY <1>2, <2>1
  <2>3. QED
    BY <1>3, <2>2
<1>5. PICK a, ans : a = Ahead(acc, wire) /\ ans = answer
  OBVIOUS
<1>6. PICK l, m : l = [kind |-> "usage", usage |-> u] /\ m = [ans EXCEPT !.usage = u]
  OBVIOUS
<1>7. answer' = m
  BY <1>3, <1>5, <1>6 DEF WriteUsage
<1>8. wire' = Append(wire, l)
  <2>1. wire' = Append(wire, [kind |-> "usage", usage |-> answer'.usage])
    BY DEF WriteUsage, SendLine
  <2>2. answer'.usage = u
    BY <1>2, <1>5, <1>6, <1>7 DEF Answered
  <2>3. QED
    BY <1>6, <2>1, <2>2
<1>9. SaidOn(l, m) /\ l.kind # "done" /\ written' \in Nat
  BY <1>1, <1>2, <1>6, <1>7, <1>8 DEF SaidOn
<1>10. a \in Built /\ ans \in Answered
  BY <1>2, <1>5, AheadLaws
<1>11. l \in Line /\ m \in Answered /\ (Represents(a, ans) => Represents(Taken(a, l), m))
  BY <1>4, <1>6, <1>10, UsageSent
<1>12. Represents(Ahead(acc, wire), answer) => Represents(Taken(Ahead(acc, wire), l), m)
  BY <1>5, <1>11
<1>13. QED
  BY <1>1, <1>9, <1>11, <1>12, SayingKeeps

LEMMA OtherKeeps == LlmInv /\ WriteOther => LlmInv'
<1> SUFFICES ASSUME LlmInv, WriteOther PROVE LlmInv'
  OBVIOUS
<1>1. /\ Still /\ phase = "reading" /\ conn = "open" /\ conn' = conn /\ written' = written
      /\ answer' = answer
  BY DEF WriteOther, Writing, Still, client
<1>2. /\ acc \in Built /\ answer \in Answered /\ wire \in Seq(Line) /\ written \in Nat
  BY DEF LlmInv, StreamTypes
<1>3. PICK k \in {"junk", "error"} : SendLine([kind |-> k])
  BY DEF WriteOther
<1>4. PICK l, m, a : l = [kind |-> k] /\ m = answer /\ a = Ahead(acc, wire)
  OBVIOUS
<1>5. SaidOn(l, m) /\ l.kind # "done" /\ written' \in Nat /\ m \in Answered
  BY <1>1, <1>2, <1>3, <1>4 DEF SaidOn, SendLine
<1>6. a \in Built
  BY <1>2, <1>4, AheadLaws
<1>7. l \in Line /\ Taken(a, l) = a
  BY <1>4, <1>6, OtherSent
<1>8. Represents(Ahead(acc, wire), answer) => Represents(Taken(Ahead(acc, wire), l), m)
  BY <1>4, <1>7
<1>9. QED
  BY <1>1, <1>5, <1>7, <1>8, SayingKeeps

LEMMA CallKeeps == ASSUME LlmInv, NEW k \in 1 .. MaxCalls, WriteCall(k) PROVE LlmInv'
<1>1. /\ Still /\ phase = "reading" /\ conn = "open" /\ conn' = conn /\ written' = written + 1
      /\ k <= Len(answer.calls) + 1
  BY DEF WriteCall, Writing, Still, client
<1>2. /\ acc \in Built /\ answer \in Answered /\ wire \in Seq(Line) /\ written \in Nat
  BY DEF LlmInv, StreamTypes
<1>3. MaxCalls \in Nat
  BY StreamAssumption
<1>4. PICK called \in {"tool", Missing} :
        /\ quirk # "careless" => called = "tool"
        /\ LET opens == k = Len(answer.calls) + 1
               name == IF opens THEN called ELSE Missing
               id == IF opens THEN written' ELSE answer.calls[k].id
               piece == << id, IF opens THEN 1 ELSE 2 >>
               index == IF quirk = "careless" THEN 0 ELSE k - 1
           IN  /\ answer' = [answer EXCEPT !.calls =
                    IF opens THEN Append(@, [id |-> id, name |-> name, args |-> << piece >>])
                    ELSE WithPiece(@, k, piece)]
               /\ SendLine([EmptyChunk EXCEPT !.frags =
                    << [index |-> index, id |-> IF opens THEN id ELSE 0, name |-> name,
                        args |-> << piece >>] >>])
  BY DEF WriteCall
<1>5. PICK none, a, ans, index : /\ none = << >> /\ a = Ahead(acc, wire) /\ ans = answer
                                 /\ index = IF quirk = "careless" THEN 0 ELSE k - 1
  OBVIOUS
<1>6. a \in Built /\ ans \in Answered /\ index \in Indices
      /\ (quirk # "careless" => index = k - 1)
  <2>1. a \in Built /\ ans \in Answered
    BY <1>2, <1>5, AheadLaws
  <2>2. index \in Indices /\ (quirk # "careless" => index = k - 1)
    BY <1>3, <1>5 DEF Indices
  <2>3. QED
    BY <2>1, <2>2
<1>7. written' \in Nat \ {0}
  BY <1>1, <1>2
<1>8. CASE k = Len(answer.calls) + 1
  <2>1. PICK id, piece, args : id = written' /\ piece = << id, 1 >> /\ args = << piece >>
    OBVIOUS
  <2>2. PICK f : f = [index |-> index, id |-> id, name |-> called, args |-> args]
    OBVIOUS
  <2>3. PICK fs : fs = << f >>
    OBVIOUS
  <2>4. PICK l : l = ChunkOf(none, none, fs, Missing)
    OBVIOUS
  <2>5. PICK call, m : /\ call = [id |-> id, name |-> called, args |-> args]
                       /\ m = [ans EXCEPT !.calls = Append(@, call)]
    OBVIOUS
  <2>6. answer' = m
    BY <1>4, <1>5, <1>8, <2>1, <2>5
  <2>7. SendLine([EmptyChunk EXCEPT !.frags = fs])
    BY <1>4, <1>5, <1>8, <2>1, <2>2, <2>3
  <2>8. [EmptyChunk EXCEPT !.frags = fs] = l
    BY <1>5, <2>4, SentAre
  <2>9. SaidOn(l, m) /\ l.kind = "chunk"
    BY <1>1, <2>4, <2>6, <2>7, <2>8 DEF SaidOn, SendLine, ChunkOf
  <2>10. id \in Nat \ {0} /\ piece \in PieceSet /\ k = Len(ans.calls) + 1 /\ k <= MaxCalls
    <3>1. id \in Nat \ {0}
      BY <1>7, <2>1
    <3>2. k = Len(ans.calls) + 1 /\ k <= MaxCalls
      BY <1>3, <1>5, <1>8
    <3>3. piece \in PieceSet
      BY <2>1, <3>1 DEF PieceSet
    <3>4. QED
      BY <3>1, <3>2, <3>3
  <2>11. /\ l \in Line /\ m \in Answered
         /\ Represents(a, ans) /\ index = k - 1 /\ called = "tool" => Represents(Taken(a, l), m)
    <3>1. args \in Seq(PieceSet) /\ called \in {"tool", Missing}
      BY <2>1, <2>10
    <3>2. f \in Frag /\ call \in CallRec /\ f.index = index
      BY <1>6, <2>2, <2>5, <2>10, <3>1 DEF Frag, CallRec
    <3>3. f.id # 0 /\ call.name = called /\ call = [id |-> f.id, name |-> f.name, args |-> f.args]
      BY <2>2, <2>5, <2>10
    <3>4. OpensCall(a, ans, k, f, call, m)
      BY <1>6, <2>5, <2>10, <3>2, <3>3, CallOpened
    <3>5. l \in Line /\ Taken(a, l) = AddCall(a, f)
      BY <1>5, <1>6, <2>3, <2>4, <3>2, FragTaken
    <3>6. QED
      BY <3>2, <3>3, <3>4, <3>5 DEF OpensCall
  <2>12. quirk # "careless" /\ Represents(Ahead(acc, wire), answer)
            => Represents(Taken(Ahead(acc, wire), l), m)
    <3>1. (called = "tool" /\ index = k - 1) \/ quirk = "careless"
      <4>1. quirk # "careless" => called = "tool"
        BY <1>4
      <4>2. QED
        BY <1>6, <4>1
    <3>2. ASSUME called = "tool", index = k - 1, Represents(a, ans) PROVE Represents(Taken(a, l), m)
      BY <2>11, <3>2
    <3>3. QED
      BY <1>5, <3>1, <3>2
  <2>13. l.kind # "done" /\ written' \in Nat
    BY <1>7, <2>9
  <2>14. QED
    BY <1>1, <2>9, <2>11, <2>12, <2>13, SayingKeeps
<1>9. CASE k # Len(answer.calls) + 1
  <2>1. PICK id, piece, args : id = ans.calls[k].id /\ piece = << id, 2 >> /\ args = << piece >>
    OBVIOUS
  <2>2. PICK f : f = [index |-> index, id |-> 0, name |-> Missing, args |-> args]
    OBVIOUS
  <2>3. PICK fs : fs = << f >>
    OBVIOUS
  <2>4. PICK l : l = ChunkOf(none, none, fs, Missing)
    OBVIOUS
  <2>5. PICK m : m = [ans EXCEPT !.calls = WithPiece(@, k, piece)]
    OBVIOUS
  <2>6. answer' = m
    BY <1>4, <1>5, <1>9, <2>1, <2>5
  <2>7. SendLine([EmptyChunk EXCEPT !.frags = fs])
    BY <1>4, <1>5, <1>9, <2>1, <2>2, <2>3
  <2>8. [EmptyChunk EXCEPT !.frags = fs] = l
    BY <1>5, <2>4, SentAre
  <2>9. SaidOn(l, m) /\ l.kind = "chunk"
    BY <1>1, <2>4, <2>6, <2>7, <2>8 DEF SaidOn, SendLine, ChunkOf
  <2>10. k \in 1 .. Len(ans.calls) /\ piece \in PieceSet
    <3>1. PICK cs : cs = ans.calls
      OBVIOUS
    <3>2. cs \in Seq(CallRec)
      BY <1>6, <3>1 DEF Answered
    <3>3. k \in 1 .. Len(cs)
      BY <1>1, <1>5, <1>9, <3>1, <3>2
    <3>4. cs[k] \in CallRec
      BY <3>2, <3>3, ElementOfSeq
    <3>5. QED
      BY <2>1, <3>1, <3>3, <3>4 DEF CallRec, PieceSet
  <2>11. /\ l \in Line /\ m \in Answered
         /\ Represents(a, ans) /\ index = k - 1 => Represents(Taken(a, l), m)
    <3>1. /\ k \in 1 .. Len(ans.calls) /\ piece \in PieceSet /\ index \in Indices
          /\ a \in Built /\ ans \in Answered /\ args = << piece >> /\ none = << >>
      BY <1>5, <1>6, <2>1, <2>10
    <3>2. QED
      BY <2>2, <2>3, <2>4, <2>5, <3>1, CallGrown
  <2>12. quirk # "careless" /\ Represents(Ahead(acc, wire), answer)
            => Represents(Taken(Ahead(acc, wire), l), m)
    BY <1>5, <1>6, <2>11
  <2>13. l.kind # "done" /\ written' \in Nat
    BY <1>7, <2>9
  <2>14. QED
    BY <1>1, <2>9, <2>11, <2>12, <2>13, SayingKeeps
<1>10. QED
  BY <1>8, <1>9

\* What a cut leaves of a stream that held [DONE], if it leaves [DONE], is all of it.
LEMMA CutKeeps ==
  ASSUME LlmInv, Still, phase = "reading", written' = written, answer' = answer,
         conn' = "broken", Arrives
  PROVE  LlmInv'
<1>1. acc \in Built /\ wire \in Seq(Line) /\ answer \in Answered /\ written \in Nat /\ AllArrives
      /\ DoneLast
  BY DEF LlmInv, StreamTypes, ReadingInv
<1>2. PICK n : n = Len(wire)
  OBVIOUS
<1>3. n \in Nat
  BY <1>1, <1>2
<1>4. PICK k \in 0 .. n :
        \/ wire' = SubSeq(wire, 1, k)
        \/ k < n /\ wire' = Append(SubSeq(wire, 1, k), [kind |-> "junk"])
  BY <1>2 DEF Arrives
<1>5. PICK w : w = SubSeq(wire, 1, k)
  OBVIOUS
<1>6. w \in Seq(Line) /\ Len(w) = k /\ \A i \in 1 .. k : w[i] = wire[i]
  <2>1. \A i \in 1 .. k : wire[i] \in Line
    <3>1. \A i \in 1 .. k : i \in 1 .. Len(wire)
      BY <1>2, <1>3
    <3>2. QED
      BY <1>1, <3>1, ElementOfSeq
  <2>2. k \in Int /\ 1 \in Int
    OBVIOUS
  <2>3. /\ SubSeq(wire, 1, k) \in Seq(Line)
        /\ Len(SubSeq(wire, 1, k)) = IF 1 <= k THEN k - 1 + 1 ELSE 0
        /\ \A i \in 1 .. k - 1 + 1 : SubSeq(wire, 1, k)[i] = wire[1 + i - 1]
    BY <2>1, <2>2, SubSeqProperties
  <2>4. QED
    BY <1>3, <1>5, <2>3
<1>7. ASSUME NEW i \in 1 .. k, w[i].kind = "done" PROVE k = n
  <2>1. i \in 1 .. Len(wire) /\ wire[i].kind = "done"
    BY <1>2, <1>3, <1>6, <1>7
  <2>2. i = Len(wire)
    BY <1>1, <2>1 DEF DoneLast, DoneIn
  <2>3. QED
    BY <1>2, <1>3, <2>2
<1>8. wire' \in Seq(Line) /\ (DoneIn(wire') => wire' = wire)
  <2>1. CASE wire' = w
    <3>1. ASSUME DoneIn(w) PROVE w = wire
      <4>1. PICK i \in 1 .. k : w[i].kind = "done"
        BY <1>6, <3>1 DEF DoneIn
      <4>2. k = n
        BY <1>7, <4>1
      <4>3. Len(w) = Len(wire) /\ \A j \in 1 .. Len(w) : w[j] = wire[j]
        BY <1>2, <1>6, <4>2
      <4>4. QED
        BY <1>1, <1>6, <4>3, SeqEqual
    <3>2. QED
      BY <1>6, <2>1, <3>1
  <2>2. CASE k < n /\ wire' = Append(w, [kind |-> "junk"])
    <3>1. PICK l, v : l = [kind |-> "junk"] /\ v = Append(w, l)
      OBVIOUS
    <3>2. l \in Line /\ l.kind # "done"
      BY <3>1 DEF Line
    <3>3. v \in Seq(Line) /\ Len(v) = k + 1 /\ v[k + 1] = l /\ \A i \in 1 .. k : v[i] = w[i]
      BY <1>6, <3>1, <3>2, AppendProperties
    <3>4. ASSUME NEW i \in 1 .. Len(v) PROVE v[i].kind # "done"
      <4>1. CASE i = k + 1
        BY <3>2, <3>3, <4>1
      <4>2. CASE i # k + 1
        <5>1. i \in 1 .. k
          BY <3>3, <4>2
        <5>2. w[i].kind # "done"
          BY <1>7, <2>2, <5>1
        <5>3. QED
          BY <3>3, <5>1, <5>2
      <4>3. QED
        BY <4>1, <4>2
    <3>5. wire' = v
      BY <2>2, <3>1
    <3>6. QED
      BY <3>3, <3>4, <3>5 DEF DoneIn
  <2>3. QED
    BY <1>4, <1>5, <2>1, <2>2
<1>9. acc' = acc /\ quirk' = quirk /\ phase' = phase
  BY DEF Still
<1>10. AllArrives'
  <2>1. SUFFICES ASSUME quirk # "careless", DoneIn(wire')
                 PROVE  Represents(Ahead(acc, wire'), answer)
    BY <1>9 DEF AllArrives, NothingLost
  <2>2. wire' = wire
    BY <1>8, <2>1
  <2>3. Represents(Ahead(acc, wire), answer)
    BY <1>1, <2>1, <2>2 DEF AllArrives, NothingLost
  <2>4. QED
    BY <2>2, <2>3
<1>11. DoneLast'
  <2>1. SUFFICES ASSUME DoneIn(wire')
                 PROVE  /\ answer.finish # Missing
                        /\ \A i \in 1 .. Len(wire') : wire'[i].kind = "done" => i = Len(wire')
    BY DEF DoneLast
  <2>2. wire' = wire
    BY <1>8, <2>1
  <2>3. QED
    BY <1>1, <2>1, <2>2 DEF DoneLast
<1>12. QED
  BY <1>1, <1>8, <1>10, <1>11, StillKeeps

LEMMA BreakKeeps == LlmInv /\ Break => LlmInv'
<1> SUFFICES ASSUME LlmInv, Break PROVE LlmInv'
  OBVIOUS
<1>1. Still /\ phase = "reading" /\ written' = written /\ answer' = answer /\ conn' = "broken"
      /\ Arrives
  BY DEF Break, Still, server, client
<1>2. QED
  BY <1>1, CutKeeps

LEMMA CancelKeeps == LlmInv /\ Cancel => LlmInv'
<1> SUFFICES ASSUME LlmInv, Cancel PROVE LlmInv'
  OBVIOUS
<1>1. Still /\ phase = "reading" /\ written' = written /\ answer' = answer /\ conn' = "broken"
      /\ Arrives
  BY DEF Cancel, Still, server, client
<1>2. QED
  BY <1>1, CutKeeps

LEMMA CloseKeeps == LlmInv /\ Close => LlmInv'
<1> SUFFICES ASSUME LlmInv, Close PROVE LlmInv'
  OBVIOUS
<1>1. /\ Still /\ phase = "reading" /\ conn = "open" /\ conn' = "closed" /\ written' = written
      /\ answer' = answer /\ acc' = acc /\ quirk' = quirk
  BY DEF Close, Writing, Still, server, client
<1>2. /\ acc \in Built /\ answer \in Answered /\ wire \in Seq(Line) /\ written \in Nat
      /\ AllArrives /\ DoneLast
  BY <1>1 DEF LlmInv, StreamTypes, ReadingInv
<1>3. PICK n : n = Len(wire)
  OBVIOUS
<1>4. n \in Nat /\ \A i \in 1 .. n : wire[i].kind # "done"
  BY <1>1, <1>2, <1>3 DEF DoneLast, DoneIn
<1>5. quirk # "careless" => Represents(Ahead(acc, wire), answer)
  BY <1>1, <1>2 DEF AllArrives, NothingLost
<1>6. CASE answer.finish # Missing /\ SendLine([kind |-> "done"])
  <2>1. PICK l, w, a : l = [kind |-> "done"] /\ w = Append(wire, l) /\ a = Ahead(acc, wire)
    OBVIOUS
  <2>2. a \in Built
    BY <1>2, <2>1, AheadLaws
  <2>3. l \in Line /\ Taken(a, l) = a
    <3>1. PICK k : k = "done"
      OBVIOUS
    <3>2. k \in {"junk", "error", "done"} /\ l = [kind |-> k]
      BY <2>1, <3>1
    <3>3. QED
      BY <2>2, <3>2, OtherSent
  <2>4. w \in Seq(Line) /\ Len(w) = n + 1 /\ w[n + 1] = l /\ \A i \in 1 .. n : w[i] = wire[i]
    BY <1>2, <1>3, <2>1, <2>3, AppendProperties
  <2>5. wire' = w
    BY <1>6, <2>1 DEF SendLine
  <2>6. AllArrives'
    <3>1. Ahead(acc, w) = Taken(a, l)
      BY <1>2, <2>1, <2>3, AheadLaws
    <3>2. Ahead(acc, w) = Ahead(acc, wire)
      BY <2>1, <2>3, <3>1
    <3>3. QED
      BY <1>1, <1>5, <2>5, <3>2 DEF AllArrives
  <2>7. DoneLast'
    <3>1. ASSUME NEW i \in 1 .. Len(w), w[i].kind = "done" PROVE i = Len(w)
      <4>1. i = n + 1 \/ i \in 1 .. n
        BY <1>4, <2>4
      <4>2. i \notin 1 .. n
        BY <1>4, <2>4, <3>1
      <4>3. QED
        BY <2>4, <4>1, <4>2
    <3>2. QED
      BY <1>1, <1>6, <2>5, <3>1 DEF DoneLast
  <2>8. QED
    BY <1>1, <1>2, <1>6, <2>4, <2>5, <2>6, <2>7, StillKeeps
<1>7. CASE wire' = wire /\ (quirk # "short" => answer.finish # Missing)
  <2>1. AllArrives'
    BY <1>1, <1>5, <1>7 DEF AllArrives
  <2>2. DoneLast'
    <3>1. ~ DoneIn(wire)
      BY <1>3, <1>4 DEF DoneIn
    <3>2. QED
      BY <1>7, <3>1 DEF DoneLast
  <2>3. QED
    BY <1>1, <1>2, <1>7, <2>1, <2>2, StillKeeps
<1>8. QED
  BY <1>6, <1>7 DEF Close

LEMMA ServerKeeps == LlmInv /\ Server => LlmInv'
BY TextKeeps, FinishKeeps, UsageKeeps, OtherKeeps, CloseKeeps, BreakKeeps, CallKeeps DEF Server

-----------------------------------------------------------------------------
(***************************************************************************)
(* What the client and the runner do.                                      *)
(***************************************************************************)
\* A line is read, and the client goes on.
ReadsOn ==
  /\ phase = "reading" /\ wire # << >> /\ wire' = Tail(wire) /\ acc' = Taken(acc, Head(wire))
  /\ contents' = contents /\ request' = request /\ phase' = phase /\ outcome' = outcome
  /\ answer' = answer /\ written' = written /\ quirk' = quirk /\ conn' = conn

LEMMA ReadsOnKeeps ==
  ASSUME LlmInv, ReadsOn, YieldsKept'
  PROVE  LlmInv'
<1>1. /\ acc \in Built /\ answer \in Answered /\ wire \in Seq(Line) /\ written \in Nat
      /\ wire # << >> /\ phase = "reading" /\ AllArrives /\ DoneLast
  BY DEF LlmInv, StreamTypes, ReadingInv, ReadsOn
<1>2. PICK h, t : h = Head(wire) /\ t = Tail(wire)
  OBVIOUS
<1>3. /\ h \in Line /\ t \in Seq(Line) /\ Len(t) = Len(wire) - 1
      /\ \A i \in 1 .. Len(t) : t[i] = wire[i + 1]
  BY <1>1, <1>2, HeadTailProperties
<1>4. Ahead(Taken(acc, h), t) = Ahead(acc, wire)
  BY <1>1, <1>2, AheadHead
<1>5. wire' = t /\ acc' = Taken(acc, h) /\ acc' \in Built
  BY <1>1, <1>2, <1>3, TakenType DEF ReadsOn
<1>6. /\ contents' = contents /\ request' = request /\ phase' = phase /\ outcome' = outcome
      /\ answer' = answer /\ written' = written /\ quirk' = quirk /\ conn' = conn
  BY DEF ReadsOn
<1>7. Len(wire) \in Nat /\ \A i \in 1 .. Len(t) : i + 1 \in 1 .. Len(wire)
  BY <1>1, <1>3
<1>8. DoneIn(t) => DoneIn(wire)
  BY <1>3, <1>7 DEF DoneIn
<1>9. AllArrives'
  <2>1. NothingLost(t, conn) => NothingLost(wire, conn)
    BY <1>8 DEF NothingLost
  <2>2. Ahead(acc', wire') = Ahead(acc, wire)
    BY <1>4, <1>5
  <2>3. QED
    BY <1>1, <1>5, <1>6, <2>1, <2>2 DEF AllArrives
<1>10. DoneLast'
  <2>1. ASSUME DoneIn(t), NEW i \in 1 .. Len(t), t[i].kind = "done" PROVE i = Len(t)
    <3>1. i + 1 \in 1 .. Len(wire) /\ wire[i + 1].kind = "done"
      BY <1>3, <1>7, <2>1
    <3>2. i + 1 = Len(wire)
      BY <1>1, <1>8, <2>1, <3>1 DEF DoneLast
    <3>3. QED
      BY <1>3, <1>7, <3>2
  <2>2. DoneIn(t) => conn # "open" /\ answer.finish # Missing
    BY <1>1, <1>8 DEF DoneLast
  <2>3. QED
    BY <1>5, <1>6, <2>1, <2>2 DEF DoneLast
<1>11. StreamTypes' /\ Tells(contents)'
  <2>1. StreamTypes /\ Tells(contents)
    BY DEF LlmInv
  <2>2. QED
    BY <1>3, <1>5, <1>6, <2>1 DEF StreamTypes
<1>12. ReadingInv'
  <2>1. ReadingInv
    BY DEF LlmInv
  <2>2. QED
    BY <1>1, <1>6, <1>9, <1>10, <2>1 DEF ReadingInv
<1>13. IdleInv' /\ EndedInv'
  BY <1>1, <1>6 DEF IdleInv, EndedInv, Streamed
<1>14. QED
  BY <1>11, <1>12, <1>13 DEF LlmInv

\* The request ends without an answer.
EndsNot ==
  /\ phase' = "ended" /\ outcome'.kind # "final" /\ contents' = contents /\ answer' = answer
  /\ written' = written /\ quirk' = quirk /\ acc' \in Built /\ wire' \in Seq(Line)

LEMMA EndsNotKeeps ==
  ASSUME LlmInv, EndsNot, YieldsKept'
  PROVE  LlmInv'
<1>1. StreamTypes' /\ Tells(contents)'
  BY DEF LlmInv, StreamTypes, EndsNot
<1>2. IdleInv' /\ ReadingInv' /\ EndedInv'
  BY DEF EndsNot, IdleInv, ReadingInv, EndedInv, Streamed
<1>3. QED
  BY <1>1, <1>2 DEF LlmInv

LEMMA ReadChunkKeeps == LlmInv /\ ReadChunk => LlmInv'
<1> SUFFICES ASSUME LlmInv, ReadChunk PROVE LlmInv'
  OBVIOUS
<1>1. /\ phase = "reading" /\ wire # << >> /\ wire' = Tail(wire) /\ contents' = contents
      /\ request' = request /\ answer' = answer /\ written' = written /\ quirk' = quirk
      /\ conn' = conn
  BY DEF ReadChunk, server
<1>2. /\ acc \in Built /\ wire \in Seq(Line)
      /\ yielded = [content |-> acc.content, reasoning |-> acc.reasoning]
  BY DEF LlmInv, StreamTypes, YieldsKept
<1>3. PICK c : c = Head(wire)
  OBVIOUS
<1>4. c \in Chunk /\ c.kind = "chunk" /\ wire' \in Seq(Line)
  <2>1. c \in Line /\ wire' \in Seq(Line)
    BY <1>1, <1>2, <1>3, HeadTailProperties
  <2>2. c.kind = "chunk"
    BY <1>3 DEF ReadChunk
  <2>3. QED
    BY <2>1, <2>2, LineIs
<1>5. PICK text, thought : /\ text = [acc EXCEPT !.content = @ \o c.content]
                           /\ thought = [text EXCEPT !.reasoning = @ \o c.reasoning]
  OBVIOUS
<1>6. thought = Gained(acc, c)
  BY <1>5 DEF Gained
<1>7. PICK x, y : x = acc.content \o c.content /\ y = acc.reasoning \o c.reasoning
  OBVIOUS
<1>8. x \in Seq(Nat) /\ y \in Seq(Nat)
  BY <1>2, <1>4, <1>7, ConcatProperties DEF Built, Chunk
<1>9. text \in Built /\ text.content = x /\ text.reasoning = acc.reasoning
  <2>1. text = [acc EXCEPT !.content = x]
    BY <1>5, <1>7
  <2>2. QED
    BY <1>2, <1>8, <2>1 DEF Built
<1>10. thought \in Built /\ thought.content = x /\ thought.reasoning = y
  <2>1. GainedAs(acc, c, thought)
    BY <1>2, <1>4, <1>6, GainedType
  <2>2. QED
    BY <1>7, <2>1 DEF GainedAs
<1>11. PICK rest : rest = FoldLeft(AddCall, thought, c.frags)
  OBVIOUS
<1>12. PICK both : both = [content |-> yielded.content \o c.content,
                           reasoning |-> yielded.reasoning \o c.reasoning]
  OBVIOUS
<1>13. both = [content |-> x, reasoning |-> y]
  BY <1>2, <1>7, <1>12
<1>14. \/ /\ acc' = text /\ yielded' = [yielded EXCEPT !.content = @ \o c.content]
          /\ End("stopped", NoOutcome.final)
       \/ acc' = thought /\ yielded' = both /\ End("stopped", NoOutcome.final)
       \/ /\ acc' = IF c.finish = Missing THEN rest
                    ELSE [rest EXCEPT !.finish = mapFinishReason(c.finish)]
          /\ yielded' = both /\ UNCHANGED << phase, outcome >>
  BY <1>3, <1>5, <1>11, <1>12 DEF ReadChunk
<1>15. CASE /\ acc' = text /\ yielded' = [yielded EXCEPT !.content = @ \o c.content]
            /\ End("stopped", NoOutcome.final)
  <2>1. EndsNot
    BY <1>1, <1>4, <1>9, <1>15 DEF EndsNot, End
  <2>2. YieldsKept'
    <3>1. yielded' = [yielded EXCEPT !.content = x]
      BY <1>2, <1>7, <1>15
    <3>2. yielded' = [content |-> x, reasoning |-> acc.reasoning]
      BY <1>2, <3>1
    <3>3. QED
      BY <1>9, <1>15, <3>2 DEF YieldsKept
  <2>3. QED
    BY <2>1, <2>2, EndsNotKeeps
<1>16. CASE acc' = thought /\ yielded' = both /\ End("stopped", NoOutcome.final)
  <2>1. EndsNot
    BY <1>1, <1>4, <1>10, <1>16 DEF EndsNot, End
  <2>2. YieldsKept'
    BY <1>10, <1>13, <1>16 DEF YieldsKept
  <2>3. QED
    BY <2>1, <2>2, EndsNotKeeps
<1>17. CASE /\ acc' = IF c.finish = Missing THEN rest
                      ELSE [rest EXCEPT !.finish = mapFinishReason(c.finish)]
            /\ yielded' = both /\ UNCHANGED << phase, outcome >>
  <2>1. acc' = TakenChunk(acc, c)
    BY <1>6, <1>11, <1>17 DEF TakenChunk
  <2>2. acc' = Taken(acc, Head(wire))
    BY <1>3, <1>4, <2>1 DEF Taken
  <2>3. ReadsOn
    BY <1>1, <1>17, <2>2 DEF ReadsOn
  <2>4. YieldsKept'
    <3>1. PICK t : t = acc'
      OBVIOUS
    <3>2. t.content = x /\ t.reasoning = y
      BY <1>2, <1>4, <1>7, <2>1, <3>1, TakenChunkType
    <3>3. QED
      BY <1>13, <1>17, <3>1, <3>2 DEF YieldsKept
  <2>5. QED
    BY <2>3, <2>4, ReadsOnKeeps
<1>18. QED
  BY <1>14, <1>15, <1>16, <1>17

LEMMA ReadOtherKeeps == LlmInv /\ ReadOther => LlmInv'
<1> SUFFICES ASSUME LlmInv, ReadOther PROVE LlmInv'
  OBVIOUS
<1>1. /\ phase = "reading" /\ wire # << >> /\ wire' = Tail(wire) /\ contents' = contents
      /\ request' = request /\ answer' = answer /\ written' = written /\ quirk' = quirk
      /\ conn' = conn /\ yielded' = yielded /\ Head(wire).kind \in {"junk", "usage", "error"}
  BY DEF ReadOther, server
<1>2. /\ acc \in Built /\ wire \in Seq(Line) /\ YieldsKept
  BY DEF LlmInv, StreamTypes
<1>3. PICK l : l = Head(wire)
  OBVIOUS
<1>4. l \in Line /\ wire' \in Seq(Line) /\ l.kind \in {"junk", "usage", "error"}
  BY <1>1, <1>2, <1>3, HeadTailProperties
<1>5. acc' = IF l.kind = "usage" THEN [acc EXCEPT !.usage = l.usage] ELSE acc
  BY <1>3 DEF ReadOther
<1>6. acc' = Taken(acc, l)
  BY <1>4, <1>5 DEF Taken
<1>7. acc' \in Built
  BY <1>2, <1>4, <1>6, TakenType
<1>8. acc'.content = acc.content /\ acc'.reasoning = acc.reasoning
  BY <1>2, <1>5 DEF Built
<1>9. YieldsKept'
  BY <1>1, <1>2, <1>8 DEF YieldsKept
<1>10. CASE l.kind = "error"
  <2>1. EndsNot
    BY <1>1, <1>3, <1>4, <1>7, <1>10 DEF EndsNot, End, Fails, ReadOther
  <2>2. QED
    BY <1>9, <2>1, EndsNotKeeps
<1>11. CASE l.kind # "error"
  <2>1. ReadsOn
    BY <1>1, <1>3, <1>6, <1>11 DEF ReadsOn, ReadOther
  <2>2. QED
    BY <1>9, <2>1, ReadsOnKeeps
<1>12. QED
  BY <1>10, <1>11

LEMMA ReadErrorKeeps == LlmInv /\ ReadError => LlmInv'
<1> SUFFICES ASSUME LlmInv, ReadError PROVE LlmInv'
  OBVIOUS
<1>1. /\ acc \in Built /\ wire \in Seq(Line) /\ YieldsKept
  BY DEF LlmInv, StreamTypes
<1>2. EndsNot /\ acc' = acc /\ yielded' = yielded
  BY <1>1 DEF EndsNot, End, Fails, ReadError, server, client
<1>3. QED
  BY <1>1, <1>2, EndsNotKeeps DEF YieldsKept

LEMMA ReadEndKeeps == LlmInv /\ ReadEnd => LlmInv'
<1> SUFFICES ASSUME LlmInv, ReadEnd PROVE LlmInv'
  OBVIOUS
<1>1. /\ phase = "reading" /\ AtEnd /\ wire' = << >> /\ phase' = "ended"
      /\ outcome' = [kind |-> "final", final |-> FinalOf(acc)] /\ contents' = contents
      /\ answer' = answer /\ written' = written /\ quirk' = quirk /\ conn' = conn
      /\ acc' = acc /\ yielded' = yielded
  BY DEF ReadEnd, End, server, client
<1>2. /\ acc \in Built /\ answer \in Answered /\ wire \in Seq(Line) /\ YieldsKept
      /\ AllArrives /\ DoneLast /\ (conn = "closed" /\ quirk # "short" => answer.finish # Missing)
  BY <1>1 DEF LlmInv, StreamTypes, ReadingInv
<1>3. StreamTypes' /\ YieldsKept' /\ Tells(contents)'
  <2>1. StreamTypes /\ Tells(contents)
    BY DEF LlmInv
  <2>2. wire' \in Seq(Line)
    BY <1>1, EmptySeq
  <2>3. QED
    BY <1>1, <1>2, <2>1, <2>2 DEF StreamTypes, YieldsKept
<1>4. /\ NothingLost(wire, conn) /\ Ahead(acc, wire) = acc
      /\ (quirk # "short" => answer.finish # Missing)
  <2>1. CASE wire = << >>
    <3>1. conn = "closed"
      BY <1>1, <2>1 DEF AtEnd
    <3>2. Ahead(acc, << >>) = acc
      BY <1>2, AheadLaws
    <3>3. QED
      BY <1>2, <2>1, <3>1, <3>2 DEF NothingLost
  <2>2. CASE wire # << >>
    <3>1. PICK h, t : h = Head(wire) /\ t = Tail(wire)
      OBVIOUS
    <3>2. h \in Line /\ t \in Seq(Line) /\ Len(t) = Len(wire) - 1 /\ Len(wire) \in Nat \ {0}
          /\ h = wire[1] /\ h.kind = "done"
      <4>1. h \in Line /\ t \in Seq(Line) /\ Len(t) = Len(wire) - 1
        BY <1>2, <2>2, <3>1, HeadTailProperties
      <4>2. Len(wire) \in Nat \ {0}
        BY <1>2, <2>2, EmptySeq
      <4>3. h.kind = "done"
        BY <1>1, <2>2, <3>1 DEF AtEnd
      <4>4. h = wire[1]
        BY <3>1
      <4>5. QED
        BY <4>1, <4>2, <4>3, <4>4
    <3>3. 1 \in 1 .. Len(wire) /\ wire[1].kind = "done"
      BY <3>2
    <3>4. DoneIn(wire)
      BY <3>3 DEF DoneIn
    <3>5. answer.finish # Missing /\ 1 = Len(wire)
      BY <1>2, <3>3, <3>4 DEF DoneLast
    <3>6. t = << >>
      <4>1. Len(t) = 0
        <5>1. PICK n, m : n = Len(wire) /\ m = Len(t)
          OBVIOUS
        <5>2. m = n - 1 /\ n = 1
          BY <3>2, <3>5, <5>1
        <5>3. QED
          BY <5>1, <5>2
      <4>2. QED
        BY <3>2, <4>1, EmptySeq
    <3>7. Ahead(acc, wire) = acc
      <4>1. Ahead(Taken(acc, h), t) = Ahead(acc, wire)
        BY <1>2, <2>2, <3>1, AheadHead
      <4>2. Taken(acc, h) = acc
        BY <3>2 DEF Taken
      <4>3. Ahead(acc, << >>) = acc
        BY <1>2, AheadLaws
      <4>4. QED
        BY <3>6, <4>1, <4>2, <4>3
    <3>8. QED
      BY <3>4, <3>5, <3>7 DEF NothingLost
  <2>3. QED
    BY <2>1, <2>2
<1>5. quirk # "careless" => Represents(acc, answer)
  BY <1>2, <1>4 DEF AllArrives
<1>6. EndedInv'
  BY <1>1, <1>4, <1>5 DEF EndedInv
<1>7. IdleInv' /\ ReadingInv'
  BY <1>1 DEF IdleInv, ReadingInv
<1>8. QED
  BY <1>3, <1>6, <1>7 DEF LlmInv

LEMMA ProceedKeeps == LlmInv /\ Proceed => LlmInv'
<1> SUFFICES ASSUME LlmInv, Proceed PROVE LlmInv'
  OBVIOUS
<1>1. /\ phase = "ended" /\ phase' = "idle" /\ mode' = "stream" /\ answer' = NoAnswer
      /\ wire' = << >> /\ acc' = NoAcc /\ yielded' = NoYielded /\ outcome' = NoOutcome
      /\ written' = written /\ quirk' = quirk
  BY DEF Proceed
<1>2. /\ acc \in Built /\ contents \in Seq(ContentSet) /\ Tells(contents) /\ EndedInv
      /\ written \in Nat /\ quirk \in Behaviours
  BY DEF LlmInv, StreamTypes
<1>3. contents' \in Seq(ContentSet) /\ Tells(contents')
  <2>1. CASE outcome.kind = "final" /\ mode = "stream"
    <3>1. PICK resp : resp = outcome.final
      OBVIOUS
    <3>2. resp = FinalOf(acc)
      BY <1>1, <1>2, <2>1, <3>1 DEF EndedInv, Streamed
    <3>3. PICK parts : parts = resp.parts
      OBVIOUS
    <3>4. PICK calls : calls = OfKind("call", parts)
      OBVIOUS
    <3>5. PICK results : results = [i \in DOMAIN calls |-> [kind |-> "result", id |-> calls[i].id]]
      OBVIOUS
    <3>6. PICK next : next = IF calls = << >> THEN UserText
                             ELSE [role |-> "user", parts |-> results]
      OBVIOUS
    <3>7. PICK ds : ds = contents \o << [role |-> "model", parts |-> parts], next >>
      OBVIOUS
    <3>8. contents' = ds
      BY <2>1, <3>1, <3>3, <3>4, <3>5, <3>6, <3>7 DEF Proceed
    <3>9. ds \in Seq(ContentSet) /\ Tells(ds)
      <4>1. PICK cs, a : cs = contents /\ a = acc
        OBVIOUS
      <4>2. /\ cs \in Seq(ContentSet) /\ Tells(cs) /\ a \in Built /\ resp = FinalOf(a)
            /\ ds = cs \o << [role |-> "model", parts |-> parts], next >>
        BY <1>2, <3>2, <3>7, <4>1
      <4>3. QED
        BY <3>3, <3>4, <3>5, <3>6, <4>2, HistoryAnswered
    <3>10. QED
      BY <3>8, <3>9
  <2>2. CASE ~ (outcome.kind = "final" /\ mode = "stream")
    <3>1. PICK cs, ds : cs = contents /\ ds = Append(cs, UserText)
      OBVIOUS
    <3>2. cs \in Seq(ContentSet) /\ Tells(cs)
      BY <1>2, <3>1
    <3>3. ds \in Seq(ContentSet) /\ Tells(ds)
      BY <3>1, <3>2, UserTells
    <3>4. contents' = ds
      BY <2>2, <3>1 DEF Proceed
    <3>5. QED
      BY <3>3, <3>4
  <2>3. QED
    BY <2>1, <2>2
<1>4. StreamTypes'
  <2>1. << >> \in Seq(Line)
    BY EmptySeq
  <2>2. NoAcc \in Built /\ NoAnswer \in Answered
    BY NothingBuilt
  <2>3. QED
    BY <1>1, <1>2, <1>3, <2>1, <2>2 DEF StreamTypes
<1>5. YieldsKept'
  BY <1>1 DEF YieldsKept, NoAcc, NoYielded
<1>6. IdleInv' /\ ReadingInv' /\ EndedInv'
  <2>1. NoOutcome.kind = "none"
    BY DEF NoOutcome
  <2>2. QED
    BY <1>1, <2>1 DEF IdleInv, ReadingInv, EndedInv, Streamed
<1>7. QED
  BY <1>3, <1>4, <1>5, <1>6 DEF LlmInv

LEMMA NothingKeeps == LlmInv /\ UNCHANGED llmVars => LlmInv'
<1> SUFFICES ASSUME LlmInv, UNCHANGED llmVars PROVE LlmInv'
  OBVIOUS
<1> USE DEF llmVars, server, client
<1>1. StreamTypes' /\ YieldsKept' /\ Tells(contents)' /\ IdleInv'
  BY DEF LlmInv, StreamTypes, YieldsKept, IdleInv
<1>2. ReadingInv'
  BY DEF LlmInv, ReadingInv, AllArrives, DoneLast
<1>3. EndedInv'
  BY DEF LlmInv, EndedInv, Streamed
<1>4. QED
  BY <1>1, <1>2, <1>3 DEF LlmInv

\* In every reachable state the builders and what is on its way are together the
\* answer, the yields are what the builders hold, and the request is made of the
\* history.  About stream, its builders and its yields.
THEOREM LlmInvariant == LlmSpec => []LlmInv
<1>1. LlmInv /\ [LlmNext]_llmVars => LlmInv'
  <2>1. LlmInv /\ Read => LlmInv'
    BY ReadChunkKeeps, ReadOtherKeeps, ReadEndKeeps, ReadErrorKeeps DEF Read
  <2>2. QED
    BY <2>1, PostKeeps, CompleteKeeps, ServerKeeps, ProceedKeeps, CancelKeeps, NothingKeeps
       DEF LlmNext
<1>2. QED
  BY <1>1, LlmStarts, PTL DEF LlmSpec

-----------------------------------------------------------------------------
\* An answer that was cut off is never taken for a complete one, however many
\* lines were sent and wherever the connection broke.  About io.EOF in stream.
THEOREM NoAnswerTruncated == LlmSpec => []NoTruncation
<1>1. LlmInv => NoTruncation
  BY DEF LlmInv, EndedInv, NoTruncation
<1>2. QED
  BY <1>1, LlmInvariant, PTL

\* However text, thoughts and pieces of any number of calls are interleaved, the
\* stream gives what reading the whole answer does, and the final response is the
\* sum of what was yielded.  About stream against complete.
THEOREM StreamIsWhole == LlmSpec => []SameAsWhole
<1>1. LlmInv => SameAsWhole
  <2>1. SUFFICES ASSUME LlmInv, Streamed
                 PROVE  /\ quirk = "none" => outcome.final = Whole(answer)
                        /\ TextOf("text", outcome.final.parts) = yielded.content
                        /\ TextOf("thought", outcome.final.parts) = yielded.reasoning
    BY DEF SameAsWhole
  <2>2. /\ acc \in Built /\ answer \in Answered
        /\ yielded = [content |-> acc.content, reasoning |-> acc.reasoning]
    BY <2>1 DEF LlmInv, StreamTypes, YieldsKept
  <2>3. /\ outcome.final = FinalOf(acc)
        /\ quirk # "short" => answer.finish # Missing
        /\ quirk # "careless" => Represents(acc, answer)
    BY <2>1 DEF LlmInv, EndedInv
  <2>4. ASSUME quirk = "none" PROVE outcome.final = Whole(answer)
    BY <2>2, <2>3, <2>4, SameResponse
  <2>5. TextOf("text", outcome.final.parts) = yielded.content
        /\ TextOf("thought", outcome.final.parts) = yielded.reasoning
    <3>1. PICK a, calls, resp : a = acc /\ calls = CallsBuilt(a) /\ resp = FinalOf(a)
      OBVIOUS
    <3>2. /\ calls \in Seq(CallRec) /\ a.reasoning \in Seq(Nat) /\ a.content \in Seq(Nat)
          /\ ResponseIs(resp, a.reasoning, a.content, calls, a.finish, a.usage)
      BY <2>2, <3>1, FinalIs
    <3>3. PICK r, t, parts : r = a.reasoning /\ t = a.content /\ parts = AnswerParts(r, t, calls)
      OBVIOUS
    <3>4. resp.parts = parts
      BY <3>2, <3>3 DEF ResponseIs
    <3>5. TextOf("text", parts) = t /\ TextOf("thought", parts) = r
      BY <3>2, <3>3, AnswerHolds
    <3>6. outcome.final.parts = parts /\ yielded.content = t /\ yielded.reasoning = r
      BY <2>2, <2>3, <3>1, <3>3, <3>4
    <3>7. QED
      BY <3>5, <3>6
  <2>6. QED
    BY <2>4, <2>5
<1>2. QED
  BY <1>1, LlmInvariant, PTL

\* However long the conversation, a request tells its whole history once and in
\* order, and every result follows the message that calls for it.  About
\* toChatMessages and the histories that answers, failures and stops leave.
THEOREM HistoryIsTold == LlmSpec => []HistoryTold
<1>1. LlmInv => HistoryTold
  <2>1. SUFFICES ASSUME LlmInv, phase = "reading"
                 PROVE  /\ ToldBy(request)
                             = FlattenSeq([i \in DOMAIN contents |-> HeldBy(contents[i].parts)])
                        /\ \A j \in DOMAIN request :
                             request[j].role = "tool" => CalledFor(request, j)
    BY DEF HistoryTold, CalledFor
  <2>2. contents \in Seq(ContentSet) /\ Tells(contents) /\ request = toChatMessages(contents)
    BY <2>1 DEF LlmInv, StreamTypes, ReadingInv
  <2>3. ToldBy(request) = FlattenSeq([i \in DOMAIN contents |-> HeldBy(contents[i].parts)])
    BY <2>2, HistoryIs DEF Tells
  <2>4. Answering(request)
    BY <2>2 DEF Tells
  <2>5. QED
    BY <2>3, <2>4 DEF Answering
<1>2. QED
  BY <1>1, LlmInvariant, PTL

-----------------------------------------------------------------------------
(***************************************************************************)
(* Types.  That no call of a history is without its identifier needs that  *)
(* a fragment without one comes behind the fragment that opened its index, *)
(* in what the builders hold or on its way to them.                        *)
(***************************************************************************)
NamedCalls(a) == \A i \in 1 .. Len(a.order) : a.call[a.order[i]].id # 0

OpensIn(l, x) ==
  l.kind = "chunk" /\ \E n \in 1 .. Len(l.frags) : l.frags[n].index = x /\ l.frags[n].id # 0

\* The call of index x is opened by the builders or by one of the first n lines.
Ready(a, w, n, x) == a.call[x].id # 0 \/ \E j \in 1 .. n : OpensIn(w[j], x)

FollowsAt(a, w, i) ==
  w[i].kind = "chunk" =>
    /\ Len(w[i].frags) <= 1
    /\ \A n \in 1 .. Len(w[i].frags) :
         w[i].frags[n].id = 0 => Ready(a, w, i - 1, w[i].frags[n].index)

Follow(a, w) == \A i \in 1 .. Len(w) : FollowsAt(a, w, i)

IndexSent(q, k) == IF q = "careless" THEN 0 ELSE k - 1
AllSaid(a, w, n, q) ==
  \A k \in 1 .. n : IndexSent(q, k) \in Indices /\ Ready(a, w, Len(w), IndexSent(q, k))

Opened(a, x, b) == a.call[x].id # 0 => b.call[x].id # 0

LEMMA AddCallOpens ==
  ASSUME NEW a \in Built, NEW f \in Frag, NamedCalls(a), f.id = 0 => a.call[f.index].id # 0,
         NEW b, b = AddCall(a, f)
  PROVE  NamedCalls(b) /\ b.call[f.index].id # 0 /\ \A x \in Indices : Opened(a, x, b)
<1>1. /\ f.index \in Indices /\ f.id \in Nat
  BY DEF Frag
<1>2. PICK old, order, known : order = a.order /\ known = a.call /\ old = a.call[f.index]
  OBVIOUS
<1>3. order \in Seq(Indices) /\ known \in [Indices -> CallRec] /\ old = known[f.index]
  BY <1>2 DEF Built
<1>4. PICK one : one = [id   |-> IF f.id = 0 THEN old.id ELSE f.id,
                        name |-> IF f.name = Missing THEN old.name ELSE f.name,
                        args |-> old.args \o f.args]
  OBVIOUS
<1>5. one.id # 0
  BY <1>2, <1>4
<1>6. PICK more : more = IF \E i \in DOMAIN order : order[i] = f.index THEN order
                         ELSE Append(order, f.index)
  OBVIOUS
<1>7. PICK now : now = [known EXCEPT ![f.index] = one]
  OBVIOUS
<1>8. b = [a EXCEPT !.order = more, !.call = now]
  BY <1>2, <1>4, <1>6, <1>7 DEF AddCall
<1>9. b.order = more /\ b.call = now
  BY <1>8 DEF Built
<1>10. now[f.index] = one /\ \A x \in Indices : x # f.index => now[x] = known[x]
  BY <1>1, <1>3, <1>7
<1>11. \A x \in Indices : known[x].id # 0 => now[x].id # 0
  BY <1>5, <1>10
<1>12. ASSUME NEW i \in 1 .. Len(more) PROVE now[more[i]].id # 0
  <2>1. \A k \in 1 .. Len(order) : order[k] \in Indices /\ now[order[k]].id # 0
    <3>1. \A k \in 1 .. Len(order) : known[order[k]].id # 0
      BY <1>2 DEF NamedCalls
    <3>2. \A k \in 1 .. Len(order) : order[k] \in Indices
      BY <1>3, ElementOfSeq
    <3>3. QED
      BY <1>11, <3>1, <3>2
  <2>2. CASE more = order
    BY <2>1, <2>2
  <2>3. CASE more = Append(order, f.index)
    <3>1. /\ Len(order) \in Nat /\ Len(more) = Len(order) + 1 /\ more[Len(order) + 1] = f.index
          /\ \A k \in 1 .. Len(order) : more[k] = order[k]
      BY <1>1, <1>3, <2>3, AppendProperties
    <3>2. CASE i = Len(order) + 1
      BY <1>5, <1>10, <3>1, <3>2
    <3>3. CASE i # Len(order) + 1
      <4>1. i \in 1 .. Len(order)
        BY <3>1, <3>3
      <4>2. QED
        BY <2>1, <3>1, <4>1
    <3>4. QED
      BY <3>2, <3>3
  <2>4. QED
    BY <1>6, <2>2, <2>3
<1>13. NamedCalls(b)
  BY <1>9, <1>12 DEF NamedCalls
<1>14. b.call[f.index].id # 0
  BY <1>5, <1>9, <1>10
<1>15. \A x \in Indices : Opened(a, x, b)
  BY <1>2, <1>9, <1>11 DEF Opened
<1>16. QED
  BY <1>13, <1>14, <1>15

\* Reading a chunk with one fragment or none.
LEMMA ChunkOpens ==
  ASSUME NEW a \in Built, NEW c \in Chunk, NamedCalls(a), Len(c.frags) <= 1,
         \A n \in 1 .. Len(c.frags) : c.frags[n].id = 0 => a.call[c.frags[n].index].id # 0,
         NEW b, b = TakenChunk(a, c)
  PROVE  /\ NamedCalls(b)
         /\ \A x \in Indices : Opened(a, x, b) /\ (OpensIn(c, x) => b.call[x].id # 0)
<1>1. PICK g, fs : g = Gained(a, c) /\ fs = c.frags
  OBVIOUS
<1>2. g \in Built /\ g.order = a.order /\ g.call = a.call
  <2>1. GainedAs(a, c, g)
    BY <1>1, GainedType
  <2>2. QED
    BY <2>1 DEF GainedAs
<1>3. fs \in Seq(Frag) /\ Len(fs) \in Nat
  BY <1>1 DEF Chunk
<1>4. PICK rest : rest = FoldLeft(AddCall, g, fs)
  OBVIOUS
<1>5. rest \in Built
  BY <1>2, <1>3, <1>4, FragsKeep
<1>6. b = IF c.finish = Missing THEN rest ELSE [rest EXCEPT !.finish = mapFinishReason(c.finish)]
  BY <1>1, <1>4 DEF TakenChunk
<1>7. b.order = rest.order /\ b.call = rest.call
  BY <1>5, <1>6 DEF Built
<1>8. NamedCalls(g) /\ (NamedCalls(rest) => NamedCalls(b))
  BY <1>2, <1>7 DEF NamedCalls
<1>9. CASE Len(fs) = 0
  <2>1. fs = << >>
    BY <1>3, <1>9, EmptySeq
  <2>2. rest = g
    BY <1>2, <1>4, <2>1, FragsFew
  <2>3. \A x : ~ OpensIn(c, x)
    BY <1>1, <1>9 DEF OpensIn
  <2>4. QED
    BY <1>2, <1>7, <1>8, <2>2, <2>3 DEF Opened
<1>10. CASE Len(fs) = 1
  <2>1. PICK f : f = fs[1]
    OBVIOUS
  <2>2. f \in Frag /\ fs = << f >>
    <3>1. f \in Frag
      BY <1>3, <1>10, <2>1, ElementOfSeq
    <3>2. PICK s : s = << f >>
      OBVIOUS
    <3>3. s \in Seq(Frag) /\ Len(s) = 1 /\ s[1] = f
      BY <3>1, <3>2
    <3>4. \A i \in 1 .. 1 : s[i] = fs[i]
      BY <2>1, <3>3
    <3>5. s = fs
      BY <1>3, <1>10, <3>3, <3>4, SeqEqual
    <3>6. QED
      BY <3>1, <3>2, <3>5
  <2>3. rest = AddCall(g, f)
    BY <1>2, <1>4, <2>2, FragsFew
  <2>4. f.id = 0 => g.call[f.index].id # 0
    <3>1. 1 \in 1 .. Len(c.frags)
      BY <1>1, <1>10
    <3>2. QED
      BY <1>1, <1>2, <2>1, <3>1
  <2>5. NamedCalls(rest) /\ rest.call[f.index].id # 0 /\ \A x \in Indices : Opened(g, x, rest)
    BY <1>2, <1>8, <2>2, <2>3, <2>4, AddCallOpens
  <2>6. \A x : OpensIn(c, x) => x = f.index
    <3>1. \A n \in 1 .. Len(c.frags) : c.frags[n] = f
      BY <1>1, <1>10, <2>1
    <3>2. QED
      BY <3>1 DEF OpensIn
  <2>7. NamedCalls(b)
    BY <1>8, <2>5
  <2>8. ASSUME NEW x \in Indices PROVE Opened(a, x, b) /\ (OpensIn(c, x) => b.call[x].id # 0)
    <3>1. Opened(g, x, rest)
      BY <2>5
    <3>2. Opened(a, x, b)
      BY <1>2, <1>7, <3>1 DEF Opened
    <3>3. OpensIn(c, x) => b.call[x].id # 0
      BY <1>7, <2>5, <2>6
    <3>4. QED
      BY <3>2, <3>3
  <2>9. QED
    BY <2>7, <2>8
<1>11. Len(fs) = 0 \/ Len(fs) = 1
  <2>1. PICK n : n = Len(fs)
    OBVIOUS
  <2>2. n \in Nat /\ n <= 1
    BY <1>1, <1>3, <2>1
  <2>3. QED
    BY <2>1, <2>2
<1>12. QED
  BY <1>9, <1>10, <1>11

\* Lines that are the same up to n.
LEMMA FollowAgree ==
  ASSUME NEW a, NEW w, NEW v, NEW i \in Nat, \A j \in 1 .. i : w[j] = v[j]
  PROVE  /\ \A x : Ready(a, w, i, x) => Ready(a, v, i, x)
         /\ i # 0 /\ FollowsAt(a, w, i) => FollowsAt(a, v, i)
<1>1. \A n \in 0 .. i : \A x : Ready(a, w, n, x) => Ready(a, v, n, x)
  <2>1. ASSUME NEW n \in 0 .. i, NEW x, Ready(a, w, n, x) PROVE Ready(a, v, n, x)
    <3>1. \A j \in 1 .. n : w[j] = v[j]
      OBVIOUS
    <3>2. QED
      BY <2>1, <3>1 DEF Ready
  <2>2. QED
    BY <2>1
<1>2. ASSUME i # 0, FollowsAt(a, w, i) PROVE FollowsAt(a, v, i)
  <2>1. w[i] = v[i] /\ i - 1 \in 0 .. i
    BY <1>2
  <2>2. \A x : Ready(a, w, i - 1, x) => Ready(a, v, i - 1, x)
    BY <1>1, <2>1
  <2>3. QED
    BY <1>2, <2>1, <2>2 DEF FollowsAt
<1>3. QED
  BY <1>1, <1>2

\* A line that is sent.
FollowsAll(a, w, l) ==
  l.kind = "chunk" =>
    /\ Len(l.frags) <= 1
    /\ \A n \in 1 .. Len(l.frags) : l.frags[n].id = 0 => Ready(a, w, Len(w), l.frags[n].index)

LEMMA SentFollows ==
  ASSUME NEW a, NEW w \in Seq(Line), NEW l \in Line, NEW v, v = Append(w, l),
         Follow(a, w), FollowsAll(a, w, l)
  PROVE  /\ Follow(a, v)
         /\ \A x : Ready(a, w, Len(w), x) \/ OpensIn(l, x) => Ready(a, v, Len(v), x)
<1>1. PICK n : n = Len(w)
  OBVIOUS
<1>2. n \in Nat /\ Len(v) = n + 1 /\ v[n + 1] = l /\ \A j \in 1 .. n : w[j] = v[j]
  BY <1>1, AppendProperties, LenProperties
<1>3. \A x : Ready(a, w, n, x) => Ready(a, v, n, x)
  BY <1>2, FollowAgree
<1>4. ASSUME NEW i \in 1 .. n PROVE FollowsAt(a, v, i)
  <2>1. i \in Nat /\ i # 0 /\ \A j \in 1 .. i : w[j] = v[j]
    BY <1>2
  <2>2. FollowsAt(a, w, i)
    BY <1>1 DEF Follow
  <2>3. QED
    BY <2>1, <2>2, FollowAgree
<1>5. PICK k : k = n + 1
  OBVIOUS
<1>6. k - 1 = n /\ Len(v) = k /\ v[k] = l
  BY <1>2, <1>5
<1>7. FollowsAt(a, v, k)
  BY <1>1, <1>3, <1>6 DEF FollowsAt, FollowsAll
<1>8. Follow(a, v)
  <2>1. \A i \in 1 .. k : i = k \/ i \in 1 .. n
    BY <1>2, <1>5
  <2>2. QED
    BY <1>4, <1>6, <1>7, <2>1 DEF Follow
<1>9. ASSUME NEW x, Ready(a, w, n, x) \/ OpensIn(l, x) PROVE Ready(a, v, k, x)
  <2>1. k \in 1 .. k /\ \A j \in 1 .. n : j \in 1 .. k
    BY <1>2, <1>5
  <2>2. CASE Ready(a, w, n, x)
    <3>1. Ready(a, v, n, x)
      BY <1>3, <2>2
    <3>2. QED
      BY <2>1, <3>1 DEF Ready
  <2>3. CASE OpensIn(l, x)
    BY <1>6, <2>1, <2>3 DEF Ready
  <2>4. QED
    BY <1>9, <2>2, <2>3
<1>10. QED
  BY <1>1, <1>6, <1>8, <1>9

\* Lines of which the first k arrive.
LEMMA CutFollows ==
  ASSUME NEW a, NEW w \in Seq(Line), Follow(a, w), NEW v \in Seq(Line), Len(v) <= Len(w),
         \A i \in 1 .. Len(v) : v[i] = w[i]
  PROVE  Follow(a, v)
<1>1. PICK n, m : n = Len(w) /\ m = Len(v)
  OBVIOUS
<1>2. n \in Nat /\ m \in Nat /\ m <= n
  BY <1>1, LenProperties
<1>3. ASSUME NEW i \in 1 .. m PROVE FollowsAt(a, v, i)
  <2>1. i \in Nat /\ i # 0 /\ i \in 1 .. n
    BY <1>2
  <2>2. \A j \in 1 .. i : w[j] = v[j]
    <3>1. \A j \in 1 .. i : j \in 1 .. m
      BY <1>2
    <3>2. QED
      BY <1>1, <3>1
  <2>3. FollowsAt(a, w, i)
    BY <1>1, <2>1 DEF Follow
  <2>4. QED
    BY <2>1, <2>2, <2>3, FollowAgree
<1>4. QED
  BY <1>1, <1>3 DEF Follow

\* The first line is read.
LEMMA ReadFollows ==
  ASSUME NEW a \in Built, NEW w \in Seq(Line), w # << >>, NamedCalls(a), Follow(a, w),
         NEW h, h = Head(w), NEW t, t = Tail(w), NEW b, b = Taken(a, h)
  PROVE  /\ NamedCalls(b) /\ Follow(b, t)
         /\ \A x \in Indices : Ready(a, w, Len(w), x) => Ready(b, t, Len(t), x)
<1>1. PICK n : n = Len(t)
  OBVIOUS
<1>2. /\ h \in Line /\ h = w[1] /\ t \in Seq(Line) /\ n \in Nat /\ Len(w) = n + 1
      /\ \A i \in 1 .. n : t[i] = w[i + 1] /\ t[i] \in Line
  BY <1>1, HeadTailProperties, LenProperties, ElementOfSeq, EmptySeq
<1>3. NamedCalls(b) /\ \A x \in Indices : Opened(a, x, b) /\ (OpensIn(h, x) => b.call[x].id # 0)
  <2>1. CASE h.kind = "chunk"
    <3>1. h \in Chunk /\ b = TakenChunk(a, h)
      BY <1>2, <2>1, LineIs DEF Taken
    <3>2. 1 \in 1 .. Len(w) /\ 1 - 1 = 0
      BY <1>2
    <3>3. FollowsAt(a, w, 1)
      BY <3>2 DEF Follow
    <3>4. Len(h.frags) <= 1 /\ \A k \in 1 .. Len(h.frags) :
            h.frags[k].id = 0 => Ready(a, w, 0, h.frags[k].index)
      BY <1>2, <2>1, <3>2, <3>3 DEF FollowsAt
    <3>5. \A x : Ready(a, w, 0, x) => a.call[x].id # 0
      BY DEF Ready
    <3>6. QED
      BY <3>1, <3>4, <3>5, ChunkOpens
  <2>2. CASE h.kind # "chunk"
    <3>1. b.order = a.order /\ b.call = a.call
      BY <2>2 DEF Taken, Built
    <3>2. QED
      BY <2>2, <3>1 DEF NamedCalls, Opened, OpensIn
  <2>3. QED
    BY <2>1, <2>2
<1>4. ASSUME NEW i \in 0 .. n, NEW x \in Indices, Ready(a, w, i + 1, x) PROVE Ready(b, t, i, x)
  <2>1. CASE a.call[x].id # 0
    BY <1>3, <2>1 DEF Opened, Ready
  <2>2. CASE a.call[x].id = 0
    <3>1. PICK j \in 1 .. i + 1 : OpensIn(w[j], x)
      BY <1>4, <2>2 DEF Ready
    <3>2. CASE j = 1
      BY <1>2, <1>3, <3>1, <3>2 DEF Ready
    <3>3. CASE j # 1
      <4>1. PICK k : k = j - 1
        OBVIOUS
      <4>2. k \in 1 .. i /\ k \in 1 .. n /\ k + 1 = j
        BY <1>2, <3>3, <4>1
      <4>3. OpensIn(t[k], x)
        BY <1>2, <3>1, <4>2
      <4>4. QED
        BY <4>2, <4>3 DEF Ready
    <3>4. QED
      BY <3>2, <3>3
  <2>3. QED
    BY <2>1, <2>2
<1>5. ASSUME NEW i \in 1 .. n PROVE FollowsAt(b, t, i)
  <2>1. i + 1 \in 1 .. Len(w) /\ (i + 1) - 1 = (i - 1) + 1 /\ i - 1 \in 0 .. n
    BY <1>2
  <2>2. FollowsAt(a, w, i + 1) /\ t[i] = w[i + 1]
    BY <1>2, <2>1 DEF Follow
  <2>3. SUFFICES ASSUME t[i].kind = "chunk"
                 PROVE  /\ Len(t[i].frags) <= 1
                        /\ \A k \in 1 .. Len(t[i].frags) :
                             t[i].frags[k].id = 0 => Ready(b, t, i - 1, t[i].frags[k].index)
    BY DEF FollowsAt
  <2>4. PICK c : c = t[i]
    OBVIOUS
  <2>5. /\ Len(c.frags) <= 1
        /\ \A k \in 1 .. Len(c.frags) :
             c.frags[k].id = 0 => Ready(a, w, (i - 1) + 1, c.frags[k].index)
    BY <2>1, <2>2, <2>3, <2>4 DEF FollowsAt
  <2>6. \A k \in 1 .. Len(c.frags) : c.frags[k].index \in Indices
    <3>1. c \in Chunk
      BY <1>2, <2>3, <2>4, LineIs
    <3>2. PICK fs : fs = c.frags
      OBVIOUS
    <3>3. fs \in Seq(Frag)
      BY <3>1, <3>2 DEF Chunk
    <3>4. \A k \in 1 .. Len(fs) : fs[k] \in Frag
      BY <3>3, ElementOfSeq
    <3>5. QED
      BY <3>2, <3>4 DEF Frag
  <2>7. \A x \in Indices : Ready(a, w, (i - 1) + 1, x) => Ready(b, t, i - 1, x)
    BY <1>4, <2>1
  <2>8. QED
    BY <2>4, <2>5, <2>6, <2>7
<1>6. Follow(b, t)
  BY <1>1, <1>5 DEF Follow
<1>7. \A x \in Indices : Ready(a, w, Len(w), x) => Ready(b, t, Len(t), x)
  BY <1>1, <1>2, <1>4
<1>8. QED
  BY <1>3, <1>6, <1>7

-----------------------------------------------------------------------------
\* The bounds, and the values of the plain variables.
Bounded ==
  /\ mode \in {"stream", "whole"} /\ phase \in {"idle", "reading", "ended"}
  /\ written \in 0 .. MaxLines /\ noise \in 0 .. MaxNoise /\ quirk \in Quirks \cup {"none"}
  /\ conn \in {"open", "closed", "broken"} /\ cancelled \in BOOLEAN
  /\ outcome.kind \in {"none", "final", "error", "stopped"}

LEMMA BoundedStarts == LlmInit => Bounded
<1> SUFFICES ASSUME LlmInit PROVE Bounded
  OBVIOUS
<1>1. MaxLines \in Nat /\ MaxNoise \in Nat
  BY StreamAssumption
<1>2. outcome.kind = "none"
  BY DEF LlmInit, NoOutcome
<1>3. QED
  <2>1. written \in 0 .. MaxLines /\ noise \in 0 .. MaxNoise
    BY <1>1 DEF LlmInit
  <2>2. quirk \in Quirks \cup {"none"} /\ cancelled \in BOOLEAN
    BY DEF LlmInit
  <2>3. mode = "stream" /\ phase = "idle" /\ conn = "closed"
    BY DEF LlmInit
  <2>4. QED
    BY <1>2, <2>1, <2>2, <2>3 DEF Bounded

LEMMA BoundedStep == Bounded /\ [LlmNext]_llmVars => Bounded'
<1> SUFFICES ASSUME Bounded, [LlmNext]_llmVars PROVE Bounded'
  OBVIOUS
<1>1. MaxLines \in Nat /\ MaxNoise \in Nat
  BY StreamAssumption
<1>2. ASSUME UNCHANGED << mode, written, noise, quirk, conn, cancelled, outcome >>,
             phase' = phase
      PROVE  Bounded'
  BY <1>2 DEF Bounded
<1>3. CASE Post
  <2>1. outcome'.kind \in {"none", "final", "error", "stopped"}
    BY <1>3 DEF Post, NoOutcome, Bounded
  <2>2. QED
    BY <1>3, <2>1 DEF Post, Bounded, server
<1>4. CASE Complete
  <2>1. outcome'.kind \in {"error", "final"}
    BY <1>4 DEF Complete, NoOutcome
  <2>2. QED
    BY <1>4, <2>1 DEF Complete, Bounded, server
<1>5. CASE WriteText
  BY <1>1, <1>5 DEF WriteText, Bounded
<1>6. ASSUME NEW k \in 1 .. MaxCalls, WriteCall(k) PROVE Bounded'
  <2>1. /\ written' = written + 1 /\ written < MaxLines
        /\ UNCHANGED << mode, noise, quirk, conn, phase, cancelled, outcome >>
    BY <1>6 DEF WriteCall
  <2>2. QED
    BY <1>1, <2>1 DEF Bounded
<1>7. CASE WriteFinish
  BY <1>2, <1>7 DEF WriteFinish
<1>8. CASE WriteUsage
  BY <1>2, <1>8 DEF WriteUsage
<1>9. CASE WriteOther
  BY <1>1, <1>9 DEF WriteOther, Bounded
<1>10. CASE Close \/ Break \/ Cancel
  <2>1. /\ conn' \in {"open", "closed", "broken"} /\ cancelled' \in BOOLEAN
        /\ UNCHANGED << mode, written, noise, quirk, phase, outcome >>
    BY <1>10 DEF Close, Break, Cancel, server, Bounded
  <2>2. QED
    BY <2>1 DEF Bounded
<1>11. CASE Read
  <2>1. /\ UNCHANGED << mode, written, noise, quirk, conn, cancelled >>
        /\ \/ UNCHANGED << phase, outcome >>
           \/ phase' = "ended" /\ outcome'.kind \in {"final", "error", "stopped"}
    <3>1. ASSUME NEW kind \in {"final", "error", "stopped"}, NEW final, End(kind, final)
          PROVE  phase' = "ended" /\ outcome'.kind \in {"final", "error", "stopped"}
      BY <3>1 DEF End
    <3>2. CASE ReadChunk
      BY <3>1, <3>2 DEF ReadChunk, server
    <3>3. CASE ReadOther
      BY <3>1, <3>3 DEF ReadOther, Fails, server
    <3>4. CASE ReadEnd \/ ReadError
      BY <3>1, <3>4 DEF ReadEnd, ReadError, Fails, server
    <3>5. QED
      BY <1>11, <3>2, <3>3, <3>4 DEF Read
  <2>2. QED
    BY <2>1 DEF Bounded
<1>12. CASE Proceed
  <2>1. outcome'.kind = "none"
    BY <1>12 DEF Proceed, NoOutcome
  <2>2. QED
    BY <1>12, <2>1 DEF Proceed, Bounded
<1>13. CASE UNCHANGED llmVars
  BY <1>2, <1>13 DEF llmVars, server
<1>14. QED
  BY <1>3, <1>4, <1>5, <1>6, <1>7, <1>8, <1>9, <1>10, <1>11, <1>12, <1>13 DEF LlmNext, Server

-----------------------------------------------------------------------------
\* No part is without its text or its identifier.
PartFine(p) ==
  /\ p.kind \in {"text", "thought"} => p.text # << >>
  /\ p.kind \in {"call", "result"} => p.id # 0
AllFine(parts) == \A j \in 1 .. Len(parts) : PartFine(parts[j])
NoGaps(cs) == \A i \in 1 .. Len(cs) : AllFine(cs[i].parts)

LEMMA PartTyped ==
  ASSUME NEW p \in PartSet, PartFine(p)
  PROVE  p \in Part
<1>1. CASE p \in [kind : {"text", "thought"}, text : Seq(Nat)]
  <2>1. p.kind \in {"text", "thought"} /\ p.text \in Seq(Nat) \ {<< >>}
    BY <1>1 DEF PartFine
  <2>2. QED
    BY <1>1, <2>1 DEF Part, Texts
<1>2. CASE p \in [kind : {"result"}, id : Nat]
  BY <1>2 DEF PartFine, Part
<1>3. CASE p \in CallParts
  BY <1>3 DEF PartFine, Part, CallParts, PieceSet
<1>4. QED
  BY <1>1, <1>2, <1>3 DEF PartSet

LEMMA UserFine == AllFine(UserText.parts)
<1>1. PICK p : p = [kind |-> "text", text |-> << 0 >>]
  OBVIOUS
<1>2. PartFine(p)
  <2>1. p.kind = "text" /\ p.text # << >>
    BY <1>1
  <2>2. QED
    BY <2>1 DEF PartFine
<1>3. UserText.parts = << p >>
  BY <1>1 DEF UserText
<1>4. QED
  BY <1>2, <1>3 DEF AllFine

\* Parts behind others.
LEMMA FineJoined ==
  ASSUME NEW a \in Seq(PartSet), NEW b \in Seq(PartSet), AllFine(a), AllFine(b)
  PROVE  AllFine(a \o b)
<1>1. PICK c, n, m : c = a \o b /\ n = Len(a) /\ m = Len(b)
  OBVIOUS
<1>2. /\ n \in Nat /\ m \in Nat /\ Len(c) = n + m
      /\ \A i \in 1 .. n + m : c[i] = IF i <= n THEN a[i] ELSE b[i - n]
  BY <1>1, ConcatProperties, LenProperties
<1>3. ASSUME NEW i \in 1 .. n + m PROVE PartFine(c[i])
  <2>1. CASE i <= n
    <3>1. i \in 1 .. n /\ c[i] = a[i]
      BY <1>2, <2>1
    <3>2. QED
      BY <1>1, <3>1 DEF AllFine
  <2>2. CASE ~ (i <= n)
    <3>1. PICK j : j = i - n
      OBVIOUS
    <3>2. j \in 1 .. m /\ c[i] = b[j]
      BY <1>2, <2>2, <3>1
    <3>3. QED
      BY <1>1, <3>2 DEF AllFine
  <2>3. QED
    BY <2>1, <2>2
<1>4. AllFine(c)
  BY <1>2, <1>3 DEF AllFine
<1>5. QED
  BY <1>1, <1>4

LEMMA TextFine ==
  ASSUME NEW kind \in {"text", "thought"}, NEW s \in Seq(Nat)
  PROVE  AllFine(TextPart(kind, s))
<1>1. CASE s = << >>
  <2>1. TextPart(kind, s) = << >>
    BY <1>1 DEF TextPart
  <2>2. Len(<< >>) = 0
    BY EmptySeq
  <2>3. QED
    BY <2>1, <2>2 DEF AllFine
<1>2. CASE s # << >>
  <2>1. PICK p : p = [kind |-> kind, text |-> s]
    OBVIOUS
  <2>2. PartFine(p)
    <3>1. p.kind = kind /\ p.text = s
      BY <2>1
    <3>2. QED
      BY <1>2, <3>1 DEF PartFine
  <2>3. TextPart(kind, s) = << p >>
    BY <1>2, <2>1 DEF TextPart
  <2>4. QED
    BY <2>2, <2>3 DEF AllFine
<1>3. QED
  BY <1>1, <1>2

\* What a response is made of, and the results that answer it.
LEMMA AnswerFine ==
  ASSUME NEW a \in Built, NamedCalls(a), NEW parts, parts = FinalOf(a).parts,
         NEW calls, calls = OfKind("call", parts),
         NEW results, results = [i \in DOMAIN calls |-> [kind |-> "result", id |-> calls[i].id]]
  PROVE  AllFine(parts) /\ AllFine(results)
<1>1. PICK cs, resp : cs = CallsBuilt(a) /\ resp = FinalOf(a)
  OBVIOUS
<1>2. /\ cs \in Seq(CallRec) /\ a.reasoning \in Seq(Nat) /\ a.content \in Seq(Nat)
      /\ Len(cs) = Len(a.order) /\ \A i \in 1 .. Len(a.order) : cs[i] = a.call[a.order[i]]
      /\ ResponseIs(resp, a.reasoning, a.content, cs, a.finish, a.usage)
  BY <1>1, FinalIs
<1>3. PICK r, t, c : r = a.reasoning /\ t = a.content /\ c = MapOf(CallMap, cs)
  OBVIOUS
<1>4. parts = AnswerParts(r, t, cs)
  BY <1>1, <1>2, <1>3 DEF ResponseIs
<1>5. calls = c
  BY <1>2, <1>3, <1>4, CallsOfAnswer
<1>6. /\ c \in Seq(PartSet) /\ Len(c) = Len(cs)
      /\ \A i \in 1 .. Len(cs) : cs[i] \in CallRec /\ c[i] = CallPart(cs[i]) /\ cs[i].id # 0
  <2>1. IsMap(CallMap, cs, PartSet, c)
    BY <1>2, <1>3, CallMaps, MapType
  <2>2. c \in Seq(PartSet) /\ Len(c) = Len(cs) /\ \A i \in 1 .. Len(cs) : c[i] = CallMap[cs[i]]
    BY <2>1 DEF IsMap
  <2>3. \A i \in 1 .. Len(cs) : cs[i] \in CallRec
    BY <1>2, ElementOfSeq
  <2>4. \A i \in 1 .. Len(cs) : cs[i].id # 0
    BY <1>2 DEF NamedCalls
  <2>5. QED
    BY <2>2, <2>3, <2>4 DEF CallMap
<1>7. \A i \in 1 .. Len(c) : c[i].kind = "call" /\ c[i].id # 0
  BY <1>6, CallPartIs
<1>8. AllFine(c)
  BY <1>7 DEF AllFine, PartFine
<1>9. AllFine(parts)
  <2>1. PICK x, y, z : x = TextPart("thought", r) /\ y = TextPart("text", t) /\ z = x \o y
    OBVIOUS
  <2>2. x \in Seq(PartSet) /\ y \in Seq(PartSet) /\ AllFine(x) /\ AllFine(y)
    BY <1>2, <1>3, <2>1, TextPartIs, TextFine
  <2>3. z \in Seq(PartSet) /\ AllFine(z)
    BY <2>1, <2>2, FineJoined, ConcatProperties
  <2>4. parts = z \o c
    BY <1>3, <1>4, <2>1 DEF AnswerParts, TextsOf
  <2>5. QED
    BY <1>6, <1>8, <2>3, <2>4, FineJoined
<1>10. AllFine(results)
  <2>1. DOMAIN calls = 1 .. Len(c)
    BY <1>5, <1>6, LenProperties
  <2>2. Len(results) = Len(c)
    <3>1. Len(c) \in Nat /\ results = [i \in 1 .. Len(c) |-> [kind |-> "result", id |-> c[i].id]]
      BY <1>5, <1>6, <2>1, LenProperties
    <3>2. QED
      BY <3>1
  <2>3. ASSUME NEW i \in 1 .. Len(c) PROVE PartFine(results[i])
    <3>1. results[i].kind = "result" /\ results[i].id = c[i].id
      BY <1>5, <2>1
    <3>2. QED
      BY <1>7, <3>1 DEF PartFine
  <2>4. QED
    BY <2>2, <2>3 DEF AllFine
<1>11. QED
  BY <1>9, <1>10

-----------------------------------------------------------------------------
\* No call is read, or on its way, without its identifier.
WayInv ==
  /\ NamedCalls(acc) /\ Len(wire) <= WireCap + 1
  /\ phase = "reading" =>
       /\ Follow(acc, wire)
       /\ conn = "open" => AllSaid(acc, wire, Len(answer.calls), quirk)

LEMMA NothingNamed ==
  ASSUME NEW w, w = << >>
  PROVE  /\ NamedCalls(NoAcc) /\ Len(w) <= WireCap + 1 /\ Follow(NoAcc, w)
         /\ \A q : AllSaid(NoAcc, w, Len(NoAnswer.calls), q)
<1>1. Len(w) = 0 /\ WireCap \in Nat
  BY StreamAssumption, EmptySeq
<1>2. NamedCalls(NoAcc)
  <2>1. NoAcc.order = w
    BY DEF NoAcc
  <2>2. QED
    BY <1>1, <2>1 DEF NamedCalls
<1>3. Follow(NoAcc, w)
  BY <1>1 DEF Follow
<1>4. \A q : AllSaid(NoAcc, w, Len(NoAnswer.calls), q)
  <2>1. NoAnswer.calls = w
    BY DEF NoAnswer
  <2>2. QED
    BY <1>1, <2>1 DEF AllSaid
<1>5. QED
  BY <1>1, <1>2, <1>3, <1>4

LEMMA WayStarts == LlmInit => WayInv
<1> SUFFICES ASSUME LlmInit PROVE WayInv
  OBVIOUS
<1>1. acc = NoAcc /\ wire = << >> /\ phase = "idle"
  BY DEF LlmInit
<1>2. QED
  BY <1>1, NothingNamed DEF WayInv

LEMMA WayPost == LlmInv /\ WayInv /\ Post => WayInv'
<1> SUFFICES ASSUME LlmInv, Post PROVE WayInv'
  OBVIOUS
<1>1. acc = NoAcc /\ answer = NoAnswer /\ wire = << >>
  BY DEF LlmInv, Post, IdleInv
<1>2. acc' = acc /\ answer' = answer /\ wire' = wire
  BY DEF Post, server, client
<1>3. QED
  BY <1>1, <1>2, NothingNamed DEF WayInv

LEMMA WayProceed == Proceed => WayInv'
<1> SUFFICES ASSUME Proceed PROVE WayInv'
  OBVIOUS
<1>1. acc' = NoAcc /\ wire' = << >> /\ phase' = "idle"
  BY DEF Proceed
<1>2. QED
  BY <1>1, NothingNamed DEF WayInv

\* A line is sent; the calls the answer has then were there before, or are
\* opened by it.
OpenedBy(l, k) == IndexSent(quirk, k) \in Indices /\ OpensIn(l, IndexSent(quirk, k))
WaySends(l) ==
  /\ phase = "reading" /\ conn = "open" /\ Len(wire) < WireCap
  /\ wire' = Append(wire, l) /\ acc' = acc /\ quirk' = quirk /\ phase' = phase
  /\ FollowsAll(acc, wire, l)
  /\ \A k \in 1 .. Len(answer'.calls) : k \in 1 .. Len(answer.calls) \/ OpenedBy(l, k)

LEMMA WaySaid ==
  ASSUME LlmInv, LlmInv', WayInv, NEW l, WaySends(l)
  PROVE  WayInv'
<1>1. /\ wire \in Seq(Line) /\ wire' \in Seq(Line) /\ acc \in Built
  BY DEF LlmInv, StreamTypes
<1>2. PICK w, v, n : w = wire /\ v = wire' /\ n = Len(wire)
  OBVIOUS
<1>3. w \in Seq(Line) /\ v \in Seq(Line) /\ v = Append(w, l) /\ n = Len(w) /\ n \in Nat
  BY <1>1, <1>2 DEF WaySends
<1>4. Len(v) = n + 1 /\ v[n + 1] = l
  BY <1>3
<1>5. l \in Line
  <2>1. n + 1 \in 1 .. Len(v)
    BY <1>3, <1>4
  <2>2. QED
    BY <1>3, <1>4, <2>1, ElementOfSeq
<1>6. WireCap \in Nat /\ n < WireCap
  BY <1>2, StreamAssumption DEF WaySends
<1>7. Follow(acc, w) /\ AllSaid(acc, w, Len(answer.calls), quirk) /\ FollowsAll(acc, w, l)
      /\ NamedCalls(acc)
  BY <1>2 DEF WayInv, WaySends
<1>8. /\ Follow(acc, v)
      /\ \A x : Ready(acc, w, Len(w), x) \/ OpensIn(l, x) => Ready(acc, v, Len(v), x)
  BY <1>3, <1>5, <1>7, SentFollows
<1>9. AllSaid(acc, v, Len(answer'.calls), quirk)
  <2>1. SUFFICES ASSUME NEW k \in 1 .. Len(answer'.calls)
                 PROVE  /\ IndexSent(quirk, k) \in Indices
                        /\ Ready(acc, v, Len(v), IndexSent(quirk, k))
    BY DEF AllSaid
  <2>2. CASE k \in 1 .. Len(answer.calls)
    BY <1>7, <1>8, <2>2 DEF AllSaid
  <2>3. CASE OpenedBy(l, k)
    BY <1>8, <2>3 DEF OpenedBy
  <2>4. QED
    BY <2>2, <2>3 DEF WaySends
<1>10. Len(v) <= WireCap + 1
  BY <1>3, <1>4, <1>6
<1>11. QED
  BY <1>2, <1>7, <1>8, <1>9, <1>10 DEF WayInv, WaySends

\* Most lines have no pieces of calls.
LEMMA WaySaidPlain ==
  ASSUME LlmInv, LlmInv', WayInv, Writing, NEW l, SendLine(l), NEW none, none = << >>,
         l.kind = "chunk" => l.frags = none,
         acc' = acc, quirk' = quirk, phase' = phase, answer'.calls = answer.calls
  PROVE  WayInv'
<1>1. Len(none) = 0
  BY EmptySeq
<1>2. FollowsAll(acc, wire, l)
  BY <1>1 DEF FollowsAll
<1>3. WaySends(l)
  BY <1>2 DEF WaySends, Writing, SendLine
<1>4. QED
  BY <1>3, WaySaid

LEMMA WayText == ASSUME LlmInv, LlmInv', WayInv, WriteText PROVE WayInv'
<1>1. /\ Writing /\ acc' = acc /\ quirk' = quirk /\ phase' = phase
  BY DEF WriteText, client
<1>2. PICK fields \in SUBSET {"content", "reasoning"} :
        LET Delta(f) == IF f \in fields THEN << written' >> ELSE << >>
        IN  /\ answer' = [answer EXCEPT !.content = @ \o Delta("content"),
                                        !.reasoning = @ \o Delta("reasoning")]
            /\ SendLine([EmptyChunk EXCEPT !.content = Delta("content"),
                                           !.reasoning = Delta("reasoning")])
  BY DEF WriteText
<1>3. PICK none, x, y : /\ none = << >>
                        /\ x = (IF "content" \in fields THEN << written' >> ELSE << >>)
                        /\ y = (IF "reasoning" \in fields THEN << written' >> ELSE << >>)
  OBVIOUS
<1>4. PICK l : l = TextLine(x, y)
  OBVIOUS
<1>5. answer' = [answer EXCEPT !.content = @ \o x, !.reasoning = @ \o y] /\ SendLine(l)
  BY <1>2, <1>3, <1>4 DEF TextLine
<1>6. l.frags = none
  BY <1>3, <1>4, SentAre DEF ChunkOf
<1>7. answer'.calls = answer.calls
  <2>1. answer \in Answered
    BY DEF LlmInv, StreamTypes
  <2>2. QED
    BY <1>5, <2>1 DEF Answered
<1>8. QED
  BY <1>1, <1>3, <1>5, <1>6, <1>7, WaySaidPlain

LEMMA WayFinish == ASSUME LlmInv, LlmInv', WayInv, WriteFinish PROVE WayInv'
<1>1. /\ Writing /\ acc' = acc /\ quirk' = quirk /\ phase' = phase
  BY DEF WriteFinish, client
<1>2. PICK r : answer' = [answer EXCEPT !.finish = r] /\ SendLine([EmptyChunk EXCEPT !.finish = r])
  BY DEF WriteFinish
<1>3. PICK none, l : none = << >> /\ l = [EmptyChunk EXCEPT !.finish = r]
  OBVIOUS
<1>4. l.frags = none
  <2>1. l = ChunkOf(none, none, none, r)
    BY <1>3, SentAre
  <2>2. QED
    BY <2>1 DEF ChunkOf
<1>5. answer'.calls = answer.calls
  <2>1. answer \in Answered
    BY DEF LlmInv, StreamTypes
  <2>2. QED
    BY <1>2, <2>1 DEF Answered
<1>6. QED
  BY <1>1, <1>2, <1>3, <1>4, <1>5, WaySaidPlain

LEMMA WayUsage == ASSUME LlmInv, LlmInv', WayInv, WriteUsage PROVE WayInv'
<1>1. /\ Writing /\ acc' = acc /\ quirk' = quirk /\ phase' = phase
  BY DEF WriteUsage, client
<1>2. PICK u, none, l : u = 1 + Len(request) /\ none = << >>
                        /\ l = [kind |-> "usage", usage |-> answer'.usage]
  OBVIOUS
<1>3. answer' = [answer EXCEPT !.usage = u] /\ SendLine(l)
  BY <1>2 DEF WriteUsage
<1>4. l.kind # "chunk"
  BY <1>2
<1>5. answer'.calls = answer.calls
  <2>1. answer \in Answered
    BY DEF LlmInv, StreamTypes
  <2>2. QED
    BY <1>3, <2>1 DEF Answered
<1>6. QED
  BY <1>1, <1>2, <1>3, <1>4, <1>5, WaySaidPlain

LEMMA WayOther == ASSUME LlmInv, LlmInv', WayInv, WriteOther PROVE WayInv'
<1>1. /\ Writing /\ acc' = acc /\ quirk' = quirk /\ phase' = phase /\ answer' = answer
  BY DEF WriteOther, client
<1>2. PICK k \in {"junk", "error"} : SendLine([kind |-> k])
  BY DEF WriteOther
<1>3. PICK none, l : none = << >> /\ l = [kind |-> k]
  OBVIOUS
<1>4. l.kind # "chunk" /\ SendLine(l)
  BY <1>2, <1>3
<1>5. QED
  BY <1>1, <1>3, <1>4, WaySaidPlain

\* A piece that opens a call has its identifier; the others find it opened.
LEMMA WayCall ==
  ASSUME LlmInv, LlmInv', WayInv, NEW k \in 1 .. MaxCalls, WriteCall(k)
  PROVE  WayInv'
<1>1. /\ Writing /\ acc' = acc /\ quirk' = quirk /\ phase' = phase /\ written' = written + 1
      /\ k <= Len(answer.calls) + 1
  BY DEF WriteCall, client
<1>2. /\ answer \in Answered /\ answer' \in Answered /\ written \in Nat
  BY DEF LlmInv, StreamTypes
<1>3. PICK called, id, name, sent, piece, index, opens :
        /\ opens = (k = Len(answer.calls) + 1)
        /\ id = (IF opens THEN written' ELSE answer.calls[k].id)
        /\ sent = (IF opens THEN id ELSE 0) /\ index = IndexSent(quirk, k)
        /\ answer' = [answer EXCEPT !.calls =
                        IF opens THEN Append(@, [id |-> id, name |-> name, args |-> << piece >>])
                        ELSE WithPiece(@, k, piece)]
        /\ SendLine([EmptyChunk EXCEPT !.frags =
             << [index |-> index, id |-> sent, name |-> name, args |-> << piece >>] >>])
  BY Zenon DEF WriteCall, IndexSent
<1>4. PICK f : f = [index |-> index, id |-> sent, name |-> name, args |-> << piece >>]
  OBVIOUS
<1>5. PICK fs : fs = << f >>
  OBVIOUS
<1>6. PICK l : l = [EmptyChunk EXCEPT !.frags = fs]
  OBVIOUS
<1>7. SendLine(l)
  BY <1>3, <1>4, <1>5, <1>6
<1>8. l.kind = "chunk" /\ l.frags = fs /\ Len(fs) = 1 /\ fs[1] = f /\ f.index = index /\ f.id = sent
  <2>1. PICK none : none = << >>
    OBVIOUS
  <2>2. l = ChunkOf(none, none, fs, Missing)
    BY <1>6, <2>1, SentAre
  <2>3. l.kind = "chunk" /\ l.frags = fs
    BY <2>2 DEF ChunkOf
  <2>4. QED
    BY <1>4, <1>5, <2>3
<1>9. PICK cs, ds : cs = answer.calls /\ ds = answer'.calls
  OBVIOUS
<1>10. cs \in Seq(CallRec) /\ ds \in Seq(CallRec)
  BY <1>2, <1>9 DEF Answered
<1>11. k \in Nat /\ k - 1 \in Indices /\ 0 \in Indices /\ index \in Indices
  <2>1. MaxCalls \in Nat
    BY StreamAssumption
  <2>2. k \in Nat /\ k - 1 \in Indices /\ 0 \in Indices
    BY <2>1 DEF Indices
  <2>3. QED
    BY <1>3, <2>2 DEF IndexSent
<1>12. CASE opens
  <2>1. sent # 0
    BY <1>1, <1>2, <1>3, <1>12
  <2>2. Len(ds) = Len(cs) + 1 /\ k = Len(cs) + 1 /\ Len(cs) \in Nat
    <3>1. PICK one : one = [id |-> id, name |-> name, args |-> << piece >>]
      OBVIOUS
    <3>2. PICK more : more = Append(cs, one)
      OBVIOUS
    <3>3. answer' = [answer EXCEPT !.calls = more]
      BY <1>3, <1>9, <1>12, <3>1, <3>2
    <3>6. ds = more
      BY <1>2, <1>9, <3>3 DEF Answered
    <3>4. QED
      <4>1. Len(more) = Len(cs) + 1 /\ Len(cs) \in Nat
        BY <1>10, <3>2, AppendProperties, LenProperties
      <4>2. k = Len(cs) + 1
        BY <1>3, <1>9, <1>12
      <4>3. QED
        BY <3>6, <4>1, <4>2
  <2>3. FollowsAll(acc, wire, l)
    BY <1>8, <2>1 DEF FollowsAll
  <2>4. OpenedBy(l, k)
    <3>1. 1 \in 1 .. Len(l.frags) /\ l.frags[1].index = index /\ l.frags[1].id # 0
      BY <1>8, <2>1
    <3>2. OpensIn(l, index)
      BY <1>8, <3>1 DEF OpensIn
    <3>3. QED
      BY <1>3, <1>11, <3>2 DEF OpenedBy
  <2>5. \A j \in 1 .. Len(ds) : j = k \/ j \in 1 .. Len(cs)
    BY <2>2
  <2>6. WaySends(l)
    BY <1>1, <1>7, <1>9, <2>3, <2>4, <2>5 DEF WaySends, Writing, SendLine
  <2>7. QED
    BY <2>6, WaySaid
<1>13. CASE ~ opens
  <2>1. k \in 1 .. Len(cs)
    <3>1. PICK n : n = Len(cs)
      OBVIOUS
    <3>2. n \in Nat /\ k <= n + 1 /\ k # n + 1
      BY <1>1, <1>3, <1>9, <1>10, <1>13, <3>1, LenProperties
    <3>3. QED
      BY <1>11, <3>1, <3>2
  <2>2. Len(ds) = Len(cs)
    <3>1. PICK ext : ext = WithPiece(cs, k, piece)
      OBVIOUS
    <3>2. DOMAIN ext = DOMAIN cs
      BY <3>1 DEF WithPiece
    <3>3. answer' = [answer EXCEPT !.calls = ext]
      BY <1>3, <1>9, <1>13, <3>1
    <3>4. ds = ext
      BY <1>2, <1>9, <3>3 DEF Answered
    <3>5. QED
      BY <1>10, <3>2, <3>4, LenProperties
  <2>3. Ready(acc, wire, Len(wire), index)
    BY <1>1, <1>3, <1>9, <2>1 DEF WayInv, AllSaid, Writing
  <2>4. FollowsAll(acc, wire, l)
    <3>1. \A n \in 1 .. Len(l.frags) : l.frags[n].index = index
      BY <1>8
    <3>2. QED
      BY <1>8, <2>3, <3>1 DEF FollowsAll
  <2>5. WaySends(l)
    BY <1>1, <1>7, <1>9, <2>2, <2>4 DEF WaySends, Writing, SendLine
  <2>6. QED
    BY <2>5, WaySaid
<1>14. QED
  BY <1>12, <1>13

-----------------------------------------------------------------------------
LEMMA WayClose == ASSUME LlmInv, LlmInv', WayInv, Close PROVE WayInv'
<1>1. /\ Writing /\ acc' = acc /\ quirk' = quirk /\ phase' = phase /\ answer' = answer
  BY DEF Close, client, server
<1>2. PICK none, l : none = << >> /\ l = [kind |-> "done"]
  OBVIOUS
<1>3. SendLine(l) \/ wire' = wire
  BY <1>2 DEF Close
<1>4. CASE SendLine(l)
  <2>1. l.kind # "chunk"
    BY <1>2
  <2>2. QED
    BY <1>1, <1>2, <1>4, <2>1, WaySaidPlain
<1>5. CASE wire' = wire
  BY <1>1, <1>5 DEF WayInv, Writing
<1>6. QED
  BY <1>3, <1>4, <1>5

\* What arrives of a stream that breaks.
LEMMA WayCut ==
  ASSUME LlmInv, WayInv, phase = "reading", conn' = "broken", Arrives, acc' = acc, phase' = phase
  PROVE  WayInv'
<1>1. acc \in Built /\ wire \in Seq(Line) /\ Follow(acc, wire) /\ Len(wire) <= WireCap + 1
      /\ NamedCalls(acc)
  BY DEF LlmInv, StreamTypes, WayInv
<1>2. PICK n : n = Len(wire)
  OBVIOUS
<1>3. n \in Nat /\ WireCap \in Nat
  BY <1>1, <1>2, StreamAssumption, LenProperties
<1>4. PICK k \in 0 .. n :
        \/ wire' = SubSeq(wire, 1, k)
        \/ k < n /\ wire' = Append(SubSeq(wire, 1, k), [kind |-> "junk"])
  BY <1>2 DEF Arrives
<1>5. PICK w : w = SubSeq(wire, 1, k)
  OBVIOUS
<1>6. w \in Seq(Line) /\ Len(w) = k /\ \A i \in 1 .. k : w[i] = wire[i]
  <2>1. \A i \in 1 .. k : wire[i] \in Line
    <3>1. \A i \in 1 .. k : i \in 1 .. Len(wire)
      BY <1>2, <1>3
    <3>2. QED
      BY <1>1, <3>1, ElementOfSeq
  <2>2. k \in Int /\ 1 \in Int
    OBVIOUS
  <2>3. /\ SubSeq(wire, 1, k) \in Seq(Line)
        /\ Len(SubSeq(wire, 1, k)) = IF 1 <= k THEN k - 1 + 1 ELSE 0
        /\ \A i \in 1 .. k - 1 + 1 : SubSeq(wire, 1, k)[i] = wire[1 + i - 1]
    BY <2>1, <2>2, SubSeqProperties
  <2>4. QED
    BY <1>3, <1>5, <2>3
<1>7. Follow(acc, w)
  <2>1. Len(w) <= Len(wire) /\ \A i \in 1 .. Len(w) : w[i] = wire[i]
    BY <1>2, <1>6
  <2>2. QED
    BY <1>1, <1>6, <2>1, CutFollows
<1>8. Follow(acc, wire') /\ Len(wire') <= WireCap + 1
  <2>1. CASE wire' = w
    BY <1>1, <1>2, <1>3, <1>6, <1>7, <2>1
  <2>2. CASE k < n /\ wire' = Append(w, [kind |-> "junk"])
    <3>1. PICK l, v : l = [kind |-> "junk"] /\ v = Append(w, l)
      OBVIOUS
    <3>2. l \in Line /\ l.kind # "chunk"
      BY <3>1 DEF Line
    <3>3. Len(v) = k + 1
      BY <1>6, <3>1
    <3>4. Follow(acc, v)
      <4>1. FollowsAll(acc, w, l)
        BY <3>2 DEF FollowsAll
      <4>2. QED
        BY <1>6, <1>7, <3>1, <3>2, <4>1, SentFollows
    <3>5. QED
      BY <1>1, <1>2, <1>3, <2>2, <3>1, <3>3, <3>4
  <2>3. QED
    BY <1>4, <1>5, <2>1, <2>2
<1>9. QED
  BY <1>1, <1>8 DEF WayInv

LEMMA WayServer == LlmInv /\ LlmInv' /\ WayInv /\ Server => WayInv'
<1> SUFFICES ASSUME LlmInv, LlmInv', WayInv, Server PROVE WayInv'
  OBVIOUS
<1>1. CASE Break
  BY <1>1, WayCut DEF Break, client
<1>2. QED
  BY <1>1, WayText, WayFinish, WayUsage, WayOther, WayClose, WayCall DEF Server

LEMMA WayCancel == LlmInv /\ WayInv /\ Cancel => WayInv'
<1> SUFFICES ASSUME LlmInv, WayInv, Cancel PROVE WayInv'
  OBVIOUS
<1>1. phase = "reading" /\ conn' = "broken" /\ Arrives /\ acc' = acc /\ phase' = phase
  BY DEF Cancel, client
<1>2. QED
  BY <1>1, WayCut

\* A line is read to its end.
LEMMA WayReads ==
  ASSUME LlmInv, WayInv, phase = "reading", wire # << >>, wire' = Tail(wire),
         acc' = Taken(acc, Head(wire)), answer' = answer, quirk' = quirk, conn' = conn
  PROVE  WayInv'
<1>1. /\ acc \in Built /\ wire \in Seq(Line) /\ Follow(acc, wire) /\ Len(wire) <= WireCap + 1
      /\ NamedCalls(acc) /\ (conn = "open" => AllSaid(acc, wire, Len(answer.calls), quirk))
  BY DEF LlmInv, StreamTypes, WayInv
<1>2. PICK a, w, h, t, b : a = acc /\ w = wire /\ h = Head(w) /\ t = Tail(w) /\ b = Taken(a, h)
  OBVIOUS
<1>3. /\ NamedCalls(b) /\ Follow(b, t)
      /\ \A x \in Indices : Ready(a, w, Len(w), x) => Ready(b, t, Len(t), x)
  BY <1>1, <1>2, ReadFollows
<1>4. Len(t) <= WireCap + 1
  <2>1. PICK n, m : n = Len(w) /\ m = Len(t)
    OBVIOUS
  <2>2. n \in Nat /\ m = n - 1
    BY <1>1, <1>2, <2>1, HeadTailProperties, LenProperties
  <2>3. WireCap \in Nat /\ n <= WireCap + 1
    BY <1>1, <1>2, <2>1, StreamAssumption
  <2>4. QED
    BY <2>1, <2>2, <2>3
<1>5. AllSaid(a, w, Len(answer.calls), quirk) => AllSaid(b, t, Len(answer.calls), quirk)
  BY <1>3 DEF AllSaid
<1>6. QED
  BY <1>1, <1>2, <1>3, <1>4, <1>5 DEF WayInv

\* The request ends, with no call in the builders that was not there.
LEMMA WayEnds ==
  ASSUME LlmInv, WayInv, phase' # "reading", acc'.order = acc.order, acc'.call = acc.call,
         wire' \in { wire, << >> } \/ (wire # << >> /\ wire' = Tail(wire))
  PROVE  WayInv'
<1>1. NamedCalls(acc)'
  BY DEF WayInv, NamedCalls
<1>2. Len(wire') <= WireCap + 1
  <2>1. wire \in Seq(Line) /\ Len(wire) <= WireCap + 1 /\ WireCap \in Nat
    BY StreamAssumption DEF LlmInv, StreamTypes, WayInv
  <2>2. CASE wire' = << >>
    BY <2>1, <2>2, NothingNamed
  <2>3. CASE wire # << >> /\ wire' = Tail(wire)
    <3>1. PICK n, m : n = Len(wire) /\ m = Len(Tail(wire))
      OBVIOUS
    <3>2. n \in Nat /\ m = n - 1
      BY <2>1, <2>3, <3>1, HeadTailProperties, LenProperties
    <3>3. QED
      BY <2>1, <2>3, <3>1, <3>2
  <2>4. QED
    BY <2>1, <2>2, <2>3
<1>3. QED
  BY <1>1, <1>2 DEF WayInv

LEMMA WayReadChunk == LlmInv /\ WayInv /\ ReadChunk => WayInv'
<1> SUFFICES ASSUME LlmInv, WayInv, ReadChunk PROVE WayInv'
  OBVIOUS
<1>1. /\ phase = "reading" /\ wire # << >> /\ wire' = Tail(wire) /\ answer' = answer
      /\ quirk' = quirk /\ conn' = conn
  BY DEF ReadChunk, server
<1>2. acc \in Built
  BY DEF LlmInv, StreamTypes
<1>3. PICK c, text, thought, rest :
        /\ c = Head(wire) /\ text = [acc EXCEPT !.content = @ \o c.content]
        /\ thought = [text EXCEPT !.reasoning = @ \o c.reasoning]
        /\ rest = FoldLeft(AddCall, thought, c.frags)
  OBVIOUS
<1>4. \/ acc' \in { text, thought } /\ phase' = "ended"
      \/ acc' = IF c.finish = Missing THEN rest
                ELSE [rest EXCEPT !.finish = mapFinishReason(c.finish)]
  BY <1>3 DEF ReadChunk, End
<1>5. CASE acc' \in { text, thought } /\ phase' = "ended"
  <2>1. text.order = acc.order /\ text.call = acc.call
    BY <1>2, <1>3 DEF Built
  <2>2. thought.order = acc.order /\ thought.call = acc.call
    BY <1>2, <1>3 DEF Built
  <2>3. QED
    BY <1>1, <1>5, <2>1, <2>2, WayEnds
<1>6. CASE acc' = IF c.finish = Missing THEN rest
                  ELSE [rest EXCEPT !.finish = mapFinishReason(c.finish)]
  <2>1. thought = Gained(acc, c)
    BY <1>3 DEF Gained
  <2>2. acc' = TakenChunk(acc, c)
    BY <1>3, <1>6, <2>1 DEF TakenChunk
  <2>3. c.kind = "chunk"
    BY <1>3 DEF ReadChunk
  <2>4. acc' = Taken(acc, Head(wire))
    BY <1>3, <2>2, <2>3 DEF Taken
  <2>5. QED
    BY <1>1, <2>4, WayReads
<1>7. QED
  BY <1>4, <1>5, <1>6

LEMMA WayRead == LlmInv /\ WayInv /\ Read => WayInv'
<1> SUFFICES ASSUME LlmInv, WayInv, Read PROVE WayInv'
  OBVIOUS
<1>1. CASE ReadOther
  <2>1. /\ phase = "reading" /\ wire # << >> /\ wire' = Tail(wire) /\ answer' = answer
        /\ quirk' = quirk /\ conn' = conn /\ Head(wire).kind # "chunk"
    BY <1>1 DEF ReadOther, server
  <2>2. acc' = Taken(acc, Head(wire))
    BY <1>1, <2>1 DEF ReadOther, Taken
  <2>3. QED
    BY <2>1, <2>2, WayReads
<1>2. CASE ReadEnd \/ ReadError
  <2>1. phase' # "reading" /\ acc' = acc /\ wire' \in { wire, << >> }
    BY <1>2 DEF ReadEnd, ReadError, Fails, End, client
  <2>2. QED
    BY <2>1, WayEnds
<1>3. QED
  BY <1>1, <1>2, WayReadChunk DEF Read

LEMMA WayStep == LlmInv /\ LlmInv' /\ WayInv /\ [LlmNext]_llmVars => WayInv'
<1>1. LlmInv /\ WayInv /\ Complete => WayInv'
  <2>1. SUFFICES ASSUME LlmInv, WayInv, Complete PROVE WayInv'
    OBVIOUS
  <2>2. phase' = "ended" /\ acc' = acc /\ wire' = wire
    BY <2>1 DEF Complete, client
  <2>3. QED
    BY <2>1, <2>2, WayEnds
<1>2. WayInv /\ UNCHANGED llmVars => WayInv'
  BY DEF WayInv, llmVars, server, client
<1>3. QED
  BY <1>1, <1>2, WayPost, WayServer, WayRead, WayProceed, WayCancel DEF LlmNext

-----------------------------------------------------------------------------
LEMMA GapsJoined ==
  ASSUME NEW cs \in Seq(ContentSet), NoGaps(cs), NEW c, AllFine(c.parts), NEW d, AllFine(d.parts)
  PROVE  NoGaps(Append(cs, c)) /\ NoGaps(cs \o << c, d >>)
<1>1. PICK n, one, two : n = Len(cs) /\ one = Append(cs, c) /\ two = cs \o << c, d >>
  OBVIOUS
<1>2. n \in Nat /\ \A i \in 1 .. n : AllFine(cs[i].parts)
  BY <1>1, LenProperties DEF NoGaps
<1>3. Len(one) = n + 1 /\ one[n + 1] = c /\ \A i \in 1 .. n : one[i] = cs[i]
  BY <1>1
<1>4. /\ Len(two) = n + 2 /\ two[n + 1] = c /\ two[n + 2] = d
      /\ \A i \in 1 .. n : two[i] = cs[i]
  BY <1>1, <1>2
<1>5. \A i \in 1 .. n + 1 : i = n + 1 \/ i \in 1 .. n
  BY <1>2
<1>6. \A i \in 1 .. n + 2 : i = n + 2 \/ i = n + 1 \/ i \in 1 .. n
  BY <1>2
<1>7. NoGaps(one)
  BY <1>2, <1>3, <1>5 DEF NoGaps
<1>8. NoGaps(two)
  BY <1>2, <1>4, <1>6 DEF NoGaps
<1>9. QED
  BY <1>1, <1>7, <1>8

LEMMA GapsStep == LlmInv /\ WayInv /\ NoGaps(contents) /\ [LlmNext]_llmVars => NoGaps(contents)'
<1> SUFFICES ASSUME LlmInv, WayInv, NoGaps(contents), [LlmNext]_llmVars PROVE NoGaps(contents')
  OBVIOUS
<1>1. CASE Proceed
  <2>1. /\ acc \in Built /\ contents \in Seq(ContentSet) /\ EndedInv /\ phase = "ended"
        /\ NamedCalls(acc)
    BY <1>1 DEF LlmInv, StreamTypes, Proceed, WayInv
  <2>2. AllFine(UserText.parts)
    BY UserFine
  <2>3. CASE outcome.kind = "final" /\ mode = "stream"
    <3>1. PICK parts, calls, results, next, c :
            /\ parts = outcome.final.parts /\ calls = OfKind("call", parts)
            /\ results = [i \in DOMAIN calls |-> [kind |-> "result", id |-> calls[i].id]]
            /\ next = (IF calls = << >> THEN UserText ELSE [role |-> "user", parts |-> results])
            /\ c = [role |-> "model", parts |-> parts]
      OBVIOUS
    <3>2. contents' = contents \o << c, next >>
      BY <1>1, <2>3, <3>1 DEF Proceed
    <3>3. parts = FinalOf(acc).parts
      BY <2>1, <2>3, <3>1 DEF EndedInv, Streamed
    <3>4. AllFine(parts) /\ AllFine(results)
      BY <2>1, <3>1, <3>3, AnswerFine
    <3>5. AllFine(c.parts) /\ AllFine(next.parts)
      BY <2>2, <3>1, <3>4
    <3>6. QED
      BY <2>1, <3>2, <3>5, GapsJoined
  <2>4. CASE ~ (outcome.kind = "final" /\ mode = "stream")
    <3>1. contents' = Append(contents, UserText)
      BY <1>1, <2>4 DEF Proceed
    <3>2. QED
      BY <2>1, <2>2, <3>1, GapsJoined
  <2>5. QED
    BY <2>3, <2>4
<1>2. CASE ~ Proceed
  <2>1. contents' = contents
    BY <1>2 DEF LlmNext, Post, Complete, Server, WriteText, WriteCall, WriteFinish, WriteUsage,
                WriteOther, Close, Break, Read, ReadChunk, ReadOther, ReadEnd, ReadError, Cancel,
                llmVars
  <2>2. QED
    BY <2>1
<1>3. QED
  BY <1>1, <1>2

\* In every reachable state the history holds parts with their texts and their
\* identifiers, the builders hold the calls they name, and the wire its lines,
\* whatever the indices a server leaves out.  About the builders of stream, and
\* the history the runner keeps.
THEOREM LlmTypeCorrect == LlmSpec => []LlmTypeOK
<1> DEFINE TypeInv == LlmInv /\ Bounded /\ WayInv /\ NoGaps(contents)
<1>1. LlmInit => TypeInv
  <2>1. LlmInit => NoGaps(contents)
    <3>1. SUFFICES ASSUME LlmInit PROVE NoGaps(contents)
      OBVIOUS
    <3>2. Len(contents) = 1 /\ contents[1] = UserText
      BY <3>1 DEF LlmInit
    <3>3. QED
      BY <3>2, UserFine DEF NoGaps
  <2>2. QED
    BY <2>1, LlmStarts, BoundedStarts, WayStarts
<1>2. TypeInv /\ LlmInv' /\ [LlmNext]_llmVars => TypeInv'
  BY BoundedStep, WayStep, GapsStep
<1>3. TypeInv => LlmTypeOK
  <2>1. SUFFICES ASSUME TypeInv PROVE LlmTypeOK
    OBVIOUS
  <2>2. acc \in Built /\ contents \in Seq(ContentSet)
    BY <2>1 DEF LlmInv, StreamTypes
  <2>3. ASSUME NEW i \in DOMAIN contents
        PROVE  /\ contents[i].role \in {"user", "model"}
               /\ \A j \in DOMAIN contents[i].parts : contents[i].parts[j] \in Part
    <3>1. PICK c, ps : c = contents[i] /\ ps = c.parts
      OBVIOUS
    <3>2. i \in 1 .. Len(contents)
      BY <2>2, <2>3, LenProperties
    <3>3. c \in ContentSet
      BY <2>2, <3>1, <3>2, ElementOfSeq
    <3>4. c.role \in {"user", "model"} /\ ps \in Seq(PartSet)
      BY <3>1, <3>3 DEF ContentSet
    <3>5. AllFine(ps)
      BY <2>1, <3>1, <3>2 DEF NoGaps
    <3>6. ASSUME NEW j \in DOMAIN ps PROVE ps[j] \in Part
      <4>1. j \in 1 .. Len(ps)
        BY <3>4, <3>6, LenProperties
      <4>2. ps[j] \in PartSet
        BY <3>4, <4>1, ElementOfSeq
      <4>3. PartFine(ps[j])
        BY <3>5, <4>1 DEF AllFine
      <4>4. QED
        BY <4>2, <4>3, PartTyped
    <3>7. QED
      BY <3>1, <3>4, <3>6
  <2>4. /\ acc.content \in Texts /\ acc.reasoning \in Texts
        /\ \A i \in DOMAIN acc.order : acc.order[i] \in 0 .. MaxCalls - 1
    <3>1. PICK o : o = acc.order
      OBVIOUS
    <3>2. acc.content \in Texts /\ acc.reasoning \in Texts /\ o \in Seq(Indices)
      BY <2>2, <3>1 DEF Built, Texts
    <3>3. ASSUME NEW i \in DOMAIN o PROVE o[i] \in Indices
      <4>1. i \in 1 .. Len(o)
        BY <3>2, <3>3, LenProperties
      <4>2. QED
        BY <3>2, <4>1, ElementOfSeq
    <3>4. QED
      BY <3>1, <3>2, <3>3 DEF Indices
  <2>5. Bounded /\ Len(wire) <= WireCap + 1
    BY <2>1 DEF WayInv
  <2>6. QED
    BY <2>3, <2>4, <2>5 DEF LlmTypeOK, Bounded
<1>4. LlmSpec => []TypeInv
  <2> HIDE DEF TypeInv
  <2>1. QED
    BY <1>1, <1>2, LlmInvariant, PTL DEF LlmSpec
<1>5. QED
  <2> HIDE DEF TypeInv
  <2>1. QED
    BY <1>3, <1>4, PTL

=============================================================================
