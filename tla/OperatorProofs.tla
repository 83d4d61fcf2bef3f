--------------------------- MODULE OperatorProofs --------------------------
(***************************************************************************)
(* What the operators return that the models are built from, for every     *)
(* sequence.                                                               *)
(*                                                                         *)
(* FlattenSeq makes one text of the prompts in a queue and one list of the *)
(* parts on screen.  It is a recursive function, so that anything said of  *)
(* it is said by induction.  The induction theorems of the library are     *)
(* about predicates; the one below is about a set, and follows from the    *)
(* order of the natural numbers being well founded.                        *)
(*                                                                         *)
(* The filters of SessionView return, for every log, marker and history    *)
(* limit, events of the log only, a summary at the head when the marker    *)
(* applies, and no more events than the limit.                             *)
(***************************************************************************)
EXTENDS SessionView, Filters, SequenceTheorems, WellFoundedInduction, TLAPS

-----------------------------------------------------------------------------
(***************************************************************************)
(* Induction.                                                              *)
(***************************************************************************)
LEMMA LeastNumber ==
  ASSUME NEW T, T \subseteq Nat, T # {}
  PROVE  \E n \in T : \A k \in T : n <= k
<1> DEFINE R == { ss \in Nat \X Nat : ss[1] < ss[2] }
<1>1. IsWellFoundedOn(R, Nat)
  BY NatLessThanWellFounded DEF OpToRel
<1> HIDE DEF R
<1>2. PICK n \in T : \A k \in T : ~ (<< k, n >> \in R)
  BY <1>1, WFMin
<1>3. ASSUME NEW k \in T PROVE n <= k
  <2>1. k \in Nat /\ n \in Nat /\ ~ (<< k, n >> \in R)
    BY <1>2
  <2>2. ~ (k < n)
    BY <2>1 DEF R
  <2>3. QED
    BY <2>1, <2>2
<1>4. QED
  BY <1>2, <1>3

LEMMA Inductive ==
  ASSUME NEW T, T \subseteq Nat, 0 \in T, \A n \in Nat : n \in T => n + 1 \in T
  PROVE  \A n \in Nat : n \in T
<1>1. SUFFICES ASSUME Nat \ T # {} PROVE FALSE
  OBVIOUS
<1>2. PICK n \in Nat \ T : \A k \in Nat \ T : n <= k
  <2>1. Nat \ T \subseteq Nat
    OBVIOUS
  <2>2. QED
    BY <1>1, <2>1, LeastNumber
<1>3. n - 1 \in Nat /\ ~ (n <= n - 1)
  BY <1>2
<1>4. n - 1 \in T
  BY <1>2, <1>3
<1>5. (n - 1) + 1 \in T
  BY <1>3, <1>4
<1>6. QED
  BY <1>2, <1>5

-----------------------------------------------------------------------------
(***************************************************************************)
(* The function behind FlattenSeq.                                         *)
(***************************************************************************)
Flattens(f, ss, n) ==
  f = [i \in 1 .. n |-> IF i = 1 THEN ss[i] ELSE f[i - 1] \o ss[i]]

LEMMA FlattensExists ==
  ASSUME NEW ss
  PROVE  \A n \in Nat : \E f : Flattens(f, ss, n)
<1> DEFINE T == { n \in Nat : \E f : Flattens(f, ss, n) }
<1>1. 0 \in T
  <2>1. Flattens([i \in 1 .. 0 |-> 0], ss, 0)
    BY DEF Flattens
  <2>2. QED
    BY <2>1
<1>2. ASSUME NEW n \in Nat, n \in T PROVE n + 1 \in T
  <2>1. PICK f : Flattens(f, ss, n)
    BY <1>2
  <2> DEFINE last == IF n + 1 = 1 THEN ss[n + 1] ELSE f[n] \o ss[n + 1]
             g == [i \in 1 .. n + 1 |-> IF i = n + 1 THEN last ELSE f[i]]
  <2>2. ASSUME NEW i \in 1 .. n + 1
        PROVE  g[i] = IF i = 1 THEN ss[i] ELSE g[i - 1] \o ss[i]
    <3>1. CASE i = n + 1
      <4>1. i # 1 => i - 1 \in 1 .. n + 1 /\ i - 1 # n + 1 /\ i - 1 = n
        BY <3>1
      <4>2. g[i] = last /\ (i # 1 => g[i - 1] = f[n])
        BY <3>1, <4>1
      <4>3. QED
        BY <3>1, <4>2
    <3>2. CASE i # n + 1
      <4>1. i \in 1 .. n /\ (i # 1 => i - 1 \in 1 .. n + 1 /\ i - 1 # n + 1)
        BY <3>2
      <4>2. f[i] = IF i = 1 THEN ss[i] ELSE f[i - 1] \o ss[i]
        BY <2>1, <4>1 DEF Flattens
      <4>3. g[i] = f[i] /\ (i # 1 => g[i - 1] = f[i - 1])
        BY <3>2, <4>1
      <4>4. QED
        BY <4>2, <4>3
    <3>3. QED
      BY <3>1, <3>2
  <2>3. Flattens(g, ss, n + 1)
    <3>1. g = [i \in 1 .. n + 1 |-> g[i]]
      OBVIOUS
    <3> HIDE DEF g
    <3>2. QED
      BY <2>2, <3>1 DEF Flattens
  <2>4. QED
    BY <2>3
<1> HIDE DEF T
<1>3. \A n \in Nat : n \in T
  <2>1. T \subseteq Nat
    BY DEF T
  <2>2. QED
    BY <1>1, <1>2, <2>1, Inductive
<1>4. QED
  BY <1>3 DEF T

\* What it does at the end of a sequence.
LEMMA FlattenDef ==
  ASSUME NEW ss, Len(ss) \in Nat, Len(ss) # 0
  PROVE  \E f : Flattens(f, ss, Len(ss)) /\ FlattenSeq(ss) = f[Len(ss)]
<1>1. \E f : Flattens(f, ss, Len(ss))
  BY FlattensExists
<1>2. QED
  BY <1>1 DEF FlattenSeq, Flattens

Agree(s, t, n) == \A i \in 1 .. n : s[i] = t[i]

\* Two of them agree as far as their sequences do.
LEMMA FlattensAgree ==
  ASSUME NEW ss, NEW tt, NEW n \in Nat, NEW k \in Nat, NEW f, NEW g,
         Flattens(f, ss, n), Flattens(g, tt, k),
         n <= k, Agree(ss, tt, n)
  PROVE  Agree(f, g, n)
<1> DEFINE T == { i \in Nat : i \in 1 .. n => f[i] = g[i] }
<1>1. 0 \in T
  OBVIOUS
<1>2. ASSUME NEW i \in Nat, i \in T, i + 1 \in 1 .. n PROVE f[i + 1] = g[i + 1]
  <2>1. /\ i + 1 \in 1 .. k /\ ss[i + 1] = tt[i + 1] /\ (i + 1) - 1 = i
        /\ i + 1 # 1 => i \in 1 .. n
    BY <1>2 DEF Agree
  <2>2. f[i + 1] = IF i + 1 = 1 THEN ss[i + 1] ELSE f[i] \o ss[i + 1]
    BY <1>2, <2>1 DEF Flattens
  <2>3. g[i + 1] = IF i + 1 = 1 THEN tt[i + 1] ELSE g[i] \o tt[i + 1]
    BY <2>1 DEF Flattens
  <2>4. i + 1 # 1 => f[i] = g[i]
    BY <1>2, <2>1
  <2>5. QED
    BY <2>1, <2>2, <2>3, <2>4
<1>3. \A i \in Nat : i \in T => i + 1 \in T
  BY <1>2
<1> HIDE DEF T
<1>4. \A i \in Nat : i \in T
  <2>1. T \subseteq Nat
    BY DEF T
  <2>2. QED
    BY <1>1, <1>3, <2>1, Inductive
<1>5. QED
  BY <1>4 DEF T, Agree

LEMMA FlattensType ==
  ASSUME NEW S, NEW n \in Nat, NEW ss, \A i \in 1 .. n : ss[i] \in Seq(S),
         NEW f, Flattens(f, ss, n)
  PROVE  \A i \in 1 .. n : f[i] \in Seq(S)
<1> DEFINE T == { i \in Nat : i \in 1 .. n => f[i] \in Seq(S) }
<1>1. 0 \in T
  OBVIOUS
<1>2. ASSUME NEW i \in Nat, i \in T, i + 1 \in 1 .. n PROVE f[i + 1] \in Seq(S)
  <2>1. /\ ss[i + 1] \in Seq(S) /\ (i + 1) - 1 = i
        /\ i + 1 # 1 => i \in 1 .. n
    BY <1>2
  <2>2. f[i + 1] = IF i + 1 = 1 THEN ss[i + 1] ELSE f[i] \o ss[i + 1]
    BY <1>2, <2>1 DEF Flattens
  <2>3. i + 1 # 1 => f[i] \in Seq(S)
    BY <1>2, <2>1
  <2>4. i + 1 # 1 => f[i] \o ss[i + 1] \in Seq(S)
    BY <2>1, <2>3, ConcatProperties
  <2>5. QED
    BY <2>1, <2>2, <2>4
<1>3. \A i \in Nat : i \in T => i + 1 \in T
  BY <1>2
<1> HIDE DEF T
<1>4. \A i \in Nat : i \in T
  <2>1. T \subseteq Nat
    BY DEF T
  <2>2. QED
    BY <1>1, <1>3, <2>1, Inductive
<1>5. QED
  BY <1>4 DEF T

-----------------------------------------------------------------------------
(***************************************************************************)
(* What FlattenSeq returns.                                                *)
(***************************************************************************)
LEMMA FlattenNothing == FlattenSeq(<< >>) = << >>
BY DEF FlattenSeq

LEMMA FlattenType ==
  ASSUME NEW S, NEW ss \in Seq(Seq(S))
  PROVE  FlattenSeq(ss) \in Seq(S)
<1>1. CASE ss = << >>
  <2>1. << >> \in Seq(S)
    BY EmptySeq
  <2>2. QED
    BY <1>1, <2>1, FlattenNothing
<1>2. CASE ss # << >>
  <2>1. Len(ss) \in Nat \ {0} /\ \A i \in 1 .. Len(ss) : ss[i] \in Seq(S)
    BY <1>2, EmptySeq, ElementOfSeq
  <2>2. PICK f : Flattens(f, ss, Len(ss)) /\ FlattenSeq(ss) = f[Len(ss)]
    BY <2>1, FlattenDef
  <2>3. \A i \in 1 .. Len(ss) : f[i] \in Seq(S)
    BY <2>1, <2>2, FlattensType
  <2>4. QED
    BY <2>1, <2>2, <2>3
<1>3. QED
  BY <1>1, <1>2

\* One more at the end.
LEMMA FlattenAppend ==
  ASSUME NEW S, NEW ss \in Seq(Seq(S)), NEW s \in Seq(S)
  PROVE  FlattenSeq(Append(ss, s)) = FlattenSeq(ss) \o s
<1>1. PICK tt : tt = Append(ss, s)
  OBVIOUS
<1>2. PICK n : n = Len(ss)
  OBVIOUS
<1>3. /\ n \in Nat /\ Len(tt) = n + 1 /\ tt[n + 1] = s
      /\ \A i \in 1 .. n : ss[i] = tt[i]
  BY <1>1, <1>2, AppendProperties, LenProperties
<1>4. PICK g : Flattens(g, tt, n + 1) /\ FlattenSeq(tt) = g[n + 1]
  BY <1>3, FlattenDef
<1>5. g[n + 1] = IF n + 1 = 1 THEN s ELSE g[n] \o s
  <2>1. n + 1 \in 1 .. n + 1 /\ (n + 1) - 1 = n
    BY <1>3
  <2>2. QED
    BY <1>3, <1>4, <2>1 DEF Flattens
<1>6. CASE n = 0
  <2>1. ss = << >>
    BY <1>2, <1>6, EmptySeq
  <2>2. QED
    BY <1>1, <1>4, <1>5, <1>6, <2>1, FlattenNothing, ConcatEmptySeq
<1>7. CASE n # 0
  <2>1. PICK f : Flattens(f, ss, n) /\ FlattenSeq(ss) = f[n]
    BY <1>2, <1>3, <1>7, FlattenDef
  <2>2. Agree(f, g, n)
    <3>1. PICK k : k = n + 1
      OBVIOUS
    <3>2. /\ k \in Nat /\ n <= k /\ Flattens(g, tt, k)
          /\ n \in Nat /\ Agree(ss, tt, n)
      BY <1>3, <1>4, <3>1 DEF Agree
    <3>3. QED
      BY <2>1, <3>2, FlattensAgree
  <2>3. f[n] = g[n] /\ n + 1 # 1
    BY <1>3, <1>7, <2>2 DEF Agree
  <2>4. QED
    BY <1>1, <1>4, <1>5, <2>1, <2>3
<1>8. QED
  BY <1>6, <1>7

LEMMA FlattenOne ==
  ASSUME NEW S, NEW s \in Seq(S)
  PROVE  FlattenSeq(<< s >>) = s
<1>1. << >> \in Seq(Seq(S)) /\ Append(<< >>, s) = << s >>
  BY EmptySeq
<1>2. FlattenSeq(Append(<< >>, s)) = FlattenSeq(<< >>) \o s
  BY <1>1, FlattenAppend
<1>3. QED
  BY <1>1, <1>2, FlattenNothing, ConcatEmptySeq

\* How sequences are joined, as facts that can be cited where there are many others.
Regroups(a, b, c) == (a \o b) \o c = a \o (b \o c)
AppendsBehind(a, b, x) == Append(a \o b, x) = a \o Append(b, x)

LEMMA Regroup ==
  ASSUME NEW S, NEW a \in Seq(S), NEW b \in Seq(S), NEW c \in Seq(S)
  PROVE  Regroups(a, b, c)
BY DEF Regroups

LEMMA AppendOnConcat ==
  ASSUME NEW S, NEW a \in Seq(S), NEW b \in Seq(S), NEW x \in S
  PROVE  AppendsBehind(a, b, x)
BY DEF AppendsBehind

\* The first in front of the others.
LEMMA FlattenHead ==
  ASSUME NEW S, NEW ss \in Seq(Seq(S)), ss # << >>
  PROVE  FlattenSeq(ss) = Head(ss) \o FlattenSeq(Tail(ss))
<1>1. PICK tt : tt = Tail(ss)
  OBVIOUS
<1>2. PICK n : n = Len(tt)
  OBVIOUS
<1>3. PICK h : h = ss[1]
  OBVIOUS
<1>4. /\ n \in Nat /\ Len(ss) = n + 1 /\ h \in Seq(S) /\ Head(ss) = h
      /\ tt \in Seq(Seq(S)) /\ \A i \in 1 .. n : tt[i] = ss[i + 1] /\ tt[i] \in Seq(S)
  BY <1>1, <1>2, <1>3, HeadTailProperties, LenProperties, ElementOfSeq, EmptySeq
<1>5. \E f : Flattens(f, ss, n + 1) /\ FlattenSeq(ss) = f[n + 1]
  <2>1. Len(ss) \in Nat /\ Len(ss) # 0
    BY EmptySeq
  <2>2. \E f : Flattens(f, ss, Len(ss)) /\ FlattenSeq(ss) = f[Len(ss)]
    BY <2>1, FlattenDef
  <2>3. QED
    BY <1>4, <2>2
<1>6. PICK f : Flattens(f, ss, n + 1) /\ FlattenSeq(ss) = f[n + 1]
  BY <1>5
<1>7. PICK g : Flattens(g, tt, n)
  BY <1>4, FlattensExists
<1>8. \A i \in 1 .. n : g[i] \in Seq(S)
  BY <1>4, <1>7, FlattensType
<1> DEFINE T == { i \in Nat : i \in 1 .. n => f[i + 1] = h \o g[i] }
<1>9. ASSUME NEW i \in Nat, i \in T, i + 1 \in 1 .. n
      PROVE  f[(i + 1) + 1] = h \o g[i + 1]
  <2>1. PICK k : k = i + 1
    OBVIOUS
  <2>2. /\ k \in 1 .. n /\ k + 1 \in 1 .. n + 1 /\ k + 1 # 1 /\ (k + 1) - 1 = k
        /\ k # 1 => i \in 1 .. n /\ k - 1 = i
    BY <1>4, <1>9, <2>1
  <2>3. f[k + 1] = f[k] \o tt[k]
    BY <1>4, <1>6, <2>2 DEF Flattens
  <2>4. g[k] = IF k = 1 THEN tt[k] ELSE g[k - 1] \o tt[k]
    BY <1>7, <2>2 DEF Flattens
  <2>5. CASE k = 1
    <3>1. f[1] = h
      <4>1. 1 \in 1 .. n + 1
        BY <1>4
      <4>2. QED
        BY <1>3, <1>6, <4>1 DEF Flattens
    <3>2. QED
      BY <2>1, <2>3, <2>4, <2>5, <3>1
  <2>6. CASE k # 1
    <3>1. i \in 1 .. n /\ k - 1 = i
      BY <2>2, <2>6
    <3>2. f[k] = h \o g[i] /\ g[k] = g[i] \o tt[k]
      BY <1>9, <2>1, <2>4, <2>6, <3>1
    <3>3. g[i] \in Seq(S) /\ tt[k] \in Seq(S) /\ h \in Seq(S)
      BY <1>4, <1>8, <2>2, <3>1
    <3>4. PICK gi, tk : gi = g[i] /\ tk = tt[k]
      OBVIOUS
    <3>5. gi \in Seq(S) /\ tk \in Seq(S)
      BY <3>3, <3>4
    <3>6. (h \o gi) \o tk = h \o (gi \o tk)
      <4>1. Regroups(h, gi, tk)
        BY <3>3, <3>5, Regroup
      <4>2. QED
        BY <4>1 DEF Regroups
    <3>7. QED
      BY <2>1, <2>3, <3>2, <3>4, <3>6
  <2>7. QED
    BY <2>5, <2>6
<1>10. \A i \in Nat : i \in T => i + 1 \in T
  <2>1. ASSUME NEW i \in Nat, i \in T PROVE i + 1 \in T
    <3>1. i + 1 \in Nat
      OBVIOUS
    <3>2. QED
      BY <1>9, <2>1, <3>1
  <2>2. QED
    BY <2>1
<1>11. \A i \in Nat : i \in T
  <2>1. 0 \in T /\ T \subseteq Nat
    OBVIOUS
  <2> HIDE DEF T
  <2>2. QED
    BY <1>10, <2>1, Inductive
<1> HIDE DEF T
<1>12. CASE n = 0
  <2>1. tt = << >>
    BY <1>2, <1>4, <1>12, EmptySeq
  <2>2. f[1] = h
    <3>1. 1 \in 1 .. n + 1
      BY <1>4
    <3>2. QED
      BY <1>3, <1>6, <3>1 DEF Flattens
  <2>3. FlattenSeq(ss) = h /\ FlattenSeq(tt) = << >>
    BY <1>6, <1>12, <2>1, <2>2, FlattenNothing
  <2>4. QED
    BY <1>1, <1>4, <2>3, ConcatEmptySeq
<1>13. CASE n # 0
  <2>1. PICK k : Flattens(k, tt, n) /\ FlattenSeq(tt) = k[n]
    BY <1>2, <1>4, <1>13, FlattenDef
  <2>2. n \in 1 .. n /\ k[n] = g[n]
    <3>1. n \in 1 .. n /\ n <= n /\ Agree(tt, tt, n)
      BY <1>4, <1>13 DEF Agree
    <3>2. Agree(k, g, n)
      BY <1>4, <1>7, <2>1, <3>1, FlattensAgree
    <3>3. QED
      BY <3>1, <3>2 DEF Agree
  <2>3. f[n + 1] = h \o g[n]
    BY <1>4, <1>11, <2>2 DEF T
  <2>4. QED
    BY <1>1, <1>4, <1>6, <2>1, <2>2, <2>3
<1>14. QED
  BY <1>12, <1>13

-----------------------------------------------------------------------------
(***************************************************************************)
(* The function behind FoldLeft, and what a fold goes through.             *)
(***************************************************************************)
LEMMA MaxFound ==
  ASSUME NEW n \in Nat, NEW t \in SUBSET (1 .. n), t # {}
  PROVE  Max(t) \in t /\ \A y \in t : Max(t) >= y
<1> DEFINE B == { k \in Nat : \A y \in t : k >= y }
<1>1. n \in B /\ B \subseteq Nat
  OBVIOUS
<1> HIDE DEF B
<1>2. PICK k \in B : \A b \in B : k <= b
  BY <1>1, LeastNumber
<1>3. k \in Nat /\ \A y \in t : k >= y
  BY <1>2 DEF B
<1>4. PICK z \in t : TRUE
  OBVIOUS
<1>5. ASSUME k \notin t PROVE FALSE
  <2>1. k - 1 \in Nat
    BY <1>3, <1>4
  <2>2. \A y \in t : k - 1 >= y
    BY <1>3, <1>5
  <2>3. k - 1 \in B
    BY <2>1, <2>2 DEF B
  <2>4. QED
    BY <1>2, <1>3, <2>3
<1>6. QED
  BY <1>3, <1>5 DEF Max

LEMMA MaxUpTo ==
  ASSUME NEW k \in Nat, k # 0
  PROVE  Max(1 .. k) = k /\ (1 .. k) \ {k} = 1 .. k - 1
<1>1. k \in 1 .. k /\ 1 .. k \in SUBSET (1 .. k) /\ 1 .. k # {}
  OBVIOUS
<1>2. Max(1 .. k) \in 1 .. k /\ Max(1 .. k) >= k
  BY <1>1, MaxFound
<1>3. QED
  BY <1>2

Iterates(f, base, step, n) ==
  f = [t \in SUBSET (1 .. n) |->
         IF t = {} THEN base ELSE step[<< f[t \ {Max(t)}], Max(t) >>]]

LEMMA IteratesExists ==
  ASSUME NEW V, NEW base \in V, NEW n \in Nat, NEW step \in [V \X (1 .. n) -> V]
  PROVE  \E f \in [SUBSET (1 .. n) -> V] : Iterates(f, base, step, n)
<1> DEFINE Ex(k) == \E f \in [SUBSET (1 .. k) -> V] : Iterates(f, base, step, k)
           T == { k \in Nat : k \in 0 .. n => Ex(k) }
<1>1. 0 \in T
  <2> DEFINE f == [t \in SUBSET (1 .. 0) |-> base]
  <2>1. \A t \in SUBSET (1 .. 0) : t = {}
    OBVIOUS
  <2>2. f \in [SUBSET (1 .. 0) -> V] /\ Iterates(f, base, step, 0)
    BY <2>1 DEF Iterates
  <2>3. QED
    BY <2>2
<1>2. ASSUME NEW k \in Nat, k \in T, k + 1 \in 0 .. n
      PROVE  Ex(k + 1)
  <2>1. PICK f \in [SUBSET (1 .. k) -> V] : Iterates(f, base, step, k)
    <3>1. k \in 0 .. n
      BY <1>2
    <3> HIDE DEF Ex
    <3>2. Ex(k)
      BY <1>2, <3>1
    <3>3. QED
      BY <3>2 DEF Ex
  <2>2. PICK m : m = k + 1
    OBVIOUS
  <2>3. m \in 1 .. n /\ m \in Nat
    BY <1>2, <2>2
  <2> DEFINE g == [t \in SUBSET (1 .. m) |->
                     IF m \in t THEN step[<< f[t \ {m}], m >>] ELSE f[t]]
             val(t) == IF t = {} THEN base ELSE step[<< g[t \ {Max(t)}], Max(t) >>]
  <2>4. ASSUME NEW t \in SUBSET (1 .. m), m \in t
        PROVE  g[t] \in V /\ g[t] = val(t)
    <3>1. t \ {m} \in SUBSET (1 .. k) /\ t \ {m} \in SUBSET (1 .. m) /\ m \notin t \ {m}
      BY <2>2, <2>3
    <3>2. Max(t) = m
      <4>1. Max(t) \in t /\ Max(t) >= m
        BY <2>3, <2>4, MaxFound
      <4>2. Max(t) \in 1 .. m
        BY <4>1
      <4>3. PICK x : x = Max(t)
        OBVIOUS
      <4>4. QED
        BY <2>3, <4>1, <4>2, <4>3
    <3>3. g[t \ {m}] = f[t \ {m}] /\ g[t] = step[<< f[t \ {m}], m >>]
      BY <2>4, <3>1
    <3>4. f[t \ {m}] \in V
      BY <2>1, <3>1
    <3>5. QED
      BY <2>3, <2>4, <3>2, <3>3, <3>4
  <2>5. ASSUME NEW t \in SUBSET (1 .. m), m \notin t
        PROVE  g[t] \in V /\ g[t] = val(t)
    <3>1. t \in SUBSET (1 .. k)
      BY <2>2, <2>3, <2>5
    <3>2. g[t] = f[t] /\ f[t] \in V
      BY <2>1, <2>5, <3>1
    <3>3. f[t] = IF t = {} THEN base ELSE step[<< f[t \ {Max(t)}], Max(t) >>]
      BY <2>1, <3>1 DEF Iterates
    <3>4. t \ {Max(t)} \in SUBSET (1 .. m) /\ m \notin t \ {Max(t)}
      BY <2>5
    <3>5. g[t \ {Max(t)}] = f[t \ {Max(t)}]
      BY <3>4
    <3>6. QED
      BY <3>2, <3>3, <3>5
  <2>6. \A t \in SUBSET (1 .. m) : g[t] \in V /\ g[t] = val(t)
    BY <2>4, <2>5
  <2>7. g \in [SUBSET (1 .. m) -> V]
    BY <2>6
  <2>8. Iterates(g, base, step, m)
    <3>1. g = [t \in SUBSET (1 .. m) |-> g[t]]
      OBVIOUS
    <3> HIDE DEF g
    <3>2. QED
      BY <2>6, <3>1 DEF Iterates
  <2>9. QED
    BY <2>2, <2>7, <2>8
<1> HIDE DEF Ex
<1>3. \A k \in Nat : k \in T => k + 1 \in T
  BY <1>2
<1> HIDE DEF T
<1>4. \A k \in Nat : k \in T
  <2>1. T \subseteq Nat
    BY DEF T
  <2>2. QED
    BY <1>1, <1>3, <2>1, Inductive
<1>5. Ex(n)
  BY <1>4 DEF T
<1>6. QED
  BY <1>5 DEF Ex

\* The values that a fold goes through, from its base to its result.
Traced(g, V, base, step, n) ==
  /\ g \in [0 .. n -> V] /\ g[0] = base
  /\ \A k \in 1 .. n : g[k] = step[<< g[k - 1], k >>]

\* What iterates over sets does so over the first, the first two and so on.
LEMMA TracedBy ==
  ASSUME NEW V, NEW base \in V, NEW n \in Nat, NEW step \in [V \X (1 .. n) -> V],
         NEW f, f[{}] = base,
         \A k \in 1 .. n : f[1 .. k - 1] \in V => f[1 .. k] = step[<< f[1 .. k - 1], k >>]
  PROVE  Traced([k \in 0 .. n |-> f[1 .. k]], V, base, step, n)
<1> DEFINE T == { k \in Nat : k \in 0 .. n => f[1 .. k] \in V }
<1>1. 1 .. 0 = {}
  OBVIOUS
<1>2. 0 \in T
  BY <1>1
<1>3. ASSUME NEW k \in Nat, k \in T, k + 1 \in 0 .. n PROVE f[1 .. k + 1] \in V
  <2>1. PICK m : m = k + 1
    OBVIOUS
  <2>2. m \in 1 .. n /\ m - 1 = k /\ k \in 0 .. n
    BY <1>3, <2>1
  <2>3. f[1 .. m - 1] \in V
    BY <1>3, <2>2
  <2>4. f[1 .. m] = step[<< f[1 .. m - 1], m >>]
    BY <2>2, <2>3
  <2>5. QED
    BY <2>1, <2>2, <2>3, <2>4
<1> HIDE DEF T
<1>4. \A k \in Nat : k \in T => k + 1 \in T
  BY <1>3 DEF T
<1>5. \A k \in Nat : k \in T
  <2>1. T \subseteq Nat
    BY DEF T
  <2>2. QED
    BY <1>2, <1>4, <2>1, Inductive
<1>6. \A k \in 0 .. n : f[1 .. k] \in V
  BY <1>5 DEF T
<1>7. ASSUME NEW k \in 1 .. n
      PROVE  k \in 0 .. n /\ k - 1 \in 0 .. n /\ f[1 .. k] = step[<< f[1 .. k - 1], k >>]
  <2>1. k \in 0 .. n /\ k - 1 \in 0 .. n
    OBVIOUS
  <2>2. f[1 .. k - 1] \in V
    BY <1>6, <2>1
  <2>3. QED
    BY <2>1, <2>2
<1> DEFINE g == [k \in 0 .. n |-> f[1 .. k]]
<1>8. \A k \in 0 .. n : g[k] = f[1 .. k]
  OBVIOUS
<1>9. g \in [0 .. n -> V]
  BY <1>6
<1>10. g[0] = base
  BY <1>1
<1> HIDE DEF g
<1>11. Traced(g, V, base, step, n)
  <2>1. ASSUME NEW k \in 1 .. n PROVE g[k] = step[<< g[k - 1], k >>]
    BY <1>7, <1>8
  <2>2. QED
    BY <1>9, <1>10, <2>1 DEF Traced
<1>12. QED
  BY <1>11 DEF g

Follows(V, later, g, h, n, l) == g[n] \in V /\ h[l] = later[<< g[n], l >>]

OneMore(n, l) == n \in Nat /\ l = n + 1

SameSteps(V, step, later, n) ==
  \A v \in V : \A k \in 1 .. n : step[<< v, k >>] = later[<< v, k >>]

\* One more at the end: what is before goes the same way.
LEMMA TracedFurther ==
  ASSUME NEW V, NEW base, NEW n, NEW l, OneMore(n, l),
         NEW step, NEW later, NEW g, NEW h,
         Traced(g, V, base, step, n), Traced(h, V, base, later, l),
         SameSteps(V, step, later, n)
  PROVE  Follows(V, later, g, h, n, l)
<1>0. n \in Nat /\ l = n + 1
  BY DEF OneMore
<1> DEFINE T == { k \in Nat : k \in 0 .. n => g[k] = h[k] }
<1>1. 0 \in T
  BY DEF Traced
<1>2. ASSUME NEW k \in Nat, k \in T, k + 1 \in 0 .. n PROVE g[k + 1] = h[k + 1]
  <2>1. PICK m : m = k + 1
    OBVIOUS
  <2>2. m \in 1 .. n /\ m \in 1 .. n + 1 /\ m - 1 = k /\ k \in 0 .. n
    BY <1>0, <1>2, <2>1
  <2>3. g[k] = h[k] /\ g[k] \in V
    BY <1>2, <2>2 DEF Traced
  <2>4. g[m] = step[<< g[k], m >>] /\ h[m] = later[<< h[k], m >>]
    BY <1>0, <2>2 DEF Traced
  <2>5. QED
    BY <2>1, <2>2, <2>3, <2>4 DEF SameSteps
<1> HIDE DEF T
<1>3. \A k \in Nat : k \in T => k + 1 \in T
  BY <1>2 DEF T
<1>4. \A k \in Nat : k \in T
  <2>1. T \subseteq Nat
    BY DEF T
  <2>2. QED
    BY <1>1, <1>3, <2>1, Inductive
<1>5. g[n] = h[n] /\ g[n] \in V
  <2>1. n \in 0 .. n
    BY <1>0
  <2>2. QED
    BY <1>0, <1>4, <2>1 DEF T, Traced
<1>6. h[n + 1] = later[<< h[n], n + 1 >>]
  <2>1. n + 1 \in 1 .. n + 1 /\ (n + 1) - 1 = n
    BY <1>0
  <2>2. h[n + 1] = later[<< h[(n + 1) - 1], n + 1 >>]
    BY <1>0, <2>1 DEF Traced
  <2>3. QED
    BY <2>1, <2>2
<1>7. QED
  BY <1>0, <1>5, <1>6 DEF Follows

\* What a step on values and elements does along a sequence.
Along(op, V, s, n) == [q \in V \X (1 .. n) |-> op[<< q[1], s[q[2]] >>]]

\* F is the fold of op over sequences of E from base on.
FoldsAs(F, op, base, V, E) ==
  \A s \in Seq(E) : \E g : /\ Traced(g, V, base, Along(op, V, s, Len(s)), Len(s))
                           /\ F[s] = g[Len(s)]

FoldLaws(F, op, base, V, E) ==
  /\ F[<< >>] = base
  /\ \A s \in Seq(E) : F[s] \in V
  /\ \A s \in Seq(E) : \A e \in E : F[Append(s, e)] = op[<< F[s], e >>]

\* A fold starts at its base, and an element at the end is one more step.
LEMMA FoldObeys ==
  ASSUME NEW V, NEW E, NEW base \in V, NEW op, NEW F, FoldsAs(F, op, base, V, E)
  PROVE  FoldLaws(F, op, base, V, E)
<1>1. F[<< >>] = base
  <2>1. << >> \in Seq(E) /\ Len(<< >>) = 0
    BY EmptySeq
  <2>2. PICK none : none = << >>
    OBVIOUS
  <2>3. none \in Seq(E) /\ Len(none) = 0
    BY <2>1, <2>2
  <2>4. PICK g : /\ Traced(g, V, base, Along(op, V, none, Len(none)), Len(none))
                 /\ F[none] = g[Len(none)]
    BY <2>3 DEF FoldsAs
  <2>5. g[0] = base
    BY <2>4 DEF Traced
  <2>6. QED
    BY <2>2, <2>3, <2>4, <2>5
<1>2. ASSUME NEW s \in Seq(E), NEW e \in E
      PROVE  /\ F[s] \in V
             /\ F[Append(s, e)] = op[<< F[s], e >>]
  <2>1. PICK t : t = Append(s, e)
    OBVIOUS
  <2>2. PICK n : n = Len(s)
    OBVIOUS
  <2>3. /\ n \in Nat /\ t \in Seq(E) /\ Len(t) = n + 1 /\ t[n + 1] = e
        /\ \A k \in 1 .. n : t[k] = s[k]
    BY <2>1, <2>2, AppendProperties, LenProperties
  <2> DEFINE step == Along(op, V, s, n)
             more == Along(op, V, t, n + 1)
  <2>4. PICK g : Traced(g, V, base, step, n) /\ F[s] = g[n]
    BY <2>2 DEF FoldsAs
  <2>5. PICK h : Traced(h, V, base, more, n + 1) /\ F[t] = h[n + 1]
    BY <2>3 DEF FoldsAs
  <2>6. /\ \A v \in V : \A k \in 1 .. n : step[<< v, k >>] = op[<< v, s[k] >>]
        /\ \A v \in V : \A k \in 1 .. n + 1 : more[<< v, k >>] = op[<< v, t[k] >>]
    BY DEF Along
  <2>7. \A k \in 1 .. n : k \in 1 .. n + 1
    BY <2>3
  <2> HIDE DEF step, more
  <2>8. SameSteps(V, step, more, n)
    <3>1. ASSUME NEW v \in V, NEW k \in 1 .. n
          PROVE  step[<< v, k >>] = more[<< v, k >>]
      <4>1. k \in 1 .. n + 1 /\ t[k] = s[k]
        BY <2>3, <2>7
      <4>2. step[<< v, k >>] = op[<< v, s[k] >>]
        BY <2>6
      <4>3. more[<< v, k >>] = op[<< v, t[k] >>]
        BY <2>6, <4>1
      <4>4. QED
        BY <4>1, <4>2, <4>3
    <3>2. QED
      BY <3>1 DEF SameSteps
  <2>9. g[n] \in V /\ h[n + 1] = more[<< g[n], n + 1 >>]
    <3>1. PICK l : l = n + 1
      OBVIOUS
    <3>2. OneMore(n, l) /\ Traced(g, V, base, step, n) /\ Traced(h, V, base, more, l)
      BY <2>3, <2>4, <2>5, <3>1 DEF OneMore
    <3>3. Follows(V, more, g, h, n, l)
      BY <2>8, <3>2, TracedFurther
    <3>4. QED
      BY <3>1, <3>3 DEF Follows
  <2>10. n + 1 \in 1 .. n + 1
    BY <2>3
  <2>11. F[t] = op[<< g[n], e >>]
    BY <2>3, <2>5, <2>6, <2>9, <2>10
  <2>12. QED
    BY <2>1, <2>4, <2>9, <2>11
<1>3. ASSUME NEW s \in Seq(E) PROVE F[s] \in V
  <2>1. PICK g : Traced(g, V, base, Along(op, V, s, Len(s)), Len(s)) /\ F[s] = g[Len(s)]
    BY DEF FoldsAs
  <2>2. Len(s) \in 0 .. Len(s)
    BY LenProperties
  <2>3. QED
    BY <2>1, <2>2 DEF Traced
<1>4. QED
  BY <1>1, <1>2, <1>3 DEF FoldLaws

-----------------------------------------------------------------------------
(***************************************************************************)
(* Sequences built at their end: induction, their elements, what Those     *)
(* returns of them.                                                        *)
(***************************************************************************)
LEMMA UpTo ==
  ASSUME NEW n \in Nat, NEW k \in 1 .. n
  PROVE  1 .. k \in SUBSET (1 .. n) /\ 1 .. k # {} /\ k \in Nat /\ k # 0
<1>1. 1 \in 1 .. k
  OBVIOUS
<1>2. QED
  BY <1>1

LEMMA SeqInductive ==
  ASSUME NEW S, NEW T, << >> \in T,
         \A s \in Seq(S) : \A x \in S : s \in T => Append(s, x) \in T
  PROVE  \A s \in Seq(S) : s \in T
<1> DEFINE N == { n \in Nat : \A s \in Seq(S) : Len(s) = n => s \in T }
<1>1. 0 \in N
  <2>1. ASSUME NEW s \in Seq(S), Len(s) = 0 PROVE s \in T
    <3>1. s = << >>
      BY <2>1, EmptySeq
    <3>2. QED
      BY <3>1
  <2>2. QED
    BY <2>1
<1>2. ASSUME NEW n \in Nat, n \in N PROVE n + 1 \in N
  <2>1. ASSUME NEW s \in Seq(S), Len(s) = n + 1 PROVE s \in T
    <3>1. s # << >>
      BY <2>1, EmptySeq
    <3>2. PICK t \in Seq(S), x \in S : s = Append(t, x)
      BY <3>1, SequenceEmptyOrAppend
    <3>3. Len(t) \in Nat /\ Len(s) = Len(t) + 1
      BY <3>2, AppendProperties, LenProperties
    <3>4. Len(t) = n
      BY <2>1, <3>3
    <3>5. t \in T
      BY <1>2, <3>4
    <3>6. QED
      BY <3>2, <3>5
  <2>2. QED
    BY <2>1
<1>3. N \subseteq Nat
  OBVIOUS
<1> HIDE DEF N
<1>4. \A n \in Nat : n \in N
  BY <1>1, <1>2, <1>3, Inductive
<1>5. QED
  BY <1>4, LenProperties DEF N

LEMMA SetOfNothing == ToSet(<< >>) = {}
BY DEF ToSet

LEMMA SetOfAppend ==
  ASSUME NEW S, NEW s \in Seq(S), NEW x \in S
  PROVE  ToSet(Append(s, x)) = ToSet(s) \cup {x}
<1>1. PICK n : n = Len(s)
  OBVIOUS
<1>2. PICK t : t = Append(s, x)
  OBVIOUS
<1>3. /\ n \in Nat /\ DOMAIN s = 1 .. n /\ DOMAIN t = 1 .. n + 1
      /\ t[n + 1] = x /\ \A i \in 1 .. n : t[i] = s[i]
  <2>1. t \in Seq(S) /\ Len(t) = n + 1
    BY <1>1, <1>2, AppendProperties
  <2>2. QED
    BY <1>1, <1>2, <2>1, AppendProperties, LenProperties
<1>4. n + 1 \in 1 .. n + 1 /\ \A i \in 1 .. n : i \in 1 .. n + 1
  BY <1>3
<1>5. ToSet(t) \subseteq ToSet(s) \cup {x}
  <2>1. ASSUME NEW i \in 1 .. n + 1 PROVE t[i] \in ToSet(s) \cup {x}
    <3>1. i = n + 1 \/ i \in 1 .. n
      BY <1>3
    <3>2. QED
      BY <1>3, <3>1 DEF ToSet
  <2>2. QED
    BY <1>3, <2>1 DEF ToSet
<1>6. ToSet(s) \cup {x} \subseteq ToSet(t)
  BY <1>3, <1>4 DEF ToSet
<1>7. QED
  BY <1>2, <1>5, <1>6

LEMMA SetOfSeq ==
  ASSUME NEW S, NEW s \in Seq(S)
  PROVE  /\ ToSet(s) \subseteq S
         /\ ToSet(s) = {} <=> s = << >>
         /\ \A x \in ToSet(s) : \E i \in 1 .. Len(s) : x = s[i]
         /\ \A i \in 1 .. Len(s) : s[i] \in ToSet(s)
<1>1. DOMAIN s = 1 .. Len(s) /\ \A i \in 1 .. Len(s) : s[i] \in S
  BY LenProperties, ElementOfSeq
<1>2. s # << >> => 1 \in 1 .. Len(s)
  BY EmptySeq
<1>3. QED
  BY <1>1, <1>2, SetOfNothing DEF ToSet

LEMMA SetOfConcat ==
  ASSUME NEW S, NEW s \in Seq(S), NEW t \in Seq(S)
  PROVE  ToSet(s \o t) = ToSet(s) \cup ToSet(t)
<1> DEFINE T == { u \in Seq(S) : ToSet(s \o u) = ToSet(s) \cup ToSet(u) }
<1>1. << >> \in T
  BY EmptySeq, ConcatEmptySeq, SetOfNothing
<1>2. ASSUME NEW u \in Seq(S), NEW x \in S, u \in T
      PROVE  Append(u, x) \in T
  <2>1. Append(u, x) \in Seq(S) /\ s \o u \in Seq(S)
    BY AppendProperties, ConcatProperties
  <2>2. s \o Append(u, x) = Append(s \o u, x)
    <3>1. s \o Append(u, x) = s \o (u \o << x >>) /\ Append(s \o u, x) = (s \o u) \o << x >>
      BY <2>1, AppendIsConcat
    <3>2. << x >> \in Seq(S)
      OBVIOUS
    <3>3. QED
      BY <3>1, <3>2, ConcatAssociative
  <2>3. /\ ToSet(Append(u, x)) = ToSet(u) \cup {x}
        /\ ToSet(Append(s \o u, x)) = ToSet(s \o u) \cup {x}
    <3>1. ToSet(Append(u, x)) = ToSet(u) \cup {x}
      BY SetOfAppend
    <3>2. \A v \in Seq(S) : ToSet(Append(v, x)) = ToSet(v) \cup {x}
      BY SetOfAppend
    <3>3. QED
      BY <2>1, <3>1, <3>2
  <2>4. QED
    BY <1>2, <2>1, <2>2, <2>3
<1> HIDE DEF T
<1>3. \A u \in Seq(S) : u \in T
  BY <1>1, <1>2, SeqInductive
<1>4. QED
  BY <1>3 DEF T

Piece(x, T) == IF x \in T THEN << x >> ELSE << >>
Pieces(s, T) == [i \in DOMAIN s |-> Piece(s[i], T)]

LEMMA ThosePieces ==
  ASSUME NEW s, NEW T
  PROVE  Those(s, T) = FlattenSeq(Pieces(s, T))
BY DEF Those, Pieces, Piece

LEMMA PieceType ==
  ASSUME NEW S, NEW x \in S, NEW T
  PROVE  Piece(x, T) \in Seq(S \cap T) /\ Piece(x, T) \in Seq(S)
<1>1. CASE x \in T
  <2>1. x \in S \cap T /\ Piece(x, T) = << x >>
    BY <1>1 DEF Piece
  <2>2. \A R : x \in R => << x >> \in Seq(R)
    OBVIOUS
  <2>3. QED
    BY <2>1, <2>2
<1>2. CASE x \notin T
  <2>1. Piece(x, T) = << >>
    BY <1>2 DEF Piece
  <2>2. QED
    BY <2>1, EmptySeq
<1>3. QED
  BY <1>1, <1>2

LEMMA PiecesType ==
  ASSUME NEW S, NEW s \in Seq(S), NEW T
  PROVE  Pieces(s, T) \in Seq(Seq(S \cap T)) /\ Pieces(s, T) \in Seq(Seq(S))
<1>1. Len(s) \in Nat /\ DOMAIN s = 1 .. Len(s) /\ \A i \in 1 .. Len(s) : s[i] \in S
  BY LenProperties, ElementOfSeq
<1>2. \A i \in 1 .. Len(s) : Piece(s[i], T) \in Seq(S \cap T) /\ Piece(s[i], T) \in Seq(S)
  BY <1>1, PieceType
<1>3. \A R : (\A i \in 1 .. Len(s) : Piece(s[i], T) \in R)
               => [i \in 1 .. Len(s) |-> Piece(s[i], T)] \in Seq(R)
  BY <1>1
<1>4. QED
  BY <1>1, <1>2, <1>3 DEF Pieces

LEMMA ThoseType ==
  ASSUME NEW S, NEW s \in Seq(S), NEW T
  PROVE  Those(s, T) \in Seq(S) /\ Those(s, T) \in Seq(S \cap T)
BY PiecesType, ThosePieces, FlattenType

LEMMA ThoseNothing == ASSUME NEW T PROVE Those(<< >>, T) = << >>
<1>1. Pieces(<< >>, T) = << >>
  BY DEF Pieces
<1>2. QED
  BY <1>1, ThosePieces, FlattenNothing

LEMMA ThoseAppend ==
  ASSUME NEW S, NEW s \in Seq(S), NEW x \in S, NEW T
  PROVE  Those(Append(s, x), T) = IF x \in T THEN Append(Those(s, T), x) ELSE Those(s, T)
<1>1. PICK n : n = Len(s)
  OBVIOUS
<1>2. PICK t : t = Append(s, x)
  OBVIOUS
<1>3. /\ n \in Nat /\ t \in Seq(S) /\ Len(t) = n + 1 /\ DOMAIN s = 1 .. n
      /\ DOMAIN t = 1 .. n + 1 /\ t[n + 1] = x /\ \A i \in 1 .. n : t[i] = s[i]
  <2>1. t \in Seq(S) /\ Len(t) = n + 1
    BY <1>1, <1>2, AppendProperties
  <2>2. QED
    BY <1>1, <1>2, <2>1, AppendProperties, LenProperties
<1>4. Pieces(s, T) \in Seq(Seq(S)) /\ Pieces(t, T) \in Seq(Seq(S)) /\ Piece(x, T) \in Seq(S)
  BY <1>3, PiecesType, PieceType
<1>5. Pieces(t, T) = Append(Pieces(s, T), Piece(x, T))
  <2>1. /\ DOMAIN Pieces(s, T) = 1 .. n /\ DOMAIN Pieces(t, T) = 1 .. n + 1
        /\ \A i \in 1 .. n : Pieces(s, T)[i] = Piece(s[i], T)
        /\ \A i \in 1 .. n + 1 : Pieces(t, T)[i] = Piece(t[i], T)
    BY <1>3 DEF Pieces
  <2>2. PICK p, q, y : p = Pieces(s, T) /\ q = Pieces(t, T) /\ y = Piece(x, T)
    OBVIOUS
  <2>3. p \in Seq(Seq(S)) /\ q \in Seq(Seq(S)) /\ y \in Seq(S)
    BY <1>4, <2>2
  <2>4. Len(p) = n /\ Len(q) = n + 1
    <3>1. Len(p) \in Nat /\ Len(q) \in Nat /\ 1 .. Len(p) = 1 .. n /\ 1 .. Len(q) = 1 .. n + 1
      BY <2>1, <2>2, <2>3, LenProperties
    <3>2. \A a, b \in Nat : 1 .. a = 1 .. b => a = b
      OBVIOUS
    <3>3. QED
      BY <1>3, <3>1, <3>2
  <2>5. \A i \in 1 .. n + 1 : q[i] = IF i = n + 1 THEN y ELSE p[i]
    <3>1. \A i \in 1 .. n + 1 : i = n + 1 \/ i \in 1 .. n
      BY <1>3
    <3>2. QED
      BY <1>3, <2>1, <2>2, <3>1
  <2>6. /\ Append(p, y) \in Seq(Seq(S)) /\ Len(Append(p, y)) = n + 1
        /\ \A i \in 1 .. n + 1 : Append(p, y)[i] = IF i = n + 1 THEN y ELSE p[i]
    <3>1. /\ Append(p, y) \in Seq(Seq(S)) /\ Len(Append(p, y)) = Len(p) + 1
          /\ \A i \in 1 .. Len(p) : Append(p, y)[i] = p[i]
          /\ Append(p, y)[Len(p) + 1] = y
      BY <2>3, AppendProperties
    <3>2. \A i \in 1 .. n + 1 : i = n + 1 \/ i \in 1 .. n
      BY <1>3
    <3>3. \A i \in 1 .. n : i # n + 1
      BY <1>3
    <3>4. QED
      BY <2>4, <3>1, <3>2, <3>3
  <2>7. q = Append(p, y)
    <3>1. \A i \in 1 .. Len(q) : q[i] = Append(p, y)[i]
      BY <2>4, <2>5, <2>6
    <3>2. Len(q) = Len(Append(p, y))
      BY <2>4, <2>6
    <3>3. QED
      BY <2>3, <2>6, <3>1, <3>2, SeqEqual
  <2>8. QED
    BY <2>2, <2>7
<1>6. Those(t, T) = Those(s, T) \o Piece(x, T)
  BY <1>4, <1>5, ThosePieces, FlattenAppend
<1>7. Those(s, T) \in Seq(S)
  BY ThoseType
<1>8. CASE x \in T
  <2>1. Piece(x, T) = << x >>
    BY <1>8 DEF Piece
  <2>2. QED
    BY <1>2, <1>6, <1>7, <1>8, <2>1, AppendIsConcat
<1>9. CASE x \notin T
  <2>1. Piece(x, T) = << >>
    BY <1>9 DEF Piece
  <2>2. QED
    BY <1>2, <1>6, <1>7, <1>9, <2>1, ConcatEmptySeq
<1>10. QED
  BY <1>8, <1>9

\* Its elements are those of the sequence that are in the set.
LEMMA ThoseSet ==
  ASSUME NEW S, NEW s \in Seq(S), NEW T
  PROVE  ToSet(Those(s, T)) = ToSet(s) \cap T
<1> DEFINE Q == { u \in Seq(S) : ToSet(Those(u, T)) = ToSet(u) \cap T }
<1>1. << >> \in Q
  BY EmptySeq, SetOfNothing, ThoseNothing
<1>2. ASSUME NEW u \in Seq(S), NEW x \in S, u \in Q
      PROVE  Append(u, x) \in Q
  <2>1. Append(u, x) \in Seq(S) /\ ToSet(Append(u, x)) = ToSet(u) \cup {x}
    BY AppendProperties, SetOfAppend
  <2>2. CASE x \in T
    <3>1. Those(Append(u, x), T) = Append(Those(u, T), x) /\ Those(u, T) \in Seq(S)
      <4>1. Those(Append(u, x), T)
              = IF x \in T THEN Append(Those(u, T), x) ELSE Those(u, T)
        BY ThoseAppend
      <4>2. Those(u, T) \in Seq(S)
        BY ThoseType
      <4>3. QED
        BY <2>2, <4>1, <4>2
    <3>2. ToSet(Append(Those(u, T), x)) = ToSet(Those(u, T)) \cup {x}
      BY <3>1, SetOfAppend
    <3>3. QED
      BY <1>2, <2>1, <2>2, <3>1, <3>2
  <2>3. CASE x \notin T
    <3>1. Those(Append(u, x), T) = Those(u, T)
      BY <2>3, ThoseAppend
    <3>2. QED
      BY <1>2, <2>1, <2>3, <3>1
  <2>4. QED
    BY <2>2, <2>3
<1> HIDE DEF Q
<1>3. \A u \in Seq(S) : u \in Q
  BY <1>1, <1>2, SeqInductive
<1>4. QED
  BY <1>3 DEF Q

LEMMA ThoseNone ==
  ASSUME NEW S, NEW s \in Seq(S), NEW T
  PROVE  Those(s, T) = << >> <=> ToSet(s) \cap T = {}
<1>1. PICK t : t = Those(s, T)
  OBVIOUS
<1>2. t \in Seq(S) /\ ToSet(t) = ToSet(s) \cap T
  BY <1>1, ThoseSet, ThoseType
<1>3. t = << >> <=> ToSet(t) = {}
  BY <1>2, SetOfSeq
<1>4. QED
  BY <1>1, <1>2, <1>3

\* Sets with the same elements of the sequence select the same.
LEMMA ThoseAgree ==
  ASSUME NEW s, NEW T, NEW U, \A x \in ToSet(s) : x \in T <=> x \in U
  PROVE  Those(s, T) = Those(s, U)
<1>1. \A i \in DOMAIN s : s[i] \in T <=> s[i] \in U
  BY DEF ToSet
<1>2. Pieces(s, T) = Pieces(s, U)
  BY <1>1 DEF Pieces, Piece
<1>3. QED
  BY <1>2, ThosePieces

LEMMA ThoseConcat ==
  ASSUME NEW S, NEW s \in Seq(S), NEW t \in Seq(S), NEW T
  PROVE  Those(s \o t, T) = Those(s, T) \o Those(t, T)
<1> DEFINE Q == { u \in Seq(S) : Those(s \o u, T) = Those(s, T) \o Those(u, T) }
<1>1. Those(s, T) \in Seq(S)
  BY ThoseType
<1>2. << >> \in Q
  BY <1>1, EmptySeq, ConcatEmptySeq, ThoseNothing
<1>3. ASSUME NEW u \in Seq(S), NEW x \in S, u \in Q
      PROVE  Append(u, x) \in Q
  <2>1. /\ Append(u, x) \in Seq(S) /\ s \o u \in Seq(S) /\ Those(u, T) \in Seq(S)
        /\ << x >> \in Seq(S)
    <3>1. Append(u, x) \in Seq(S)
      BY AppendProperties
    <3>2. s \o u \in Seq(S)
      BY ConcatProperties
    <3>3. Those(u, T) \in Seq(S)
      BY ThoseType
    <3>4. QED
      BY <3>1, <3>2, <3>3
  <2>2. s \o Append(u, x) = Append(s \o u, x)
    <3>1. s \o Append(u, x) = s \o (u \o << x >>) /\ Append(s \o u, x) = (s \o u) \o << x >>
      BY <2>1, AppendIsConcat
    <3>2. QED
      BY <2>1, <3>1, ConcatAssociative
  <2>3. CASE x \in T
    <3>1. /\ Those(Append(u, x), T) = Append(Those(u, T), x)
          /\ Those(Append(s \o u, x), T) = Append(Those(s \o u, T), x)
      <4>1. \A v \in Seq(S) : Those(Append(v, x), T) = Append(Those(v, T), x)
        BY <2>3, ThoseAppend
      <4>2. QED
        BY <2>1, <4>1
    <3>2. PICK a, b : a = Those(s, T) /\ b = Those(u, T)
      OBVIOUS
    <3>3. a \in Seq(S) /\ b \in Seq(S) /\ a \o b \in Seq(S)
      BY <1>1, <2>1, <3>2, ConcatProperties
    <3>4. Append(a \o b, x) = a \o Append(b, x)
      <4>1. AppendsBehind(a, b, x)
        BY <3>3, AppendOnConcat
      <4>2. QED
        BY <4>1 DEF AppendsBehind
    <3>5. Those(s \o u, T) = a \o b
      BY <1>3, <3>2
    <3>6. Those(s \o Append(u, x), T) = Append(a \o b, x)
      BY <2>2, <3>1, <3>5
    <3>7. Those(Append(u, x), T) = Append(b, x)
      BY <3>1, <3>2
    <3>8. QED
      BY <2>1, <3>2, <3>4, <3>6, <3>7
  <2>4. CASE x \notin T
    <3>1. /\ Those(Append(u, x), T) = Those(u, T)
          /\ Those(Append(s \o u, x), T) = Those(s \o u, T)
      <4>1. \A v \in Seq(S) : Those(Append(v, x), T) = Those(v, T)
        BY <2>4, ThoseAppend
      <4>2. QED
        BY <2>1, <4>1
    <3>2. QED
      BY <1>3, <2>1, <2>2, <3>1
  <2>5. QED
    BY <2>3, <2>4
<1> HIDE DEF Q
<1>4. \A u \in Seq(S) : u \in Q
  BY <1>2, <1>3, SeqInductive
<1>5. QED
  BY <1>4 DEF Q

LEMMA ThoseTwice ==
  ASSUME NEW S, NEW s \in Seq(S), NEW T, NEW U
  PROVE  Those(Those(s, T), U) = Those(s, T \cap U)
<1> DEFINE Q == { u \in Seq(S) : Those(Those(u, T), U) = Those(u, T \cap U) }
<1>1. << >> \in Q
  BY EmptySeq, ThoseNothing
<1>2. ASSUME NEW u \in Seq(S), NEW x \in S, u \in Q
      PROVE  Append(u, x) \in Q
  <2>1. Append(u, x) \in Seq(S) /\ Those(u, T) \in Seq(S)
    BY AppendProperties, ThoseType
  <2>2. Those(Append(Those(u, T), x), U)
          = IF x \in U THEN Append(Those(Those(u, T), U), x) ELSE Those(Those(u, T), U)
    BY <2>1, ThoseAppend
  <2>3. Those(Append(u, x), T \cap U)
          = IF x \in T \cap U THEN Append(Those(u, T \cap U), x) ELSE Those(u, T \cap U)
    BY ThoseAppend
  <2>4. Those(Append(u, x), T) = IF x \in T THEN Append(Those(u, T), x) ELSE Those(u, T)
    BY ThoseAppend
  <2>5. CASE x \in T
    <3>1. Those(Append(u, x), T) = Append(Those(u, T), x)
      BY <2>4, <2>5
    <3>2. x \in T \cap U <=> x \in U
      BY <2>5
    <3>3. QED
      BY <1>2, <2>1, <2>2, <2>3, <3>1, <3>2
  <2>6. CASE x \notin T
    <3>1. Those(Append(u, x), T) = Those(u, T)
      BY <2>4, <2>6
    <3>2. x \notin T \cap U
      BY <2>6
    <3>3. QED
      BY <1>2, <2>1, <2>3, <3>1, <3>2
  <2>7. QED
    BY <2>5, <2>6
<1> HIDE DEF Q
<1>3. \A u \in Seq(S) : u \in Q
  BY <1>1, <1>2, SeqInductive
<1>4. QED
  BY <1>3 DEF Q

LEMMA ThoseAll ==
  ASSUME NEW S, NEW s \in Seq(S), NEW T, ToSet(s) \subseteq T
  PROVE  Those(s, T) = s
<1> DEFINE Q == { u \in Seq(S) : ToSet(u) \subseteq T => Those(u, T) = u }
<1>1. << >> \in Q
  BY EmptySeq, ThoseNothing
<1>2. ASSUME NEW u \in Seq(S), NEW x \in S, u \in Q
      PROVE  Append(u, x) \in Q
  <2>1. Append(u, x) \in Seq(S) /\ ToSet(Append(u, x)) = ToSet(u) \cup {x}
    BY AppendProperties, SetOfAppend
  <2>2. Those(Append(u, x), T) = IF x \in T THEN Append(Those(u, T), x) ELSE Those(u, T)
    BY ThoseAppend
  <2>3. QED
    BY <1>2, <2>1, <2>2
<1> HIDE DEF Q
<1>3. \A u \in Seq(S) : u \in Q
  BY <1>1, <1>2, SeqInductive
<1>4. QED
  BY <1>3 DEF Q

-----------------------------------------------------------------------------
(***************************************************************************)
(* The filters of SessionView.                                             *)
(***************************************************************************)
\* Every element of s is an element of t.
Within(s, t) == \A i \in 1 .. Len(s) : \E j \in 1 .. Len(t) : s[i] = t[j]

\* A stretch of a sequence is a sequence of its elements.
LEMMA SubSeqWithin ==
  ASSUME NEW S, NEW s \in Seq(S), NEW m \in Nat \ {0}, NEW n \in 0 .. Len(s)
  PROVE  /\ SubSeq(s, m, n) \in Seq(S)
         /\ Within(SubSeq(s, m, n), s)
         /\ Len(SubSeq(s, m, n)) = IF m <= n THEN n - m + 1 ELSE 0
<1>1. \A i \in m .. n : s[i] \in S
  BY ElementOfSeq
<1>2. /\ SubSeq(s, m, n) \in Seq(S)
      /\ Len(SubSeq(s, m, n)) = IF m <= n THEN n - m + 1 ELSE 0
      /\ \A i \in 1 .. n - m + 1 : SubSeq(s, m, n)[i] = s[m + i - 1]
  BY <1>1, SubSeqProperties
<1>3. ASSUME NEW i \in 1 .. Len(SubSeq(s, m, n))
      PROVE  \E j \in 1 .. Len(s) : SubSeq(s, m, n)[i] = s[j]
  <2>1. i \in 1 .. n - m + 1 /\ m + i - 1 \in 1 .. Len(s)
    BY <1>2, LenProperties
  <2>. QED  BY <1>2, <2>1
<1>. QED  BY <1>2, <1>3 DEF Within

\* Concatenation keeps to the elements both parts come from.
LEMMA ConcatWithin ==
  ASSUME NEW S, NEW s \in Seq(S), NEW t \in Seq(S), NEW u \in Seq(S),
         Within(s, u), Within(t, u)
  PROVE  /\ s \o t \in Seq(S)
         /\ Within(s \o t, u)
         /\ Len(s \o t) = Len(s) + Len(t)
<1>1. s \o t \in Seq(S) /\ Len(s \o t) = Len(s) + Len(t)
  BY ConcatProperties
<1>2. ASSUME NEW i \in 1 .. Len(s \o t)
      PROVE  \E j \in 1 .. Len(u) : (s \o t)[i] = u[j]
  <2>1. CASE i <= Len(s)
    <3>1. i \in 1 .. Len(s) /\ (s \o t)[i] = s[i]
      BY <1>1, <2>1
    <3>. QED  BY <3>1 DEF Within
  <2>2. CASE i > Len(s)
    <3>1. i - Len(s) \in 1 .. Len(t) /\ (s \o t)[i] = t[i - Len(s)]
      BY <1>1, <2>2
    <3>. QED  BY <3>1 DEF Within
  <2>. QED  BY <1>1, <2>1, <2>2, LenProperties
<1>. QED  BY <1>1, <1>2 DEF Within

\* A one-event sequence of an element.
LEMMA SingletonWithin ==
  ASSUME NEW S, NEW s \in Seq(S), NEW i \in 1 .. Len(s)
  PROVE  /\ << s[i] >> \in Seq(S)
         /\ Within(<< s[i] >>, s)
         /\ Len(<< s[i] >>) = 1
BY ElementOfSeq DEF Within

LEMMA WithinItself ==
  ASSUME NEW S, NEW s \in Seq(S)
  PROVE  Within(s, s)
BY DEF Within

LEMMA WithinTransitive ==
  ASSUME NEW s, NEW t, NEW u, Within(s, t), Within(t, u)
  PROVE  Within(s, u)
BY DEF Within

\* What follows the covered prefix, without the summary.
LEMMA AfterElements ==
  ASSUME NEW S, NEW s \in Seq(S),
         NEW covered \in 1 .. Len(s), NEW summary \in 1 .. Len(s)
  PROVE  /\ After(s, covered, summary) \in Seq(S)
         /\ Within(After(s, covered, summary), s)
<1>0. Len(s) \in Nat
  BY LenProperties
<1>1. /\ SubSeq(s, covered + 1, Len(s)) \in Seq(S)
      /\ Within(SubSeq(s, covered + 1, Len(s)), s)
  BY <1>0, SubSeqWithin
<1>2. /\ SubSeq(s, covered + 1, summary - 1) \in Seq(S)
      /\ Within(SubSeq(s, covered + 1, summary - 1), s)
  BY <1>0, SubSeqWithin
<1>3. /\ SubSeq(s, summary + 1, Len(s)) \in Seq(S)
      /\ Within(SubSeq(s, summary + 1, Len(s)), s)
  BY <1>0, SubSeqWithin
<1>4. /\ SubSeq(s, covered + 1, summary - 1) \o SubSeq(s, summary + 1, Len(s)) \in Seq(S)
      /\ Within(SubSeq(s, covered + 1, summary - 1) \o SubSeq(s, summary + 1, Len(s)), s)
  BY <1>2, <1>3, ConcatWithin
<1>. QED  BY <1>1, <1>4 DEF After

\* An identifier that occurs is found where it occurs.
LEMMA AtFinds ==
  ASSUME NEW s, NEW id, Has(s, id)
  PROVE  At(s, id) \in 1 .. Len(s) /\ s[At(s, id)].id = id
BY DEF Has, At

\* applyCompaction shows events of the log only, and when the marker applies
\* the summary it names comes first.
LEMMA ApplyCompactionElements ==
  ASSUME NEW S, NEW s \in Seq(S), NEW m
  PROVE  /\ ApplyCompaction(s, m) \in Seq(S)
         /\ Within(ApplyCompaction(s, m), s)
         /\ Applies(s, m) => /\ Len(ApplyCompaction(s, m)) >= 1
                             /\ ApplyCompaction(s, m)[1] = s[At(s, m.summary)]
<1>1. CASE ~ Applies(s, m)
  BY <1>1, WithinItself DEF ApplyCompaction
<1>2. CASE Applies(s, m)
  <2> DEFINE sm == At(s, m.summary)
             cv == At(s, m.coveredThrough)
  <2>1. sm \in 1 .. Len(s) /\ cv \in 1 .. Len(s)
    BY <1>2, AtFinds DEF Applies
  <2>2. /\ << s[sm] >> \in Seq(S)
        /\ Within(<< s[sm] >>, s)
        /\ Len(<< s[sm] >>) = 1
    BY <2>1, SingletonWithin
  <2>3. After(s, cv, sm) \in Seq(S) /\ Within(After(s, cv, sm), s)
    BY <2>1, AfterElements
  <2>4. ApplyCompaction(s, m) = << s[sm] >> \o After(s, cv, sm)
    BY <1>2 DEF ApplyCompaction
  <2>5. /\ ApplyCompaction(s, m) \in Seq(S)
        /\ Within(ApplyCompaction(s, m), s)
        /\ Len(ApplyCompaction(s, m)) = 1 + Len(After(s, cv, sm))
    BY <2>2, <2>3, <2>4, ConcatWithin
  <2>6. ApplyCompaction(s, m)[1] = s[sm]
    BY <2>2, <2>3, <2>4
  <2>. HIDE DEF sm, cv
  <2>7. Len(After(s, cv, sm)) \in Nat
    BY <2>3, LenProperties
  <2>. QED  BY <2>5, <2>6, <2>7 DEF sm
<1>. QED  BY <1>1, <1>2

\* trim's cap shows elements of its argument only, bounds their number, and
\* keeps a protected first one.
LEMMA CapElements ==
  ASSUME NEW S, NEW s \in Seq(S), NEW limit \in Int, NEW protect \in BOOLEAN
  PROVE  /\ Cap(s, limit, protect) \in Seq(S)
         /\ Within(Cap(s, limit, protect), s)
         /\ limit > 0 => Len(Cap(s, limit, protect)) <= limit
         /\ protect /\ Len(s) >= 1 => /\ Len(Cap(s, limit, protect)) >= 1
                                      /\ Cap(s, limit, protect)[1] = s[1]
<1> DEFINE n == Len(s)
<1>0. n \in Nat
  BY LenProperties
<1>1. CASE ~ (limit > 0 /\ n > limit)
  BY <1>0, <1>1, WithinItself DEF Cap
<1>2. CASE limit > 0 /\ n > limit /\ protect
  <2>0. limit > 0 /\ n > limit
    BY <1>2
  <2>1. /\ << s[1] >> \in Seq(S)
        /\ Within(<< s[1] >>, s)
        /\ Len(<< s[1] >>) = 1
    BY <1>0, <2>0, SingletonWithin
  <2> DEFINE rest == SubSeq(s, n - limit + 2, n)
  <2>2. /\ rest \in Seq(S)
        /\ Within(rest, s)
        /\ Len(rest) = limit - 1
    <3>1. n - limit + 2 \in Nat \ {0} /\ n \in 0 .. Len(s)
      BY <1>0, <2>0
    <3>2. /\ rest \in Seq(S)
          /\ Within(rest, s)
          /\ Len(rest) = IF n - limit + 2 <= n THEN n - (n - limit + 2) + 1 ELSE 0
      BY <3>1, SubSeqWithin
    <3>. QED  BY <1>0, <2>0, <3>2
  <2>3. Cap(s, limit, protect) = << s[1] >> \o rest
    BY <1>2 DEF Cap
  <2>4. /\ Cap(s, limit, protect) \in Seq(S)
        /\ Within(Cap(s, limit, protect), s)
        /\ Len(Cap(s, limit, protect)) = 1 + Len(rest)
    BY <2>1, <2>2, <2>3, ConcatWithin
  <2>5. Cap(s, limit, protect)[1] = s[1]
    BY <2>1, <2>2, <2>3
  <2>. HIDE DEF rest
  <2>6. /\ Len(Cap(s, limit, protect)) <= limit
        /\ Len(Cap(s, limit, protect)) >= 1
    BY <2>0, <2>2, <2>4
  <2>. QED  BY <2>4, <2>5, <2>6
<1>3. CASE limit > 0 /\ n > limit /\ ~ protect
  <2>1. n - limit + 1 \in Nat \ {0} /\ n \in 0 .. Len(s)
    BY <1>0, <1>3
  <2>2. /\ SubSeq(s, n - limit + 1, n) \in Seq(S)
        /\ Within(SubSeq(s, n - limit + 1, n), s)
        /\ Len(SubSeq(s, n - limit + 1, n)) = limit
    BY <1>0, <1>3, <2>1, SubSeqWithin
  <2>3. Cap(s, limit, protect) = SubSeq(s, n - limit + 1, n)
    BY <1>3 DEF Cap
  <2>. QED  BY <1>3, <2>2, <2>3
<1>. QED  BY <1>1, <1>2, <1>3

\* What the model is shown: events of the log, at most the limit, and first the
\* summary when the marker applies.
THEOREM ViewElements ==
  ASSUME NEW S, NEW s \in Seq(S), NEW m, NEW limit \in Int
  PROVE  /\ ViewOf(s, m, limit) \in Seq(S)
         /\ Within(ViewOf(s, m, limit), s)
         /\ limit > 0 => Len(ViewOf(s, m, limit)) <= limit
         /\ Applies(s, m) => /\ Len(ViewOf(s, m, limit)) >= 1
                             /\ ViewOf(s, m, limit)[1] = s[At(s, m.summary)]
<1> DEFINE a == ApplyCompaction(s, m)
<1>1. /\ a \in Seq(S)
      /\ Within(a, s)
      /\ Applies(s, m) => Len(a) >= 1 /\ a[1] = s[At(s, m.summary)]
  BY ApplyCompactionElements
<1>2. Applies(s, m) \in BOOLEAN
  BY DEF Applies, Has
<1>. HIDE DEF a
<1>3. /\ Cap(a, limit, Applies(s, m)) \in Seq(S)
      /\ Within(Cap(a, limit, Applies(s, m)), a)
      /\ limit > 0 => Len(Cap(a, limit, Applies(s, m))) <= limit
      /\ Applies(s, m) /\ Len(a) >= 1 =>
           /\ Len(Cap(a, limit, Applies(s, m))) >= 1
           /\ Cap(a, limit, Applies(s, m))[1] = a[1]
  BY <1>1, <1>2, CapElements
<1>4. Within(Cap(a, limit, Applies(s, m)), s)
  BY <1>1, <1>3, WithinTransitive
<1>. QED  BY <1>1, <1>3, <1>4 DEF ViewOf, a
-----------------------------------------------------------------------------
(***************************************************************************)
(* What the read-time filter leaves out.                                   *)
(***************************************************************************)
\* What was there before an append is still the prefix.
LEMMA Prefix ==
  ASSUME NEW S, NEW s \in Seq(S), NEW e \in S
  PROVE  SubSeq(Append(s, e), 1, Len(s)) = s
<1>1. /\ Append(s, e) \in Seq(S)
      /\ Len(s) \in Nat
      /\ Len(Append(s, e)) = Len(s) + 1
      /\ \A i \in 1 .. Len(s) : Append(s, e)[i] = s[i]
  BY AppendProperties, LenProperties
<1>2. \A i \in 1 .. Len(s) : Append(s, e)[i] \in S
  BY <1>1, ElementOfSeq
<1>3. /\ SubSeq(Append(s, e), 1, Len(s)) \in Seq(S)
      /\ Len(SubSeq(Append(s, e), 1, Len(s))) = Len(s)
      /\ \A i \in 1 .. Len(s) : SubSeq(Append(s, e), 1, Len(s))[i] = s[i]
  BY <1>1, <1>2, SubSeqProperties
<1>. QED  BY <1>1, <1>3, SeqEqual


\* x is an element of t.
Shows(t, x) == \E j \in 1 .. Len(t) : t[j] = x

LEMMA SubSeqShows ==
  ASSUME NEW S, NEW s \in Seq(S), NEW m \in Nat \ {0}, NEW n \in 0 .. Len(s), NEW i \in m .. n
  PROVE  Shows(SubSeq(s, m, n), s[i])
<1>1. \A k \in m .. n : s[k] \in S
  BY ElementOfSeq
<1>2. /\ Len(SubSeq(s, m, n)) = IF m <= n THEN n - m + 1 ELSE 0
      /\ \A k \in 1 .. n - m + 1 : SubSeq(s, m, n)[k] = s[m + k - 1]
  BY <1>1, SubSeqProperties
<1>3. PICK j \in 1 .. n - m + 1 : j = i - m + 1 /\ m + j - 1 = i
  BY LenProperties
<1>4. j \in 1 .. Len(SubSeq(s, m, n)) /\ SubSeq(s, m, n)[j] = s[i]
  BY <1>2, <1>3
<1>5. QED
  BY <1>4 DEF Shows

LEMMA ConcatShows ==
  ASSUME NEW S, NEW s \in Seq(S), NEW t \in Seq(S), NEW x, Shows(s, x) \/ Shows(t, x)
  PROVE  Shows(s \o t, x)
<1>1. /\ Len(s \o t) = Len(s) + Len(t) /\ Len(s) \in Nat /\ Len(t) \in Nat
      /\ \A i \in 1 .. Len(s) + Len(t) : (s \o t)[i] = IF i <= Len(s) THEN s[i] ELSE t[i - Len(s)]
  BY ConcatProperties, LenProperties
<1>2. PICK u : u = s \o t
  OBVIOUS
<1>3. /\ Len(u) = Len(s) + Len(t)
      /\ \A i \in 1 .. Len(u) : u[i] = IF i <= Len(s) THEN s[i] ELSE t[i - Len(s)]
  BY <1>1, <1>2, Zenon
<1>4. /\ \A i \in 1 .. Len(s) : u[i] = s[i] /\ i \in 1 .. Len(u)
      /\ \A i \in 1 .. Len(t) : u[Len(s) + i] = t[i] /\ Len(s) + i \in 1 .. Len(u)
  BY <1>1, <1>3
<1>5. Shows(u, x)
  BY <1>4 DEF Shows
<1>6. QED
  BY <1>2, <1>5

\* applyCompaction hides no event but those up to the one the marker covers: an
\* event of the log is shown, or an event at or after it has the covered identifier.
THEOREM OnlyCoveredHidden ==
  ASSUME NEW S, NEW s \in Seq(S), NEW m, NEW i \in 1 .. Len(s)
  PROVE  \/ Shows(ApplyCompaction(s, m), s[i])
         \/ \E k \in i .. Len(s) : s[k].id = m.coveredThrough
<1>1. CASE ~ Applies(s, m)
  BY <1>1 DEF ApplyCompaction, Shows
<1>2. CASE Applies(s, m)
  <2>1. PICK sm \in 1 .. Len(s) : sm = At(s, m.summary)
    BY <1>2, AtFinds DEF Applies
  <2>2. PICK cv \in 1 .. Len(s) : cv = At(s, m.coveredThrough) /\ s[cv].id = m.coveredThrough
    BY <1>2, AtFinds DEF Applies
  <2>3. ApplyCompaction(s, m) = << s[sm] >> \o After(s, cv, sm)
    BY <1>2, <2>1, <2>2 DEF ApplyCompaction
  <2>4. << s[sm] >> \in Seq(S) /\ After(s, cv, sm) \in Seq(S) /\ Len(s) \in Nat
    BY SingletonWithin, AfterElements, LenProperties
  <2>5. CASE i <= cv
    BY <2>2, <2>4, <2>5
  <2>6. ASSUME i = sm PROVE Shows(<< s[sm] >>, s[i])
    BY <2>6 DEF Shows
  <2>7. ASSUME i > cv, i # sm PROVE Shows(After(s, cv, sm), s[i])
    <3>1. /\ SubSeq(s, cv + 1, sm - 1) \in Seq(S) /\ SubSeq(s, sm + 1, Len(s)) \in Seq(S)
      BY <2>4, SubSeqWithin
    <3>2. CASE sm > cv /\ i < sm
      <4>1. Shows(SubSeq(s, cv + 1, sm - 1), s[i])
        <5>1. i \in cv + 1 .. sm - 1 /\ sm - 1 \in 0 .. Len(s) /\ cv + 1 \in Nat \ {0}
          BY <2>4, <2>7, <3>2
        <5>2. QED
          BY <5>1, SubSeqShows
      <4>2. QED
        BY <3>1, <3>2, <4>1, ConcatShows DEF After
    <3>3. CASE sm > cv /\ i > sm
      <4>1. Shows(SubSeq(s, sm + 1, Len(s)), s[i])
        <5>1. i \in sm + 1 .. Len(s) /\ Len(s) \in 0 .. Len(s) /\ sm + 1 \in Nat \ {0}
          BY <2>4, <3>3
        <5>2. QED
          BY <5>1, SubSeqShows
      <4>2. QED
        BY <3>1, <3>3, <4>1, ConcatShows DEF After
    <3>4. CASE ~ (sm > cv)
      <4>1. i \in cv + 1 .. Len(s) /\ Len(s) \in 0 .. Len(s) /\ cv + 1 \in Nat \ {0}
        BY <2>4, <2>7
      <4>2. QED
        BY <3>4, <4>1, SubSeqShows DEF After
    <3>5. QED
      BY <2>4, <2>7, <3>2, <3>3, <3>4
  <2>8. ASSUME i > cv PROVE Shows(ApplyCompaction(s, m), s[i])
    <3>1. PICK t \in Seq(S) : t = << s[sm] >>
      BY <2>4
    <3>2. PICK u \in Seq(S) : u = After(s, cv, sm)
      BY <2>4
    <3>3. Shows(t, s[i]) \/ Shows(u, s[i])
      BY <2>6, <2>7, <2>8, <3>1, <3>2
    <3>4. Shows(t \o u, s[i])
      BY <3>3, ConcatShows
    <3>5. ApplyCompaction(s, m) = t \o u
      BY <2>3, <3>1, <3>2, Zenon
    <3>6. QED
      BY <3>4, <3>5
  <2>9. QED
    BY <2>4, <2>5, <2>8
<1>3. QED
  BY <1>1, <1>2

\* trim drops a stretch, and nothing when the limit does not bite: behind the
\* first event when that is protected, at the beginning otherwise.
CapDrops(s, limit) == IF limit > 0 /\ Len(s) > limit THEN Len(s) - limit ELSE 0

LEMMA CapShape ==
  ASSUME NEW S, NEW s \in Seq(S), NEW limit \in Int, NEW protect \in BOOLEAN,
         NEW r, r = Cap(s, limit, protect), NEW d, d = CapDrops(s, limit)
  PROVE  /\ d \in Nat /\ Len(s) \in Nat /\ d <= Len(s) /\ r \in Seq(S) /\ Len(r) = Len(s) - d
         /\ \A i \in 1 .. Len(r) : i > 1 \/ ~ protect => r[i] = s[i + d]
         /\ protect /\ Len(s) >= 1 => Len(r) >= 1 /\ r[1] = s[1]
<1>1. PICK n \in Nat : n = Len(s)
  BY LenProperties
<1>2. CASE ~ (limit > 0 /\ n > limit)
  <2>1. r = s /\ d = 0
    BY <1>1, <1>2 DEF Cap, CapDrops
  <2>2. \A i \in 1 .. Len(r) : i + d = i
    BY <1>1, <2>1
  <2>3. QED
    BY <1>1, <2>1, <2>2
<1>3. CASE limit > 0 /\ n > limit /\ ~ protect
  <2>1. r = SubSeq(s, n - limit + 1, n) /\ d = n - limit
    BY <1>1, <1>3 DEF Cap, CapDrops
  <2>2. n - limit + 1 \in Nat \ {0} /\ n \in 0 .. Len(s)
    BY <1>1, <1>3
  <2>3. \A i \in n - limit + 1 .. n : s[i] \in S
    BY <1>1, <2>2, ElementOfSeq
  <2>4. /\ SubSeq(s, n - limit + 1, n) \in Seq(S)
        /\ Len(SubSeq(s, n - limit + 1, n)) = n - (n - limit + 1) + 1
        /\ \A i \in 1 .. n - (n - limit + 1) + 1 :
             SubSeq(s, n - limit + 1, n)[i] = s[n - limit + 1 + i - 1]
    BY <1>1, <1>3, <2>2, <2>3, SubSeqProperties
  <2>5. n - (n - limit + 1) + 1 = limit /\ \A i \in 1 .. limit : n - limit + 1 + i - 1 = i + d
    BY <1>1, <1>3, <2>1
  <2>6. r \in Seq(S) /\ Len(r) = limit /\ \A i \in 1 .. limit : r[i] = s[i + d]
    BY <2>1, <2>4, <2>5
  <2>7. limit = n - d /\ d \in Nat /\ d <= n
    BY <1>1, <1>3, <2>1
  <2>8. QED
    BY <1>1, <1>3, <2>6, <2>7
<1>4. CASE limit > 0 /\ n > limit /\ protect
  <2>1. r = << s[1] >> \o SubSeq(s, n - limit + 2, n) /\ d = n - limit
    BY <1>1, <1>4 DEF Cap, CapDrops
  <2>2. n - limit + 2 \in Nat \ {0} /\ n \in 0 .. Len(s) /\ 1 \in 1 .. Len(s)
    BY <1>1, <1>4
  <2>3. \A i \in n - limit + 2 .. n : s[i] \in S
    BY <1>1, <2>2, ElementOfSeq
  <2>4. /\ SubSeq(s, n - limit + 2, n) \in Seq(S)
        /\ Len(SubSeq(s, n - limit + 2, n)) =
             IF n - limit + 2 <= n THEN n - (n - limit + 2) + 1 ELSE 0
        /\ \A i \in 1 .. n - (n - limit + 2) + 1 :
             SubSeq(s, n - limit + 2, n)[i] = s[n - limit + 2 + i - 1]
    BY <1>1, <1>4, <2>2, <2>3, SubSeqProperties
  <2>5. PICK b \in Seq(S) : b = SubSeq(s, n - limit + 2, n)
    BY <2>4
  <2>6. Len(b) = limit - 1 /\ \A i \in 1 .. limit - 1 : b[i] = s[i + 1 + d]
    <3>1. n - (n - limit + 2) + 1 = limit - 1 /\ (n - limit + 2 <= n <=> limit >= 2)
      BY <1>1, <1>4
    <3>2. Len(b) = limit - 1
      BY <1>4, <2>4, <2>5, <3>1
    <3>3. \A i \in 1 .. limit - 1 : n - limit + 2 + i - 1 = i + 1 + d
      BY <1>1, <1>4, <2>1
    <3>4. QED
      BY <2>4, <2>5, <3>1, <3>2, <3>3
  <2>a. PICK a \in Seq(S) : a = << s[1] >>
    BY <2>2, SingletonWithin
  <2>7. Len(a) = 1 /\ a[1] = s[1]
    BY <2>a
  <2>b. PICK c : c = a \o b
    OBVIOUS
  <2>8. /\ c \in Seq(S) /\ Len(c) = Len(a) + Len(b)
        /\ \A i \in 1 .. Len(a) + Len(b) : c[i] = IF i <= Len(a) THEN a[i] ELSE b[i - Len(a)]
    BY <2>b, ConcatProperties, Zenon
  <2>9. r = c
    BY <2>1, <2>5, <2>a, <2>b, Zenon
  <2>10. Len(c) = limit /\ c[1] = s[1]
    BY <1>1, <1>4, <2>6, <2>7, <2>8
  <2>11. ASSUME NEW i \in 2 .. limit PROVE c[i] = s[i + d]
    <3>1. PICK j \in 1 .. limit - 1 : j = i - 1
      BY <1>4, <2>11
    <3>2. c[i] = b[j]
      BY <1>4, <2>6, <2>7, <2>8, <2>10, <3>1
    <3>3. j + 1 + d = i + d
      BY <1>1, <1>4, <2>1, <2>11, <3>1
    <3>4. QED
      BY <2>6, <3>2, <3>3
  <2>12. limit = n - d /\ d \in Nat /\ d <= n
    BY <1>1, <1>4, <2>1
  <2>13. \A i \in 1 .. Len(c) : i > 1 \/ ~ protect => c[i] = s[i + d]
    BY <1>4, <2>10, <2>11
  <2>c. limit >= 1
    BY <1>4
  <2>14. r \in Seq(S) /\ Len(r) = Len(s) - d /\ Len(r) >= 1 /\ r[1] = s[1]
    BY <1>1, <2>8, <2>9, <2>10, <2>12, <2>c, Zenon
  <2>15. \A i \in 1 .. Len(r) : i > 1 \/ ~ protect => r[i] = s[i + d]
    BY <2>9, <2>13
  <2>16. d \in Nat /\ Len(s) \in Nat /\ d <= Len(s)
    BY <1>1, <2>12
  <2>17. QED
    BY <2>14, <2>15, <2>16
<1>5. QED
  BY <1>2, <1>3, <1>4
=============================================================================
