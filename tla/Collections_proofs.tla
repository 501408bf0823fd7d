------------------------- MODULE Collections_proofs -------------------------
(***************************************************************************)
(* Facts about finite sets of numbers and about sequences that the proofs  *)
(* of more than one component cite.                                        *)
(***************************************************************************)
EXTENDS SequencesExt, SequenceTheorems, FiniteSetTheorems, WellFoundedInduction, TLAPS

(***************************************************************************)
(* The greatest and the least of a finite set of numbers.                  *)
(***************************************************************************)

\* A finite set of numbers has a least and a greatest element: of the sets without, none is
\* smallest by inclusion.
LEMMA FiniteSetHasEnds ==
  ASSUME NEW S \in SUBSET Nat, IsFiniteSet(S), S # {}
  PROVE  (\E x \in S : \A y \in S : x <= y) /\ (\E x \in S : \A y \in S : x >= y)
<1> DEFINE Ends(T) == (\E x \in T : \A y \in T : x <= y) /\ (\E x \in T : \A y \in T : x >= y)
           Without == {T \in FiniteSubsetsOf(Nat) : T # {} /\ ~Ends(T)}
<1>1. Without = {}
  <2>1. SUFFICES ASSUME Without # {} PROVE FALSE OBVIOUS
  <2>2. Without \subseteq FiniteSubsetsOf(Nat) OBVIOUS
  <2>3. PICK T \in Without : \A U \in Without : <<U, T>> \notin StrictSubsetOrdering(Nat)
    <3> HIDE DEF Without
    <3> QED BY <2>1, <2>2, FS_StrictSubsetOrderingWellFounded, WFMin
  <2>4. T \in SUBSET Nat /\ IsFiniteSet(T) /\ T # {} /\ ~Ends(T)
    BY <2>3 DEF FiniteSubsetsOf
  <2>5. PICK t \in T : TRUE BY <2>4
  <2> DEFINE U == T \ {t}
  <2>6. U \in SUBSET Nat /\ IsFiniteSet(U) BY <2>4, FS_RemoveElement
  <2>7. <<U, T>> \in StrictSubsetOrdering(Nat)
    BY <2>4, <2>5, <2>6 DEF StrictSubsetOrdering
  <2>8. U = {} \/ Ends(U) BY <2>3, <2>6, <2>7 DEF FiniteSubsetsOf
  <2>9. CASE U = {} BY <2>9, <2>4, <2>5
  <2>10. CASE Ends(U)
    <3>1. PICK x \in U : \A y \in U : x <= y BY <2>10
    <3>2. PICK z \in U : \A y \in U : z >= y BY <2>10
    <3>3. \E m \in T : \A y \in T : m <= y
      <4>1. CASE x <= t BY <4>1, <3>1, <2>4, <2>5
      <4>2. CASE ~(x <= t) BY <4>2, <3>1, <2>4, <2>5
      <4> QED BY <4>1, <4>2
    <3>4. \E m \in T : \A y \in T : m >= y
      <4>1. CASE z >= t BY <4>1, <3>2, <2>4, <2>5
      <4>2. CASE ~(z >= t) BY <4>2, <3>2, <2>4, <2>5
      <4> QED BY <4>1, <4>2
    <3> QED BY <3>3, <3>4, <2>4
  <2> QED BY <2>8, <2>9, <2>10
<1> QED BY <1>1 DEF FiniteSubsetsOf

LEMMA MinAndMax ==
  ASSUME NEW S \in SUBSET Nat, IsFiniteSet(S), S # {}
  PROVE  Min(S) \in S /\ Max(S) \in S /\ \A y \in S : y <= Max(S)
<1>1. PICK x \in S : \A y \in S : x <= y BY FiniteSetHasEnds
<1>2. PICK z \in S : \A y \in S : z >= y BY FiniteSetHasEnds
<1>3. Min(S) \in S BY <1>1 DEF Min
<1>4. Max(S) \in S /\ \A y \in S : Max(S) >= y BY <1>2 DEF Max
<1> QED BY <1>3, <1>4

\* Induction on numbers, with the set of the numbers it is about for its hypothesis.
LEMMA NatSetInduction ==
  ASSUME NEW T \in SUBSET Nat, 0 \in T, \A n \in T : n + 1 \in T
  PROVE  T = Nat
<1>1. SUFFICES ASSUME NEW x \in Nat, x \notin T PROVE FALSE OBVIOUS
<1> DEFINE S == {y \in Nat : y \notin T /\ y <= x}
<1>2. S \in SUBSET Nat /\ S # {} /\ \A y \in S : y <= x BY <1>1
<1>3. IsFiniteSet(S) BY <1>2, FS_BoundedSetOfNaturals
<1>4. PICK m \in S : \A y \in S : m <= y
  <2> HIDE DEF S
  <2> QED BY <1>2, <1>3, FiniteSetHasEnds
<1>5. m \in Nat \ {0} /\ m - 1 \in Nat /\ m - 1 \in T BY <1>4
<1> QED BY <1>4, <1>5

\* What a loop that keeps some of n values has kept after each of them.
Filters(keep, val, n, f) ==
  f = [k \in 0..n |-> IF k = 0 THEN <<>> ELSE IF keep[k] THEN Append(f[k - 1], val[k])
                      ELSE f[k - 1]]

\* There is such a function, whatever it keeps: by induction on the number of values.
LEMMA FilterExists ==
  ASSUME NEW keep, NEW val PROVE \A n \in Nat : \E f : Filters(keep, val, n, f)
<1> DEFINE T == {n \in Nat : \E f : Filters(keep, val, n, f)}
<1>1. 0 \in T
  <2>1. Filters(keep, val, 0, [k \in 0..0 |-> <<>>]) BY DEF Filters
  <2> QED BY <2>1
<1>2. ASSUME NEW n \in T PROVE n + 1 \in T
  <2>1. PICK f : Filters(keep, val, n, f) OBVIOUS
  <2> DEFINE v == IF keep[n + 1] THEN Append(f[n], val[n + 1]) ELSE f[n]
             g == [k \in 0..(n + 1) |-> IF k = n + 1 THEN v ELSE f[k]]
  <2>2. \A k \in 0..n : g[k] = f[k] OBVIOUS
  <2>3. g[n + 1] = v OBVIOUS
  <2>4. \A k \in 0..n : f[k] = IF k = 0 THEN <<>>
                      ELSE IF keep[k] THEN Append(f[k - 1], val[k])
                      ELSE f[k - 1]
     BY <2>1 DEF Filters
  <2> DEFINE h == [k \in 0..(n + 1) |-> IF k = 0 THEN <<>>
                      ELSE IF keep[k] THEN Append(g[k - 1], val[k])
                      ELSE g[k - 1]]
  <2>5. ASSUME NEW k \in 0..(n + 1) PROVE g[k] = h[k]
    <3>1. CASE k = n + 1
      <4>1. k # 0 /\ k - 1 = n /\ n \in 0..n BY <3>1
      <4>2. g[k - 1] = f[n] BY <4>1, <2>2
      <4> QED BY <3>1, <4>1, <4>2, <2>3
    <3>2. CASE k # n + 1
      <4>1. k \in 0..n /\ (k # 0 => k - 1 \in 0..n) BY <3>2
      <4>2. g[k] = f[k] /\ (k # 0 => g[k - 1] = f[k - 1]) BY <4>1, <2>2
      <4>3. h[k] = IF k = 0 THEN <<>>
                      ELSE IF keep[k] THEN Append(g[k - 1], val[k])
                      ELSE g[k - 1] OBVIOUS
      <4> HIDE DEF g, h
      <4> QED BY <4>1, <4>2, <4>3, <2>4
    <3> QED BY <3>1, <3>2
  <2>6. g = h
    <3> HIDE DEF v
    <3>1. g = [k \in 0..(n + 1) |-> g[k]] /\ h = [k \in 0..(n + 1) |-> h[k]] OBVIOUS
    <3> HIDE DEF g, h
    <3> QED BY <2>5, <3>1, Zenon
  <2>7. Filters(keep, val, n + 1, g)
    <3> HIDE DEF g
    <3> QED BY <2>6 DEF Filters
  <2> QED BY <2>7
<1>3. T = Nat
  <2> HIDE DEF T
  <2>1. T \in SUBSET Nat BY DEF T
  <2> QED BY <1>1, <1>2, <2>1, NatSetInduction
<1> QED BY <1>3

(***************************************************************************)
(* Sequences of elements of a set, built from their ends.                  *)
(***************************************************************************)

\* The sequence extended by one element.
LEMMA LastOfAppend ==
  ASSUME NEW S, NEW s \in Seq(S), NEW e \in S
  PROVE  Append(s, e) \in Seq(S) /\ Append(s, e) # <<>> /\ Last(Append(s, e)) = e
<1>1. Append(s, e) \in Seq(S) /\ Append(s, e) # <<>> BY AppendProperties
<1>2. Len(Append(s, e)) = Len(s) + 1 /\ Append(s, e)[Len(s) + 1] = e BY AppendProperties
<1> QED BY <1>1, <1>2 DEF Last

LEMMA LastOfConcat ==
  ASSUME NEW S, NEW s \in Seq(S), NEW t \in Seq(S), t # <<>>
  PROVE  s \o t \in Seq(S) /\ s \o t # <<>> /\ Last(s \o t) = Last(t)
<1>1. s \o t \in Seq(S) /\ Len(s \o t) = Len(s) + Len(t) BY ConcatProperties
<1>2. Len(t) \in Nat \ {0} /\ Len(s) \in Nat BY EmptySeq, LenProperties
<1>3. s \o t # <<>> BY <1>1, <1>2, EmptySeq
<1>4. (s \o t)[Len(s) + Len(t)] = t[Len(t)]
  <2>1. Len(s) + Len(t) \in 1 .. Len(s) + Len(t) /\ ~(Len(s) + Len(t) <= Len(s)) BY <1>2
  <2>2. (s \o t)[Len(s) + Len(t)] = t[(Len(s) + Len(t)) - Len(s)] BY <2>1, ConcatProperties
  <2> QED BY <2>2, <1>2
<1> QED BY <1>1, <1>3, <1>4 DEF Last

LEMMA LastOfOne ==
  ASSUME NEW S, NEW a \in S
  PROVE  <<a>> \in Seq(S) /\ <<a>> # <<>> /\ Last(<<a>>) = a
BY DEF Last

LEMMA LastOfTwo ==
  ASSUME NEW S, NEW a \in S, NEW b \in S
  PROVE  <<a, b>> \in Seq(S) /\ <<a, b>> # <<>> /\ Last(<<a, b>>) = b
BY DEF Last

LEMMA LastOfThree ==
  ASSUME NEW S, NEW a \in S, NEW b \in S, NEW c \in S
  PROVE  <<a, b, c>> \in Seq(S) /\ <<a, b, c>> # <<>> /\ Last(<<a, b, c>>) = c
BY DEF Last

\* The last element, and what is before it.
LEMMA LastAndFront ==
  ASSUME NEW S, NEW s \in Seq(S), s # <<>>
  PROVE  Last(s) \in S /\ Front(s) \in Seq(S)
<1>1. Len(s) \in Nat \ {0} BY EmptySeq
<1>2. Last(s) \in S BY <1>1, ElementOfSeq DEF Last
<1>3. \A k \in 1 .. Len(s) - 1 : s[k] \in S BY <1>1, ElementOfSeq
<1>4. Front(s) \in Seq(S) BY <1>1, <1>3, SubSeqProperties DEF Front
<1> QED BY <1>2, <1>4

\* What was put on top of a stack comes off it.
LEMMA FrontOfAppend ==
  ASSUME NEW S, NEW s \in Seq(S), NEW e \in S
  PROVE  Front(Append(s, e)) = s
<1> DEFINE u == Append(s, e)
<1>1. u \in Seq(S) /\ Len(u) = Len(s) + 1 /\ Len(s) \in Nat
         /\ \A k \in 1 .. Len(s) : u[k] = s[k]
  BY AppendProperties, LenProperties
<1> HIDE DEF u
<1>2. \A k \in 1 .. Len(s) : u[k] \in S BY <1>1, ElementOfSeq
<1>3. /\ SubSeq(u, 1, Len(s)) \in Seq(S)
      /\ Len(SubSeq(u, 1, Len(s))) = Len(s)
      /\ \A k \in 1 .. Len(s) : SubSeq(u, 1, Len(s))[k] = s[k]
  <2>1. /\ SubSeq(u, 1, Len(s)) \in Seq(S)
        /\ Len(SubSeq(u, 1, Len(s))) = IF 1 <= Len(s) THEN Len(s) - 1 + 1 ELSE 0
        /\ \A k \in 1 .. Len(s) - 1 + 1 : SubSeq(u, 1, Len(s))[k] = u[1 + k - 1]
    BY <1>1, <1>2, SubSeqProperties
  <2> QED BY <2>1, <1>1
<1>4. SubSeq(u, 1, Len(s)) = s BY <1>3, SeqEqual
<1> QED BY <1>1, <1>4 DEF Front, u
=============================================================================
