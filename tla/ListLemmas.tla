----------------------------- MODULE ListLemmas -----------------------------
(***************************************************************************)
(* Lemmas that more than one proof needs: induction over the naturals, stated *)
(* for a set of naturals; loops, which are functions from the number of rounds *)
(* to the state after them; and what the operators of SequencesExt return.    *)
(***************************************************************************)
EXTENDS Integers, SequencesExt, SequenceTheorems, WellFoundedInduction, TLAPS

-----------------------------------------------------------------------------
(* Induction.                                                              *)

\* Every set of naturals that is not empty has a least element.
LEMMA LeastElement ==
  ASSUME NEW T \in SUBSET Nat, T # {}
  PROVE  \E n \in T : \A m \in T : n <= m
<1> DEFINE R == {p \in Nat \X Nat : p[1] < p[2]}
<1>1. IsWellFoundedOn(R, Nat)
  BY NatLessThanWellFounded DEF OpToRel
<1>2. \E n \in T : \A m \in T : ~ (<<m, n>> \in R)
  BY <1>1, WFMin, Zenon
<1>3. PICK n \in T : \A m \in T : ~ (<<m, n>> \in R)
  BY <1>2
<1>4. ASSUME NEW m \in T PROVE n <= m
  <2>1. <<m, n>> \in Nat \X Nat => ~(m < n)
    BY <1>3
  <2>2. m \in Nat /\ n \in Nat
    OBVIOUS
  <2> QED BY <2>1, <2>2
<1> QED BY <1>4

\* A set of naturals that has 0, and with each n the next, has all.
LEMMA InductionBySet ==
  ASSUME NEW T \in SUBSET Nat, 0 \in T, \A n \in T : n + 1 \in T
  PROVE  T = Nat
<1> SUFFICES ASSUME Nat \ T # {} PROVE FALSE
  OBVIOUS
<1>1. PICK n \in Nat \ T : \A m \in Nat \ T : n <= m
  BY LeastElement
<1>2. n - 1 \in T
  BY <1>1
<1> QED BY <1>1, <1>2

\* So has one that has each n all below which it has.
LEMMA StrongInduction ==
  ASSUME NEW m \in Nat, NEW T, \A n \in 0 .. m : (\A k \in 0 .. n - 1 : k \in T) => n \in T
  PROVE  \A n \in 0 .. m : n \in T
<1> DEFINE R == {n \in 0 .. m : n \notin T}
<1> SUFFICES ASSUME R # {} PROVE FALSE
  OBVIOUS
<1>1. R \in SUBSET Nat
  OBVIOUS
<1> HIDE DEF R
<1>2. PICK n \in R : \A k \in R : n <= k
  BY <1>1, LeastElement
<1> USE DEF R
<1>3. ASSUME NEW k \in 0 .. n - 1 PROVE k \in T
  BY <1>2
<1> QED BY <1>2, <1>3

\* What a loop of m rounds that begins in a goes through, g[n] being its n-th round.
IsRun(f, m, a, g) == f = [n \in 0 .. m |-> IF n = 0 THEN a ELSE g[n][f[n - 1]]]

\* A loop of m rounds has a state after each round, in I[n] after the n-th, if the
\* n-th round, g[n], leads from I[n - 1] to I[n].
LEMMA Loop ==
  ASSUME NEW m \in Nat, NEW I, NEW a \in I[0], NEW g,
         \A n \in 1 .. m : \A x \in I[n - 1] : g[n][x] \in I[n]
  PROVE  \E f : IsRun(f, m, a, g) /\ \A n \in 0 .. m : f[n] \in I[n]
<1> DEFINE Fits(f, k) == /\ f = [n \in 0 .. k |-> IF n = 0 THEN a ELSE g[n][f[n - 1]]]
                         /\ \A n \in 0 .. k : f[n] \in I[n]
<1> DEFINE T == {k \in Nat : k <= m => \E f : Fits(f, k)}
<1>1. 0 \in T
  <2>1. Fits([n \in 0 .. 0 |-> a], 0)
    OBVIOUS
  <2> HIDE DEF Fits
  <2> QED BY <2>1
<1>2. ASSUME NEW k \in T PROVE k + 1 \in T
  <2> SUFFICES ASSUME k + 1 <= m PROVE \E f : Fits(f, k + 1)
    OBVIOUS
  <2>1. PICK f : Fits(f, k)
    OBVIOUS
  <2> DEFINE h == [n \in 0 .. k + 1 |-> IF n = k + 1 THEN g[k + 1][f[k]] ELSE f[n]]
  <2>2. f[k] \in I[k] /\ k + 1 \in 1 .. m /\ g[k + 1][f[k]] \in I[k + 1]
    BY <2>1
  <2>3. \A n \in 0 .. k + 1 : h[n] \in I[n]
    BY <2>1, <2>2
  <2>4. ASSUME NEW n \in 0 .. k + 1
        PROVE  h[n] = IF n = 0 THEN a ELSE g[n][h[n - 1]]
    <3>1. n \in 0 .. k => h[n] = f[n]
      OBVIOUS
    <3>2. n = k + 1 => h[n] = g[n][f[n - 1]]
      OBVIOUS
    <3>3. n # 0 => h[n - 1] = f[n - 1]
      OBVIOUS
    <3>4. n \in 0 .. k => f[n] = IF n = 0 THEN a ELSE g[n][f[n - 1]]
      BY <2>1
    <3> QED BY <3>1, <3>2, <3>3, <3>4
  <2>5. h = [n \in 0 .. k + 1 |-> IF n = 0 THEN a ELSE g[n][h[n - 1]]]
    BY <2>4
  <2> HIDE DEF h
  <2> QED BY <2>3, <2>5
<1> HIDE DEF T
<1>3. T = Nat
  BY <1>1, <1>2, InductionBySet DEF T
<1>4. \E f : Fits(f, m)
  BY <1>3 DEF T
<1> QED BY <1>4 DEF IsRun

\* What is so before the first round and is kept by each is so after every round.
LEMMA LoopInvariant ==
  ASSUME NEW m \in Nat, NEW I, NEW f, f[0] \in I[0],
         \A n \in 1 .. m : f[n - 1] \in I[n - 1] => f[n] \in I[n]
  PROVE  \A n \in 0 .. m : f[n] \in I[n]
<1> DEFINE T == {n \in Nat : n <= m => f[n] \in I[n]}
<1>1. 0 \in T
  OBVIOUS
<1>2. ASSUME NEW n \in T PROVE n + 1 \in T
  <2>1. n + 1 <= m => n + 1 \in 1 .. m /\ (n + 1) - 1 = n
    OBVIOUS
  <2> QED BY <2>1
<1> HIDE DEF T
<1>3. T = Nat
  BY <1>1, <1>2, InductionBySet DEF T
<1> QED BY <1>3 DEF T

-----------------------------------------------------------------------------
(* Lists.                                                                  *)

\* Removing the entry at i moves those after it one place down.
LEMMA RemoveAtProperties ==
  ASSUME NEW S, NEW s \in Seq(S), NEW i \in 1 .. Len(s)
  PROVE  /\ RemoveAt(s, i) \in Seq(S)
         /\ Len(RemoveAt(s, i)) = Len(s) - 1
         /\ \A j \in 1 .. Len(s) - 1 :
              RemoveAt(s, i)[j] = IF j < i THEN s[j] ELSE s[j + 1]
<1> DEFINE a == SubSeq(s, 1, i - 1)
<1> DEFINE b == SubSeq(s, i + 1, Len(s))
<1>0. Len(s) \in Nat
  BY LenProperties
<1>1. /\ a \in Seq(S) /\ Len(a) = i - 1
      /\ \A j \in 1 .. i - 1 : a[j] = s[j]
  BY <1>0, SubSeqProperties
<1>2. /\ b \in Seq(S) /\ Len(b) = Len(s) - i
      /\ \A j \in 1 .. Len(s) - i : b[j] = s[i + j]
  BY <1>0, SubSeqProperties
<1> HIDE DEF a, b
<1>3. /\ a \o b \in Seq(S)
      /\ Len(a \o b) = Len(a) + Len(b)
      /\ \A j \in 1 .. Len(a) + Len(b) :
           (a \o b)[j] = IF j <= Len(a) THEN a[j] ELSE b[j - Len(a)]
  BY <1>1, <1>2, ConcatProperties
<1>4. RemoveAt(s, i) = a \o b
  BY DEF RemoveAt, a, b
<1>5. ASSUME NEW j \in 1 .. Len(s) - 1
      PROVE  (a \o b)[j] = IF j < i THEN s[j] ELSE s[j + 1]
  <2>1. CASE j < i
    BY <2>1, <1>0, <1>1, <1>2, <1>3
  <2>2. CASE ~(j < i)
    <3>1. (a \o b)[j] = b[j - (i - 1)]
      BY <2>2, <1>0, <1>1, <1>2, <1>3
    <3>2. j - (i - 1) \in 1 .. Len(s) - i /\ i + (j - (i - 1)) = j + 1
      BY <2>2, <1>0
    <3> QED BY <2>2, <3>1, <3>2, <1>2
  <2> QED BY <2>1, <2>2
<1>6. Len(a) + Len(b) = Len(s) - 1
  BY <1>0, <1>1, <1>2
<1>7. /\ a \o b \in Seq(S)
      /\ Len(a \o b) = Len(s) - 1
      /\ \A j \in 1 .. Len(s) - 1 : (a \o b)[j] = IF j < i THEN s[j] ELSE s[j + 1]
  BY <1>3, <1>5, <1>6
<1> QED BY <1>4, <1>7, Zenon

\* Inserting an entry at i moves those from i on one place up.
LEMMA InsertAtProperties ==
  ASSUME NEW S, NEW s \in Seq(S), NEW i \in 1 .. Len(s) + 1, NEW e \in S
  PROVE  /\ InsertAt(s, i, e) \in Seq(S)
         /\ Len(InsertAt(s, i, e)) = Len(s) + 1
         /\ \A j \in 1 .. Len(s) + 1 :
              InsertAt(s, i, e)[j] = IF j < i THEN s[j] ELSE IF j = i THEN e ELSE s[j - 1]
<1> DEFINE a == SubSeq(s, 1, i - 1)
<1> DEFINE b == SubSeq(s, i, Len(s))
<1>0. Len(s) \in Nat
  BY LenProperties
<1>1. /\ a \in Seq(S) /\ Len(a) = i - 1
      /\ \A j \in 1 .. i - 1 : a[j] = s[j]
  BY <1>0, SubSeqProperties
<1>2. /\ b \in Seq(S) /\ Len(b) = Len(s) - i + 1
      /\ \A j \in 1 .. Len(s) - i + 1 : b[j] = s[i + j - 1]
  BY <1>0, SubSeqProperties
<1> HIDE DEF a, b
<1> DEFINE c == a \o <<e>>
<1>3. /\ c \in Seq(S) /\ Len(c) = i
      /\ \A j \in 1 .. i : c[j] = IF j < i THEN s[j] ELSE e
  <2>1. <<e>> \in Seq(S) /\ Len(<<e>>) = 1 /\ <<e>>[1] = e
    OBVIOUS
  <2> QED BY <1>0, <1>1, <2>1, ConcatProperties
<1> HIDE DEF c
<1>4. /\ c \o b \in Seq(S) /\ Len(c \o b) = Len(c) + Len(b)
      /\ \A j \in 1 .. Len(c) + Len(b) :
           (c \o b)[j] = IF j <= Len(c) THEN c[j] ELSE b[j - Len(c)]
  BY <1>2, <1>3, ConcatProperties
<1>5. InsertAt(s, i, e) = c \o b
  BY DEF InsertAt, a, b, c
<1>6. ASSUME NEW j \in 1 .. Len(s) + 1
      PROVE  (c \o b)[j] = IF j < i THEN s[j] ELSE IF j = i THEN e ELSE s[j - 1]
  <2>1. CASE j <= i
    BY <1>0, <1>2, <1>3, <1>4, <2>1
  <2>2. CASE ~(j <= i)
    <3>1. (c \o b)[j] = b[j - i]
      BY <2>2, <1>0, <1>2, <1>3, <1>4
    <3>2. j - i \in 1 .. Len(s) - i + 1 /\ i + (j - i) - 1 = j - 1
      BY <1>0, <2>2
    <3>3. b[j - i] = s[i + (j - i) - 1]
      BY <1>2, <3>2
    <3> QED BY <1>0, <3>1, <3>2, <3>3, <2>2
  <2> QED BY <2>1, <2>2
<1>7. Len(c) + Len(b) = Len(s) + 1
  BY <1>0, <1>2, <1>3
<1>8. /\ c \o b \in Seq(S)
      /\ Len(c \o b) = Len(s) + 1
      /\ \A j \in 1 .. Len(s) + 1 :
           (c \o b)[j] = IF j < i THEN s[j] ELSE IF j = i THEN e ELSE s[j - 1]
  BY <1>4, <1>6, <1>7
<1> QED BY <1>5, <1>8, Zenon

LEMMA InsertAtEntry ==
  ASSUME NEW S, NEW s \in Seq(S), NEW i \in 1 .. Len(s) + 1, NEW e \in S,
         NEW j \in 1 .. Len(s) + 1
  PROVE  InsertAt(s, i, e)[j] = IF j < i THEN s[j] ELSE IF j = i THEN e ELSE s[j - 1]
BY InsertAtProperties
=============================================================================
