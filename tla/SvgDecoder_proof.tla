-------------------------- MODULE SvgDecoder_proof --------------------------
(***************************************************************************)
(* Proofs about SvgDecoder, for every file of any length, every shape an        *)
(* element may have and every phone.                                        *)
(*                                                                         *)
(* The tree comes first: a parent has a lower number than its children, and what *)
(* is below an element has consecutive numbers when it is read.  Then the lists   *)
(* of the decoder, which have living elements only; what is left when those that  *)
(* fail their tests, and all cases of a switch but the first that passes, have    *)
(* been taken out one by one from the end; and what a drawing shows of the tree   *)
(* that is left, by induction from its last element to its root.              *)
(***************************************************************************)
EXTENDS SvgDecoder, ListLemmas, FiniteSetTheorems, TLAPS

-----------------------------------------------------------------------------
(* Trees.  p names the parent of each of the nodes 1 .. m.                   *)

Parents(p, m) == m \in Nat /\ \A d \in 1 .. m : p[d] \in 0 .. d - 1

\* Each node with all that are above it.
Up(p, m) == CHOOSE f : f = [d \in 0 .. m |-> IF d = None THEN {} ELSE {d} \cup f[p[d]]]

\* There is one such function, and each step up is what it says.
LEMMA UpStep ==
  ASSUME NEW p, NEW m, Parents(p, m)
  PROVE  /\ Up(p, m)[0] = {}
         /\ \A e \in 1 .. m : Up(p, m)[e] = {e} \cup Up(p, m)[p[e]]
<1> USE DEF None
<1> DEFINE Follows(f, k) == f = [d \in 0 .. k |-> IF d = None THEN {} ELSE {d} \cup f[p[d]]]
<1> DEFINE T == {k \in Nat : k <= m => \E f : Follows(f, k)}
<1>1. 0 \in T
  <2>1. Follows([d \in 0 .. 0 |-> {}], 0)
    OBVIOUS
  <2> HIDE DEF Follows
  <2> QED BY <2>1
<1>2. ASSUME NEW k \in T PROVE k + 1 \in T
  <2> SUFFICES ASSUME k + 1 <= m PROVE \E f : Follows(f, k + 1)
    OBVIOUS
  <2>1. PICK f : Follows(f, k)
    BY DEF Parents
  <2> DEFINE h == [d \in 0 .. k + 1 |-> IF d = k + 1 THEN {d} \cup f[p[d]] ELSE f[d]]
  <2>2. ASSUME NEW d \in 0 .. k + 1
        PROVE  h[d] = IF d = None THEN {} ELSE {d} \cup h[p[d]]
    <3>1. k \in Nat /\ (d # 0 => p[d] \in 0 .. k /\ p[d] # k + 1)
      BY DEF Parents
    <3>2. d # 0 => h[p[d]] = f[p[d]]
      BY <3>1
    <3>3. CASE d = k + 1
      BY <3>1, <3>2, <3>3
    <3>4. CASE d # k + 1
      <4>1. d \in 0 .. k
        BY <3>1, <3>4
      <4>2. f[d] = IF d = None THEN {} ELSE {d} \cup f[p[d]]
        BY <2>1, <4>1
      <4>3. h[d] = f[d]
        BY <3>4
      <4> HIDE DEF h
      <4> QED BY <3>2, <4>2, <4>3
    <3> QED BY <3>3, <3>4
  <2>3. Follows(h, k + 1)
    BY <2>2
  <2> HIDE DEF Follows
  <2> QED BY <2>3
<1> HIDE DEF T
<1>3. T = Nat
  BY <1>1, <1>2, InductionBySet DEF T
<1>4. \E f : Follows(f, m)
  <2>1. m \in Nat
    BY DEF Parents
  <2> HIDE DEF Follows
  <2> QED BY <1>3, <2>1 DEF T
<1>5. Follows(Up(p, m), m)
  <2>1. Up(p, m) = CHOOSE f : Follows(f, m)
    BY DEF Up
  <2> HIDE DEF Follows
  <2> QED BY <1>4, <2>1
<1> DEFINE u == Up(p, m)
<1>6. u = [d \in 0 .. m |-> IF d = None THEN {} ELSE {d} \cup u[p[d]]]
  BY <1>5
<1> HIDE DEF u
<1>7. u[0] = {} /\ \A e \in 1 .. m : u[e] = {e} \cup u[p[e]]
  BY <1>6 DEF Parents
<1> QED BY <1>7 DEF u

\* What is above a node has a lower number.
LEMMA UpBelow ==
  ASSUME NEW p, NEW m, Parents(p, m)
  PROVE  \A e \in 0 .. m : Up(p, m)[e] \subseteq 1 .. e
<1> DEFINE u == Up(p, m)
<1> DEFINE T == {e \in 0 .. m : u[e] \subseteq 1 .. e}
<1>1. ASSUME NEW e \in 0 .. m, \A k \in 0 .. e - 1 : k \in T PROVE e \in T
  <2>1. CASE e = 0
    BY <2>1, UpStep
  <2>2. CASE e # 0
    <3>1. p[e] \in 0 .. e - 1 /\ u[e] = {e} \cup u[p[e]]
      BY <2>2, UpStep DEF Parents
    <3>2. u[p[e]] \subseteq 1 .. p[e]
      BY <1>1, <3>1
    <3> QED BY <2>2, <3>1, <3>2
  <2> QED BY <2>1, <2>2
<1> HIDE DEF T
<1>2. \A e \in 0 .. m : e \in T
  BY <1>1, StrongInduction DEF Parents
<1> QED BY <1>2 DEF T

\* What is above what is above a node is above the node.
LEMMA UpTransitive ==
  ASSUME NEW p, NEW m, Parents(p, m)
  PROVE  \A d \in 0 .. m : \A a \in Up(p, m)[d] : Up(p, m)[a] \subseteq Up(p, m)[d]
<1> DEFINE u == Up(p, m)
<1> DEFINE T == {d \in 0 .. m : \A a \in u[d] : u[a] \subseteq u[d]}
<1>1. ASSUME NEW d \in 0 .. m, \A k \in 0 .. d - 1 : k \in T PROVE d \in T
  <2>1. CASE d = 0
    BY <2>1, UpStep
  <2>2. CASE d # 0
    <3>1. p[d] \in 0 .. d - 1 /\ u[d] = {d} \cup u[p[d]]
      BY <2>2, UpStep DEF Parents
    <3>2. \A a \in u[p[d]] : u[a] \subseteq u[p[d]]
      BY <1>1, <3>1
    <3> QED BY <3>1, <3>2
  <2> QED BY <2>1, <2>2
<1> HIDE DEF T
<1>2. \A e \in 0 .. m : e \in T
  BY <1>1, StrongInduction DEF Parents
<1> QED BY <1>2 DEF T

\* A node that is added below others changes nothing above these.
LEMMA UpSame ==
  ASSUME NEW p, NEW m, Parents(p, m), NEW q, NEW n, Parents(q, n),
         m <= n, \A d \in 1 .. m : q[d] = p[d]
  PROVE  \A e \in 0 .. m : Up(q, n)[e] = Up(p, m)[e]
<1> DEFINE T == {e \in 0 .. m : Up(q, n)[e] = Up(p, m)[e]}
<1>1. ASSUME NEW e \in 0 .. m, \A k \in 0 .. e - 1 : k \in T PROVE e \in T
  <2>1. CASE e = 0
    BY <2>1, UpStep
  <2>2. CASE e # 0
    <3>1. /\ p[e] \in 0 .. e - 1 /\ q[e] = p[e]
          /\ Up(p, m)[e] = {e} \cup Up(p, m)[p[e]] /\ Up(q, n)[e] = {e} \cup Up(q, n)[q[e]]
      BY <2>2, UpStep DEF Parents
    <3> QED BY <1>1, <3>1
  <2> QED BY <2>1, <2>2
<1> HIDE DEF T
<1>2. \A e \in 0 .. m : e \in T
  BY <1>1, StrongInduction DEF Parents
<1> QED BY <1>2 DEF T

LEMMA UpIsAncestors ==
  ASSUME NEW e PROVE SelfAndAncestors(e) = Up(parentNode, Len(element))[e]
BY DEF SelfAndAncestors, Up

-----------------------------------------------------------------------------
(* Lists.                                                                   *)

\* What an Append adds to the elements of a list.
LEMMA AppendToSet ==
  ASSUME NEW S, NEW q \in Seq(S), NEW e \in S
  PROVE  Append(q, e) \in Seq(S) /\ ToSet(Append(q, e)) = ToSet(q) \cup {e}
<1>1. /\ Append(q, e) \in Seq(S) /\ Len(q) \in Nat
      /\ DOMAIN Append(q, e) = 1 .. Len(q) + 1 /\ DOMAIN q = 1 .. Len(q)
      /\ \A i \in 1 .. Len(q) : Append(q, e)[i] = q[i]
      /\ Append(q, e)[Len(q) + 1] = e
  BY AppendProperties, LenProperties
<1>2. \A i : i \in 1 .. Len(q) + 1 <=> i \in 1 .. Len(q) \/ i = Len(q) + 1
  BY <1>1
<1> QED BY <1>1, <1>2, Zenon DEF ToSet

\* The loop that takes elements out of a list keeps all others.
LEMMA WithoutAllProperties ==
  ASSUME NEW S, NEW list \in Seq(S), NEW gone
  PROVE  WithoutAll(list, gone) \in Seq(S) /\ ToSet(WithoutAll(list, gone)) = ToSet(list) \ gone
<1> DEFINE m == Len(list)
<1> DEFINE I == [n \in 0 .. m |-> {q \in Seq(S) : ToSet(q) = {list[i] : i \in 1 .. n} \ gone}]
<1> DEFINE g == [n \in 1 .. m |-> [q \in I[n - 1] |-> AppendIf(q, list[n] \notin gone, list[n])]]
<1> DEFINE Follows(f) ==
      f = [n \in 0 .. m |->
             IF n = 0 THEN <<>> ELSE AppendIf(f[n - 1], list[n] \notin gone, list[n])]
<1> DEFINE kept == CHOOSE f : Follows(f)
<1>0. m \in Nat
  BY LenProperties
<1>1. <<>> \in I[0]
  BY <1>0 DEF ToSet
<1>2. ASSUME NEW n \in 1 .. m, NEW q \in I[n - 1]
      PROVE  AppendIf(q, list[n] \notin gone, list[n]) \in I[n]
  <2>1. n - 1 \in 0 .. m /\ n \in 0 .. m
    BY <1>0
  <2>2. q \in Seq(S) /\ ToSet(q) = {list[i] : i \in 1 .. n - 1} \ gone
    BY <2>1
  <2>3. list[n] \in S
    BY ElementOfSeq
  <2>4. Append(q, list[n]) \in Seq(S) /\ ToSet(Append(q, list[n])) = ToSet(q) \cup {list[n]}
    BY <2>2, <2>3, AppendToSet
  <2>5. 1 .. n = (1 .. n - 1) \cup {n}
    OBVIOUS
  <2>6. {list[i] : i \in 1 .. n} = {list[i] : i \in 1 .. n - 1} \cup {list[n]}
    BY <2>5
  <2> HIDE DEF m
  <2> QED BY <2>1, <2>2, <2>4, <2>6 DEF AppendIf
<1> HIDE DEF I
<1>3. \A n \in 1 .. m : \A q \in I[n - 1] : g[n][q] \in I[n]
  BY <1>2
<1>4. \E f : IsRun(f, m, <<>>, g) /\ \A n \in 0 .. m : f[n] \in I[n]
  <2> HIDE DEF g, m
  <2> QED BY <1>0, <1>1, <1>3, Loop, Zenon
<1>5. \E f : Follows(f)
  <2>1. PICK f : /\ f = [n \in 0 .. m |-> IF n = 0 THEN <<>> ELSE g[n][f[n - 1]]]
                 /\ \A n \in 0 .. m : f[n] \in I[n]
    BY <1>4 DEF IsRun
  <2>2. ASSUME NEW n \in 0 .. m
        PROVE  f[n] = IF n = 0 THEN <<>> ELSE AppendIf(f[n - 1], list[n] \notin gone, list[n])
    <3>1. CASE n = 0
      BY <1>0, <2>1, <3>1
    <3>2. CASE n # 0
      <4>1. n \in 1 .. m /\ n - 1 \in 0 .. m
        BY <1>0, <3>2
      <4>2. f[n] = g[n][f[n - 1]] /\ f[n - 1] \in I[n - 1]
        <5> HIDE DEF g
        <5> QED BY <2>1, <3>2, <4>1
      <4> QED BY <3>2, <4>1, <4>2
    <3> QED BY <3>1, <3>2
  <2> HIDE DEF m
  <2>3. Follows(f)
    BY <2>1, <2>2
  <2> HIDE DEF Follows
  <2> QED BY <2>3
<1>6. Follows(kept)
  <2> HIDE DEF Follows
  <2> QED BY <1>5
<1>7. kept[m] \in I[m]
  <2> HIDE DEF kept, g, m
  <2>1. kept[0] \in I[0]
    BY <1>0, <1>1, <1>6
  <2>2. ASSUME NEW n \in 1 .. m, kept[n - 1] \in I[n - 1] PROVE kept[n] \in I[n]
    <3>1. n \in 0 .. m /\ n # 0
      BY <1>0
    <3>2. kept[n] = AppendIf(kept[n - 1], list[n] \notin gone, list[n])
      BY <1>6, <3>1
    <3> QED BY <1>2, <2>2, <3>2
  <2>3. \A n \in 0 .. m : kept[n] \in I[n]
    BY <1>0, <2>1, <2>2, LoopInvariant, Zenon
  <2> QED BY <1>0, <2>3
<1>8. WithoutAll(list, gone) = kept[m]
  BY DEF WithoutAll
<1>9. m \in 0 .. m
  BY <1>0
<1> HIDE DEF kept, m
<1>10. kept[m] \in Seq(S) /\ ToSet(kept[m]) = {list[i] : i \in 1 .. m} \ gone
  BY <1>7, <1>9 DEF I
<1>11. ToSet(list) = {list[i] : i \in 1 .. m}
  BY DEF m, ToSet
<1> QED BY <1>8, <1>10, <1>11

\* What a list loses with its last entry.
LEMMA FrontProperties ==
  ASSUME NEW S, NEW q \in Seq(S), q # <<>>
  PROVE  /\ Front(q) \in Seq(S) /\ Last(q) \in S
         /\ ToSet(q) = ToSet(Front(q)) \cup {Last(q)}
<1>1. Len(q) \in Nat /\ Len(q) # 0 /\ DOMAIN q = 1 .. Len(q)
  BY LenProperties, EmptySeq
<1>2. /\ Front(q) \in Seq(S) /\ DOMAIN Front(q) = 1 .. Len(q) - 1
      /\ \A i \in 1 .. Len(q) - 1 : Front(q)[i] = q[i]
  BY <1>1, SubSeqProperties DEF Front
<1>3. Last(q) = q[Len(q)] /\ Last(q) \in S
  BY <1>1, ElementOfSeq DEF Last
<1>4. \A i : i \in 1 .. Len(q) <=> i \in 1 .. Len(q) - 1 \/ i = Len(q)
  BY <1>1
<1> QED BY <1>1, <1>2, <1>3, <1>4, Zenon DEF ToSet

-----------------------------------------------------------------------------
(* The tree while it is read.  A subtree has consecutive numbers, because    *)
(* what is read next comes below something above what was read last.         *)

Elements == 1 .. Len(element)

TreeInv ==
  /\ element \in Seq(Shapes \cup RootShapes) /\ parentNode \in Seq(Nat)
  /\ Len(parentNode) = Len(element)
  /\ \A e \in Elements : parentNode[e] \in 0 .. e - 1 /\ (parentNode[e] = None <=> e = 1)
  /\ Elements # {} => element[1] \in RootShapes
  /\ iRootElement = IF Elements = {} THEN None ELSE 1

NestedInv ==
  \A d \in Elements : \A a \in SelfAndAncestors(d) :
    \A s \in a .. d : a \in SelfAndAncestors(s)

ReadingInv ==
  /\ stage \in {"start", "reading", "elements", "switches", "done", "left", "crashed"}
  /\ stage \in {"start", "reading"} =>
       /\ iCurrentParentElement = None <=> Elements = {}
       /\ \A last \in Elements :
            last = Len(element) => iCurrentParentElement \in SelfAndAncestors(last)
  /\ stage \in {"start", "reading", "left"} => alive = Elements
  /\ stage = "start" => Elements = {}

LEMMA NoElements == Len(element) \in Nat => (Elements = {} <=> Len(element) = 0)
<1> SUFFICES ASSUME Len(element) \in Nat PROVE Elements = {} <=> Len(element) = 0
  OBVIOUS
<1>1. ASSUME Len(element) # 0 PROVE 1 \in Elements
  BY <1>1 DEF Elements
<1>2. ASSUME Len(element) = 0, NEW e \in Elements PROVE FALSE
  BY <1>2 DEF Elements
<1> QED BY <1>1, <1>2

\* The tree of the decoder is one of those above.
LEMMA TreeParents == TreeInv => Parents(parentNode, Len(element))
BY LenProperties DEF TreeInv, Parents, Elements

LEMMA AncestorsStep ==
  ASSUME TreeInv
  PROVE  /\ SelfAndAncestors(None) = {}
         /\ \A e \in Elements : SelfAndAncestors(e) = {e} \cup SelfAndAncestors(parentNode[e])
BY TreeParents, UpStep, UpIsAncestors DEF None, Elements

LEMMA AncestorsBelow ==
  ASSUME TreeInv
  PROVE  /\ \A e \in 0 .. Len(element) : SelfAndAncestors(e) \subseteq 1 .. e
         /\ \A e \in Elements : e \in SelfAndAncestors(e)
<1>1. \A e \in 0 .. Len(element) : SelfAndAncestors(e) \subseteq 1 .. e
  BY TreeParents, UpBelow, UpIsAncestors
<1> QED BY <1>1, AncestorsStep

LEMMA AncestorsTransitive ==
  ASSUME TreeInv
  PROVE  \A d \in 0 .. Len(element) :
           \A a \in SelfAndAncestors(d) : SelfAndAncestors(a) \subseteq SelfAndAncestors(d)
BY TreeParents, UpTransitive, UpIsAncestors

LEMMA SameTree ==
  ASSUME UNCHANGED <<element, parentNode>>
  PROVE  \A e : SelfAndAncestors(e)' = SelfAndAncestors(e)
BY DEF SelfAndAncestors, Up

\* What a new element leaves as it was, and where it is.
LEMMA AppendChildTree ==
  ASSUME TreeInv, ReadingInv, NEW s \in Shapes \cup RootShapes, AppendChild(s)
  PROVE  LET n == Len(element) + 1 IN
         /\ TreeInv'
         /\ Elements' = Elements \cup {n} /\ n \notin Elements /\ n \in Nat
         /\ Len(element') = n
         /\ \A e \in Elements : element'[e] = element[e] /\ parentNode'[e] = parentNode[e]
         /\ element'[n] = s /\ parentNode'[n] = iCurrentParentElement
         /\ alive' = Elements'
         /\ iCurrentParentElement \in 0 .. Len(element)
         /\ \A e \in 0 .. Len(element) : SelfAndAncestors(e)' = SelfAndAncestors(e)
         /\ \A e : e = n =>
              SelfAndAncestors(e)' = {e} \cup SelfAndAncestors(iCurrentParentElement)
<1> DEFINE n == Len(element) + 1
<1>0. /\ element \in Seq(Shapes \cup RootShapes) /\ parentNode \in Seq(Nat)
      /\ Len(parentNode) = Len(element) /\ Len(element) \in Nat
  BY LenProperties DEF TreeInv
<1>1. iCurrentParentElement \in 0 .. Len(element)
      /\ (iCurrentParentElement = 0 <=> Len(element) = 0)
  <2>1. Elements # {} => iCurrentParentElement \in 1 .. Len(element)
    <3>1. Elements # {} => Len(element) \in Elements
      BY <1>0, NoElements DEF Elements
    <3>2. Elements # {} => iCurrentParentElement \in SelfAndAncestors(Len(element))
      BY <3>1 DEF ReadingInv, AppendChild
    <3>3. SelfAndAncestors(Len(element)) \subseteq 1 .. Len(element)
      BY <1>0, AncestorsBelow
    <3> QED BY <3>2, <3>3
  <2>2. iCurrentParentElement = None <=> Elements = {}
    BY DEF ReadingInv, AppendChild
  <2>3. Elements = {} <=> Len(element) = 0
    BY <1>0, NoElements
  <2>4. CASE iCurrentParentElement = None
    BY <1>0, <2>2, <2>3, <2>4 DEF None
  <2>5. CASE iCurrentParentElement # None
    BY <1>0, <2>1, <2>2, <2>3, <2>5 DEF None
  <2> QED BY <2>4, <2>5
<1>2. iCurrentParentElement \in Nat
  BY <1>0, <1>1
<1>3. element' = Append(element, s) /\ parentNode' = Append(parentNode, iCurrentParentElement)
  BY DEF AppendChild
<1>4. /\ element' \in Seq(Shapes \cup RootShapes) /\ Len(element') = n
      /\ \A e \in 1 .. Len(element) : element'[e] = element[e]
      /\ element'[n] = s
  BY <1>0, <1>3, AppendProperties
<1>5. /\ parentNode' \in Seq(Nat) /\ Len(parentNode') = n
      /\ \A e \in 1 .. Len(element) : parentNode'[e] = parentNode[e]
      /\ parentNode'[n] = iCurrentParentElement
  BY <1>0, <1>2, <1>3, AppendProperties
<1>6. Elements' = Elements \cup {n} /\ n \notin Elements /\ n \in Nat
  BY <1>0, <1>4 DEF Elements
<1>7. \A e \in Elements' : parentNode'[e] \in 0 .. e - 1 /\ (parentNode'[e] = None <=> e = 1)
  <2> SUFFICES ASSUME NEW e \in Elements'
               PROVE  parentNode'[e] \in 0 .. e - 1 /\ (parentNode'[e] = None <=> e = 1)
    OBVIOUS
  <2>1. CASE e \in Elements
    BY <1>5, <2>1 DEF TreeInv, Elements
  <2>2. CASE e = n
    BY <1>0, <1>1, <1>5, <2>2 DEF None
  <2> QED BY <1>6, <2>1, <2>2
<1>8. iRootElement' = 1 /\ Elements' # {}
  BY <1>0, <1>6 DEF AppendChild, TreeInv, Elements, None
<1>9. element'[1] \in RootShapes
  <2>1. CASE Elements = {}
    <3>1. n = 1 /\ iRootElement = None
      BY <1>0, <2>1 DEF Elements, TreeInv
    <3> QED BY <1>4, <3>1 DEF AppendChild
  <2>2. CASE Elements # {}
    BY <1>0, <1>4, <2>2 DEF TreeInv, Elements
  <2> QED BY <2>1, <2>2
<1>10. TreeInv'
  BY <1>4, <1>5, <1>7, <1>8, <1>9 DEF TreeInv
<1>11. Parents(parentNode, Len(element)) /\ Parents(parentNode', n)
  BY <1>4, <1>6, <1>7, TreeParents DEF Parents, Elements
<1>12. \A e : SelfAndAncestors(e)' = Up(parentNode', n)[e]
  BY <1>4 DEF SelfAndAncestors, Up
<1>13. \A e \in 0 .. Len(element) : SelfAndAncestors(e)' = SelfAndAncestors(e)
  BY <1>0, <1>5, <1>11, <1>12, UpSame, UpIsAncestors
<1>14. ASSUME NEW e, e = n
       PROVE  SelfAndAncestors(e)' = {e} \cup SelfAndAncestors(iCurrentParentElement)
  <2>1. n \in 1 .. n
    BY <1>0
  <2>2. Up(parentNode', n)[n] = {n} \cup Up(parentNode', n)[parentNode'[n]]
    BY <1>11, <2>1, UpStep
  <2>3. Up(parentNode', n)[iCurrentParentElement]
          = Up(parentNode, Len(element))[iCurrentParentElement]
    BY <1>0, <1>1, <1>5, <1>11, UpSame
  <2> QED BY <1>5, <1>12, <1>14, <2>2, <2>3, UpIsAncestors
<1>15. alive' = Elements'
  BY <1>6 DEF AppendChild, ReadingInv
<1> QED BY <1>1, <1>4, <1>5, <1>6, <1>10, <1>13, <1>14, <1>15 DEF Elements

\* What is read next does not come between what is below another element.
LEMMA AppendChildNested ==
  ASSUME TreeInv, NestedInv, ReadingInv, NEW s \in Shapes \cup RootShapes, AppendChild(s)
  PROVE  NestedInv'
<1> DEFINE n == Len(element) + 1
<1> SUFFICES ASSUME NEW d \in Elements', NEW a \in SelfAndAncestors(d)', NEW b \in a .. d
             PROVE  a \in SelfAndAncestors(b)'
  BY DEF NestedInv
<1>0. Len(element) \in Nat /\ \A e \in 0 .. Len(element) : SelfAndAncestors(e) \subseteq 1 .. e
  BY AncestorsBelow, LenProperties DEF TreeInv
<1>1. /\ Elements' = Elements \cup {n}
      /\ iCurrentParentElement \in 0 .. Len(element)
      /\ \A e \in 0 .. Len(element) : SelfAndAncestors(e)' = SelfAndAncestors(e)
      /\ \A e : e = n =>
           SelfAndAncestors(e)' = {e} \cup SelfAndAncestors(iCurrentParentElement)
  BY AppendChildTree
<1>2. CASE d \in Elements
  <2>1. a \in SelfAndAncestors(d) /\ a \in 1 .. d
    BY <1>0, <1>1, <1>2 DEF Elements
  <2>2. b \in 0 .. Len(element)
    BY <1>0, <1>2, <2>1 DEF Elements
  <2> QED BY <1>1, <1>2, <2>1, <2>2 DEF NestedInv
<1>3. CASE d = n
  <2>1. CASE a = n
    <3>1. b = n
      BY <1>0, <1>3, <2>1
    <3> QED BY <1>1, <2>1, <3>1
  <2>2. CASE a # n
    <3>1. a \in SelfAndAncestors(iCurrentParentElement)
      BY <1>1, <1>3, <2>2
    <3>2. a \in 1 .. iCurrentParentElement /\ iCurrentParentElement # None
      BY <1>0, <1>1, <3>1 DEF None
    <3>3. iCurrentParentElement \in SelfAndAncestors(Len(element))
      BY <1>0, <1>1, <3>2 DEF AppendChild, ReadingInv, Elements, None
    <3>4. a \in SelfAndAncestors(Len(element))
      BY <1>0, <3>1, <3>3, AncestorsTransitive
    <3>5. CASE b = n
      BY <1>1, <3>1, <3>5
    <3>6. CASE b # n
      <4>1. b \in a .. Len(element) /\ b \in 0 .. Len(element) /\ Len(element) \in Elements
        BY <1>0, <1>3, <1>1, <3>2, <3>6 DEF Elements
      <4> QED BY <1>1, <3>4, <4>1 DEF NestedInv
    <3> QED BY <3>5, <3>6
  <2> QED BY <2>1, <2>2
<1> QED BY <1>1, <1>2, <1>3

LEMMA SameTreeInv ==
  ASSUME TreeInv, NestedInv, UNCHANGED <<element, parentNode, iRootElement>>
  PROVE  TreeInv' /\ NestedInv' /\ Elements' = Elements
<1>1. Elements' = Elements
  BY DEF Elements
<1>2. TreeInv'
  BY <1>1 DEF TreeInv
<1>3. \A e : SelfAndAncestors(e)' = SelfAndAncestors(e)
  BY SameTree
<1> QED BY <1>1, <1>2, <1>3 DEF NestedInv

LEMMA NextTree == TreeInv /\ NestedInv /\ ReadingInv /\ [Next]_vars => TreeInv' /\ NestedInv'
<1> SUFFICES ASSUME TreeInv, NestedInv, ReadingInv, [Next]_vars PROVE TreeInv' /\ NestedInv'
  OBVIOUS
<1>1. ASSUME NEW s \in Shapes \cup RootShapes, AppendChild(s) PROVE TreeInv' /\ NestedInv'
  BY <1>1, AppendChildTree, AppendChildNested
<1>2. ASSUME UNCHANGED <<element, parentNode, iRootElement>> PROVE TreeInv' /\ NestedInv'
  BY <1>2, SameTreeInv
<1>3. \/ \E s \in Shapes \cup RootShapes : AppendChild(s)
      \/ UNCHANGED <<element, parentNode, iRootElement>>
  BY DEF Next, StartDecoding, ReadElement, Leaves, ReadEndOfElement, ReadEndOfFile,
     RemoveFalseElement, NoFalseElements, RemoveFalseSwitchCase, NoFalseSwitchCases, Redraw,
     RedrawLeaves, DrawsDeleted, FollowsNull, vars, tree
<1> QED BY <1>1, <1>2, <1>3

LEMMA NextReading == TreeInv /\ NestedInv /\ ReadingInv /\ [Next]_vars => ReadingInv'
<1> SUFFICES ASSUME TreeInv, NestedInv, ReadingInv, [Next]_vars PROVE ReadingInv'
  OBVIOUS
<1>1. ASSUME NEW s \in Shapes \cup RootShapes, ReadElement(s) PROVE ReadingInv'
  <2> DEFINE n == Len(element) + 1
  <2>1. AppendChild(s) /\ stage = "reading" /\ stage' = stage /\ iCurrentParentElement' = n
    BY <1>1 DEF ReadElement, AppendChild
  <2>2. /\ Elements' = Elements \cup {n} /\ n \notin Elements /\ n \in Nat
        /\ Len(element') = n /\ alive' = Elements'
        /\ \A e : e = n => SelfAndAncestors(e)' = {e} \cup SelfAndAncestors(iCurrentParentElement)
    BY <2>1, AppendChildTree
  <2>3. n # None
    BY <2>2, LenProperties DEF None, TreeInv
  <2>4. \A last \in Elements' :
          last = Len(element') => iCurrentParentElement' \in SelfAndAncestors(last)'
    BY <2>1, <2>2
  <2>5. iCurrentParentElement' # None /\ Elements' # {}
    BY <2>1, <2>2, <2>3
  <2> QED BY <2>1, <2>2, <2>4, <2>5 DEF ReadingInv
<1>2. CASE Leaves
  <2>1. ASSUME NEW s \in Shapes \cup RootShapes, AppendChild(s) PROVE alive' = Elements'
    BY <2>1, AppendChildTree
  <2>2. UNCHANGED tree => alive' = Elements'
    BY <1>2 DEF tree, Elements, ReadingInv, Leaves
  <2>3. alive' = Elements'
    BY <1>2, <2>1, <2>2 DEF Leaves
  <2> QED BY <1>2, <2>3 DEF Leaves, ReadingInv
<1>3. ASSUME UNCHANGED tree
      PROVE  Elements' = Elements /\ \A e : SelfAndAncestors(e)' = SelfAndAncestors(e)
  BY <1>3, SameTreeInv, SameTree DEF tree
<1>4. CASE ReadEndOfElement
  <2>1. /\ stage = "reading" /\ stage' = stage /\ UNCHANGED tree
        /\ iCurrentParentElement # iRootElement
        /\ iCurrentParentElement' = parentNode[iCurrentParentElement]
    BY <1>4 DEF ReadEndOfElement
  <2>2. Len(element) \in Nat
    BY LenProperties DEF TreeInv
  <2>3. Elements # {} /\ iRootElement = 1
    BY <2>1 DEF ReadingInv, TreeInv
  <2>4. Len(element) \in Elements
    BY <2>2, <2>3, NoElements DEF Elements
  <2>5. iCurrentParentElement \in SelfAndAncestors(Len(element))
    BY <2>1, <2>4 DEF ReadingInv
  <2>6. iCurrentParentElement \in Elements
    BY <2>2, <2>4, <2>5, AncestorsBelow DEF Elements
  <2> DEFINE p == parentNode[iCurrentParentElement]
  <2>7. p \in Elements
    BY <2>1, <2>2, <2>3, <2>6 DEF TreeInv, Elements, None
  <2>8. p \in SelfAndAncestors(iCurrentParentElement)
    BY <2>6, <2>7, AncestorsStep, AncestorsBelow
  <2>9. p \in SelfAndAncestors(Len(element))
    BY <2>2, <2>4, <2>5, <2>8, AncestorsTransitive DEF Elements
  <2>10. \A last \in Elements' :
           last = Len(element') => iCurrentParentElement' \in SelfAndAncestors(last)'
    BY <2>1, <2>9, <1>3 DEF tree
  <2>11. iCurrentParentElement' # None
    BY <2>1, <2>7 DEF Elements, None
  <2> QED BY <1>3, <2>1, <2>3, <2>10, <2>11 DEF ReadingInv, tree
<1>5. CASE StartDecoding \/ UNCHANGED vars
  <2>1. UNCHANGED tree /\ UNCHANGED iCurrentParentElement
    BY <1>5 DEF StartDecoding, vars
  <2> QED BY <1>3, <1>5, <2>1 DEF ReadingInv, StartDecoding, tree, vars
<1>6. CASE ReadEndOfFile \/ RemoveFalseElement \/ NoFalseElements \/ RemoveFalseSwitchCase
           \/ NoFalseSwitchCases
  <2>1. stage' \in {"elements", "switches", "done"}
    BY <1>6 DEF ReadEndOfFile, RemoveFalseElement, NoFalseElements, RemoveFalseSwitchCase,
       NoFalseSwitchCases
  <2> QED BY <2>1 DEF ReadingInv
<1>7. CASE Redraw \/ RedrawLeaves
  BY <1>3, <1>7 DEF Redraw, RedrawLeaves, ReadingInv, tree
<1>8. CASE FollowsNull \/ DrawsDeleted
  BY <1>8 DEF FollowsNull, DrawsDeleted, ReadingInv
<1> QED BY <1>1, <1>2, <1>4, <1>5, <1>6, <1>7, <1>8 DEF Next

-----------------------------------------------------------------------------
(* The lists.                                                               *)

\* A list of some of S.
ListOf(list, S) == list \in Seq(Nat) /\ ToSet(list) \subseteq S

ListsInv ==
  /\ ListOf(iUseElementArray, {e \in alive : Kind(e) = "use"})
  /\ ListOf(iAnimRefElementArray, {e \in alive : IsAnimatedElement(e)})
  /\ ListOf(iAnimationElementArray, {e \in alive : IsAnimatedElement(e)})
  /\ ListOf(iReqFetAttSysArray, alive)
  /\ ListOf(iSwitchElementArray, {e \in alive : Kind(e) = "switch"})

\* What goes takes what is below it out of every list.
LEMMA ReferencesRemoved ==
  ASSUME ListsInv, NEW gone, RemoveInternalReferences(gone)
  PROVE  /\ ListOf(iUseElementArray', {e \in alive \ gone : Kind(e) = "use"})
         /\ ListOf(iAnimRefElementArray', {e \in alive \ gone : IsAnimatedElement(e)})
         /\ ListOf(iAnimationElementArray', {e \in alive \ gone : IsAnimatedElement(e)})
         /\ ListOf(iReqFetAttSysArray', alive \ gone)
         /\ ListOf(iSwitchElementArray', {e \in alive \ gone : Kind(e) = "switch"})
         /\ ToSet(iReqFetAttSysArray') = ToSet(iReqFetAttSysArray) \ gone
         /\ ToSet(iSwitchElementArray') = ToSet(iSwitchElementArray) \ gone
<1>1. ASSUME NEW list, NEW S, ListOf(list, S), NEW G
      PROVE  /\ ListOf(WithoutAll(list, G), S \ G)
             /\ ToSet(WithoutAll(list, G)) = ToSet(list) \ G
  BY <1>1, WithoutAllProperties DEF ListOf
<1> DEFINE Uses == {e \in gone : Kind(e) = "use"}
<1> DEFINE Animated == {e \in gone : IsAnimatedElement(e)}
<1> DEFINE Switches == {e \in gone : Kind(e) = "switch"}
<1>2. /\ iUseElementArray' = WithoutAll(iUseElementArray, Uses)
      /\ iSwitchElementArray' = WithoutAll(iSwitchElementArray, Switches)
      /\ iAnimationElementArray' = WithoutAll(iAnimationElementArray, Animated)
      /\ iAnimRefElementArray' = WithoutAll(iAnimRefElementArray, Animated)
      /\ iReqFetAttSysArray' = WithoutAll(iReqFetAttSysArray, gone)
  BY DEF RemoveInternalReferences
<1>3. ListOf(iUseElementArray', {e \in alive : Kind(e) = "use"} \ Uses)
  BY <1>1, <1>2 DEF ListsInv
<1>4. /\ ListOf(iSwitchElementArray', {e \in alive : Kind(e) = "switch"} \ Switches)
      /\ ToSet(iSwitchElementArray') = ToSet(iSwitchElementArray) \ Switches
  BY <1>1, <1>2 DEF ListsInv
<1>5. ListOf(iAnimationElementArray', {e \in alive : IsAnimatedElement(e)} \ Animated)
  BY <1>1, <1>2 DEF ListsInv
<1>6. ListOf(iAnimRefElementArray', {e \in alive : IsAnimatedElement(e)} \ Animated)
  BY <1>1, <1>2 DEF ListsInv
<1>7. /\ ListOf(iReqFetAttSysArray', alive \ gone)
      /\ ToSet(iReqFetAttSysArray') = ToSet(iReqFetAttSysArray) \ gone
  BY <1>1, <1>2 DEF ListsInv
<1>8. /\ {e \in alive : Kind(e) = "use"} \ Uses = {e \in alive \ gone : Kind(e) = "use"}
      /\ {e \in alive : Kind(e) = "switch"} \ Switches = {e \in alive \ gone : Kind(e) = "switch"}
      /\ {e \in alive : IsAnimatedElement(e)} \ Animated
           = {e \in alive \ gone : IsAnimatedElement(e)}
  OBVIOUS
<1>9. ToSet(iSwitchElementArray') = ToSet(iSwitchElementArray) \ gone
  BY <1>4 DEF ListsInv, ListOf
<1> QED BY <1>3, <1>4, <1>5, <1>6, <1>7, <1>8, <1>9

\* What is read is put on the lists, and lives.
LEMMA ReadElementLists ==
  ASSUME TreeInv, ReadingInv, ListsInv, NEW s \in Shapes \cup RootShapes, ReadElement(s)
  PROVE  LET n == Len(element) + 1 IN
         /\ ListsInv'
         /\ ToSet(iReqFetAttSysArray') =
              ToSet(iReqFetAttSysArray) \cup IF HasAnyTests(s) THEN {n} ELSE {}
         /\ ToSet(iSwitchElementArray') =
              ToSet(iSwitchElementArray) \cup IF s.kind = "switch" THEN {n} ELSE {}
<1> DEFINE n == Len(element) + 1
<1>1. /\ Elements' = Elements \cup {n} /\ n \in Nat
      /\ \A e \in Elements : element'[e] = element[e]
      /\ element'[n] = s /\ alive' = Elements' /\ alive = Elements
  BY AppendChildTree DEF ReadElement, AppendChild, ReadingInv
<1>2. Len(element) \in Nat
  BY LenProperties DEF TreeInv
<1> HIDE DEF n
<1>3. /\ n # None /\ \A e \in Elements : e # None
  BY <1>2 DEF n, None, Elements
<1>4. /\ \A e \in Elements : Kind(e)' = Kind(e)
      /\ \A e : e = n => Kind(e)' = s.kind
  BY <1>1, <1>3 DEF Kind
<1>5. /\ \A e \in Elements : IsAnimatedElement(e)' = IsAnimatedElement(e)
      /\ \A e : e = n => (IsAnimatedElement(e)' <=> s.kind \in AnimationKinds \cup {"media"})
  BY <1>4 DEF IsAnimatedElement
<1>6. ASSUME NEW list, NEW S, ListOf(list, S), NEW c \in BOOLEAN
      PROVE  /\ ListOf(AppendIf(list, c, n), S \cup IF c THEN {n} ELSE {})
             /\ ToSet(AppendIf(list, c, n)) = ToSet(list) \cup IF c THEN {n} ELSE {}
  <2>1. /\ AppendIf(list, c, n) \in Seq(Nat)
        /\ ToSet(AppendIf(list, c, n)) = ToSet(list) \cup IF c THEN {n} ELSE {}
    <3>1. list \in Seq(Nat) /\ n \in Nat
      BY <1>1, <1>6 DEF ListOf
    <3>2. CASE c
      BY <3>1, <3>2, AppendToSet DEF AppendIf
    <3>3. CASE ~c
      BY <3>1, <3>3 DEF AppendIf
    <3> QED BY <3>2, <3>3
  <2>2. ToSet(list) \cup (IF c THEN {n} ELSE {}) \subseteq S \cup IF c THEN {n} ELSE {}
    BY <1>6 DEF ListOf
  <2> QED BY <2>1, <2>2 DEF ListOf
<1>7. /\ iUseElementArray' = AppendIf(iUseElementArray, s.kind = "use" /\ s.forward, n)
      /\ iAnimRefElementArray' =
           AppendIf(iAnimRefElementArray, s.kind \in AnimationKinds /\ s.forward, n)
      /\ iReqFetAttSysArray' = AppendIf(iReqFetAttSysArray, HasAnyTests(s), n)
      /\ iSwitchElementArray' = AppendIf(iSwitchElementArray, s.kind = "switch", n)
      /\ iAnimationElementArray' =
           AppendIf(iAnimationElementArray, s.kind \in AnimationKinds \cup {"media"}, n)
  BY DEF ReadElement, DecodeUriRefAttribute, n
<1>8. HasAnyTests(s) \in BOOLEAN /\ s.forward \in BOOLEAN
  BY ShapesAssumption DEF HasAnyTests
<1>9. ListOf(iUseElementArray', {e \in alive : Kind(e) = "use"}')
  <2>1. ListOf(iUseElementArray', {e \in alive : Kind(e) = "use"}
                                    \cup IF s.kind = "use" /\ s.forward THEN {n} ELSE {})
    BY <1>6, <1>7, <1>8 DEF ListsInv
  <2>2. {e \in alive : Kind(e) = "use"} \cup (IF s.kind = "use" /\ s.forward THEN {n} ELSE {})
          \subseteq {e \in alive : Kind(e) = "use"}'
    BY <1>1, <1>4
  <2> QED BY <2>1, <2>2 DEF ListOf
<1>10. ListOf(iAnimRefElementArray', {e \in alive : IsAnimatedElement(e)}')
  <2> DEFINE c == s.kind \in AnimationKinds /\ s.forward
  <2>1. ListOf(iAnimRefElementArray',
               {e \in alive : IsAnimatedElement(e)} \cup IF c THEN {n} ELSE {})
    BY <1>6, <1>7, <1>8 DEF ListsInv
  <2>2. {e \in alive : IsAnimatedElement(e)} \cup (IF c THEN {n} ELSE {})
          \subseteq {e \in alive : IsAnimatedElement(e)}'
    BY <1>1, <1>5
  <2> QED BY <2>1, <2>2 DEF ListOf
<1>11. ListOf(iAnimationElementArray', {e \in alive : IsAnimatedElement(e)}')
  <2> DEFINE c == s.kind \in AnimationKinds \cup {"media"}
  <2>1. ListOf(iAnimationElementArray',
               {e \in alive : IsAnimatedElement(e)} \cup IF c THEN {n} ELSE {})
    <3>1. ListOf(iAnimationElementArray, {e \in alive : IsAnimatedElement(e)}) /\ c \in BOOLEAN
      BY DEF ListsInv
    <3>2. iAnimationElementArray' = AppendIf(iAnimationElementArray, c, n)
      BY <1>7
    <3> HIDE DEF c
    <3> QED BY <1>6, <3>1, <3>2
  <2>2. {e \in alive : IsAnimatedElement(e)} \cup (IF c THEN {n} ELSE {})
          \subseteq {e \in alive : IsAnimatedElement(e)}'
    BY <1>1, <1>5
  <2> QED BY <2>1, <2>2 DEF ListOf
<1>12. /\ ListOf(iReqFetAttSysArray', alive')
       /\ ToSet(iReqFetAttSysArray') =
            ToSet(iReqFetAttSysArray) \cup IF HasAnyTests(s) THEN {n} ELSE {}
  <2>1. /\ ListOf(iReqFetAttSysArray', alive \cup IF HasAnyTests(s) THEN {n} ELSE {})
        /\ ToSet(iReqFetAttSysArray') =
             ToSet(iReqFetAttSysArray) \cup IF HasAnyTests(s) THEN {n} ELSE {}
    BY <1>6, <1>7, <1>8 DEF ListsInv
  <2> QED BY <1>1, <2>1 DEF ListOf
<1>13. /\ ListOf(iSwitchElementArray', {e \in alive : Kind(e) = "switch"}')
       /\ ToSet(iSwitchElementArray') =
            ToSet(iSwitchElementArray) \cup IF s.kind = "switch" THEN {n} ELSE {}
  <2>1. /\ ListOf(iSwitchElementArray', {e \in alive : Kind(e) = "switch"}
                                          \cup IF s.kind = "switch" THEN {n} ELSE {})
        /\ ToSet(iSwitchElementArray') =
             ToSet(iSwitchElementArray) \cup IF s.kind = "switch" THEN {n} ELSE {}
    BY <1>6, <1>7 DEF ListsInv
  <2>2. {e \in alive : Kind(e) = "switch"} \cup (IF s.kind = "switch" THEN {n} ELSE {})
          \subseteq {e \in alive : Kind(e) = "switch"}'
    BY <1>1, <1>4
  <2> QED BY <2>1, <2>2 DEF ListOf
<1> QED BY <1>9, <1>10, <1>11, <1>12, <1>13 DEF ListsInv, n

LEMMA SameKinds ==
  ASSUME UNCHANGED element
  PROVE  /\ \A e : Kind(e)' = Kind(e)
         /\ \A e : IsAnimatedElement(e)' = IsAnimatedElement(e)
BY DEF Kind, IsAnimatedElement

\* What is taken out dies, and is on no list.
LEMMA RemovalLists ==
  ASSUME ListsInv, NEW gone, RemoveInternalReferences(gone), UNCHANGED element,
         alive \ gone \subseteq alive'
  PROVE  ListsInv'
<1>1. /\ ListOf(iUseElementArray', {e \in alive \ gone : Kind(e) = "use"})
      /\ ListOf(iAnimRefElementArray', {e \in alive \ gone : IsAnimatedElement(e)})
      /\ ListOf(iAnimationElementArray', {e \in alive \ gone : IsAnimatedElement(e)})
      /\ ListOf(iReqFetAttSysArray', alive \ gone)
      /\ ListOf(iSwitchElementArray', {e \in alive \ gone : Kind(e) = "switch"})
  BY ReferencesRemoved
<1>2. /\ \A e : Kind(e)' = Kind(e)
      /\ \A e : IsAnimatedElement(e)' = IsAnimatedElement(e)
  BY SameKinds
<1>3. /\ {e \in alive \ gone : Kind(e) = "use"} \subseteq {e \in alive : Kind(e) = "use"}'
      /\ {e \in alive \ gone : Kind(e) = "switch"} \subseteq {e \in alive : Kind(e) = "switch"}'
      /\ {e \in alive \ gone : IsAnimatedElement(e)}
           \subseteq {e \in alive : IsAnimatedElement(e)}'
  BY <1>2
<1> QED BY <1>1, <1>3 DEF ListsInv, ListOf

LEMMA NextLists ==
  TreeInv /\ ReadingInv /\ ListsInv /\ [Next]_vars => ListsInv'
<1> SUFFICES ASSUME TreeInv, ReadingInv, ListsInv, [Next]_vars PROVE ListsInv'
  OBVIOUS
<1>1. ASSUME NEW s \in Shapes \cup RootShapes, ReadElement(s) PROVE ListsInv'
  BY <1>1, ReadElementLists
<1>2. CASE Leaves
  <2>1. ASSUME NEW s \in Shapes \cup RootShapes, AppendChild(s) PROVE ListsInv'
    <3> DEFINE n == Len(element) + 1
    <3>1. /\ alive' = Elements' /\ Elements' = Elements \cup {n} /\ alive = Elements
          /\ \A e \in Elements : element'[e] = element[e]
      BY <2>1, AppendChildTree DEF AppendChild, ReadingInv
    <3>2. \A e \in Elements : Kind(e)' = Kind(e)
      BY <3>1 DEF Kind
    <3>3. \A e \in Elements : IsAnimatedElement(e)' = IsAnimatedElement(e)
      BY <3>2 DEF IsAnimatedElement
    <3>4. /\ {e \in alive : Kind(e) = "use"} \subseteq {e \in alive : Kind(e) = "use"}'
          /\ {e \in alive : Kind(e) = "switch"} \subseteq {e \in alive : Kind(e) = "switch"}'
          /\ {e \in alive : IsAnimatedElement(e)} \subseteq {e \in alive : IsAnimatedElement(e)}'
          /\ alive \subseteq alive'
      BY <3>1, <3>2, <3>3
    <3>5. UNCHANGED lists
      BY <1>2 DEF Leaves
    <3> QED BY <3>4, <3>5 DEF ListsInv, ListOf, lists
  <2>2. CASE UNCHANGED tree
    BY <1>2, <2>2, SameKinds DEF Leaves, ListsInv, ListOf, tree, lists
  <2> QED BY <1>2, <2>1, <2>2 DEF Leaves
<1>3. CASE RemoveFalseElement
  <2> DEFINE e == Last(iReqFetAttSysArray)
  <2>1. CASE VerifyReqExReqFtrSys(element[e])
    <3>1. /\ iReqFetAttSysArray # <<>> /\ iReqFetAttSysArray' = Front(iReqFetAttSysArray)
          /\ UNCHANGED <<alive, iUseElementArray, iSwitchElementArray,
                         iAnimationElementArray, iAnimRefElementArray, element>>
      BY <1>3, <2>1 DEF RemoveFalseElement
    <3>2. ListOf(iReqFetAttSysArray', alive)
      <4>1. /\ iReqFetAttSysArray \in Seq(Nat) /\ iReqFetAttSysArray # <<>>
            /\ ToSet(iReqFetAttSysArray) \subseteq alive
        BY <3>1 DEF ListsInv, ListOf
      <4>2. /\ Front(iReqFetAttSysArray) \in Seq(Nat)
            /\ ToSet(Front(iReqFetAttSysArray)) \subseteq ToSet(iReqFetAttSysArray)
        BY <4>1, FrontProperties
      <4> QED BY <3>1, <4>1, <4>2 DEF ListOf
    <3> QED BY <3>1, <3>2, SameKinds DEF ListsInv, ListOf
  <2>2. CASE ~VerifyReqExReqFtrSys(element[e])
    <3>1. RemoveInternalReferences(Subtree(e)) /\ alive' = alive \ Subtree(e) /\ UNCHANGED element
      BY <1>3, <2>2 DEF RemoveFalseElement, Forgets
    <3> HIDE DEF e
    <3> QED BY <3>1, RemovalLists
  <2> QED BY <2>1, <2>2
<1>4. CASE RemoveFalseSwitchCase
  <2> DEFINE switch == Last(iSwitchElementArray)
  <2> DEFINE removed == Children(switch) \ KeptCases(switch)
  <2> DEFINE gone == UNION {Subtree(c) : c \in removed}
  <2>1. RemoveInternalReferences({switch} \cup gone) /\ alive' = alive \ gone /\ UNCHANGED element
    BY <1>4 DEF RemoveFalseSwitchCase, Forgets
  <2> HIDE DEF gone, switch
  <2>2. alive \ ({switch} \cup gone) \subseteq alive'
    BY <2>1
  <2> QED BY <2>1, <2>2, RemovalLists
<1>5. CASE UNCHANGED <<element, alive, lists>>
  BY <1>5, SameKinds DEF ListsInv, ListOf, lists
<1>6. StartDecoding \/ ReadEndOfElement \/ ReadEndOfFile \/ NoFalseElements \/ NoFalseSwitchCases
        \/ FollowsNull \/ Redraw \/ RedrawLeaves \/ DrawsDeleted \/ UNCHANGED vars
      => UNCHANGED <<element, alive, lists>>
  BY DEF StartDecoding, FollowsNull, ReadEndOfElement, ReadEndOfFile, NoFalseElements,
     NoFalseSwitchCases, Redraw, RedrawLeaves, DrawsDeleted, vars, tree
<1> QED BY <1>1, <1>2, <1>3, <1>4, <1>5, <1>6 DEF Next

-----------------------------------------------------------------------------
(* What is left.  An element is in the tree as long as it passes, with all   *)
(* above it, or is still to be tested; then, as long as no other case of a   *)
(* switch around it was chosen.                                              *)

Stands(e) == VerifyReqExReqFtrSys(element[e]) \/ e \in ToSet(iReqFetAttSysArray)

ElementsInv ==
  stage \in {"start", "reading", "elements"} =>
    /\ alive = {e \in Elements : \A a \in SelfAndAncestors(e) : Stands(a)}
    /\ \A e \in alive : Kind(e) = "switch" => e \in ToSet(iSwitchElementArray)

Chosen(e) ==
  /\ VerifyReqExReqFtrSys(element[e])
  /\ PassesIn(e) \/ parentNode[e] \in ToSet(iSwitchElementArray)

SwitchesInv ==
  /\ stage \in {"switches", "done"} =>
       alive = {e \in Elements : \A a \in SelfAndAncestors(e) : Chosen(a)}
  /\ stage = "done" => iSwitchElementArray = <<>>

LEMMA SameTests ==
  ASSUME UNCHANGED <<element, parentNode>>
  PROVE  \A e : PassesIn(e)' = PassesIn(e)
BY DEF PassesIn, Kind

LEMMA NoTestsPass ==
  ASSUME NEW s, ~HasAnyTests(s) PROVE VerifyReqExReqFtrSys(s)
BY DEF HasAnyTests, VerifyReqExReqFtrSys

LEMMA EmptyToSet == ToSet(<<>>) = {}
BY DEF ToSet

\* What is read with tests has still to be tested.
LEMMA ReadElementStands ==
  ASSUME TreeInv, ReadingInv, ListsInv, ElementsInv,
         NEW s \in Shapes \cup RootShapes, ReadElement(s)
  PROVE  ElementsInv'
<1> DEFINE n == Len(element) + 1
<1>1. /\ TreeInv' /\ Elements' = Elements \cup {n} /\ n \in Nat /\ Len(element') = n
      /\ \A e \in Elements : element'[e] = element[e]
      /\ element'[n] = s /\ alive' = Elements' /\ alive = Elements
      /\ stage = "reading" /\ stage' = "reading"
      /\ iCurrentParentElement \in 0 .. Len(element)
      /\ \A e \in 0 .. Len(element) : SelfAndAncestors(e)' = SelfAndAncestors(e)
      /\ \A e : e = n =>
           SelfAndAncestors(e)' = {e} \cup SelfAndAncestors(iCurrentParentElement)
  BY AppendChildTree DEF ReadElement, AppendChild, ReadingInv
<1>2. /\ ToSet(iReqFetAttSysArray') =
           ToSet(iReqFetAttSysArray) \cup IF HasAnyTests(s) THEN {n} ELSE {}
      /\ ToSet(iSwitchElementArray') =
           ToSet(iSwitchElementArray) \cup IF s.kind = "switch" THEN {n} ELSE {}
  BY ReadElementLists
<1>3. \A e \in 0 .. Len(element) : SelfAndAncestors(e) \subseteq Elements
  BY AncestorsBelow DEF Elements
<1>4. Len(element) \in Nat /\ n # None /\ \A e \in Elements : e # None
  BY LenProperties DEF TreeInv, Elements, None
<1>5. ASSUME NEW a \in Elements' PROVE Stands(a)'
  <2>1. CASE a \in Elements
    <3>1. Stands(a)
      BY <1>1, <2>1, AncestorsBelow DEF ElementsInv
    <3> QED BY <1>1, <1>2, <2>1, <3>1 DEF Stands
  <2>2. CASE a = n
    <3> HIDE DEF n
    <3>1. VerifyReqExReqFtrSys(element'[a]) \/ a \in ToSet(iReqFetAttSysArray')
      BY <1>1, <1>2, <2>2, NoTestsPass
    <3> QED BY <3>1 DEF Stands
  <2> QED BY <1>1, <2>1, <2>2
<1>6. \A e \in Elements' : SelfAndAncestors(e)' \subseteq Elements'
  <2> SUFFICES ASSUME NEW e \in Elements' PROVE SelfAndAncestors(e)' \subseteq Elements'
    OBVIOUS
  <2>1. CASE e \in Elements
    BY <1>1, <1>3, <2>1 DEF Elements
  <2>2. CASE e = n
    BY <1>1, <1>3, <2>2
  <2> QED BY <1>1, <2>1, <2>2
<1>7. ASSUME NEW e \in alive', Kind(e)' = "switch" PROVE e \in ToSet(iSwitchElementArray')
  <2>1. CASE e \in Elements
    <3>1. Kind(e) = "switch"
      BY <1>1, <1>7, <2>1 DEF Kind
    <3> QED BY <1>1, <1>2, <2>1, <3>1 DEF ElementsInv
  <2>2. CASE e = n
    <3>1. s.kind = "switch"
      BY <1>1, <1>4, <1>7, <2>2 DEF Kind
    <3> QED BY <1>2, <2>2, <3>1
  <2> QED BY <1>1, <2>1, <2>2
<1> QED BY <1>1, <1>5, <1>6, <1>7 DEF ElementsInv

\* The last of the elements with tests passes, or goes with all below it.
LEMMA RemoveFalseElementStands ==
  ASSUME TreeInv, ListsInv, ElementsInv, RemoveFalseElement
  PROVE  ElementsInv'
<1> DEFINE e == Last(iReqFetAttSysArray)
<1> DEFINE P == ToSet(iReqFetAttSysArray)
<1>1. /\ iReqFetAttSysArray \in Seq(Nat) /\ iReqFetAttSysArray # <<>>
      /\ P \subseteq alive /\ stage = "elements"
      /\ UNCHANGED <<stage, element, parentNode>>
  BY DEF RemoveFalseElement, ListsInv, ListOf
<1>2. P = ToSet(Front(iReqFetAttSysArray)) \cup {e}
  BY <1>1, FrontProperties
<1>3. e \in alive
  BY <1>1, <1>2
<1>4. /\ alive = {d \in Elements : \A a \in SelfAndAncestors(d) : Stands(a)}
      /\ \A d \in alive : Kind(d) = "switch" => d \in ToSet(iSwitchElementArray)
  BY <1>1 DEF ElementsInv
<1>5. /\ \A d : SelfAndAncestors(d)' = SelfAndAncestors(d) /\ Kind(d)' = Kind(d)
      /\ Elements' = Elements
  BY <1>1, SameTree, SameKinds DEF Elements
<1>6. CASE VerifyReqExReqFtrSys(element[e])
  <2>1. /\ iReqFetAttSysArray' = Front(iReqFetAttSysArray)
        /\ UNCHANGED <<alive, iSwitchElementArray>>
    BY <1>6 DEF RemoveFalseElement
  <2> HIDE DEF e
  <2>2. \A a : Stands(a)' <=> Stands(a)
    BY <1>1, <1>2, <1>6, <2>1 DEF Stands
  <2> QED BY <1>4, <1>5, <2>1, <2>2 DEF ElementsInv
<1>7. CASE ~VerifyReqExReqFtrSys(element[e])
  <2> DEFINE gone == Subtree(e)
  <2>1. RemoveInternalReferences(gone) /\ alive' = alive \ gone
    BY <1>7 DEF RemoveFalseElement, Forgets
  <2> HIDE DEF e
  <2>2. /\ ToSet(iReqFetAttSysArray') = P \ gone
        /\ ToSet(iSwitchElementArray') = ToSet(iSwitchElementArray) \ gone
    BY <2>1, ReferencesRemoved
  <2>3. \A a : Stands(a)' <=> VerifyReqExReqFtrSys(element[a]) \/ a \in P \ gone
    BY <1>1, <2>2 DEF Stands
  <2>4. \A a : Stands(a) <=> VerifyReqExReqFtrSys(element[a]) \/ a \in P
    BY DEF Stands
  <2>5. \A d \in Elements : \A a \in SelfAndAncestors(d) :
          SelfAndAncestors(a) \subseteq SelfAndAncestors(d)
    BY AncestorsTransitive DEF Elements
  <2>6. \A d : d \in gone <=> d \in alive /\ e \in SelfAndAncestors(d)
    BY DEF Subtree
  <2>7. alive \subseteq Elements /\ e \in gone
    BY <1>3, <1>4, <2>6, AncestorsBelow
  <2> HIDE DEF gone, P
  <2>8. ASSUME NEW d \in alive', NEW a \in SelfAndAncestors(d) PROVE Stands(a)'
    <3>1. d \in alive /\ d \notin gone /\ d \in Elements /\ Stands(a)
      BY <1>4, <2>1, <2>7, <2>8
    <3>2. a \notin gone
      BY <2>5, <2>6, <2>8, <3>1
    <3> QED BY <2>3, <2>4, <3>1, <3>2
  <2>9. ASSUME NEW d \in Elements, \A a \in SelfAndAncestors(d) : Stands(a)' PROVE d \in alive'
    <3>1. d \in alive
      BY <1>4, <2>3, <2>4, <2>9
    <3>2. e \notin SelfAndAncestors(d)
      BY <1>7, <2>3, <2>7, <2>9
    <3> QED BY <2>1, <2>6, <3>1, <3>2
  <2>10. alive' = {d \in Elements : \A a \in SelfAndAncestors(d) : Stands(a)'}
    BY <2>1, <2>7, <2>8, <2>9
  <2>11. \A d \in alive' : Kind(d) = "switch" => d \in ToSet(iSwitchElementArray')
    BY <1>4, <2>1, <2>2
  <2> QED BY <1>5, <2>10, <2>11 DEF ElementsInv
<1> QED BY <1>6, <1>7

LEMMA NextElements ==
  TreeInv /\ ReadingInv /\ ListsInv /\ ElementsInv /\ [Next]_vars => ElementsInv'
<1> SUFFICES ASSUME TreeInv, ReadingInv, ListsInv, ElementsInv, [Next]_vars PROVE ElementsInv'
  OBVIOUS
<1>1. ASSUME NEW s \in Shapes \cup RootShapes, ReadElement(s) PROVE ElementsInv'
  BY <1>1, ReadElementStands
<1>2. CASE RemoveFalseElement
  BY <1>2, RemoveFalseElementStands
<1>3. CASE /\ stage \in {"start", "reading", "elements"}
           /\ UNCHANGED <<element, parentNode, alive, iReqFetAttSysArray, iSwitchElementArray>>
  <2>1. /\ \A d : SelfAndAncestors(d)' = SelfAndAncestors(d) /\ Kind(d)' = Kind(d)
        /\ Elements' = Elements
    BY <1>3, SameTree, SameKinds DEF Elements
  <2>2. \A a : Stands(a)' <=> Stands(a)
    BY <1>3 DEF Stands
  <2> QED BY <1>3, <2>1, <2>2 DEF ElementsInv
<1>4. CASE stage' \notin {"start", "reading", "elements"}
  BY <1>4 DEF ElementsInv
<1>5. \/ stage' \notin {"start", "reading", "elements"}
      \/ RemoveFalseElement \/ \E s \in Shapes \cup RootShapes : ReadElement(s)
      \/ /\ stage \in {"start", "reading", "elements"}
         /\ UNCHANGED <<element, parentNode, alive, iReqFetAttSysArray, iSwitchElementArray>>
  BY DEF Next, StartDecoding, FollowsNull, Leaves, ReadEndOfElement, ReadEndOfFile,
     NoFalseElements, RemoveFalseSwitchCase, NoFalseSwitchCases, Redraw, RedrawLeaves,
     DrawsDeleted, vars, tree, lists
<1> QED BY <1>1, <1>2, <1>3, <1>4, <1>5

\* The first stage ends: whatever passes, with all above it, waits for its switches.
LEMMA NoFalseElementsChosen ==
  ASSUME TreeInv, ElementsInv, NoFalseElements
  PROVE  alive = {e \in Elements : \A a \in SelfAndAncestors(e) : Chosen(a)}
<1>1. /\ alive = {d \in Elements : \A a \in SelfAndAncestors(d) : Stands(a)}
      /\ \A d \in alive : Kind(d) = "switch" => d \in ToSet(iSwitchElementArray)
  BY DEF ElementsInv, NoFalseElements
<1>2. \A a : Stands(a) <=> VerifyReqExReqFtrSys(element[a])
  BY EmptyToSet DEF Stands, NoFalseElements
<1>3. ASSUME NEW e \in alive, NEW a \in SelfAndAncestors(e) PROVE Chosen(a)
  <2>1. VerifyReqExReqFtrSys(element[a]) /\ e \in Elements
    BY <1>1, <1>2, <1>3
  <2>2. a \in Elements /\ SelfAndAncestors(a) \subseteq SelfAndAncestors(e)
    BY <1>3, <2>1, AncestorsBelow, AncestorsTransitive DEF Elements
  <2>3. CASE Kind(parentNode[a]) # "switch"
    BY <2>1, <2>3 DEF Chosen, PassesIn
  <2>4. CASE Kind(parentNode[a]) = "switch"
    <3> DEFINE p == parentNode[a]
    <3>1. p # None
      BY <2>4 DEF Kind
    <3>2. p \in 0 .. a - 1 /\ a \in Nat
      BY <2>2 DEF TreeInv, Elements
    <3>3. p \in Elements
      BY <2>2, <3>1, <3>2 DEF Elements, None
    <3> HIDE DEF p
    <3>4. p \in SelfAndAncestors(a)
      BY <2>2, <3>3, AncestorsStep, AncestorsBelow DEF p
    <3>5. SelfAndAncestors(p) \subseteq SelfAndAncestors(e)
      BY <2>1, <2>2, <3>4, AncestorsTransitive DEF Elements
    <3>6. p \in alive
      BY <1>1, <1>3, <3>3, <3>5
    <3>7. p \in ToSet(iSwitchElementArray)
      BY <1>1, <2>4, <3>6 DEF p
    <3> QED BY <2>1, <3>7 DEF Chosen, p
  <2> QED BY <2>3, <2>4
<1>4. \A a : Chosen(a) => Stands(a)
  BY <1>2 DEF Chosen
<1> QED BY <1>1, <1>3, <1>4

\* Of the children of the last switch the one that is chosen for good stays.
LEMMA RemoveFalseSwitchCaseChosen ==
  ASSUME TreeInv, ListsInv, SwitchesInv, RemoveFalseSwitchCase
  PROVE  SwitchesInv'
<1> DEFINE switch == Last(iSwitchElementArray)
<1> DEFINE P == ToSet(iSwitchElementArray)
<1> DEFINE removed == Children(switch) \ KeptCases(switch)
<1> DEFINE gone == UNION {Subtree(c) : c \in removed}
<1>1. /\ iSwitchElementArray \in Seq(Nat) /\ iSwitchElementArray # <<>>
      /\ P \subseteq {e \in alive : Kind(e) = "switch"} /\ stage = "switches"
      /\ UNCHANGED <<stage, element, parentNode>>
  BY DEF RemoveFalseSwitchCase, ListsInv, ListOf
<1>2. switch \in P
  BY <1>1, FrontProperties
<1>3. alive = {d \in Elements : \A a \in SelfAndAncestors(d) : Chosen(a)}
  BY <1>1 DEF SwitchesInv
<1>4. switch \in alive /\ Kind(switch) = "switch" /\ alive \subseteq Elements
  BY <1>1, <1>2, <1>3
<1>5. RemoveInternalReferences({switch} \cup gone) /\ alive' = alive \ gone
  BY DEF RemoveFalseSwitchCase, Forgets
<1> HIDE DEF switch
<1>6. ToSet(iSwitchElementArray') = P \ ({switch} \cup gone)
  BY <1>5, ReferencesRemoved
<1>7. /\ \A d \in Elements : \A a \in SelfAndAncestors(d) :
           a \in Elements /\ SelfAndAncestors(a) \subseteq SelfAndAncestors(d)
      /\ \A d \in Elements : d \in SelfAndAncestors(d) /\ d \in Nat
  BY AncestorsTransitive, AncestorsBelow DEF Elements
<1>8. \A c : c \in Children(switch) <=> c \in alive /\ parentNode[c] = switch
  BY DEF Children
<1>9. \A c \in alive : VerifyReqExReqFtrSys(element[c])
  BY <1>3, <1>7 DEF Chosen
<1>10. ASSUME NEW c \in Elements, parentNode[c] = switch, VerifyReqExReqFtrSys(element[c])
       PROVE  c \in Children(switch)
  <2>1. SelfAndAncestors(c) = {c} \cup SelfAndAncestors(switch)
    BY <1>10, AncestorsStep
  <2>2. Chosen(c)
    BY <1>2, <1>10 DEF Chosen
  <2>3. c \in alive
    BY <1>3, <1>4, <2>1, <2>2
  <2> QED BY <1>8, <1>10, <2>3
<1>11. TrueCases(switch) = Children(switch)
  BY <1>8, <1>9 DEF TrueCases
<1>12. DOMAIN element = Elements
  BY LenProperties DEF TreeInv, Elements
<1>13. ASSUME NEW c \in Children(switch) PROVE c \in KeptCases(switch) <=> PassesIn(c)
  <2>1. PassesIn(c) <=>
          \A d \in Elements : parentNode[d] = switch /\ d < c => ~VerifyReqExReqFtrSys(element[d])
    BY <1>4, <1>8, <1>9, <1>12 DEF PassesIn
  <2>2. c \in KeptCases(switch) <=> \A d \in Children(switch) : c <= d
    BY <1>11 DEF KeptCases
  <2>3. ASSUME PassesIn(c), NEW d \in Children(switch) PROVE c <= d
    <3>1. d \in Elements /\ d \in Nat /\ c \in Nat /\ parentNode[d] = switch
      BY <1>4, <1>7, <1>8
    <3>2. ~(d < c)
      BY <1>8, <1>9, <2>1, <2>3, <3>1
    <3> QED BY <3>1, <3>2
  <2>4. ASSUME \A d \in Children(switch) : c <= d,
               NEW d \in Elements, parentNode[d] = switch, d < c, VerifyReqExReqFtrSys(element[d])
        PROVE  FALSE
    <3>1. d \in Children(switch) /\ d \in Nat /\ c \in Nat
      BY <1>4, <1>7, <1>8, <1>10, <2>4
    <3>2. c <= d
      BY <2>4, <3>1
    <3> QED BY <2>4, <3>1, <3>2
  <2> QED BY <2>1, <2>2, <2>3, <2>4
<1>14. \A d : d \in gone <=>
         \E c \in Children(switch) :
           ~PassesIn(c) /\ d \in alive /\ c \in SelfAndAncestors(d)
  BY <1>13 DEF Subtree
<1> HIDE DEF gone
<1>15. \A e : /\ SelfAndAncestors(e)' = SelfAndAncestors(e)
              /\ PassesIn(e)' = PassesIn(e)
  BY <1>1, SameTree, SameTests
<1>16. \A a : Chosen(a)' <=>
         /\ VerifyReqExReqFtrSys(element[a])
         /\ PassesIn(a) \/ parentNode[a] \in P \ ({switch} \cup gone)
  BY <1>1, <1>6, <1>15 DEF Chosen
<1>17. \A a : Chosen(a) <=>
         VerifyReqExReqFtrSys(element[a]) /\ (PassesIn(a) \/ parentNode[a] \in P)
  BY DEF Chosen
<1> HIDE DEF P
<1>18. ASSUME NEW d \in alive', NEW a \in SelfAndAncestors(d) PROVE Chosen(a)'
  <2>1. d \in alive /\ d \notin gone /\ d \in Elements /\ Chosen(a)
    BY <1>3, <1>4, <1>5, <1>18
  <2>2. a \in Elements /\ SelfAndAncestors(a) \subseteq SelfAndAncestors(d)
    BY <1>7, <1>18, <2>1
  <2>3. a \in alive
    BY <1>3, <2>1, <2>2
  <2>4. ASSUME parentNode[a] = switch PROVE PassesIn(a)
    <3>1. a \in Children(switch)
      BY <1>8, <2>3, <2>4
    <3> QED BY <1>14, <1>18, <2>1, <3>1
  <2>5. ASSUME parentNode[a] \in gone PROVE FALSE
    <3>1. PICK c \in Children(switch) : /\ ~PassesIn(c) /\ parentNode[a] \in alive
                                        /\ c \in SelfAndAncestors(parentNode[a])
      BY <1>14, <2>5
    <3>2. parentNode[a] \in SelfAndAncestors(parentNode[a])
      BY <1>4, <1>7, <3>1
    <3>3. SelfAndAncestors(parentNode[a]) \subseteq SelfAndAncestors(a)
      BY <2>2, AncestorsStep
    <3>4. c \in SelfAndAncestors(d)
      BY <2>2, <3>1, <3>3
    <3> QED BY <1>14, <2>1, <3>1, <3>4
  <2> QED BY <1>16, <1>17, <2>1, <2>4, <2>5
<1>19. ASSUME NEW d \in Elements, \A a \in SelfAndAncestors(d) : Chosen(a)' PROVE d \in alive'
  <2>1. d \in alive
    BY <1>3, <1>16, <1>17, <1>19
  <2>2. ASSUME d \in gone PROVE FALSE
    <3>1. PICK c \in Children(switch) : ~PassesIn(c) /\ c \in SelfAndAncestors(d)
      BY <1>14, <2>2
    <3>2. Chosen(c)' /\ parentNode[c] = switch
      BY <1>8, <1>19, <3>1
    <3> QED BY <1>16, <3>1, <3>2
  <2> QED BY <1>5, <2>1, <2>2
<1>20. alive' = {d \in Elements : \A a \in SelfAndAncestors(d) : Chosen(a)'}
  BY <1>4, <1>5, <1>18, <1>19
<1>21. Elements' = Elements
  BY <1>1 DEF Elements
<1> QED BY <1>1, <1>15, <1>20, <1>21 DEF SwitchesInv

LEMMA NextSwitches ==
  TreeInv /\ ReadingInv /\ ListsInv /\ ElementsInv /\ SwitchesInv /\ [Next]_vars => SwitchesInv'
<1> SUFFICES ASSUME TreeInv, ReadingInv, ListsInv, ElementsInv, SwitchesInv, [Next]_vars
             PROVE  SwitchesInv'
  OBVIOUS
<1>1. CASE RemoveFalseSwitchCase
  BY <1>1, RemoveFalseSwitchCaseChosen
<1>2. CASE /\ alive = {e \in Elements : \A a \in SelfAndAncestors(e) : Chosen(a)}
           /\ UNCHANGED <<element, parentNode, alive, iSwitchElementArray>>
           /\ stage' = "done" => iSwitchElementArray = <<>>
  <2>1. /\ \A d : SelfAndAncestors(d)' = SelfAndAncestors(d) /\ PassesIn(d)' = PassesIn(d)
        /\ Elements' = Elements
    BY <1>2, SameTree, SameTests DEF Elements
  <2>2. \A a : Chosen(a)' <=> Chosen(a)
    BY <1>2, <2>1 DEF Chosen
  <2> QED BY <1>2, <2>1, <2>2 DEF SwitchesInv
<1>3. CASE NoFalseElements
  <2>1. /\ alive = {e \in Elements : \A a \in SelfAndAncestors(e) : Chosen(a)}
        /\ UNCHANGED <<element, parentNode, alive, iSwitchElementArray>>
        /\ stage' = "switches"
    BY <1>3, NoFalseElementsChosen DEF NoFalseElements, tree, lists
  <2> QED BY <1>2, <2>1
<1>4. CASE /\ stage \in {"switches", "done"}
           /\ NoFalseSwitchCases \/ Redraw \/ RedrawLeaves \/ UNCHANGED vars
  <2>1. /\ UNCHANGED <<element, parentNode, alive, iSwitchElementArray>>
        /\ stage' = "done" => iSwitchElementArray = <<>>
    BY <1>4 DEF NoFalseSwitchCases, Redraw, RedrawLeaves, vars, tree, lists, SwitchesInv
  <2> QED BY <1>2, <1>4, <2>1 DEF SwitchesInv
<1>5. CASE stage' \notin {"switches", "done"}
  BY <1>5 DEF SwitchesInv
<1>6. \/ stage' \notin {"switches", "done"}
      \/ NoFalseElements \/ RemoveFalseSwitchCase
      \/ /\ stage \in {"switches", "done"}
         /\ NoFalseSwitchCases \/ Redraw \/ RedrawLeaves \/ UNCHANGED vars
  BY DEF Next, StartDecoding, ReadElement, AppendChild, FollowsNull, Leaves, ReadEndOfElement,
     ReadEndOfFile, RemoveFalseElement, NoFalseSwitchCases, Redraw, RedrawLeaves, DrawsDeleted,
     vars
<1> QED BY <1>1, <1>3, <1>4, <1>5, <1>6

DecoderInv == TreeInv /\ NestedInv /\ ReadingInv /\ ListsInv /\ ElementsInv /\ SwitchesInv

LEMMA InitDecoder == Init => DecoderInv
<1> SUFFICES ASSUME Init PROVE DecoderInv
  OBVIOUS
<1>1. /\ element = <<>> /\ parentNode = <<>> /\ alive = {} /\ stage = "start"
      /\ iCurrentParentElement = None /\ iRootElement = None
      /\ iUseElementArray = <<>> /\ iAnimRefElementArray = <<>> /\ iAnimationElementArray = <<>>
      /\ iReqFetAttSysArray = <<>> /\ iSwitchElementArray = <<>>
  BY DEF Init
<1>2. Len(element) = 0
  BY <1>1
<1>3. Elements = {}
  BY <1>2, NoElements
<1>4. TreeInv
  BY <1>1, <1>2, <1>3 DEF TreeInv
<1>5. ListsInv
  BY <1>1, EmptyToSet DEF ListsInv, ListOf
<1> QED BY <1>1, <1>3, <1>4, <1>5 DEF DecoderInv, NestedInv, ReadingInv, ElementsInv, SwitchesInv

LEMMA NextDecoder == DecoderInv /\ [Next]_vars => DecoderInv'
BY NextTree, NextReading, NextLists, NextElements, NextSwitches DEF DecoderInv

(* None of the five lists of elements to be looked at again has one that was      *)
(* deleted, in any file.                                                   *)
THEOREM ListsStayAlive == Spec => []ListsAlive
<1>1. DecoderInv => ListsAlive
  <2> SUFFICES ASSUME DecoderInv PROVE ListsAlive
    OBVIOUS
  <2>1. /\ ToSet(iUseElementArray) \subseteq alive
        /\ ToSet(iAnimRefElementArray) \subseteq alive
        /\ ToSet(iAnimationElementArray) \subseteq alive
        /\ ToSet(iReqFetAttSysArray) \subseteq alive
        /\ ToSet(iSwitchElementArray) \subseteq alive
    BY DEF DecoderInv, ListsInv, ListOf
  <2>2. \A i \in DOMAIN lists : ToSet(lists[i]) \subseteq alive
    BY <2>1 DEF lists
  <2>3. \A list \in ToSet(lists) : ToSet(list) \subseteq alive
    BY <2>2 DEF ToSet
  <2> QED BY <2>3 DEF ListsAlive
<1> QED BY InitDecoder, NextDecoder, <1>1, PTL DEF Spec

(* What is left when the decoder is done is what passes, with all above it,   *)
(* and of each switch the first case that does.                              *)
THEOREM WhatPassesIsLeft == Spec => []LeavesWhatPasses
<1>1. DecoderInv => LeavesWhatPasses
  <2> SUFFICES ASSUME DecoderInv, stage = "done" PROVE LeavesWhatPasses
    BY DEF LeavesWhatPasses
  <2>1. /\ alive = {e \in Elements : \A a \in SelfAndAncestors(e) : Chosen(a)}
        /\ ToSet(iSwitchElementArray) = {}
    BY EmptyToSet DEF DecoderInv, SwitchesInv
  <2>2. \A a : Chosen(a) <=> PassesIn(a)
    BY <2>1 DEF Chosen, PassesIn
  <2>3. DOMAIN element = Elements
    BY LenProperties DEF DecoderInv, TreeInv, Elements
  <2> QED BY <2>1, <2>2, <2>3 DEF LeavesWhatPasses
<1> QED BY InitDecoder, NextDecoder, <1>1, PTL DEF Spec

-----------------------------------------------------------------------------
(* Drawing.  What is drawn from an element on is itself, what is below it and *)
(* what is below the siblings that follow; all of these have later numbers.  *)

\* What is left is a tree, if the root is.
LEMMA AliveTree ==
  ASSUME DecoderInv, stage # "crashed"
  PROVE  /\ alive \subseteq Elements
         /\ \A e \in alive : SelfAndAncestors(e) \subseteq alive
<1> USE DEF DecoderInv
<1>1. ASSUME NEW e \in Elements, NEW a \in SelfAndAncestors(e)
      PROVE  a \in Elements /\ SelfAndAncestors(a) \subseteq SelfAndAncestors(e)
  BY <1>1, AncestorsBelow, AncestorsTransitive DEF Elements
<1>3. CASE stage \in {"start", "reading", "left"}
  BY <1>1, <1>3 DEF ReadingInv
<1>4. CASE stage = "elements"
  <2>1. alive = {e \in Elements : \A a \in SelfAndAncestors(e) : Stands(a)}
    BY <1>4 DEF ElementsInv
  <2> QED BY <1>1, <2>1
<1>5. CASE stage \in {"switches", "done"}
  <2>1. alive = {e \in Elements : \A a \in SelfAndAncestors(e) : Chosen(a)}
    BY <1>5 DEF SwitchesInv
  <2> QED BY <1>1, <2>1
<1> QED BY <1>3, <1>4, <1>5 DEF ReadingInv

\* What Least returns.
LEMMA LeastProperties ==
  ASSUME NEW S \in SUBSET Nat
  PROVE  /\ S = {} => Least(S) = None
         /\ S # {} => Least(S) \in S /\ \A d \in S : Least(S) <= d
<1>1. S # {} => \E c \in S : \A d \in S : c <= d
  BY LeastElement
<1> QED BY <1>1 DEF Least

\* Children have later numbers, and the first child is the first of them.
LEMMA ChildrenLater ==
  ASSUME TreeInv, alive \subseteq Elements, NEW e \in 0 .. Len(element)
  PROVE  /\ Children(e) \subseteq Elements /\ \A c \in Children(e) : c > e
         /\ FirstChild(e) # None =>
              /\ FirstChild(e) \in Children(e) /\ FirstChild(e) > e
              /\ \A c \in Children(e) : FirstChild(e) <= c
         /\ FirstChild(e) = None => Children(e) = {}
         /\ FirstChild(e) \in 0 .. Len(element)
<1>1. Len(element) \in Nat /\ Elements \subseteq Nat
  BY LenProperties DEF TreeInv, Elements
<1>2. \A c \in Children(e) : c \in Elements /\ parentNode[c] = e
  BY DEF Children
<1>3. \A c \in Children(e) : c > e
  BY <1>1, <1>2 DEF TreeInv, Elements
<1>4. Children(e) \in SUBSET Nat /\ None \notin Children(e)
  BY <1>1, <1>2 DEF Elements, None
<1> QED BY <1>1, <1>2, <1>3, <1>4, LeastProperties DEF FirstChild, Elements, None

LaterSiblings(e) == {c \in alive : parentNode[c] = parentNode[e] /\ c > e}

\* The next sibling is the first of the siblings with later numbers.
LEMMA SiblingsLater ==
  ASSUME TreeInv, alive \subseteq Elements, NEW e \in 0 .. Len(element)
  PROVE  /\ NextSibling(e) # None =>
              /\ NextSibling(e) \in LaterSiblings(e) /\ NextSibling(e) > e
              /\ \A c \in LaterSiblings(e) : NextSibling(e) <= c
         /\ NextSibling(e) = None => LaterSiblings(e) = {}
         /\ NextSibling(e) \in 0 .. Len(element)
<1>1. Len(element) \in Nat /\ Elements \subseteq Nat
  BY LenProperties DEF TreeInv, Elements
<1>2. LaterSiblings(e) \subseteq Elements /\ \A c \in LaterSiblings(e) : c > e
  BY DEF LaterSiblings
<1>3. LaterSiblings(e) \in SUBSET Nat /\ None \notin LaterSiblings(e)
  BY <1>1, <1>2 DEF Elements, None
<1>4. NextSibling(e) = Least(LaterSiblings(e))
  BY DEF NextSibling, LaterSiblings
<1>5. /\ NextSibling(e) # None =>
           NextSibling(e) \in LaterSiblings(e) /\ \A c \in LaterSiblings(e) : NextSibling(e) <= c
      /\ NextSibling(e) = None => LaterSiblings(e) = {}
  BY <1>3, <1>4, LeastProperties
<1>6. None \in 0 .. Len(element) /\ Elements \subseteq 0 .. Len(element)
  BY <1>1 DEF Elements, None
<1> QED BY <1>2, <1>5, <1>6

\* Drawing an element looks at later ones only.
LEMMA DrawingUses ==
  ASSUME TreeInv, alive \subseteq Elements, NEW e \in 0 .. Len(element), NEW bound \in Nat,
         NEW f, NEW h, \A b \in Nat : f[None][b] = h[None][b],
         \A d \in Elements : d > e => \A b \in Nat : f[d][b] = h[d][b]
  PROVE  Drawing(f, e, bound) = Drawing(h, e, bound)
<1> DEFINE inner == bound + IF Look(e) = "translucent" THEN 1 ELSE 0
<1>0. Len(element) \in Nat /\ inner \in Nat
  BY LenProperties DEF TreeInv
<1>1. CASE e = None
  BY <1>1 DEF Drawing
<1>2. CASE e # None /\ Look(e) = "bare"
  <2>1. \A c \in 1 .. Len(element) : c \in Children(e) => f[c][bound] = h[c][bound]
    BY ChildrenLater
  <2>2. [c \in 1 .. Len(element) |-> IF c \in Children(e) THEN f[c][bound] ELSE <<>>]
          = [c \in 1 .. Len(element) |-> IF c \in Children(e) THEN h[c][bound] ELSE <<>>]
    BY <2>1
  <2> QED BY <1>2, <2>2 DEF Drawing
<1>3. CASE e # None /\ Look(e) # "bare"
  <2> HIDE DEF inner
  <2>1. f[FirstChild(e)][inner] = h[FirstChild(e)][inner]
    BY <1>0, ChildrenLater DEF Elements
  <2>2. f[NextSibling(e)][bound] = h[NextSibling(e)][bound]
    BY <1>0, SiblingsLater DEF Elements
  <2> USE DEF inner
  <2> QED BY <1>3, <2>1, <2>2 DEF Drawing, BoundAfter
<1> QED BY <1>1, <1>2, <1>3

\* So there is one drawing from every element on.
Draw == CHOOSE f : f = [e \in 0 .. Len(element) |-> [bound \in Nat |-> Drawing(f, e, bound)]]

LEMMA DrawStep ==
  ASSUME TreeInv, alive \subseteq Elements
  PROVE  \A e \in 0 .. Len(element) : \A bound \in Nat : Draw[e][bound] = Drawing(Draw, e, bound)
<1> DEFINE m == Len(element)
<1> DEFINE Fits(f, k) ==
      \A e \in 0 .. m : e = 0 \/ e > m - k => \A b \in Nat : f[e][b] = Drawing(f, e, b)
<1> DEFINE T == {k \in Nat : k <= m => \E f : Fits(f, k)}
<1>0. m \in Nat /\ None = 0
  BY LenProperties DEF TreeInv, None
<1>1. 0 \in T
  <2> DEFINE f == [e \in 0 .. m |-> [b \in Nat |-> <<>>]]
  <2>1. \A b \in Nat : f[0][b] = <<>>
    BY <1>0
  <2>2. \A b \in Nat : Drawing(f, 0, b) = <<>>
    BY <1>0 DEF Drawing
  <2> HIDE DEF f
  <2>3. Fits(f, 0)
    BY <1>0, <2>1, <2>2
  <2> HIDE DEF Fits
  <2> QED BY <2>3
<1>2. ASSUME NEW k \in T PROVE k + 1 \in T
  <2> SUFFICES ASSUME k + 1 <= m PROVE \E f : Fits(f, k + 1)
    OBVIOUS
  <2>0. k \in Nat
    OBVIOUS
  <2>1. PICK f : Fits(f, k)
    BY <1>0
  <2> DEFINE h == [e \in 0 .. m |->
                     [b \in Nat |-> IF e = m - k THEN Drawing(f, e, b) ELSE f[e][b]]]
  <2>2. \A e \in 0 .. m : \A b \in Nat :
          h[e][b] = IF e = m - k THEN Drawing(f, e, b) ELSE f[e][b]
    OBVIOUS
  <2> HIDE DEF h
  <2>3. ASSUME NEW e \in 0 .. m, e = 0 \/ e > m - (k + 1), NEW b \in Nat
        PROVE  h[e][b] = Drawing(h, e, b)
    <3>1. m - k # 0
      BY <1>0, <2>0
    <3>2. \A c \in Nat : f[None][c] = h[None][c]
      BY <1>0, <2>2, <3>1
    <3>3. CASE e = 0
      BY <1>0, <2>1, <2>2, <3>1, <3>3 DEF Drawing
    <3>4. CASE e # 0
      <4>1. \A d \in Elements : d > e => \A c \in Nat : f[d][c] = h[d][c]
        BY <1>0, <2>0, <2>2, <2>3, <3>4 DEF Elements
      <4> HIDE DEF m
      <4>2. Drawing(f, e, b) = Drawing(h, e, b)
        BY <3>2, <4>1, DrawingUses DEF m
      <4>3. e # m - k => f[e][b] = Drawing(f, e, b)
        BY <1>0, <2>0, <2>1, <2>3, <3>4
      <4> QED BY <2>2, <4>2, <4>3
    <3> QED BY <3>3, <3>4
  <2>4. Fits(h, k + 1)
    BY <2>3
  <2> HIDE DEF Fits
  <2> QED BY <2>4
<1> HIDE DEF T
<1>3. T = Nat
  BY <1>1, <1>2, InductionBySet DEF T
<1>4. \E f : Fits(f, m)
  <2> HIDE DEF Fits, m
  <2> QED BY <1>0, <1>3 DEF T
<1>5. PICK f : Fits(f, m)
  BY <1>4
<1> DEFINE Follows(g) == g = [e \in 0 .. m |-> [b \in Nat |-> Drawing(g, e, b)]]
<1> DEFINE g == [e \in 0 .. m |-> [b \in Nat |-> f[e][b]]]
<1>6. ASSUME NEW e \in 0 .. m, NEW b \in Nat PROVE f[e][b] = Drawing(g, e, b)
  <2>1. f[e][b] = Drawing(f, e, b)
    BY <1>0, <1>5
  <2>2. \A d \in 0 .. m : \A c \in Nat : f[d][c] = g[d][c]
    OBVIOUS
  <2> HIDE DEF g
  <2>3. /\ \A c \in Nat : f[None][c] = g[None][c]
        /\ \A d \in Elements : d > e => \A c \in Nat : f[d][c] = g[d][c]
    BY <1>0, <2>2 DEF Elements
  <2>4. Drawing(f, e, b) = Drawing(g, e, b)
    BY <2>3, DrawingUses
  <2> QED BY <2>1, <2>4
<1>7. Follows(g)
  BY <1>6
<1> HIDE DEF g
<1>8. Follows(Draw)
  <2>1. Draw = CHOOSE u : Follows(u)
    BY DEF Draw
  <2> HIDE DEF Follows
  <2> QED BY <1>7, <2>1
<1> DEFINE u == Draw
<1>9. u = [e \in 0 .. m |-> [b \in Nat |-> Drawing(u, e, b)]]
  BY <1>8
<1> HIDE DEF u, m
<1>10. \A e \in 0 .. m : \A b \in Nat : u[e][b] = Drawing(u, e, b)
  <2>1. \A e \in 0 .. m : u[e] = [b \in Nat |-> Drawing(u, e, b)]
    BY <1>9
  <2> QED BY <2>1
<1> QED BY <1>10 DEF u, m

-----------------------------------------------------------------------------
(* What is below what.                                                      *)

\* What can be drawn: a tree of which the elements that are alive are the top.
Drawable ==
  /\ TreeInv /\ NestedInv
  /\ alive \subseteq Elements
  /\ \A e \in alive : SelfAndAncestors(e) \subseteq alive

Under(d, a) == a = None \/ a \in SelfAndAncestors(d)

\* Below an element, the way up goes through a child of it.
LEMMA ChildTowards ==
  ASSUME TreeInv
  PROVE  \A d \in Elements : \A a : Under(d, a) /\ a # d =>
           \E x \in SelfAndAncestors(d) : parentNode[x] = a
<1> DEFINE m == Len(element)
<1> DEFINE T == {d \in 0 .. m : d # 0 => \A a : Under(d, a) /\ a # d =>
                   \E x \in SelfAndAncestors(d) : parentNode[x] = a}
<1>0. m \in Nat
  BY LenProperties DEF TreeInv
<1>1. ASSUME NEW d \in 0 .. m, \A k \in 0 .. d - 1 : k \in T PROVE d \in T
  <2> SUFFICES ASSUME d # 0, NEW a, Under(d, a), a # d
               PROVE  \E x \in SelfAndAncestors(d) : parentNode[x] = a
    OBVIOUS
  <2>1. d \in Elements
    BY <1>0 DEF Elements
  <2>2. /\ SelfAndAncestors(d) = {d} \cup SelfAndAncestors(parentNode[d])
        /\ parentNode[d] \in 0 .. d - 1 /\ SelfAndAncestors(None) = {}
    BY <2>1, AncestorsStep DEF TreeInv
  <2>3. CASE parentNode[d] = a
    BY <2>2, <2>3
  <2>4. CASE parentNode[d] # a
    <3>1. Under(parentNode[d], a)
      BY <2>2 DEF Under
    <3>2. parentNode[d] # 0
      BY <2>2, <2>4, <3>1 DEF Under, None
    <3>3. \E x \in SelfAndAncestors(parentNode[d]) : parentNode[x] = a
      BY <1>1, <2>2, <2>4, <3>1, <3>2
    <3> QED BY <2>2, <3>3
  <2> QED BY <2>3, <2>4
<1> HIDE DEF T
<1>2. \A d \in 0 .. m : d \in T
  BY <1>0, <1>1, StrongInduction
<1> QED BY <1>0, <1>2 DEF T, Elements

\* Nothing above an element begins between an earlier element and its parent.
LEMMA NothingBetween ==
  ASSUME TreeInv, NestedInv, NEW x \in Elements, NEW d \in Elements, d >= x,
         NEW a \in SelfAndAncestors(d), a < x
  PROVE  a <= parentNode[x]
<1>1. Len(element) \in Nat /\ a \in 1 .. d /\ parentNode[x] \in 0 .. x - 1
  BY AncestorsBelow, LenProperties DEF TreeInv, Elements
<1>2. x \in a .. d
  BY <1>1 DEF Elements
<1>3. a \in SelfAndAncestors(x)
  BY <1>2 DEF NestedInv
<1>4. a \in SelfAndAncestors(parentNode[x])
  BY <1>3, AncestorsStep DEF Elements
<1>5. parentNode[x] \in 0 .. Len(element)
  BY <1>1 DEF Elements
<1>6. SelfAndAncestors(parentNode[x]) \subseteq 1 .. parentNode[x]
  BY <1>5, AncestorsBelow
<1> QED BY <1>1, <1>4, <1>6

\* What is drawn from an element on: what is below it and below later siblings.
Forest(e) == IF e = None THEN {} ELSE {d \in alive : d >= e /\ Under(d, parentNode[e])}

\* A forest is what is below its first element, and then the rest of it.
LEMMA ForestIsSubtreeAndSiblings ==
  ASSUME Drawable, NEW e \in alive
  PROVE  /\ Forest(e) = Subtree(e) \cup Forest(NextSibling(e))
         /\ \A d \in Subtree(e) : \A f \in Forest(NextSibling(e)) : d < f
<1> DEFINE n == NextSibling(e)
<1> DEFINE p == parentNode[e]
<1>0. /\ TreeInv /\ NestedInv /\ alive \subseteq Elements /\ e \in Elements /\ e # None
      /\ Len(element) \in Nat /\ p \in 0 .. e - 1 /\ e \in 0 .. Len(element)
  BY LenProperties DEF Drawable, TreeInv, Elements, None
<1>1. \A d \in alive : d \in Elements /\ SelfAndAncestors(d) \subseteq alive \cap (1 .. d)
  BY <1>0, AncestorsBelow DEF Drawable, Elements
<1>2. /\ n # None => /\ n \in alive /\ parentNode[n] = p /\ n > e
                     /\ \A x \in LaterSiblings(e) : n <= x
      /\ n = None => LaterSiblings(e) = {}
  BY <1>0, SiblingsLater DEF LaterSiblings
<1>3. ASSUME NEW d \in Subtree(e) PROVE d \in Forest(e)
  <2>1. d \in alive /\ e \in SelfAndAncestors(d) /\ d >= e
    BY <1>1 DEF Subtree
  <2>2. SelfAndAncestors(e) \subseteq SelfAndAncestors(d)
    BY <1>0, <1>1, <2>1, AncestorsTransitive DEF Elements
  <2>3. p = None \/ p \in SelfAndAncestors(p)
    BY <1>0, AncestorsStep DEF Elements, None
  <2>4. SelfAndAncestors(p) \subseteq SelfAndAncestors(e)
    BY <1>0, AncestorsStep
  <2> QED BY <1>0, <2>1, <2>2, <2>3, <2>4 DEF Forest, Under
<1>4. ASSUME NEW d \in Forest(n) PROVE d \in Forest(e) /\ n # None
  <2> HIDE DEF n
  <2>1. n # None /\ d \in alive /\ d >= n /\ Under(d, parentNode[n])
    BY DEF Forest
  <2>2. n \in alive /\ parentNode[n] = p /\ n > e
    BY <1>2, <2>1
  <2>3. d >= e
    BY <1>0, <2>1, <2>2 DEF Elements
  <2> QED BY <1>0, <2>1, <2>2, <2>3 DEF Forest
<1>5. ASSUME NEW d \in Forest(e), d \notin Subtree(e) PROVE d \in Forest(n)
  <2>1. d \in alive /\ d >= e /\ Under(d, p) /\ d \in Elements
    BY <1>0, <1>1 DEF Forest
  <2>2. d # p
    BY <1>0, <2>1 DEF Elements
  <2>3. PICK x \in SelfAndAncestors(d) : parentNode[x] = p
    BY <1>0, <2>1, <2>2, ChildTowards
  <2>4. x \in alive /\ x <= d /\ x \in Elements
    BY <1>0, <1>1, <2>1
  <2>5. x # e
    BY <1>5, <2>1 DEF Subtree
  <2>6. ~(x < e)
    <3> SUFFICES ASSUME x < e PROVE FALSE
      OBVIOUS
    <3>1. x <= p
      BY <1>0, <2>1, <2>4, NothingBetween
    <3>2. parentNode[x] < x
      BY <1>0, <2>4 DEF TreeInv, Elements
    <3> QED BY <1>0, <2>3, <2>4, <3>1, <3>2 DEF Elements
  <2>7. x \in LaterSiblings(e)
    BY <1>0, <2>3, <2>4, <2>5, <2>6 DEF LaterSiblings, Elements
  <2>8. n # None /\ n <= x /\ n \in Elements /\ parentNode[n] = p
    BY <1>0, <1>2, <2>7
  <2>9. d >= n
    BY <1>0, <2>1, <2>4, <2>8 DEF Elements
  <2> QED BY <2>1, <2>8, <2>9 DEF Forest
<1>6. ASSUME NEW d \in Subtree(e), NEW f \in Forest(n) PROVE d < f
  <2>1. d \in Elements /\ e \in SelfAndAncestors(d) /\ f \in Elements
    BY <1>0, <1>1 DEF Subtree, Forest
  <2>2. n # None /\ n \in Elements /\ f >= n /\ parentNode[n] = p /\ n > e
    BY <1>0, <1>2, <1>4 DEF Forest
  <2>3. ~(d >= n)
    <3> SUFFICES ASSUME d >= n PROVE FALSE
      OBVIOUS
    <3>1. e <= parentNode[n]
      BY <1>0, <2>1, <2>2, NothingBetween DEF Elements
    <3> QED BY <1>0, <2>2, <3>1 DEF Elements
  <2> QED BY <1>0, <2>1, <2>2, <2>3 DEF Elements
<1> QED BY <1>3, <1>4, <1>5, <1>6

\* What is below an element is the element, and then the forest of its children.
LEMMA SubtreeIsSelfAndChildren ==
  ASSUME Drawable, NEW e \in alive
  PROVE  /\ Subtree(e) = {e} \cup Forest(FirstChild(e))
         /\ \A d \in Forest(FirstChild(e)) : e < d
<1> DEFINE c == FirstChild(e)
<1>0. /\ TreeInv /\ NestedInv /\ alive \subseteq Elements /\ e \in Elements /\ e # None
      /\ Len(element) \in Nat /\ e \in 0 .. Len(element)
  BY LenProperties DEF Drawable, TreeInv, Elements, None
<1>1. \A d \in alive : d \in Elements /\ SelfAndAncestors(d) \subseteq alive \cap (1 .. d)
  BY <1>0, AncestorsBelow DEF Drawable, Elements
<1>2. /\ c # None => /\ c \in alive /\ parentNode[c] = e /\ c > e
                     /\ \A x \in Children(e) : c <= x
      /\ c = None => Children(e) = {}
  BY <1>0, ChildrenLater DEF Children
<1>3. e \in Subtree(e)
  BY <1>0, AncestorsBelow DEF Subtree
<1>4. ASSUME NEW d \in Forest(c) PROVE d \in Subtree(e) /\ e < d
  <2> HIDE DEF c
  <2>1. c # None /\ d \in alive /\ d >= c /\ Under(d, parentNode[c])
    BY DEF Forest
  <2>2. c \in alive /\ parentNode[c] = e /\ c > e
    BY <1>2, <2>1
  <2>3. d > e
    BY <1>0, <2>1, <2>2 DEF Elements
  <2> QED BY <1>0, <2>1, <2>2, <2>3 DEF Under, Subtree
<1>5. ASSUME NEW d \in Subtree(e), d # e PROVE d \in Forest(c)
  <2>1. d \in alive /\ e \in SelfAndAncestors(d) /\ d \in Elements /\ Under(d, e)
    BY <1>0 DEF Subtree, Under
  <2>2. PICK x \in SelfAndAncestors(d) : parentNode[x] = e
    BY <1>0, <1>5, <2>1, ChildTowards
  <2>3. x \in alive /\ x <= d /\ x \in Elements
    BY <1>0, <1>1, <2>1, <2>2
  <2>4. x \in Children(e)
    BY <2>2, <2>3 DEF Children
  <2>5. c # None /\ c <= x /\ c \in Elements /\ parentNode[c] = e
    BY <1>0, <1>2, <2>4
  <2>6. d >= c
    BY <1>0, <2>1, <2>3, <2>5 DEF Elements
  <2> QED BY <2>1, <2>5, <2>6 DEF Forest
<1> QED BY <1>3, <1>4, <1>5

\* Of what is above an element of a forest, what is in the forest.
Within(d, e) == {a \in SelfAndAncestors(d) : a >= e}

\* What is above an element in a forest is there in the forest it is split into.
LEMMA WithinForest ==
  ASSUME Drawable, NEW e \in alive
  PROVE  /\ Within(e, e) = {e}
         /\ \A d \in Forest(NextSibling(e)) : Within(d, e) = Within(d, NextSibling(e))
         /\ \A d \in Forest(FirstChild(e)) :
              Within(d, e) = {e} \cup Within(d, FirstChild(e)) /\ e \notin Within(d, FirstChild(e))
<1> DEFINE c == FirstChild(e)
<1> DEFINE n == NextSibling(e)
<1>0. /\ TreeInv /\ NestedInv /\ alive \subseteq Elements /\ e \in Elements /\ e # None
      /\ Len(element) \in Nat /\ e \in 0 .. Len(element) /\ parentNode[e] \in 0 .. e - 1
  BY LenProperties DEF Drawable, TreeInv, Elements, None
<1>1. \A d \in Elements : SelfAndAncestors(d) \subseteq 1 .. d
  BY <1>0, AncestorsBelow DEF Elements
<1>2. Within(e, e) = {e}
  <2>1. SelfAndAncestors(e) = {e} \cup SelfAndAncestors(parentNode[e])
    BY <1>0, AncestorsStep
  <2>2. parentNode[e] \in 0 .. Len(element)
    BY <1>0
  <2>3. SelfAndAncestors(parentNode[e]) \subseteq 1 .. parentNode[e]
    BY <1>0, <2>2, AncestorsBelow
  <2> QED BY <1>0, <2>1, <2>3 DEF Within
<1>3. ASSUME NEW d \in Forest(n) PROVE Within(d, e) = Within(d, n)
  <2>1. n # None /\ n \in Elements /\ d \in Elements /\ d >= n
    BY <1>0, SiblingsLater DEF Forest, LaterSiblings
  <2>2. n > e /\ parentNode[n] = parentNode[e]
    BY <1>0, <2>1, SiblingsLater DEF LaterSiblings
  <2>3. ASSUME NEW a \in SelfAndAncestors(d), a >= e PROVE a >= n
    <3> SUFFICES ASSUME ~(a >= n) PROVE FALSE
      OBVIOUS
    <3>1. a \in 1 .. d
      BY <1>1, <2>1
    <3>2. a <= parentNode[n]
      BY <1>0, <2>1, <3>1, NothingBetween DEF Elements
    <3> QED BY <1>0, <2>2, <2>3, <3>1, <3>2
  <2>4. \A a \in SelfAndAncestors(d) : a >= n => a >= e
    BY <1>0, <1>1, <2>1, <2>2 DEF Elements
  <2> QED BY <2>3, <2>4 DEF Within
<1>4. ASSUME NEW d \in Forest(c)
      PROVE  Within(d, e) = {e} \cup Within(d, c) /\ e \notin Within(d, c)
  <2>1. c # None /\ c \in Elements /\ d \in Elements /\ d >= c /\ Under(d, parentNode[c])
    BY <1>0, ChildrenLater DEF Forest
  <2>2. c > e /\ parentNode[c] = e
    BY <1>0, <2>1, ChildrenLater DEF Children
  <2>3. e \in SelfAndAncestors(d)
    BY <1>0, <2>1, <2>2 DEF Under
  <2>4. ASSUME NEW a \in SelfAndAncestors(d), a >= e, a # e PROVE a >= c
    <3> SUFFICES ASSUME ~(a >= c) PROVE FALSE
      OBVIOUS
    <3>1. a \in 1 .. d
      BY <1>1, <2>1
    <3>2. a <= parentNode[c]
      BY <1>0, <2>1, <3>1, NothingBetween DEF Elements
    <3> QED BY <1>0, <2>2, <2>4, <3>1, <3>2 DEF Elements
  <2>5. \A a \in SelfAndAncestors(d) : a >= c => a >= e /\ a # e
    BY <1>0, <1>1, <2>1, <2>2 DEF Elements
  <2>6. e >= e
    BY <1>0 DEF Elements
  <2> QED BY <2>3, <2>4, <2>5, <2>6 DEF Within
<1> QED BY <1>2, <1>3, <1>4

-----------------------------------------------------------------------------
(* What a drawing shows.                                                    *)

Marks == [element : Nat, bound : Nat]

\* The drawing q shows the elements of S in their order, each d inside b[d] images.
Shows(q, S, b) ==
  /\ q \in Seq(Marks)
  /\ {q[i].element : i \in 1 .. Len(q)} = S
  /\ \A i, j \in 1 .. Len(q) : i < j => q[i].element < q[j].element
  /\ \A i \in 1 .. Len(q) : q[i].bound = b[q[i].element]

LEMMA ShowsNothing == ASSUME NEW b PROVE Shows(<<>>, {}, b)
BY EmptySeq DEF Shows

LEMMA ShowsOne ==
  ASSUME NEW e \in Nat, NEW n \in Nat, NEW b, b[e] = n
  PROVE  Shows(<<[element |-> e, bound |-> n]>>, {e}, b)
<1> DEFINE r == [element |-> e, bound |-> n]
<1>1. r \in Marks /\ r.element = e /\ r.bound = n
  BY DEF Marks
<1> HIDE DEF r
<1>2. <<r>> \in Seq(Marks) /\ Len(<<r>>) = 1 /\ <<r>>[1] = r
  BY <1>1
<1>3. \A i : i \in 1 .. Len(<<r>>) <=> i = 1
  BY <1>2
<1>4. Shows(<<r>>, {e}, b)
  <2>1. {<<r>>[i].element : i \in 1 .. Len(<<r>>)} = {e}
    BY <1>1, <1>2, <1>3
  <2>2. \A i, j \in 1 .. Len(<<r>>) : ~(i < j)
    BY <1>3
  <2>3. \A i \in 1 .. Len(<<r>>) : <<r>>[i].bound = b[<<r>>[i].element]
    BY <1>1, <1>2, <1>3
  <2> QED BY <1>2, <2>1, <2>2, <2>3 DEF Shows
<1> QED BY <1>4 DEF r

\* Only the images of what is shown matter.
LEMMA ShowsOther ==
  ASSUME NEW q, NEW S, NEW b, NEW c, Shows(q, S, b), \A d \in S : c[d] = b[d]
  PROVE  Shows(q, S, c)
<1>1. \A i \in 1 .. Len(q) : q[i].element \in S
  BY DEF Shows
<1> QED BY <1>1 DEF Shows

\* Two drawings, one after the other.
LEMMA ShowsBoth ==
  ASSUME NEW q, NEW S, NEW r, NEW R, NEW b, Shows(q, S, b), Shows(r, R, b),
         \A d \in S : \A f \in R : d < f
  PROVE  Shows(q \o r, S \cup R, b)
<1> DEFINE w == q \o r
<1> DEFINE n == Len(q)
<1> DEFINE m == Len(r)
<1>0. n \in Nat /\ m \in Nat
  BY LenProperties DEF Shows
<1>1. /\ w \in Seq(Marks) /\ Len(w) = n + m
      /\ \A i \in 1 .. n + m : w[i] = IF i <= n THEN q[i] ELSE r[i - n]
  BY ConcatProperties DEF Shows
<1> HIDE DEF w, n, m
<1>2. ASSUME NEW i \in 1 .. n + m
      PROVE  /\ i <= n => i \in 1 .. n /\ w[i] = q[i]
             /\ ~(i <= n) => i - n \in 1 .. m /\ w[i] = r[i - n]
  BY <1>0, <1>1
<1>3. /\ \A i \in 1 .. n : w[i] = q[i] /\ i \in 1 .. n + m
      /\ \A i \in 1 .. m : w[n + i] = r[i] /\ n + i \in 1 .. n + m
  <2>1. ASSUME NEW i \in 1 .. n PROVE w[i] = q[i] /\ i \in 1 .. n + m
    BY <1>0, <1>1
  <2>2. ASSUME NEW i \in 1 .. m PROVE w[n + i] = r[i] /\ n + i \in 1 .. n + m
    <3>1. n + i \in 1 .. n + m /\ ~(n + i <= n) /\ (n + i) - n = i
      BY <1>0
    <3> QED BY <1>1, <3>1
  <2> QED BY <2>1, <2>2
<1>4. /\ {q[i].element : i \in 1 .. n} = S /\ {r[i].element : i \in 1 .. m} = R
      /\ \A i, j \in 1 .. n : i < j => q[i].element < q[j].element
      /\ \A i, j \in 1 .. m : i < j => r[i].element < r[j].element
      /\ \A i \in 1 .. n : q[i].bound = b[q[i].element]
      /\ \A i \in 1 .. m : r[i].bound = b[r[i].element]
  BY DEF Shows, n, m
<1>5. {w[i].element : i \in 1 .. n + m} = S \cup R
  <2>1. ASSUME NEW i \in 1 .. n + m PROVE w[i].element \in S \cup R
    BY <1>2, <1>4
  <2>2. ASSUME NEW d \in S \cup R PROVE \E i \in 1 .. n + m : w[i].element = d
    <3>1. CASE d \in S
      <4>1. PICK i \in 1 .. n : q[i].element = d
        BY <1>4, <3>1
      <4> QED BY <1>3, <4>1
    <3>2. CASE d \in R
      <4>1. PICK i \in 1 .. m : r[i].element = d
        BY <1>4, <3>2
      <4> QED BY <1>3, <4>1
    <3> QED BY <3>1, <3>2
  <2> QED BY <2>1, <2>2
<1>6. ASSUME NEW i \in 1 .. n + m, NEW j \in 1 .. n + m, i < j
      PROVE  w[i].element < w[j].element
  <2>1. CASE j <= n
    <3>1. i <= n
      BY <1>0, <1>6, <2>1
    <3> QED BY <1>2, <1>4, <1>6, <2>1, <3>1
  <2>2. CASE i <= n /\ ~(j <= n)
    BY <1>2, <1>4, <2>2
  <2>3. CASE ~(i <= n)
    <3>1. ~(j <= n) /\ i - n < j - n
      BY <1>0, <1>6, <2>3
    <3> QED BY <1>2, <1>4, <2>3, <3>1
  <2> QED BY <2>1, <2>2, <2>3
<1>7. ASSUME NEW i \in 1 .. n + m PROVE w[i].bound = b[w[i].element]
  BY <1>2, <1>4
<1>8. Shows(w, S \cup R, b)
  BY <1>1, <1>5, <1>6, <1>7 DEF Shows
<1> QED BY <1>8 DEF w

\* What of a forest is to be seen, and inside how many images of it.
ShownIn(d, e) ==
  /\ DrawsItself(d) /\ ~Hidden(d)
  /\ \A a \in Within(d, e) \ {d} : ~Hidden(a) /\ Look(a) # "closed"
Shown(e) == {d \in Forest(e) : ShownIn(d, e)}
Bound(d, e) == Cardinality({a \in Within(d, e) : Look(a) = "translucent"})
Bounds(e, bound) == [d \in Elements |-> bound + Bound(d, e)]

LEMMA WithinFinite ==
  ASSUME Drawable, NEW d \in Elements, NEW e
  PROVE  /\ IsFiniteSet({a \in Within(d, e) : Look(a) = "translucent"})
         /\ Bound(d, e) \in Nat
<1>1. Len(element) \in Nat
  BY LenProperties DEF Drawable, TreeInv
<1>2. SelfAndAncestors(d) \subseteq 1 .. d /\ d \in Nat
  BY <1>1, AncestorsBelow DEF Drawable, Elements
<1>3. IsFiniteSet(1 .. d)
  BY <1>2, FS_Interval
<1>4. {a \in Within(d, e) : Look(a) = "translucent"} \subseteq 1 .. d
  BY <1>2 DEF Within
<1>5. IsFiniteSet({a \in Within(d, e) : Look(a) = "translucent"})
  BY <1>3, <1>4, FS_Subset
<1> QED BY <1>5, FS_CardinalityType DEF Bound

\* The forest of an element is the element, that of its first child and that of its
\* next sibling, and what is to be seen of it is to be seen of these.
LEMMA ForestShown ==
  ASSUME Drawable, NEW e \in alive, NEW bound \in Nat
  PROVE  /\ Forest(e) \subseteq Elements
         /\ \A d \in Forest(NextSibling(e)) :
              /\ d \in Forest(e) /\ (ShownIn(d, e) <=> ShownIn(d, NextSibling(e)))
              /\ Bounds(e, bound)[d] = Bounds(NextSibling(e), bound)[d]
         /\ \A d \in Forest(FirstChild(e)) :
              /\ d \in Forest(e)
              /\ ShownIn(d, e) <=>
                   ~Hidden(e) /\ Look(e) # "closed" /\ ShownIn(d, FirstChild(e))
              /\ Bounds(e, bound)[d] =
                   Bounds(FirstChild(e), bound + IF Look(e) = "translucent" THEN 1 ELSE 0)[d]
         /\ e \in Forest(e) /\ (ShownIn(e, e) <=> DrawsItself(e) /\ ~Hidden(e))
         /\ Bounds(e, bound)[e] = bound + IF Look(e) = "translucent" THEN 1 ELSE 0
<1> DEFINE c == FirstChild(e)
<1> DEFINE n == NextSibling(e)
<1>1. /\ Forest(e) = {e} \cup Forest(c) \cup Forest(n)
      /\ Within(e, e) = {e}
      /\ \A d \in Forest(n) : Within(d, e) = Within(d, n)
      /\ \A d \in Forest(c) :
           Within(d, e) = {e} \cup Within(d, c) /\ e \notin Within(d, c) /\ e < d
  BY ForestIsSubtreeAndSiblings, SubtreeIsSelfAndChildren, WithinForest
<1>2. \A f : Forest(f) \subseteq Elements
  BY DEF Forest, Drawable
<1>3. ASSUME NEW d \in Forest(n)
      PROVE  /\ ShownIn(d, e) <=> ShownIn(d, n)
             /\ Bounds(e, bound)[d] = Bounds(n, bound)[d]
  <2> HIDE DEF n
  <2> QED BY <1>1, <1>2 DEF ShownIn, Bounds, Bound
<1>4. ASSUME NEW d \in Forest(c)
      PROVE  /\ ShownIn(d, e) <=> ~Hidden(e) /\ Look(e) # "closed" /\ ShownIn(d, c)
             /\ Bounds(e, bound)[d]
                  = Bounds(c, bound + IF Look(e) = "translucent" THEN 1 ELSE 0)[d]
  <2> HIDE DEF c
  <2>1. Within(d, e) = {e} \cup Within(d, c) /\ e \notin Within(d, c) /\ e < d /\ d \in Elements
    BY <1>1, <1>2
  <2>2. e # d
    <3>1. d \in Nat
      BY <2>1, LenProperties DEF Elements, Drawable, TreeInv
    <3> QED BY <2>1, <3>1
  <2>3. ShownIn(d, e) <=> ~Hidden(e) /\ Look(e) # "closed" /\ ShownIn(d, c)
    BY <2>1, <2>2, Zenon DEF ShownIn
  <2> DEFINE inside == {a \in Within(d, c) : Look(a) = "translucent"}
  <2>4. IsFiniteSet(inside) /\ Bound(d, c) = Cardinality(inside) /\ Bound(d, c) \in Nat
    BY <2>1, WithinFinite DEF Bound
  <2>5. CASE Look(e) = "translucent"
    <3>1. {a \in Within(d, e) : Look(a) = "translucent"} = inside \cup {e} /\ e \notin inside
      BY <2>1, <2>5
    <3>2. Bound(d, e) = Bound(d, c) + 1
      BY <2>4, <3>1, FS_AddElement DEF Bound
    <3> QED BY <2>1, <2>3, <2>4, <2>5, <3>2 DEF Bounds
  <2>6. CASE Look(e) # "translucent"
    <3>1. {a \in Within(d, e) : Look(a) = "translucent"} = inside
      BY <2>1, <2>6
    <3>2. Bound(d, e) = Bound(d, c)
      BY <3>1 DEF Bound
    <3> QED BY <2>1, <2>3, <2>4, <2>6, <3>2 DEF Bounds
  <2> QED BY <2>5, <2>6
<1>5. ShownIn(e, e) <=> DrawsItself(e) /\ ~Hidden(e)
  BY <1>1, Zenon DEF ShownIn
<1>6. Bounds(e, bound)[e] = bound + IF Look(e) = "translucent" THEN 1 ELSE 0
  <2>1. e \in Elements
    BY DEF Drawable
  <2>2. CASE Look(e) = "translucent"
    <3>1. {a \in Within(e, e) : Look(a) = "translucent"} = {e}
      BY <1>1, <2>2
    <3> QED BY <2>1, <2>2, <3>1, FS_Singleton DEF Bounds, Bound
  <2>3. CASE Look(e) # "translucent"
    <3>1. {a \in Within(e, e) : Look(a) = "translucent"} = {}
      BY <1>1, <2>3
    <3> QED BY <2>1, <2>3, <3>1, FS_EmptySet DEF Bounds, Bound
  <2> QED BY <2>2, <2>3
<1> HIDE DEF c, n
<1>7. /\ \A d \in Forest(n) : d \in Forest(e)
      /\ \A d \in Forest(c) : d \in Forest(e)
      /\ e \in Forest(e) /\ Forest(e) \subseteq Elements
  BY <1>1, <1>2
<1> QED BY <1>3, <1>4, <1>5, <1>6, <1>7 DEF c, n

\* A drawing from an element on shows what is to be seen of its forest.
LEMMA DrawShows ==
  ASSUME Drawable, \A e \in alive : Look(e) # "bare"
  PROVE  \A e \in alive : \A bound \in Nat :
           Shows(Draw[e][bound], Shown(e), Bounds(e, bound))
<1> DEFINE m == Len(element)
<1> DEFINE Right(e) == \A bound \in Nat : Shows(Draw[e][bound], Shown(e), Bounds(e, bound))
<1> DEFINE T == {k \in 0 .. m : m - k \in alive \cup {None} => Right(m - k)}
<1>0. /\ m \in Nat /\ None = 0 /\ TreeInv /\ alive \subseteq 1 .. m /\ alive \subseteq Elements
  BY LenProperties DEF Drawable, TreeInv, None, Elements
<1>1. Right(None)
  <2> SUFFICES ASSUME NEW bound \in Nat
               PROVE  Shows(Draw[None][bound], Shown(None), Bounds(None, bound))
    OBVIOUS
  <2>1. Draw[None][bound] = <<>>
    <3>1. Draw[None][bound] = Drawing(Draw, None, bound)
      BY <1>0, DrawStep
    <3>2. Drawing(Draw, None, bound) = <<>>
      BY DEF Drawing
    <3> QED BY <3>1, <3>2
  <2>2. Shown(None) = {}
    BY DEF Shown, Forest
  <2> QED BY <2>1, <2>2, ShowsNothing
<1>2. ASSUME NEW e \in alive,
             FirstChild(e) \in alive => Right(FirstChild(e)),
             NextSibling(e) \in alive => Right(NextSibling(e))
      PROVE  Right(e)
  <2> SUFFICES ASSUME NEW bound \in Nat
               PROVE  Shows(Draw[e][bound], Shown(e), Bounds(e, bound))
    OBVIOUS
  <2> DEFINE c == FirstChild(e)
  <2> DEFINE n == NextSibling(e)
  <2> DEFINE inner == bound + IF Look(e) = "translucent" THEN 1 ELSE 0
  <2> DEFINE own == IF DrawsItself(e) THEN <<[element |-> e, bound |-> inner]>> ELSE <<>>
  <2> DEFINE below == IF Look(e) = "closed" THEN <<>> ELSE Draw[c][inner]
  <2> DEFINE first == IF Hidden(e) THEN <<>> ELSE own \o below
  <2> DEFINE B == Bounds(e, bound)
  <2>0. inner \in Nat /\ e \in Nat /\ e \in 0 .. m /\ e # None
    BY <1>0
  <2>1. Draw[e][bound] = first \o Draw[n][bound]
    <3>1. Draw[e][bound] = Drawing(Draw, e, bound)
      BY <1>0, <2>0, DrawStep
    <3>2. Look(e) # "bare"
      OBVIOUS
    <3> QED BY <2>0, <3>1, <3>2 DEF Drawing, BoundAfter
  <2>2. Right(c) /\ Right(n)
    <3>1. c \in alive \cup {None} /\ n \in alive \cup {None}
      BY <1>0, <2>0, ChildrenLater, SiblingsLater DEF Children, LaterSiblings
    <3> HIDE DEF Right
    <3> QED BY <1>1, <1>2, <3>1
  <2>3. Shows(Draw[c][inner], Shown(c), Bounds(c, inner))
        /\ Shows(Draw[n][bound], Shown(n), Bounds(n, bound))
    <3> HIDE DEF inner, c, n
    <3> QED BY <2>0, <2>2
  <2>4. /\ \A d \in Forest(n) :
             d \in Forest(e) /\ (ShownIn(d, e) <=> ShownIn(d, n)) /\ B[d] = Bounds(n, bound)[d]
        /\ \A d \in Forest(c) :
             /\ d \in Forest(e)
             /\ ShownIn(d, e) <=> ~Hidden(e) /\ Look(e) # "closed" /\ ShownIn(d, c)
             /\ B[d] = Bounds(c, inner)[d]
        /\ e \in Forest(e) /\ (ShownIn(e, e) <=> DrawsItself(e) /\ ~Hidden(e))
        /\ B[e] = inner
    BY ForestShown
  <2>5. /\ Subtree(e) = {e} \cup Forest(c) /\ \A d \in Forest(c) : e < d
        /\ Forest(e) = Subtree(e) \cup Forest(n)
        /\ \A d \in Subtree(e) : \A f \in Forest(n) : d < f
    BY ForestIsSubtreeAndSiblings, SubtreeIsSelfAndChildren
  <2> HIDE DEF c, n, inner, B
  <2> DEFINE S1 == IF DrawsItself(e) THEN {e} ELSE {}
  <2> DEFINE S2 == IF Look(e) = "closed" THEN {} ELSE Shown(c)
  <2> DEFINE S == IF Hidden(e) THEN {} ELSE S1 \cup S2
  <2>6. Shows(own, S1, B)
    <3>1. DrawsItself(e) => Shows(<<[element |-> e, bound |-> inner]>>, {e}, B)
      BY <2>0, <2>4, ShowsOne
    <3>2. Shows(<<>>, {}, B)
      BY ShowsNothing
    <3> QED BY <3>1, <3>2
  <2>7. Shows(below, S2, B)
    <3>1. Shows(Draw[c][inner], Shown(c), B)
      <4>1. \A d \in Shown(c) : B[d] = Bounds(c, inner)[d]
        BY <2>4 DEF Shown
      <4> QED BY <2>3, <4>1, ShowsOther
    <3>2. Shows(<<>>, {}, B)
      BY ShowsNothing
    <3> QED BY <3>1, <3>2
  <2>8. Shows(first, S, B)
    <3>1. \A d \in S1 : \A f \in S2 : d < f
      BY <2>5 DEF Shown
    <3> HIDE DEF own, below, S1, S2
    <3>2. Shows(own \o below, S1 \cup S2, B)
      BY <2>6, <2>7, <3>1, ShowsBoth
    <3>3. Shows(<<>>, {}, B)
      BY ShowsNothing
    <3> QED BY <3>2, <3>3
  <2>9. Shows(Draw[n][bound], Shown(n), B)
    <3>1. \A d \in Shown(n) : B[d] = Bounds(n, bound)[d]
      BY <2>4 DEF Shown
    <3> QED BY <2>3, <3>1, ShowsOther
  <2>10. S \subseteq Subtree(e) /\ Shown(n) \subseteq Forest(n)
    BY <2>5 DEF Shown
  <2>11. S \cup Shown(n) = Shown(e)
    <3>1. ASSUME NEW d \in Shown(e), d \notin Shown(n) PROVE d \in S
      <4>1. d \in Forest(e) /\ ShownIn(d, e)
        BY DEF Shown
      <4>2. d \notin Forest(n)
        BY <2>4, <3>1, <4>1 DEF Shown
      <4>3. d = e \/ d \in Forest(c)
        BY <2>5, <4>1, <4>2
      <4>4. CASE d = e
        BY <2>4, <4>1, <4>4
      <4>5. CASE d \in Forest(c)
        BY <2>4, <4>1, <4>5 DEF Shown
      <4> QED BY <4>3, <4>4, <4>5
    <3>2. ASSUME NEW d \in Shown(n) PROVE d \in Shown(e)
      BY <2>4 DEF Shown
    <3>3. ASSUME NEW d \in S PROVE d \in Shown(e)
      BY <2>4 DEF Shown
    <3> HIDE DEF S
    <3> QED BY <3>1, <3>2, <3>3
  <2> HIDE DEF first, S
  <2>12. Shows(first \o Draw[n][bound], S \cup Shown(n), B)
    <3>1. \A d \in S : \A f \in Shown(n) : d < f
      BY <2>5, <2>10
    <3> QED BY <2>8, <2>9, <3>1, ShowsBoth
  <2> QED BY <2>1, <2>11, <2>12 DEF B
<1> HIDE DEF Right
<1>3. ASSUME NEW k \in 0 .. m, \A j \in 0 .. k - 1 : j \in T PROVE k \in T
  <2> SUFFICES ASSUME m - k \in alive PROVE Right(m - k)
    BY <1>1
  <2> DEFINE e == m - k
  <2>1. /\ FirstChild(e) \in alive => FirstChild(e) > e
        /\ NextSibling(e) \in alive => NextSibling(e) > e
    <3>1. e \in 0 .. m /\ None \notin alive
      BY <1>0
    <3> HIDE DEF e
    <3> QED BY <1>0, <3>1, ChildrenLater, SiblingsLater
  <2>2. ASSUME NEW d \in alive, d > e PROVE Right(d)
    <3>1. d \in 1 .. m /\ m - d \in 0 .. k - 1 /\ m - (m - d) = d
      BY <1>0, <2>2
    <3>2. m - d \in T
      BY <1>3, <3>1
    <3> QED BY <3>1, <3>2
  <2> QED BY <1>2, <2>1, <2>2
<1> HIDE DEF T
<1>4. \A k \in 0 .. m : k \in T
  BY <1>0, <1>3, StrongInduction
<1>5. ASSUME NEW e \in alive PROVE Right(e)
  <2>1. m - e \in 0 .. m /\ m - (m - e) = e
    BY <1>0
  <2> QED BY <1>4, <2>1 DEF T
<1> QED BY <1>5 DEF Right

\* That q is what DrawsWhatIsShown asks for.
IsDrawing(q) ==
  /\ {q[i].element : i \in DOMAIN q} = {e \in alive : IsShown(e)}
  /\ \A i, j \in DOMAIN q : i < j => q[i].element < q[j].element
  /\ \A i \in DOMAIN q :
       q[i].bound = iGfxContext + Cardinality({a \in SelfAndAncestors(q[i].element) :
                                                 Look(a) = "translucent"})

\* A whole drawing is one from the root on.
LEMMA DrawElementsShows ==
  ASSUME DecoderInv, iGfxContext \in Nat, stage # "crashed",
         iRootElement # None, iRootElement \in alive, \A e \in alive : Look(e) # "bare"
  PROVE  IsDrawing(DrawElements(iRootElement, iGfxContext))
<1> DEFINE q == DrawElements(iRootElement, iGfxContext)
<1>1. Drawable
  BY AliveTree DEF Drawable, DecoderInv
<1>2. iRootElement = 1 /\ 1 \in alive /\ parentNode[1] = None
  BY AliveTree DEF DecoderInv, TreeInv
<1>3. q = Draw[1][iGfxContext]
  BY <1>2 DEF DrawElements, Draw
<1>4. Shows(q, Shown(1), Bounds(1, iGfxContext))
  BY <1>1, <1>2, <1>3, DrawShows
<1>5. /\ Len(element) \in Nat
      /\ \A d \in alive : d \in Elements /\ SelfAndAncestors(d) \subseteq 1 .. d
  BY <1>1, AncestorsBelow, LenProperties DEF Drawable, TreeInv, Elements
<1>6. \A d \in alive : Within(d, 1) = SelfAndAncestors(d) /\ d >= 1
  BY <1>5 DEF Within, Elements
<1>7. Shown(1) = {e \in alive : IsShown(e)}
  <2>1. Forest(1) = alive
    BY <1>2, <1>6 DEF Forest, Under, None
  <2>2. \A d \in alive : ShownIn(d, 1) <=> IsShown(d)
    BY <1>6, Zenon DEF ShownIn, IsShown
  <2> QED BY <2>1, <2>2 DEF Shown
<1>8. \A d \in alive :
        Bounds(1, iGfxContext)[d]
          = iGfxContext + Cardinality({a \in SelfAndAncestors(d) : Look(a) = "translucent"})
  <2> SUFFICES ASSUME NEW d \in alive
               PROVE  Bounds(1, iGfxContext)[d]
                        = iGfxContext
                            + Cardinality({a \in SelfAndAncestors(d) : Look(a) = "translucent"})
    OBVIOUS
  <2>1. Bounds(1, iGfxContext)[d] = iGfxContext + Bound(d, 1) /\ Bound(d, 1) \in Nat
    BY <1>1, <1>5, WithinFinite DEF Bounds
  <2>2. Bound(d, 1) = Cardinality({a \in SelfAndAncestors(d) : Look(a) = "translucent"})
    BY <1>6 DEF Bound
  <2> QED BY <2>1, <2>2
<1> HIDE DEF q
<1>9. DOMAIN q = 1 .. Len(q)
  BY <1>4, LenProperties DEF Shows
<1>10. \A i \in 1 .. Len(q) : q[i].element \in alive
  BY <1>4, <1>7 DEF Shows
<1>11. IsDrawing(q)
  BY <1>4, <1>7, <1>8, <1>9, <1>10 DEF Shows, IsDrawing
<1> QED BY <1>11 DEF q

DrawnInv ==
  /\ iGfxContext \in Nat
  /\ stage \notin {"done", "left", "crashed"} => drawn = <<>>
  /\ stage \in {"done", "left"} /\ drawn # <<>> /\ ~iIsRendering
     /\ (\A e \in alive : Look(e) # "bare") => IsDrawing(drawn)

LEMMA NextDrawn == DecoderInv /\ DrawnInv /\ [Next]_vars => DrawnInv'
<1> SUFFICES ASSUME DecoderInv, DrawnInv, [Next]_vars PROVE DrawnInv'
  OBVIOUS
<1> DEFINE Same ==
      UNCHANGED <<element, parentNode, alive, iGfxContext>>
<1>0. iGfxContext \in Nat
  BY DEF DrawnInv
<1>1. ASSUME Same, NEW q, IsDrawing(q) PROVE \A r : r = q => IsDrawing(r)'
  <2>1. \A e : SelfAndAncestors(e)' = SelfAndAncestors(e)
    BY <1>1, SameTree
  <2>2. \A e : Look(e)' = Look(e) /\ Hidden(e)' = Hidden(e) /\ IsShown(e)' = IsShown(e)
    BY <1>1, <2>1 DEF Look, Hidden, IsShown, DrawsItself, Kind, FirstChild, Children, Least
  <2> QED BY <1>1, <2>1, <2>2 DEF IsDrawing
<1>2. CASE Redraw
  <2> USE <1>2 DEF Redraw
  <2>1. Same /\ UNCHANGED stage /\ stage \in {"done", "left"}
    BY DEF tree
  <2>2. SUFFICES ASSUME drawn' # <<>>, ~iIsRendering', (\A e \in alive : Look(e) # "bare")'
                 PROVE  IsDrawing(drawn)'
    BY <1>0, <2>1 DEF DrawnInv
  <2>3. /\ iRootElement # None /\ iRootElement \in alive
        /\ drawn' = DrawElements(iRootElement, iGfxContext)
    BY <2>2 DEF IsDrawn
  <2>4. \A e \in alive : Look(e) # "bare"
    BY <2>1, <2>2 DEF Look
  <2>5. IsDrawing(DrawElements(iRootElement, iGfxContext))
    BY <1>0, <2>1, <2>3, <2>4, DrawElementsShows
  <2> QED BY <1>1, <2>1, <2>3, <2>5
<1>3. CASE UNCHANGED vars
  <2>1. Same /\ UNCHANGED <<stage, drawn, iIsRendering>>
    BY <1>3 DEF vars, tree, drawing
  <2>2. (\A e \in alive : Look(e) # "bare")' => \A e \in alive : Look(e) # "bare"
    BY <2>1 DEF Look
  <2> QED BY <1>1, <2>1, <2>2 DEF DrawnInv
<1>4. CASE RedrawLeaves
  <2>1. iGfxContext' \in iGfxContext .. MaxBound /\ iIsRendering' = TRUE
        /\ stage' \in {"done", "left"}
    BY <1>4 DEF RedrawLeaves
  <2>2. iGfxContext' \in Nat
    BY <1>0, <2>1, BoundAssumption
  <2> QED BY <2>1, <2>2 DEF DrawnInv
<1>5. CASE DrawsDeleted
  BY <1>0, <1>5 DEF DrawsDeleted, DrawnInv, drawing
<1>6. CASE Next /\ ~Redraw /\ ~RedrawLeaves /\ ~DrawsDeleted
  <2>1. /\ stage \notin {"done", "left", "crashed"}
        /\ drawn' = drawn /\ iGfxContext' = iGfxContext
    BY <1>6 DEF Next, StartDecoding, ReadElement, AppendChild, FollowsNull, Leaves,
      ReadEndOfElement, ReadEndOfFile, RemoveFalseElement, NoFalseElements,
      RemoveFalseSwitchCase, NoFalseSwitchCases, drawing
  <2> QED BY <1>0, <2>1 DEF DrawnInv
<1> QED BY <1>2, <1>3, <1>4, <1>5, <1>6

(* A drawing that ends has drawn what is to be seen of any tree, in its order,  *)
(* and each element inside the images of the translucent ones around it and those *)
(* that were bound before it began.                                         *)
THEOREM WhatIsShownIsDrawn == Spec => []DrawsWhatIsShown
<1>1. Init => DrawnInv
  BY DEF Init, DrawnInv
<1>2. DrawnInv => DrawsWhatIsShown
  BY DEF DrawnInv, IsDrawing, DrawsWhatIsShown
<1> QED BY InitDecoder, NextDecoder, NextDrawn, <1>1, <1>2, PTL DEF Spec
=============================================================================
