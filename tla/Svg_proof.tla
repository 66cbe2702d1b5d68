----------------------------- MODULE Svg_proof -----------------------------
(***************************************************************************)
(* Proofs about the SVG engine, for all listeners, documents, links and       *)
(* buffers there may be, in three parts.                                    *)
(*                                                                         *)
(* SvgListeners: whatever listeners do while they are told of an event, nobody *)
(* is told twice, and only a removal loses a call or panics.  The invariant    *)
(* says where in the list the loop has been: those told lie behind it, and     *)
(* those that wait lie ahead of it as long as nobody was removed.            *)
(*                                                                         *)
(* SvgDocument: a load that reports success shows what was asked for and       *)
(* leaves no file.  The invariant says which temporary files there are at each  *)
(* step, and of which rights what is being parsed was opened with.           *)
(*                                                                         *)
(* SvgEngine: what the client has been told of links fits what the engine        *)
(* remembers.  The invariant is about the calls that are telling the client:    *)
(* there is one about the pointer and one about a link that is followed, and     *)
(* what has been told is what they will leave when they return.              *)
(***************************************************************************)
EXTENDS SvgListeners, SvgDocument, SvgEngine, ListLemmas, FiniteSetTheorems, TLAPS

(* The listeners.                                                          *)

NoDuplicates ==
  \A k \in Lists : \A i, j \in 1 .. Len(list[k]) : list[k][i] = list[k][j] => i = j

\* A listener at a place the loop has left behind, or at one that lies ahead of it.
Behind(l) == \E i \in 1 .. Len(list[telling]) : i < next /\ list[telling][i] = l
Ahead(l) ==
  \E i \in 1 .. Len(list[telling]) : next <= i /\ i <= count /\ list[telling][i] = l

LoopInv ==
  telling # None =>
    /\ \A l \in told : Behind(l)
    /\ waiting \subseteq audience
    /\ ~removed => /\ count <= Len(list[telling])
                   /\ \A l \in waiting : Ahead(l)

PanicInv == panicked => telling \in CountedOnce /\ removed

ListenersInv == TypeOK /\ NoDuplicates /\ LoopInv /\ PanicInv /\ ToldOnce

-----------------------------------------------------------------------------
LEMMA InitListeners == ListenersInit => ListenersInv
<1> SUFFICES ASSUME ListenersInit PROVE ListenersInv
  OBVIOUS
<1>1. \A k \in Lists : list[k] = <<>>
  BY DEF ListenersInit
<1>2. TypeOK
  <2>1. list \in [Lists -> Seq(Listeners)]
    BY EmptySeq DEF ListenersInit
  <2>2. next \in Nat \ {0} /\ count \in Nat
    BY DEF ListenersInit
  <2>3. /\ telling = None /\ audience = {} /\ told = {} /\ waiting = {}
        /\ panicked = FALSE /\ removed = FALSE /\ again = FALSE
    BY DEF ListenersInit
  <2> QED BY <2>1, <2>2, <2>3, Zenon DEF TypeOK
<1>3. NoDuplicates
  BY <1>1 DEF NoDuplicates
<1> QED BY <1>2, <1>3 DEF ListenersInv, ListenersInit, LoopInv, PanicInv, ToldOnce

(* What changes none of the variables changes nothing of the invariant.     *)
LEMMA StutterInv ==
  ASSUME ListenersInv, list' = list, UNCHANGED loop, UNCHANGED panicked, UNCHANGED history
  PROVE  ListenersInv'
BY DEF ListenersInv, TypeOK, NoDuplicates, LoopInv, PanicInv, ToldOnce, Behind, Ahead,
       loop, history

LEMMA AddInv ==
  ASSUME ListenersInv, NEW k \in Lists, NEW l \in Listeners, AddListener(k, l)
  PROVE  ListenersInv'
<1> DEFINE s == list[k]
<1>1. s \in Seq(Listeners) /\ list' = [list EXCEPT ![k] = Adds(k, l)]
  BY DEF ListenersInv, TypeOK, AddListener
<1>u. /\ telling' = telling /\ audience' = audience /\ next' = next /\ count' = count
      /\ told' = told /\ waiting' = waiting /\ removed' = removed
      /\ again' = again /\ panicked' = panicked
  BY DEF AddListener, loop, history
<1>2. Len(s) \in Nat /\ DOMAIN s = 1 .. Len(s)
  BY <1>1, LenProperties
<1>3. CASE l \in Registered(k)
  <2>1. list' = list
    BY <1>1, <1>3 DEF Adds, ListenersInv, TypeOK
  <2> QED BY <2>1, StutterInv DEF AddListener
<1>4. CASE l \notin Registered(k)
  <2>1. list' = [list EXCEPT ![k] = Append(s, l)]
    BY <1>1, <1>4 DEF Adds
  <2>2. /\ Append(s, l) \in Seq(Listeners) /\ Len(Append(s, l)) = Len(s) + 1
        /\ \A i \in 1 .. Len(s) : Append(s, l)[i] = s[i]
        /\ Append(s, l)[Len(s) + 1] = l
    BY <1>1, AppendProperties
  <2>3. \A i \in 1 .. Len(s) : s[i] # l
    BY <1>2, <1>4 DEF Registered
  <2> HIDE DEF s
  <2>4. TypeOK'
    BY <2>1, <2>2, <1>u DEF ListenersInv, TypeOK
  <2>5. NoDuplicates'
    <3> SUFFICES ASSUME NEW m \in Lists, NEW i \in 1 .. Len(list'[m]),
                        NEW j \in 1 .. Len(list'[m]), list'[m][i] = list'[m][j]
                 PROVE  i = j
      BY DEF NoDuplicates
    <3>1. CASE m # k
      BY <3>1, <2>1 DEF ListenersInv, TypeOK, NoDuplicates
    <3>2. CASE m = k
      <4>1. list'[m] = Append(s, l)
        BY <3>2, <2>1 DEF ListenersInv, TypeOK
      <4>2. \A p, q \in 1 .. Len(s) : s[p] = s[q] => p = q
        BY DEF ListenersInv, NoDuplicates, s
      <4> QED BY <4>1, <4>2, <2>2, <2>3, <1>2
    <3> QED BY <3>1, <3>2
  <2>6. LoopInv'
    <3> SUFFICES ASSUME telling # None PROVE LoopInv'
      BY <1>u DEF LoopInv
    <3>1. telling \in Lists /\ next \in Nat /\ count \in Nat
      BY DEF ListenersInv, TypeOK
    <3>2. CASE telling # k
      <4>1. list'[telling] = list[telling]
        BY <3>1, <3>2, <2>1 DEF ListenersInv, TypeOK
      <4> QED BY <4>1, <1>u DEF ListenersInv, LoopInv, Behind, Ahead
    <3>3. CASE telling = k
      <4>1. list'[telling] = Append(s, l) /\ list[telling] = s
        BY <3>1, <3>3, <2>1 DEF ListenersInv, TypeOK, s
      <4>2. \A x \in told : Behind(x) => Behind(x)'
        BY <4>1, <2>2, <1>2, <3>1, <1>u DEF Behind
      <4>3. \A x \in waiting : Ahead(x) => Ahead(x)'
        BY <4>1, <2>2, <1>2, <3>1, <1>u DEF Ahead
      <4>4. ~removed => count <= Len(list'[telling])
        BY <4>1, <2>2, <1>2, <3>1 DEF ListenersInv, LoopInv
      <4> QED BY <4>2, <4>3, <4>4, <1>u DEF ListenersInv, LoopInv
    <3> QED BY <3>2, <3>3
  <2> QED BY <2>4, <2>5, <2>6, <1>u DEF ListenersInv, PanicInv, ToldOnce
<1> QED BY <1>3, <1>4

LEMMA RemoveInv ==
  ASSUME ListenersInv, NEW k \in Lists, NEW l \in Listeners, RemoveListener(k, l)
  PROVE  ListenersInv'
<1> DEFINE s == list[k]
<1>1. s \in Seq(Listeners) /\ Len(s) \in Nat /\ DOMAIN s = 1 .. Len(s)
  BY LenProperties DEF ListenersInv, TypeOK
<1>2. PICK i \in 1 .. Len(s) : /\ s[i] = l
                               /\ list' = [list EXCEPT ![k] = RemoveAt(s, i)]
  BY <1>1 DEF RemoveListener
<1>3. /\ RemoveAt(s, i) \in Seq(Listeners)
      /\ Len(RemoveAt(s, i)) = Len(s) - 1
      /\ \A j \in 1 .. Len(s) - 1 :
           RemoveAt(s, i)[j] = IF j < i THEN s[j] ELSE s[j + 1]
  BY <1>1, RemoveAtProperties
<1>u. /\ telling' = telling /\ audience' = audience /\ next' = next /\ count' = count
      /\ again' = again /\ panicked' = panicked
  BY DEF RemoveListener, loop
<1>h. /\ told' \subseteq told /\ waiting' \subseteq waiting
      /\ removed' \in BOOLEAN /\ (removed => removed')
      /\ telling = k => told' = told \ {l} /\ removed'
      /\ telling # k => told' = told /\ waiting' = waiting /\ removed' = removed
  BY DEF RemoveListener, ListenersInv, TypeOK
<1> HIDE DEF s
<1>4. TypeOK'
  <2>1. list' \in [Lists -> Seq(Listeners)]
    BY <1>2, <1>3 DEF ListenersInv, TypeOK
  <2> QED BY <2>1, <1>u, <1>h DEF ListenersInv, TypeOK
<1>5. NoDuplicates'
  <2> SUFFICES ASSUME NEW m \in Lists, NEW p \in 1 .. Len(list'[m]),
                      NEW q \in 1 .. Len(list'[m]), list'[m][p] = list'[m][q]
               PROVE  p = q
    BY DEF NoDuplicates
  <2>1. CASE m # k
    BY <2>1, <1>2 DEF ListenersInv, TypeOK, NoDuplicates
  <2>2. CASE m = k
    <3>1. list'[m] = RemoveAt(s, i)
      BY <2>2, <1>2 DEF ListenersInv, TypeOK
    <3>2. \A a, b \in 1 .. Len(s) : s[a] = s[b] => a = b
      BY DEF ListenersInv, NoDuplicates, s
    <3> DEFINE old(a) == IF a < i THEN a ELSE a + 1
    <3>3. p \in 1 .. Len(s) - 1 /\ q \in 1 .. Len(s) - 1
      BY <3>1, <1>3
    <3>4. list'[m][p] = s[old(p)] /\ list'[m][q] = s[old(q)]
      BY <3>1, <3>3, <1>3
    <3>5. old(p) \in 1 .. Len(s) /\ old(q) \in 1 .. Len(s)
      BY <3>3, <1>1
    <3>6. old(p) = old(q)
      BY <3>2, <3>4, <3>5
    <3> QED BY <3>3, <3>6, <1>1
  <2> QED BY <2>1, <2>2
<1>6. LoopInv'
  <2> SUFFICES ASSUME telling # None PROVE LoopInv'
    BY <1>u DEF LoopInv
  <2>1. telling \in Lists /\ next \in Nat /\ count \in Nat
    BY DEF ListenersInv, TypeOK
  <2>2. CASE telling # k
    <3>1. list'[telling] = list[telling]
      BY <2>1, <2>2, <1>2 DEF ListenersInv, TypeOK
    <3> QED BY <3>1, <2>2, <1>u, <1>h DEF ListenersInv, LoopInv, Behind, Ahead
  <2>3. CASE telling = k
    <3>1. list'[telling] = RemoveAt(s, i) /\ list[telling] = s
      BY <2>1, <2>3, <1>2 DEF ListenersInv, TypeOK, s
    <3>2. ASSUME NEW x \in told, x # l, Behind(x)
          PROVE  Behind(x)'
      <4>1. PICK p \in 1 .. Len(s) : p < next /\ s[p] = x
        BY <3>1, <3>2 DEF Behind
      <4>2. p # i
        BY <4>1, <3>2, <1>2
      <4>3. CASE p < i
        <5>1. p \in 1 .. Len(s) - 1 /\ RemoveAt(s, i)[p] = x
          BY <4>1, <4>3, <1>1, <1>2, <1>3
        <5> QED BY <5>1, <4>1, <3>1, <1>3, <1>u DEF Behind
      <4>4. CASE i < p
        <5>1. /\ p - 1 \in 1 .. Len(s) - 1 /\ p - 1 < next
              /\ ~(p - 1 < i) /\ (p - 1) + 1 = p
          BY <4>1, <4>4, <1>1, <1>2, <2>1
        <5>2. RemoveAt(s, i)[p - 1] = x
          BY <5>1, <4>1, <1>3
        <5> QED BY <5>1, <5>2, <3>1, <1>3, <1>u DEF Behind
      <4> QED BY <4>2, <4>3, <4>4, <1>2
    <3> QED BY <3>2, <2>3, <1>u, <1>h DEF ListenersInv, LoopInv
  <2> QED BY <2>2, <2>3
<1> QED BY <1>4, <1>5, <1>6, <1>u, <1>h DEF ListenersInv, PanicInv, ToldOnce

LEMMA BeginTellingInv ==
  ASSUME ListenersInv, NEW k \in Lists, NEW whom \in SUBSET Listeners, BeginTelling(k, whom)
  PROVE  ListenersInv'
<1>1. /\ list' = list /\ telling' = k /\ audience' = whom /\ next' = 1
      /\ count' = Len(list[k]) /\ told' = {} /\ removed' = FALSE
      /\ waiting' = Registered(k) \cap whom
      /\ panicked' = panicked /\ again' = again /\ telling = None
  BY DEF BeginTelling
<1>2. list[k] \in Seq(Listeners) /\ Len(list[k]) \in Nat /\ DOMAIN list[k] = 1 .. Len(list[k])
  BY LenProperties DEF ListenersInv, TypeOK
<1>3. TypeOK'
  <2>1. next' \in Nat \ {0} /\ count' \in Nat
    BY <1>1, <1>2
  <2>2. waiting' \subseteq Listeners /\ list' \in [Lists -> Seq(Listeners)]
    BY <1>1 DEF ListenersInv, TypeOK
  <2> QED BY <1>1, <2>1, <2>2, Zenon DEF ListenersInv, TypeOK
<1>4. NoDuplicates'
  BY <1>1 DEF ListenersInv, NoDuplicates
<1>5. LoopInv'
  <2>1. \A l \in waiting' : Ahead(l)'
    BY <1>1, <1>2 DEF Ahead, Registered
  <2>2. waiting' \subseteq audience'
    BY <1>1
  <2> QED BY <1>1, <1>2, <2>1, <2>2 DEF LoopInv
<1>6. ~panicked
  BY <1>1, NoneAssumption DEF ListenersInv, PanicInv, Lists
<1> QED BY <1>1, <1>3, <1>4, <1>5, <1>6 DEF ListenersInv, PanicInv, ToldOnce

LEMMA CallInv ==
  ASSUME ListenersInv, ~panicked, CallNext
  PROVE  ListenersInv'
<1>1. telling \in Lists /\ next \in Nat \ {0} /\ count \in Nat /\ telling # None
  BY DEF ListenersInv, TypeOK, CallNext
<1>2. list[telling] \in Seq(Listeners) /\ Len(list[telling]) \in Nat
  BY <1>1, LenProperties DEF ListenersInv, TypeOK
<1>3. CASE next > Len(list[telling])
  <2>1. /\ panicked' = TRUE /\ list' = list
        /\ telling' = telling /\ audience' = audience /\ next' = next /\ count' = count
        /\ told' = told /\ waiting' = waiting /\ removed' = removed /\ again' = again
    BY <1>3 DEF CallNext, loop, history
  <2>2. telling \notin CountedEachTime
    BY <1>1, <1>2, <1>3 DEF CallNext, LoopCount
  <2>3. next <= count
    BY <2>2 DEF CallNext, LoopCount
  <2>4. removed
    BY <1>1, <1>2, <1>3, <2>3 DEF ListenersInv, LoopInv
  <2>5. TypeOK' /\ NoDuplicates' /\ LoopInv'
    BY <2>1 DEF ListenersInv, TypeOK, NoDuplicates, LoopInv, Behind, Ahead
  <2> QED BY <1>1, <2>1, <2>2, <2>4, <2>5 DEF ListenersInv, PanicInv, ToldOnce, Lists
<1>4. CASE ~(next > Len(list[telling]))
  <2>0. next \in 1 .. Len(list[telling])
    BY <1>1, <1>2, <1>4
  <2>1. PICK l \in Listeners : l = list[telling][next]
    BY <2>0, <1>2
  <2>2. /\ next' = next + 1 /\ list' = list /\ telling' = telling /\ audience' = audience
        /\ count' = count /\ removed' = removed /\ panicked' = panicked
        /\ \/ told' = told \cup {l} /\ waiting' = waiting \ {l} /\ again' = (again \/ l \in told)
           \/ told' = told /\ waiting' = waiting /\ again' = again /\ l \notin audience
    BY <1>4, <2>1 DEF CallNext
  <2>3. l \notin told
    BY <2>0, <2>1, <1>1 DEF ListenersInv, LoopInv, Behind, NoDuplicates
  <2>4. TypeOK'
    <3>1. next' \in Nat \ {0}
      BY <1>1, <2>2
    <3> QED BY <2>1, <2>2, <3>1, Zenon DEF ListenersInv, TypeOK
  <2>5. NoDuplicates'
    BY <2>2 DEF ListenersInv, NoDuplicates
  <2>6. \A x \in told' : Behind(x)'
    <3>1. \A x \in told : Behind(x)'
      BY <1>1, <2>2 DEF ListenersInv, LoopInv, Behind
    <3>2. Behind(l)'
      BY <1>1, <2>0, <2>1, <2>2 DEF Behind
    <3> QED BY <2>2, <3>1, <3>2
  <2>7. waiting' \subseteq audience' /\ l \notin waiting'
    BY <1>1, <2>2 DEF ListenersInv, LoopInv
  <2>8. ASSUME NEW x \in waiting', ~removed
        PROVE  Ahead(x)'
    <3>1. x \in waiting /\ x # l /\ Ahead(x)
      BY <1>1, <2>2, <2>7, <2>8 DEF ListenersInv, LoopInv
    <3>2. PICK p \in 1 .. Len(list[telling]) :
            next <= p /\ p <= count /\ list[telling][p] = x
      BY <3>1 DEF Ahead
    <3>3. next + 1 <= p
      BY <3>1, <3>2, <1>1, <2>1
    <3> QED BY <3>2, <3>3, <2>2 DEF Ahead
  <2>9. LoopInv'
    <3>1. ~removed' => count' <= Len(list'[telling'])
      BY <1>1, <2>2 DEF ListenersInv, LoopInv
    <3>2. ~removed' => \A x \in waiting' : Ahead(x)'
      BY <2>2, <2>8
    <3> QED BY <2>2, <2>6, <2>7, <3>1, <3>2 DEF LoopInv
  <2>10. ToldOnce'
    BY <2>2, <2>3, Zenon DEF ListenersInv, ToldOnce
  <2>11. PanicInv'
    BY <2>2, Zenon DEF PanicInv
  <2> QED BY <2>4, <2>5, <2>9, <2>10, <2>11 DEF ListenersInv
<1> QED BY <1>3, <1>4

LEMMA EndInv ==
  ASSUME ListenersInv, ~panicked, EndTelling
  PROVE  ListenersInv'
<1>1. /\ list' = list /\ telling' = None /\ audience' = {} /\ next' = 1 /\ count' = 0
      /\ told' = {} /\ waiting' = {} /\ removed' = FALSE
      /\ panicked' = panicked /\ again' = again
  BY DEF EndTelling
<1>2. next' \in Nat \ {0} /\ count' \in Nat
  BY <1>1
<1>3. TypeOK'
  BY <1>1, <1>2, Zenon DEF ListenersInv, TypeOK
<1> QED BY <1>1, <1>3 DEF ListenersInv, NoDuplicates, LoopInv, PanicInv, ToldOnce

LEMMA ListInv ==
  ASSUME ListenersInv, NEW k \in Lists, NEW whoms \in SUBSET SUBSET Listeners,
         Operations(k, whoms)
  PROVE  ListenersInv'
BY AddInv, RemoveInv, BeginTellingInv DEF Operations

LEMMA NextListeners == ListenersInv /\ [ListenersNext]_listenersVars => ListenersInv'
<1> SUFFICES ASSUME ListenersInv, [ListenersNext]_listenersVars PROVE ListenersInv'
  OBVIOUS
<1>1. CASE ListenersNext
  <2>1. /\ Everyone \in SUBSET SUBSET Listeners
        /\ {Listeners, ReportingAll} \in SUBSET SUBSET Listeners
    BY ListenersAssumption DEF Everyone
  <2>2. CASE CallNext
    BY <1>1, <2>2, CallInv DEF ListenersNext
  <2>3. CASE EndTelling
    BY <1>1, <2>3, EndInv DEF ListenersNext
  <2>4. CASE \E k \in Lists, whoms \in SUBSET SUBSET Listeners : Operations(k, whoms)
    BY <2>4, ListInv
  <2> QED BY <1>1, <2>1, <2>2, <2>3, <2>4
          DEF ListenersNext, AnimationListeners, TextAreaListeners, TextListeners,
              HyperlinkListeners, InteractiveElementListeners, MouseListeners,
              InternalMouseListeners, LoadingListeners, Lists, CountedOnce,
              CountedEachTime
<1>2. CASE UNCHANGED listenersVars
  BY <1>2, StutterInv DEF listenersVars
<1> QED BY <1>1, <1>2

LEMMA InvImplies == ListenersInv => ToldUnlessRemoved /\ LiveCountNeverPanics
<1> SUFFICES ASSUME ListenersInv PROVE ToldUnlessRemoved /\ LiveCountNeverPanics
  OBVIOUS
<1>1. ASSUME telling # None, next > LoopCount, waiting # {}, ~removed
      PROVE  FALSE
  <2>1. PICK x \in waiting : Ahead(x)
    BY <1>1 DEF ListenersInv, LoopInv
  <2>2. /\ telling \in Lists /\ next \in Nat /\ count \in Nat
        /\ Len(list[telling]) \in Nat /\ count <= Len(list[telling])
    BY <1>1, LenProperties DEF ListenersInv, TypeOK, LoopInv
  <2>3. next <= count
    BY <2>1, <2>2 DEF Ahead
  <2> QED BY <1>1, <2>2, <2>3 DEF LoopCount
<1> QED BY <1>1 DEF ListenersInv, PanicInv, ToldUnlessRemoved, LiveCountNeverPanics

-----------------------------------------------------------------------------
(* Nobody is told of an event twice without having been removed in between,  *)
(* whatever listeners there are and whatever they do in their callbacks.     *)
THEOREM OnceEach == ListenersSpec => []ToldOnce
<1>1. ListenersInv => ToldOnce
  BY DEF ListenersInv
<1> QED BY InitListeners, NextListeners, <1>1, PTL DEF ListenersSpec

(* Only the removal of a listener in a callback loses a call, or panics.     *)
THEOREM RemovalOnly == ListenersSpec => []ToldUnlessRemoved
<1>1. ListenersInv => ToldUnlessRemoved
  BY InvImplies
<1> QED BY InitListeners, NextListeners, <1>1, PTL DEF ListenersSpec

(* A loop that reads the number of listeners before every call never panics. *)
THEOREM LiveCount == ListenersSpec => []LiveCountNeverPanics
<1>1. ListenersInv => LiveCountNeverPanics
  BY InvImplies
<1> QED BY InitListeners, NextListeners, <1>1, PTL DEF ListenersSpec

-----------------------------------------------------------------------------
(* The document.                                                           *)

(* Types of what the argument needs.                                       *)
Typed ==
  /\ content \in Contents \cup {None}
  /\ stage # "idle" => content \in Contents
  /\ temp \in [TempFiles -> {"none", "open", "closed"}]
  /\ error \in [set : BOOLEAN, warning : BOOLEAN]
  /\ iRootElement \in Trees \cup {None}
  /\ unpaid \in BOOLEAN /\ iIsThumbNailMode \in BOOLEAN

(* The temporary files there are at each step: the file made of the bytes is     *)
(* never open, the copy is there for one step, and the unzipped file, once made, *)
(* is open until the load ends.                                             *)
FilesAt ==
  /\ temp["bytes"] # "open"
  /\ stage = "idle" => temp = NoTemp
  /\ IF stage = "unzip" THEN temp["copy"] = "closed" ELSE temp["copy"] = "none"
  /\ IF stage = "reopen" THEN temp["unzipped"] = "closed"
     ELSE IF stage \in {"look inside", "decrypt", "read", "parse"}
     THEN temp["unzipped"] # "closed" ELSE temp["unzipped"] = "none"

\* Only the last load, and only if it failed, has left a file.
LeftInv ==
  left # {} => /\ stage = "idle" /\ error = PrepareError
               /\ left = {"copy"} \/ left = {"unzipped"}

(* What is parsed without rights was opened for a thumbnail, and nothing has    *)
(* changed that since; a load keeps the mark until it looks into the file.     *)
FreeInv ==
  /\ stage # "idle" /\ unpaid => stage = "parse" /\ IsThumbNailOnly
  /\ stage \in {"idle", "write", "open"} /\ iRootElement # None /\ ~lifted =>
       (iRootElement.free => IsThumbNailOnly)

LoadInv == Typed /\ FilesAt /\ LeftInv /\ SuccessShowsContent /\ FreeInv

ImageInv ==
  /\ iImageElementCnt \in Int
  /\ fetching \in [tree : Nat, earlier : Nat]
  /\ ~miscounted => fetching.earlier = 0
  /\ ImagesToldWhenLoaded

-----------------------------------------------------------------------------
USE ContentsAssumption, ImagesAssumption, NoTreeAssumption

LEMMA NoTempFiles ==
  /\ NoTemp \in [TempFiles -> {"none", "open", "closed"}]
  /\ NoTemp["bytes"] = "none" /\ NoTemp["copy"] = "none" /\ NoTemp["unzipped"] = "none"
  BY DEF NoTemp, TempFiles

LEMMA InitLoad == DocumentInit => LoadInv
<1> SUFFICES ASSUME DocumentInit PROVE LoadInv
  OBVIOUS
<1>1. /\ stage = "idle" /\ content = None /\ temp = NoTemp /\ iRootElement = None
      /\ unpaid = FALSE /\ left = {} /\ iIsThumbNailMode = FALSE
  BY DEF DocumentInit
<1>2. error \in [set : BOOLEAN, warning : BOOLEAN]
  BY DEF DocumentInit
<1>3. Typed
  BY <1>1, <1>2, NoTempFiles DEF Typed
<1> QED BY <1>1, <1>3, NoTempFiles
        DEF LoadInv, FilesAt, LeftInv, SuccessShowsContent, FreeInv,
            FreeIsMarked, Loaded, Succeeded

(* A load that ends, with no more than one of the two files that are not deleted.*)
LEMMA ReturnsLeft ==
  ASSUME NEW files, Returns(files), files["copy"] = "none" \/ files["unzipped"] = "none"
  PROVE  /\ stage' = "idle" /\ temp' = NoTemp
         /\ left' = {} \/ left' = {"copy"} \/ left' = {"unzipped"}
         /\ files["copy"] = "none" /\ files["unzipped"] = "none" => left' = {}
<1>1. /\ stage' = "idle" /\ temp' = NoTemp
      /\ left' = {f \in {"copy", "unzipped"} : files[f] # "none"}
  <2>1. TempFiles \ {"bytes"} = {"copy", "unzipped"}
    BY DEF TempFiles
  <2> QED BY <2>1 DEF Returns
<1>2. CASE files["copy"] = "none"
  <2>1. \A f : f \in left' <=> f = "unzipped" /\ files["unzipped"] # "none"
    BY <1>1, <1>2
  <2> QED BY <1>1, <2>1
<1>3. CASE files["unzipped"] = "none"
  <2>1. \A f : f \in left' <=> f = "copy" /\ files["copy"] # "none"
    BY <1>1, <1>3
  <2> QED BY <1>1, <2>1
<1> QED BY <1>2, <1>3

(* A load that fails shows nothing; what was there is no longer said to be       *)
(* marked, unless the mark was not touched.                                  *)
LEMMA FailsInv ==
  ASSUME LoadInv, stage # "idle", NEW files, Fails(files),
         files["copy"] = "none" \/ files["unzipped"] = "none",
         UNCHANGED <<iIsThumbNailMode, shown>>
  PROVE  LoadInv'
<1>1. /\ stage' = "idle" /\ temp' = NoTemp
      /\ left' = {} \/ left' = {"copy"} \/ left' = {"unzipped"}
  BY ReturnsLeft DEF Fails
<1>2. /\ content' = content /\ unpaid' = unpaid /\ iIsThumbNailMode' = iIsThumbNailMode
      /\ iRootElement' = iRootElement /\ iIsDRMProtected' = iIsDRMProtected
      /\ lifted' = (lifted \/ stage \notin {"write", "open"})
      /\ error' = [set |-> TRUE, warning |-> FALSE]
  BY DEF Fails, PrepareError, shown
<1>3. Typed'
  BY <1>1, <1>2, NoTempFiles DEF LoadInv, Typed
<1>4. FilesAt'
  BY <1>1, NoTempFiles DEF FilesAt
<1>5. LeftInv'
  BY <1>1, <1>2 DEF LeftInv, PrepareError
<1>6. SuccessShowsContent'
  BY <1>1, <1>2 DEF SuccessShowsContent, Succeeded, Loaded
<1>7. FreeInv'
  <2>1. IsThumbNailOnly' = IsThumbNailOnly
    BY <1>2 DEF IsThumbNailOnly
  <2>2. CASE stage \in {"write", "open"}
    <3>1. lifted' => lifted \/ FALSE
      BY <1>2, <2>2
    <3>2. lifted => lifted'
      BY <1>2
    <3> QED BY <1>1, <1>2, <2>1, <2>2, <3>1, <3>2 DEF LoadInv, FreeInv
  <2>3. CASE stage \notin {"write", "open"}
    BY <1>1, <1>2, <2>3 DEF FreeInv
  <2> QED BY <2>2, <2>3
<1> QED BY <1>3, <1>4, <1>5, <1>6, <1>7 DEF LoadInv

(* A load that goes on, before anything is opened without rights.            *)
LEMMA ContinuesInv ==
  ASSUME LoadInv, stage # "idle", stage # "parse", NEW to, Continues(to),
         to \notin {"idle", "write"}, to = "open" => stage = "write" /\ UNCHANGED shown,
         UNCHANGED <<iIsThumbNailMode, iRootElement>>,
         temp' \in [TempFiles -> {"none", "open", "closed"}],
         error' \in [set : BOOLEAN, warning : BOOLEAN], FilesAt'
  PROVE  LoadInv'
<1>1. /\ stage' = to /\ content' = content /\ unpaid' = unpaid /\ left' = left
      /\ iIsThumbNailMode' = iIsThumbNailMode /\ iRootElement' = iRootElement
      /\ lifted' = lifted /\ (to = "open" => UNCHANGED iIsDRMProtected)
  BY DEF Continues, shown
<1>2. left = {} /\ unpaid = FALSE
  BY DEF LoadInv, LeftInv, FreeInv, Typed
<1>3. Typed'
  BY <1>1 DEF LoadInv, Typed
<1>4. LeftInv' /\ SuccessShowsContent'
  BY <1>1, <1>2 DEF LeftInv, SuccessShowsContent, Succeeded, Loaded
<1>5. FreeInv'
  BY <1>1, <1>2 DEF LoadInv, FreeInv, IsThumbNailOnly
<1> QED BY <1>3, <1>4, <1>5 DEF LoadInv

-----------------------------------------------------------------------------
(* The steps                                                                *)

LEMMA BeginInv ==
  ASSUME LoadInv, NEW c \in Contents, NEW how, NEW to \in {"write", "parse", "open"},
         Begin(c, how, to), UNCHANGED <<temp, modes, iRootElement, lifted>>,
         to = "parse" \/ UNCHANGED iIsDRMProtected
  PROVE  LoadInv'
<1>1. /\ stage = "idle" /\ stage' = to /\ content' = c /\ unpaid' = FALSE /\ left' = {}
      /\ error' = [error EXCEPT !.set = FALSE] /\ temp' = temp
      /\ iRootElement' = iRootElement /\ iIsThumbNailMode' = iIsThumbNailMode
  BY DEF Begin, modes
<1>2. temp = NoTemp
  BY <1>1 DEF LoadInv, FilesAt
<1>3. Typed'
  BY <1>1 DEF LoadInv, Typed
<1>4. FilesAt'
  BY <1>1, <1>2, NoTempFiles DEF FilesAt
<1> QED BY <1>1, <1>3, <1>4
        DEF LoadInv, LeftInv, SuccessShowsContent, Succeeded, Loaded, FreeInv,
            IsThumbNailOnly

(* The steps that open, copy and unzip.                                     *)
LEMMA FileStepInv ==
  ASSUME LoadInv, WriteBytes \/ OpenFile \/ Look \/ CopyFile \/ Unzip \/ OpenUnzipped
  PROVE  LoadInv'
<1> USE DEF FilesAt, TempFiles
<1>0. /\ temp \in [TempFiles -> {"none", "open", "closed"}] /\ FilesAt
      /\ error \in [set : BOOLEAN, warning : BOOLEAN]
  BY DEF LoadInv, Typed
<1>m. /\ UNCHANGED <<iIsThumbNailMode, iRootElement>>
      /\ stage # "look" => UNCHANGED shown
  BY DEF WriteBytes, OpenFile, Look, CopyFile, Unzip, OpenUnzipped, modes, shown
<1>1. ASSUME WriteBytes PROVE LoadInv'
  <2>1. CASE Fails(temp)
    BY <1>0, <1>1, <1>m, <2>1, FailsInv DEF WriteBytes
  <2>2. CASE ~Fails(temp)
    <3>1. /\ stage = "write" /\ temp' = [temp EXCEPT !["bytes"] = "closed"]
          /\ error' = [error EXCEPT !.set = FALSE] /\ Continues("open") /\ stage' = "open"
      BY <1>1, <2>2 DEF WriteBytes, Continues
    <3>2. FilesAt' /\ temp' \in [TempFiles -> {"none", "open", "closed"}]
      BY <1>0, <3>1
    <3>3. error' \in [set : BOOLEAN, warning : BOOLEAN]
      BY <1>0, <3>1
    <3> QED BY <1>m, <3>1, <3>2, <3>3, ContinuesInv
  <2> QED BY <2>1, <2>2
<1>2. ASSUME OpenFile PROVE LoadInv'
  <2>1. CASE Fails(temp)
    BY <1>0, <1>2, <1>m, <2>1, FailsInv DEF OpenFile
  <2>2. CASE ~Fails(temp)
    <3>1. /\ stage = "open" /\ temp' = temp /\ error' = error
          /\ Continues("look") /\ stage' = "look"
      BY <1>2, <2>2 DEF OpenFile, Continues
    <3>2. FilesAt'
      BY <1>0, <3>1
    <3> QED BY <1>0, <1>m, <3>1, <3>2, ContinuesInv
  <2> QED BY <2>1, <2>2
<1>3. ASSUME Look PROVE LoadInv'
  <2>1. PICK to \in {"copy", "look inside"} : Continues(to)
    BY <1>3 DEF Look
  <2>2. stage = "look" /\ temp' = temp /\ error' = error /\ stage' = to
    BY <1>3, <2>1 DEF Look, Continues
  <2>3. FilesAt'
    BY <1>0, <2>2
  <2> QED BY <1>0, <1>m, <2>1, <2>2, <2>3, ContinuesInv
<1>4. ASSUME CopyFile PROVE LoadInv'
  <2> DEFINE made == [temp EXCEPT !["copy"] = "open"]
  <2>0. stage = "copy"
    BY <1>4 DEF CopyFile
  <2>1. CASE Fails(temp)
    BY <1>0, <1>m, <2>0, <2>1, FailsInv
  <2>2. CASE Fails(Delete(made, "copy"))
    <3>1. Delete(made, "copy")["unzipped"] = "none"
      BY <1>0, <2>0 DEF Delete
    <3> HIDE DEF made
    <3> QED BY <1>m, <2>0, <2>2, <3>1, FailsInv
  <2>3. CASE ~Fails(temp) /\ ~Fails(Delete(made, "copy"))
    <3>1. /\ temp' = [temp EXCEPT !["copy"] = "closed"] /\ error' = error
          /\ Continues("unzip") /\ stage' = "unzip"
      BY <1>4, <2>3 DEF CopyFile, Continues
    <3>2. FilesAt' /\ temp' \in [TempFiles -> {"none", "open", "closed"}]
      BY <1>0, <2>0, <3>1
    <3> QED BY <1>0, <1>m, <2>0, <3>1, <3>2, ContinuesInv
  <2> QED BY <2>1, <2>2, <2>3
<1>5. ASSUME Unzip PROVE LoadInv'
  <2> DEFINE gone == Delete(temp, "copy")
  <2>0. stage = "unzip" /\ gone = [temp EXCEPT !["copy"] = "none"]
    BY <1>0, <1>5 DEF Unzip, Delete
  <2>1. gone["copy"] = "none" /\ gone["unzipped"] = "none"
    BY <1>0, <2>0
  <2>2. CASE Fails(gone)
    <3> HIDE DEF gone
    <3> QED BY <1>m, <2>0, <2>1, <2>2, FailsInv
  <2>3. CASE ~Fails(gone)
    <3>1. /\ temp' = [gone EXCEPT !["unzipped"] = "closed"] /\ error' = error
          /\ Continues("reopen") /\ stage' = "reopen"
      BY <1>5, <2>3 DEF Unzip, Continues
    <3> HIDE DEF gone
    <3>2. FilesAt' /\ temp' \in [TempFiles -> {"none", "open", "closed"}]
      BY <1>0, <2>0, <3>1
    <3> QED BY <1>0, <1>m, <2>0, <3>1, <3>2, ContinuesInv
  <2> QED BY <2>2, <2>3
<1>6. ASSUME OpenUnzipped PROVE LoadInv'
  <2>0. stage = "reopen"
    BY <1>6 DEF OpenUnzipped
  <2>1. CASE Fails(Delete(temp, "unzipped"))
    <3>1. Delete(temp, "unzipped")["copy"] = "none"
      BY <1>0, <2>0 DEF Delete
    <3> QED BY <1>m, <2>0, <2>1, <3>1, FailsInv
  <2>2. CASE ~Fails(Delete(temp, "unzipped"))
    <3>1. /\ temp' = [temp EXCEPT !["unzipped"] = "open"] /\ error' = error
          /\ Continues("look inside") /\ stage' = "look inside"
      BY <1>6, <2>2 DEF OpenUnzipped, Continues
    <3>2. FilesAt' /\ temp' \in [TempFiles -> {"none", "open", "closed"}]
      BY <1>0, <2>0, <3>1
    <3> QED BY <1>0, <1>m, <2>0, <3>1, <3>2, ContinuesInv
  <2> QED BY <2>1, <2>2
<1> QED BY <1>1, <1>2, <1>3, <1>4, <1>5, <1>6

(* The steps that look into the picture.                                    *)
LEMMA ReadStepInv ==
  ASSUME LoadInv, LookInside \/ Decrypt \/ Read
  PROVE  LoadInv'
<1> USE DEF FilesAt, TempFiles
<1>0. /\ temp \in [TempFiles -> {"none", "open", "closed"}] /\ FilesAt
      /\ error \in [set : BOOLEAN, warning : BOOLEAN]
  BY DEF LoadInv, Typed
<1>m. /\ UNCHANGED <<iIsThumbNailMode, iRootElement>>
      /\ stage # "decrypt" => UNCHANGED shown
  BY DEF LookInside, Decrypt, Read, modes, shown
<1>1. ASSUME LookInside PROVE LoadInv'
  <2>1. PICK to \in {"decrypt", "read"} : Continues(to)
    BY <1>1 DEF LookInside
  <2>2. stage = "look inside" /\ temp' = temp /\ error' = error /\ stage' = to
    BY <1>1, <2>1 DEF LookInside, Continues
  <2>3. FilesAt'
    BY <1>0, <2>2
  <2> QED BY <1>0, <1>m, <2>1, <2>2, <2>3, ContinuesInv
<1>2. ASSUME Decrypt PROVE LoadInv'
  <2>1. CASE Fails(temp)
    <3>1. stage = "decrypt" /\ stage' = "idle"
      BY <1>2, <2>1 DEF Decrypt, Fails, Returns
    <3>2. UNCHANGED shown
      BY <1>2, <1>m, <3>1 DEF Decrypt, shown
    <3> QED BY <1>0, <1>m, <2>1, <3>1, <3>2, FailsInv
  <2>2. CASE ~Fails(temp)
    <3>1. /\ stage = "decrypt" /\ stage' = "parse" /\ iIsDRMProtected' = TRUE
          /\ unpaid' = iIsThumbNailMode
          /\ content' = content /\ temp' = temp /\ left' = left
      BY <1>2, <2>2 DEF Decrypt, ProcessDRMError, Protects
    <3>2. error' \in [set : BOOLEAN, warning : BOOLEAN]
      <4>1. UsesRights
        BY <1>2, <2>2 DEF Decrypt, ProcessDRMError
      <4> QED BY <1>0, <4>1 DEF UsesRights
    <3>3. Typed'
      BY <1>m, <3>1, <3>2 DEF LoadInv, Typed
    <3>4. FilesAt'
      BY <1>0, <3>1
    <3>5. FreeInv'
      BY <1>m, <3>1 DEF FreeInv, IsThumbNailOnly
    <3>6. LeftInv' /\ SuccessShowsContent'
      BY <3>1 DEF LoadInv, LeftInv, SuccessShowsContent, Succeeded, Loaded
    <3> QED BY <3>3, <3>4, <3>5, <3>6 DEF LoadInv
  <2> QED BY <2>1, <2>2
<1>3. ASSUME Read PROVE LoadInv'
  <2>0. stage = "read"
    BY <1>3 DEF Read
  <2>1. CASE Fails(Delete(temp, "unzipped"))
    <3>1. Delete(temp, "unzipped")["copy"] = "none"
      BY <1>0, <2>0 DEF Delete
    <3> QED BY <1>m, <2>0, <2>1, <3>1, FailsInv
  <2>2. CASE ~Fails(Delete(temp, "unzipped"))
    <3>1. temp' = temp /\ error' = error /\ Continues("parse") /\ stage' = "parse"
      BY <1>3, <2>2 DEF Read, Continues
    <3>2. FilesAt'
      BY <1>0, <2>0, <3>1
    <3> QED BY <1>0, <1>m, <2>0, <3>1, <3>2, ContinuesInv
  <2> QED BY <2>1, <2>2
<1> QED BY <1>1, <1>2, <1>3

(* What a parser that has not failed has put into the document.              *)
LEMMA ParsedContent ==
  ASSUME LoadInv, stage = "parse", ProcessSvgContent
  PROVE  /\ iRootElement' \in Trees \cup {None}
         /\ error' \in [set : BOOLEAN, warning : BOOLEAN]
         /\ ~ParseFails =>
              \/ iRootElement' = Tree(TRUE)
              \/ iRootElement' = None /\ content.form = "binary"
<1>1. /\ content \in Contents /\ unpaid \in BOOLEAN
      /\ iRootElement \in Trees \cup {None}
      /\ error \in [set : BOOLEAN, warning : BOOLEAN]
  BY DEF LoadInv, Typed
<1>2. Tree(TRUE) \in Trees /\ Tree(FALSE) \in Trees
  BY <1>1 DEF Tree, Trees
<1>e. /\ PrepareError \in [set : BOOLEAN, warning : BOOLEAN]
      /\ [set |-> TRUE, warning |-> TRUE] \in [set : BOOLEAN, warning : BOOLEAN]
      /\ error' = PrepareError => ParseFails
  BY DEF PrepareError, ParseFails
<1>3. CASE Decoded
  <2>1. content.form = "binary"
    BY <1>3 DEF Decoded, FormParsed
  <2>2. BinaryResult
    BY <1>3 DEF ProcessSvgContent
  <2>3. CASE /\ iRootElement' \in {Tree(TRUE), None}
             /\ error' \in {error, [set |-> TRUE, warning |-> TRUE]}
    <3>1. error' \in [set : BOOLEAN, warning : BOOLEAN]
      BY <1>1, <1>e, <2>3
    <3> QED BY <1>2, <2>1, <2>3, <3>1
  <2>4. CASE /\ iRootElement' \in {iRootElement, Tree(FALSE)}
             /\ error' = PrepareError
    BY <1>1, <1>2, <1>e, <2>4
  <2> QED BY <2>2, <2>3, <2>4 DEF BinaryResult
<1>4. CASE ~Decoded
  <2>1. TextResult(FormParsed)
    BY <1>4 DEF ProcessSvgContent
  <2>2. CASE /\ iRootElement' = Tree(TRUE)
             /\ error' \in {error, [set |-> TRUE, warning |-> TRUE]}
    <3>1. error' \in [set : BOOLEAN, warning : BOOLEAN]
      BY <1>1, <1>e, <2>2
    <3> QED BY <1>2, <2>2, <3>1
  <2>3. CASE iRootElement' \in {None, Tree(FALSE), iRootElement} /\ error' = PrepareError
    BY <1>1, <1>2, <1>e, <2>3
  <2> QED BY <2>1, <2>2, <2>3 DEF TextResult, PrepareError
<1> QED BY <1>3, <1>4

LEMMA ParseInv ==
  ASSUME LoadInv, Parse
  PROVE  LoadInv'
<1>0. /\ stage = "parse" /\ ProcessSvgContent /\ EndOfParse
      /\ UNCHANGED <<content, unpaid, iIsDRMProtected, iIsThumbNailMode>>
  BY DEF Parse, modes
<1>1. /\ content \in Contents /\ unpaid \in BOOLEAN /\ iIsThumbNailMode \in BOOLEAN
      /\ unpaid => IsThumbNailOnly
  BY <1>0 DEF LoadInv, Typed, FreeInv
<1>2. /\ iRootElement' \in Trees \cup {None}
      /\ error' \in [set : BOOLEAN, warning : BOOLEAN]
      /\ ~ParseFails =>
           \/ iRootElement' = Tree(TRUE)
           \/ iRootElement' = None /\ content.form = "binary"
  BY <1>0, ParsedContent
<1>f. /\ temp \in [TempFiles -> {"none", "open", "closed"}]
      /\ temp["copy"] = "none" /\ temp["unzipped"] # "closed"
  BY <1>0 DEF LoadInv, Typed, FilesAt
<1>3. /\ stage' = "idle" /\ temp' = NoTemp
      /\ left' = {} \/ left' = {"copy"} \/ left' = {"unzipped"}
      /\ ~ParseFails => left' = {}
  <2>1. CASE ParseFails
    <3>1. Delete(temp, "unzipped")["copy"] = "none"
      BY <1>f DEF Delete, TempFiles
    <3> QED BY <1>0, <2>1, <3>1, ReturnsLeft DEF EndOfParse
  <2>2. CASE ~ParseFails
    <3> DEFINE files == Delete(Closed(temp), "unzipped")
    <3>1. files["copy"] = "none" /\ files["unzipped"] = "none"
      BY <1>f DEF Delete, Closed, TempFiles
    <3>2. Returns(files)
      BY <1>0, <2>2 DEF EndOfParse
    <3> HIDE DEF files
    <3> QED BY <2>2, <3>1, <3>2, ReturnsLeft
  <2> QED BY <2>1, <2>2
<1>4. ParseFails => lifted' = TRUE
  BY <1>0 DEF EndOfParse
<1>5. ParseFails <=> error' = PrepareError
  BY <1>2 DEF ParseFails, PrepareError
<1>6. Typed'
  BY <1>0, <1>1, <1>2, <1>3, NoTempFiles DEF Typed
<1>7. FilesAt'
  BY <1>3, NoTempFiles DEF FilesAt
<1>8. LeftInv'
  BY <1>3, <1>5 DEF LeftInv, PrepareError
<1>9. SuccessShowsContent'
  <2>1. Succeeded' => ~ParseFails
    BY DEF Succeeded, ParseFails
  <2>2. Tree(TRUE) # None /\ Tree(TRUE).of = content /\ Tree(TRUE).whole
    <3>1. Tree(TRUE) \in Trees
      BY <1>1 DEF Tree, Trees
    <3>2. Tree(TRUE).of = content /\ Tree(TRUE).whole
      BY DEF Tree
    <3> QED BY <3>1, <3>2
  <2> QED BY <1>0, <1>2, <2>1, <2>2 DEF SuccessShowsContent
<1>10. FreeInv'
  <2>1. Tree(TRUE).free = unpaid
    BY DEF Tree
  <2>2. IsThumbNailOnly' = IsThumbNailOnly
    BY <1>0 DEF IsThumbNailOnly
  <2> QED BY <1>1, <1>2, <1>3, <1>4, <2>1, <2>2 DEF FreeInv
<1> QED BY <1>6, <1>7, <1>8, <1>9, <1>10 DEF LoadInv

(* Between loads, only what the client says about thumbnails matters.        *)
LEMMA BetweenInv ==
  ASSUME LoadInv, UNCHANGED <<load, shown, temp>>,
         iIsThumbNailMode' \in BOOLEAN,
         \/ UNCHANGED <<iIsThumbNailMode, lifted>>
         \/ stage = "idle" /\ (lifted' \/ (iIsThumbNailMode' /\ ~lifted))
  PROVE  LoadInv'
<1>1. /\ stage' = stage /\ content' = content /\ temp' = temp /\ error' = error
      /\ unpaid' = unpaid /\ left' = left /\ iRootElement' = iRootElement
      /\ iIsDRMProtected' = iIsDRMProtected
  BY DEF load, shown
<1>2. Typed' /\ FilesAt' /\ LeftInv' /\ SuccessShowsContent'
  BY <1>1 DEF LoadInv, Typed, FilesAt, LeftInv, SuccessShowsContent, Succeeded, Loaded
<1>3. FreeInv'
  BY <1>1 DEF LoadInv, FreeInv, IsThumbNailOnly
<1> QED BY <1>2, <1>3 DEF LoadInv

LEMMA NextLoad == LoadInv /\ [DocumentNext]_documentVars => LoadInv'
<1> SUFFICES ASSUME LoadInv, [DocumentNext]_documentVars PROVE LoadInv'
  OBVIOUS
<1>1. ASSUME NEW c \in Contents, LoadBytes(c) \/ LoadFile(c) \/ Load16BitString(c)
      PROVE LoadInv'
  <2>1. CASE LoadBytes(c)
    BY <2>1, BeginInv DEF LoadBytes
  <2>2. CASE LoadFile(c)
    BY <2>2, BeginInv DEF LoadFile, shown
  <2>3. CASE Load16BitString(c)
    BY <2>3, BeginInv DEF Load16BitString
  <2> QED BY <1>1, <2>1, <2>2, <2>3
<1>2. CASE Steps
  BY <1>2, FileStepInv, ReadStepInv, ParseInv DEF Steps
<1>3. CASE ImageLoadingCompleted
  BY <1>3, BetweenInv DEF ImageLoadingCompleted, load, modes, LoadInv, Typed
<1>4. ASSUME NEW on \in BOOLEAN, SetThumbNailMode(on) \/ SetDRMRights(on) \/ SetDRMMode(on)
      PROVE LoadInv'
  <2>1. CASE SetThumbNailMode(on)
    <3>1. /\ stage = "idle" /\ UNCHANGED <<load, shown, temp>>
          /\ iIsThumbNailMode' = on
          /\ lifted' \/ (on /\ ~lifted)
      BY <2>1 DEF SetThumbNailMode, load
    <3> QED BY <3>1, BetweenInv
  <2>2. CASE SetDRMRights(on) \/ SetDRMMode(on)
    BY <2>2, BetweenInv DEF SetDRMRights, SetDRMMode, load, LoadInv, Typed
  <2> QED BY <1>4, <2>1, <2>2
<1>5. CASE UNCHANGED documentVars
  BY <1>5, BetweenInv DEF documentVars, load, modes, LoadInv, Typed
<1> QED BY <1>1, <1>2, <1>3, <1>4, <1>5 DEF DocumentNext

-----------------------------------------------------------------------------
(* Images                                                                   *)

LEMMA InitImages == DocumentInit => ImageInv
BY DEF DocumentInit, ImageInv, ImagesToldWhenLoaded

LEMMA NextImages == ImageInv /\ [DocumentNext]_documentVars => ImageInv'
<1> SUFFICES ASSUME ImageInv, [DocumentNext]_documentVars PROVE ImageInv'
  OBVIOUS
<1> USE DEF ImageInv, ImagesToldWhenLoaded
<1>1. ASSUME UNCHANGED images PROVE ImageInv'
  BY <1>1 DEF images
<1>2. ASSUME NEW n \in 0 .. MaxImages, AsksForImages(n) PROVE ImageInv'
  <2>1. PICK asked \in 0 .. n :
          /\ iImageElementCnt' = n /\ imagesTold' = FALSE
          /\ fetching' = [tree |-> asked, earlier |-> fetching.tree + fetching.earlier]
          /\ ~miscounted' => ~(fetching.tree + fetching.earlier > 0 \/ asked < n)
    BY <1>2 DEF AsksForImages, Counts
  <2>2. n \in Nat /\ asked \in Nat /\ fetching.tree + fetching.earlier \in Nat
    OBVIOUS
  <2> QED BY <2>1, <2>2
<1>3. CASE ImageLoadingCompleted
  <2>1. PICK whose \in {"tree", "earlier"} :
          /\ fetching[whose] > 0
          /\ fetching' = [fetching EXCEPT ![whose] = @ - 1]
    BY <1>3 DEF ImageLoadingCompleted
  <2>2. /\ iImageElementCnt' = iImageElementCnt - 1 /\ miscounted' = miscounted
        /\ imagesTold' => imagesTold \/ iImageElementCnt = 1
    BY <1>3 DEF ImageLoadingCompleted
  <2>3. fetching' \in [tree : Nat, earlier : Nat]
    BY <2>1
  <2>4. CASE whose = "tree"
    <3>1. fetching'.tree = fetching.tree - 1 /\ fetching'.earlier = fetching.earlier
      BY <2>1, <2>4
    <3> QED BY <2>1, <2>2, <2>3, <2>4, <3>1
  <2>5. CASE whose = "earlier"
    BY <2>1, <2>2, <2>3, <2>5
  <2> QED BY <2>4, <2>5
<1> QED BY <1>1, <1>2, <1>3
        DEF DocumentNext, Steps, LoadBytes, LoadFile, Load16BitString, WriteBytes, OpenFile,
            Look, CopyFile, Unzip, OpenUnzipped, LookInside, Decrypt, Read, Parse,
            SetThumbNailMode, SetDRMRights, SetDRMMode, documentVars

-----------------------------------------------------------------------------
(* Whatever fails, and whatever was loaded before: a load that reports success  *)
(* shows the whole of what was asked for.                                   *)
THEOREM ShowsWhatWasAsked == DocumentSpec => []SuccessShowsContent
<1>1. LoadInv => SuccessShowsContent
  BY DEF LoadInv
<1> QED BY InitLoad, NextLoad, <1>1, PTL DEF DocumentSpec

(* Only a load that fails leaves a temporary file, and it leaves one.        *)
THEOREM OneFileLeft == DocumentSpec => []LeftOnlyByFailure
<1>1. LoadInv => LeftOnlyByFailure
  <2> SUFFICES ASSUME LoadInv, left # {} PROVE ~Succeeded /\ Cardinality(left) = 1
    BY DEF LeftOnlyByFailure
  <2>1. error = PrepareError /\ (left = {"copy"} \/ left = {"unzipped"})
    BY DEF LoadInv, LeftInv
  <2>2. Cardinality(left) = 1
    BY <2>1, FS_Singleton
  <2> QED BY <2>1, <2>2 DEF Succeeded, PrepareError
<1> QED BY InitLoad, NextLoad, <1>1, PTL DEF DocumentSpec

(* A tree opened without rights is in the document only while that is marked    *)
(* as thumbnail only, until the client leaves that mode between loads, or a     *)
(* load clears the mark and fails.                                          *)
THEOREM FreeKeepsMark == DocumentSpec => []FreeIsMarked
<1>1. LoadInv => FreeIsMarked
  BY DEF LoadInv, FreeInv, FreeIsMarked, Loaded
<1> QED BY InitLoad, NextLoad, <1>1, PTL DEF DocumentSpec

(* Where no image of an earlier tree was on its way when the last was made, and   *)
(* all that were counted were asked for, the client is told of the last only.   *)
THEOREM ToldWhenLoaded == DocumentSpec => []ImagesToldWhenLoaded
<1>1. ImageInv => ImagesToldWhenLoaded
  BY DEF ImageInv
<1> QED BY InitImages, NextImages, <1>1, PTL DEF DocumentSpec

-----------------------------------------------------------------------------
(* The engine.                                                             *)

CallsTold == [op : {"cross", "arrive", "follow"}, link : Links \cup {None},
              name : {"href", "id"}]

FileFrames == [document : Documents \cup {None, "file"}, buffer : Buffers \cup {None},
               depth : Nat, drawn : BOOLEAN]

EngineTyped ==
  /\ calls \in Seq(CallsTold)
  /\ iMouseoverElement \in Links \cup {None}

\* A file ends before the calls that were under way when it began.
FilesInv ==
  /\ rendering \in Seq(FileFrames)
  /\ iSvgDocument \in Documents \cup {None, "file"} /\ iFrameBuffer \in Buffers \cup {None}
  /\ \A j, k \in 1 .. Len(rendering) : j <= k => rendering[j].depth <= rendering[k].depth
  /\ \A k \in 1 .. Len(rendering) : rendering[k].depth <= Len(calls)

\* The document of the client, also while files are rendered.
Current == IF rendering = <<>> THEN iSvgDocument ELSE rendering[1].document

\* A call that was made when no file was being rendered.
Outside(i) == rendering # <<>> => i <= rendering[1].depth

\* The link under the pointer, and those that will be, are of the current document.
HoverInv ==
  ~replaced =>
    /\ iMouseoverElement # None => DocumentOf[iMouseoverElement] = Current
    /\ \A i \in 1 .. Len(calls) :
         calls[i].op \in Hovers /\ calls[i].link # None /\ Outside(i) =>
           DocumentOf[calls[i].link] = Current

\* What a listener that was told of everything has been told as entered.
Known(link, name) ==
  IF link = None \/ (name = "id" /\ link \in Unnamed) THEN {} ELSE {<<name, link>>}

(* As long as nothing disturbs it there is one call about the pointer at a time, *)
(* and what has been told is what that call will leave.                      *)
KnownInv ==
  ~disturbed =>
    /\ ~Inside(Hovers) => entered = Known(iMouseoverElement, by)
    /\ \A i, j \in 1 .. Len(calls) : calls[i].op \in Hovers /\ calls[j].op \in Hovers => i = j
    /\ \A i \in 1 .. Len(calls) :
         /\ calls[i].op = "arrive" => entered = Known(calls[i].link, calls[i].name)
         /\ calls[i].op = "cross" => /\ entered = {} /\ listening
                                     /\ calls[i].link # None /\ calls[i].name = "href"

(* Unless an event comes from within, the client is told of one link at a time,   *)
(* and between the tellings there is none that was told.                     *)
FollowInv ==
  ~nested =>
    /\ ~lost
    /\ followed = IF Inside({"follow"}) THEN 1 ELSE 0
    /\ \A i, j \in 1 .. Len(calls) : calls[i].op = "follow" /\ calls[j].op = "follow" => i = j

EngineInv == EngineTyped /\ FilesInv /\ HoverInv /\ KnownInv /\ FollowInv

-----------------------------------------------------------------------------
(* The calls that are telling the client                                     *)

LEMMA InsideIndex ==
  ASSUME EngineTyped, NEW ops
  PROVE  /\ Len(calls) \in Nat
         /\ \A i \in 1 .. Len(calls) : calls[i] \in CallsTold
         /\ Inside(ops) <=> \E i \in 1 .. Len(calls) : calls[i].op \in ops
BY LenProperties, ElementOfSeq DEF EngineTyped, Inside

LEMMA InsideLater ==
  ASSUME calls' \in Seq(CallsTold)
  PROVE  /\ Inside({"follow"})' <=> \E i \in 1 .. Len(calls') : calls'[i].op \in {"follow"}
         /\ Inside(Hovers)' <=> \E i \in 1 .. Len(calls') : calls'[i].op \in Hovers
BY LenProperties DEF Inside, Hovers

LEMMA PushCall ==
  ASSUME EngineTyped, NEW op \in {"cross", "arrive", "follow"},
         NEW link \in Links \cup {None}, NEW name \in {"href", "id"},
         CallBack(op, link, name)
  PROVE  /\ calls' \in Seq(CallsTold)
         /\ Len(calls) \in Nat /\ Len(calls') = Len(calls) + 1
         /\ \A i \in 1 .. Len(calls) : calls'[i] = calls[i]
         /\ calls'[Len(calls) + 1] = [op |-> op, link |-> link, name |-> name]
<1>1. [op |-> op, link |-> link, name |-> name] \in CallsTold
  BY DEF CallsTold
<1> QED BY <1>1, AppendProperties, LenProperties DEF EngineTyped, CallBack

LEMMA FrontProperties ==
  ASSUME NEW S, NEW q \in Seq(S), q # <<>>
  PROVE  /\ Front(q) \in Seq(S)
         /\ Len(q) \in Nat \ {0} /\ Len(Front(q)) = Len(q) - 1
         /\ \A i \in 1 .. Len(q) - 1 : Front(q)[i] = q[i]
         /\ Last(q) = q[Len(q)] /\ Last(q) \in S
<1>1. Len(q) \in Nat \ {0}
  BY LenProperties, EmptySeq
<1>2. \A i \in 1 .. Len(q) : q[i] \in S
  BY <1>1, ElementOfSeq
<1>3. /\ SubSeq(q, 1, Len(q) - 1) \in Seq(S)
      /\ Len(SubSeq(q, 1, Len(q) - 1)) = Len(q) - 1
      /\ \A i \in 1 .. Len(q) - 1 : SubSeq(q, 1, Len(q) - 1)[i] = q[i]
  <2> DEFINE n == Len(q) - 1
             front == SubSeq(q, 1, n)
  <2>1. n \in Nat /\ 1 \in Int /\ \A i \in 1 .. n : q[i] \in S
    BY <1>1, <1>2
  <2>2. /\ front \in Seq(S) /\ Len(front) = IF 1 <= n THEN n - 1 + 1 ELSE 0
        /\ \A i \in 1 .. n - 1 + 1 : front[i] = q[1 + i - 1]
    <3> HIDE DEF n
    <3> QED BY <2>1, SubSeqProperties
  <2> HIDE DEF front, n
  <2>3. Len(front) = n /\ \A i \in 1 .. n : front[i] = q[i]
    BY <2>1, <2>2
  <2> QED BY <2>2, <2>3 DEF front, n
<1> QED BY <1>1, <1>2, <1>3 DEF Front, Last

LEMMA PopCall ==
  ASSUME EngineTyped, calls # <<>>
  PROVE  /\ Front(calls) \in Seq(CallsTold)
         /\ Len(calls) \in Nat \ {0} /\ Len(Front(calls)) = Len(calls) - 1
         /\ \A i \in 1 .. Len(calls) - 1 : Front(calls)[i] = calls[i]
         /\ Last(calls) = calls[Len(calls)] /\ Last(calls) \in CallsTold
BY FrontProperties DEF EngineTyped

(* The files that are being rendered stand while calls are made and return.     *)
LEMMA FilesStand ==
  ASSUME FilesInv
  PROVE  /\ Len(rendering) \in Nat /\ rendering = <<>> <=> Len(rendering) = 0
         /\ \A k \in 1 .. Len(rendering) :
              rendering[k] \in FileFrames /\ rendering[k].depth \in Nat
         /\ rendering # <<>> => /\ Last(rendering) = rendering[Len(rendering)]
                              /\ 1 \in 1 .. Len(rendering)
                              /\ Len(rendering) \in 1 .. Len(rendering)
<1>1. Len(rendering) \in Nat /\ rendering = <<>> <=> Len(rendering) = 0
  BY LenProperties, EmptySeq DEF FilesInv
<1>2. \A k \in 1 .. Len(rendering) : rendering[k] \in FileFrames
  BY <1>1, ElementOfSeq DEF FilesInv
<1>3. \A k \in 1 .. Len(rendering) : rendering[k].depth \in Nat
  BY <1>2 DEF FileFrames
<1> QED BY <1>1, <1>2, <1>3 DEF Last

(* A call that is made comes behind the files, one that returns was made after.  *)
LEMMA FilesInvKept ==
  ASSUME FilesInv, UNCHANGED rendering, Len(calls) \in Nat,
         iSvgDocument' \in Documents \cup {None, "file"}, iFrameBuffer' \in Buffers \cup {None},
         Len(calls') \in Nat,
         Len(calls') >= Len(calls) \/ (rendering # <<>> => Last(rendering).depth <= Len(calls'))
  PROVE  FilesInv'
<1>1. \A k \in 1 .. Len(rendering) :
        rendering[k].depth \in Nat /\ rendering[k].depth <= Len(calls)
  BY FilesStand DEF FilesInv
<1>2. \A k \in 1 .. Len(rendering) : rendering[k].depth <= Len(calls')
  <2>1. CASE Len(calls') >= Len(calls)
    BY <1>1, <2>1
  <2>2. CASE rendering # <<>> => Last(rendering).depth <= Len(calls')
    <3> SUFFICES ASSUME NEW k \in 1 .. Len(rendering) PROVE rendering[k].depth <= Len(calls')
      OBVIOUS
    <3>1. /\ Len(rendering) \in Nat /\ rendering # <<>>
          /\ Last(rendering) = rendering[Len(rendering)]
          /\ Len(rendering) \in 1 .. Len(rendering) /\ rendering[Len(rendering)].depth \in Nat
      BY FilesStand
    <3>2. rendering[k].depth <= rendering[Len(rendering)].depth
      BY <3>1 DEF FilesInv
    <3> QED BY <1>1, <2>2, <3>1, <3>2
  <2> QED BY <2>1, <2>2
<1> QED BY <1>2 DEF FilesInv

(* The two calls of a link that is left become one.                          *)
LEMMA TurnCall ==
  ASSUME EngineTyped, LeftTold
  PROVE  /\ calls' \in Seq(CallsTold)
         /\ Len(calls) \in Nat \ {0} /\ Len(calls') = Len(calls)
         /\ \A i \in 1 .. Len(calls) - 1 : calls'[i] = calls[i]
         /\ calls[Len(calls)].op = "cross" /\ calls'[Len(calls)].op = "arrive"
         /\ calls'[Len(calls)].link = calls[Len(calls)].link
         /\ calls'[Len(calls)].name = calls[Len(calls)].name
<1> DEFINE turned == [Last(calls) EXCEPT !.op = "arrive"]
<1>1. calls # <<>> /\ Last(calls).op = "cross" /\ calls' = Append(Front(calls), turned)
  BY DEF LeftTold, Returning
<1>2. Last(calls) \in CallsTold
  BY <1>1, PopCall
<1>3. /\ turned \in CallsTold /\ turned.op = "arrive"
      /\ turned.link = Last(calls).link /\ turned.name = Last(calls).name
  BY <1>2 DEF CallsTold
<1> HIDE DEF turned
<1>4. /\ calls' \in Seq(CallsTold) /\ Len(calls') = Len(Front(calls)) + 1
      /\ \A i \in 1 .. Len(Front(calls)) : calls'[i] = Front(calls)[i]
      /\ calls'[Len(Front(calls)) + 1] = turned
  BY <1>1, <1>3, PopCall, AppendProperties
<1>5. /\ Len(calls) \in Nat \ {0} /\ Len(Front(calls)) = Len(calls) - 1
      /\ \A i \in 1 .. Len(calls) - 1 : Front(calls)[i] = calls[i]
      /\ Last(calls) = calls[Len(calls)]
  BY <1>1, PopCall
<1>6. Len(Front(calls)) + 1 = Len(calls)
  BY <1>5
<1> QED BY <1>1, <1>3, <1>4, <1>5, <1>6

(* The calls about the pointer begin with one that has yet to return.         *)
Tells(op, link, name) ==
  /\ op \in {"cross", "arrive"} /\ link \in Links \cup {None} /\ name \in {"href", "id"}
  /\ CallBack(op, link, name)
  /\ link # None => DocumentOf[link] = iSvgDocument
  /\ UNCHANGED <<iSvgDocument, listening, iMouseoverElement, by, replaced, linking,
                 drawing, filing>>
  /\ ~disturbed' => ~disturbed /\ ~Inside(Hovers)
  /\ ~disturbed' /\ entered = Known(iMouseoverElement, by) =>
       /\ op = "arrive" => entered' = Known(link, name)
       /\ op = "cross" => entered' = {} /\ listening /\ link # None /\ name = "href"

USE DocumentsAssumption, NoLinkAssumption

LEMMA PointerTells ==
  ASSUME EngineTyped, NEW link \in Links \cup {None}, CheckForHyperlinkMouseover(link)
  PROVE  \E op \in {"cross", "arrive"} : Tells(op, link, "href")
<1>1. CASE iMouseoverElement = None
  <2>1. Tells("arrive", link, "href")
    BY <1>1 DEF CheckForHyperlinkMouseover, Tells, Enters, Disturbs, Known
  <2> QED BY <2>1
<1>2. CASE iMouseoverElement # None
  <2>1. /\ Crosses(link) /\ listening
        /\ UNCHANGED <<iSvgDocument, listening, iMouseoverElement, by, replaced, linking,
                       drawing, filing>>
        /\ link # None => DocumentOf[link] = iSvgDocument
    BY <1>2 DEF CheckForHyperlinkMouseover
  <2>2. ~disturbed' => ~disturbed /\ ~Inside(Hovers) /\ by = "href"
    BY <2>1 DEF Crosses, Disturbs
  <2>3. entered' = entered \ {<<"href", iMouseoverElement>>}
    BY <2>1 DEF Crosses, Exits
  <2>4. ~disturbed' /\ entered = Known(iMouseoverElement, by) => entered' = {}
    BY <1>2, <2>2, <2>3 DEF Known
  <2>5. CASE link = None
    <3>1. CallBack("arrive", link, "href")
      BY <2>1, <2>5 DEF Crosses
    <3>2. Known(link, "href") = {}
      BY <2>5 DEF Known
    <3>3. Tells("arrive", link, "href")
      BY <2>1, <2>2, <2>4, <3>1, <3>2, <2>5 DEF Tells
    <3> QED BY <3>3
  <2>6. CASE link # None
    <3>1. CallBack("cross", link, "href")
      BY <2>1, <2>6 DEF Crosses
    <3>2. Tells("cross", link, "href")
      BY <2>1, <2>2, <2>4, <3>1, <2>6 DEF Tells
    <3> QED BY <3>2
  <2> QED BY <2>5, <2>6
<1> QED BY <1>1, <1>2

LEMMA FocusTells ==
  ASSUME EngineTyped, NEW link \in Links,
         NotifyElementActivatedLinkEntered(link) \/ NotifyElementActivatedLinkExited(link)
  PROVE  \E l \in {link, None} : Tells("arrive", l, "id")
<1>1. CASE NotifyElementActivatedLinkEntered(link)
  <2>1. Tells("arrive", link, "id")
    BY <1>1 DEF NotifyElementActivatedLinkEntered, Tells, Enters, Disturbs, Known
  <2> QED BY <2>1
<1>2. CASE NotifyElementActivatedLinkExited(link)
  <2>1. /\ CallBack("arrive", None, "id")
        /\ ~disturbed' => ~disturbed /\ ~Inside(Hovers) /\ by = "id" /\ listening
        /\ iMouseoverElement = link /\ link # None
        /\ UNCHANGED <<iSvgDocument, listening, iMouseoverElement, by, replaced, linking,
                       drawing, filing>>
    BY <1>2 DEF NotifyElementActivatedLinkExited, Disturbs
  <2>2. listening => entered' = IF link \in Unnamed THEN entered ELSE entered \ {<<"id", link>>}
    BY <1>2 DEF NotifyElementActivatedLinkExited, Exits
  <2>3. ~disturbed' /\ entered = Known(iMouseoverElement, by) => entered' = Known(None, "id")
    BY <2>1, <2>2 DEF Known
  <2>4. Tells("arrive", None, "id")
    BY <2>1, <2>3 DEF Tells
  <2> QED BY <2>4
<1> QED BY <1>1, <1>2

LEMMA TellsInv ==
  ASSUME EngineInv, NEW op, NEW link, NEW name, Tells(op, link, name)
  PROVE  EngineInv'
<1> DEFINE n == Len(calls)
<1>1. /\ op \in {"cross", "arrive"} /\ link \in Links \cup {None} /\ name \in {"href", "id"}
      /\ CallBack(op, link, name)
      /\ link # None => DocumentOf[link] = iSvgDocument
  BY DEF Tells
<1>2. /\ iSvgDocument' = iSvgDocument /\ listening' = listening
      /\ iMouseoverElement' = iMouseoverElement /\ by' = by /\ replaced' = replaced
      /\ followed' = followed /\ lost' = lost /\ nested' = nested
      /\ rendering' = rendering
  BY DEF Tells, linking, filing
<1>3. EngineTyped
  BY DEF EngineInv
<1>4. /\ calls' \in Seq(CallsTold) /\ n \in Nat /\ Len(calls') = n + 1
      /\ \A i \in 1 .. n : calls'[i] = calls[i]
      /\ calls'[n + 1] = [op |-> op, link |-> link, name |-> name]
  BY <1>1, <1>3, PushCall
<1>5. /\ calls'[n + 1].op = op /\ calls'[n + 1].link = link /\ calls'[n + 1].name = name
  BY <1>4
<1>6. EngineTyped'
  BY <1>2, <1>3, <1>4 DEF EngineTyped
<1>7. \A ops : Inside(ops) <=> \E i \in 1 .. n : calls[i].op \in ops
  BY <1>3, InsideIndex
<1>8. Inside({"follow"})' <=> \E i \in 1 .. n + 1 : calls'[i].op \in {"follow"}
  BY <1>4, InsideLater
<1>9. ~disturbed' => ~disturbed /\ \A i \in 1 .. n : calls[i].op \notin Hovers
  BY <1>7 DEF Tells
<1>10. op \in Hovers
  BY <1>1 DEF Hovers
<1>11. Inside(Hovers)'
  <2>1. Inside(Hovers)' <=> \E i \in 1 .. n + 1 : calls'[i].op \in Hovers
    BY <1>4, InsideLater
  <2> QED BY <1>4, <1>5, <1>10, <2>1
<1> HIDE DEF n
<1>f. FilesInv'
  BY <1>2, <1>4, FilesInvKept DEF EngineInv, FilesInv, Tells, drawing, n
<1>12. HoverInv'
  <2> SUFFICES ASSUME ~replaced PROVE HoverInv'
    BY <1>2 DEF HoverInv
  <2>1. Current' = Current /\ \A i : Outside(i)' = Outside(i)
    BY <1>2 DEF Current, Outside
  <2>2. iMouseoverElement # None => DocumentOf[iMouseoverElement] = Current
    BY DEF EngineInv, HoverInv
  <2>3. ASSUME NEW i \in 1 .. n, calls[i].op \in Hovers, calls[i].link # None, Outside(i)
        PROVE  DocumentOf[calls[i].link] = Current
    BY <2>3 DEF EngineInv, HoverInv, n
  <2>4. Outside(n + 1) => rendering = <<>>
    <3> SUFFICES ASSUME rendering # <<>> PROVE ~Outside(n + 1)
      OBVIOUS
    <3>1. rendering[1].depth \in Nat /\ rendering[1].depth <= n
      BY FilesStand DEF EngineInv, FilesInv, n
    <3> QED BY <1>4, <3>1 DEF Outside
  <2>5. Outside(n + 1) /\ link # None => DocumentOf[link] = Current
    BY <1>1, <2>4 DEF Current
  <2>6. ASSUME NEW i \in 1 .. n + 1, calls'[i].op \in Hovers, calls'[i].link # None, Outside(i)
        PROVE  DocumentOf[calls'[i].link] = Current
    <3>1. CASE i \in 1 .. n
      BY <1>4, <2>3, <2>6, <3>1
    <3>2. CASE i = n + 1
      BY <1>5, <2>5, <2>6, <3>2
    <3> QED BY <1>4, <3>1, <3>2
  <2> QED BY <1>2, <1>4, <2>1, <2>2, <2>6 DEF HoverInv, Hovers
<1>13. KnownInv'
  <2> SUFFICES ASSUME ~disturbed' PROVE KnownInv'
    BY DEF KnownInv
  <2>1. entered = Known(iMouseoverElement, by)
    BY <1>7, <1>9 DEF EngineInv, KnownInv
  <2>2. /\ op = "arrive" => entered' = Known(link, name)
        /\ op = "cross" => entered' = {} /\ listening /\ link # None /\ name = "href"
    BY <2>1 DEF Tells
  <2>3. \A i \in 1 .. n + 1 : calls'[i].op \in Hovers => i = n + 1
    BY <1>4, <1>9
  <2>4. Known(link, name)' = Known(link, name)
    BY DEF Known
  <2>5. \A i \in 1 .. Len(calls') :
          /\ calls'[i].op = "arrive" => entered' = Known(calls'[i].link, calls'[i].name)
          /\ calls'[i].op = "cross" => /\ entered' = {} /\ listening'
                                       /\ calls'[i].link # None /\ calls'[i].name = "href"
    <3> SUFFICES ASSUME NEW i \in 1 .. n + 1, calls'[i].op \in Hovers
                 PROVE  /\ calls'[i].op = "arrive" =>
                             entered' = Known(calls'[i].link, calls'[i].name)
                        /\ calls'[i].op = "cross" =>
                             /\ entered' = {} /\ listening'
                             /\ calls'[i].link # None /\ calls'[i].name = "href"
      BY <1>4 DEF Hovers
    <3> QED BY <1>2, <1>5, <2>2, <2>3
  <2>6. \A i, j \in 1 .. Len(calls') :
          calls'[i].op \in Hovers /\ calls'[j].op \in Hovers => i = j
    BY <1>4, <2>3
  <2> QED BY <1>11, <2>5, <2>6 DEF KnownInv, Known, Hovers
<1>14. FollowInv'
  <2>1. Inside({"follow"})' <=> Inside({"follow"})
    BY <1>1, <1>4, <1>5, <1>7, <1>8
  <2>2. \A i \in 1 .. Len(calls') :
          calls'[i].op = "follow" => i \in 1 .. n /\ calls[i].op = "follow"
    BY <1>1, <1>4, <1>5
  <2> QED BY <1>2, <2>1, <2>2 DEF EngineInv, FollowInv, n
<1> QED BY <1>6, <1>f, <1>12, <1>13, <1>14 DEF EngineInv

LEMMA LeftToldInv ==
  ASSUME EngineInv, LeftTold
  PROVE  EngineInv'
<1> DEFINE n == Len(calls)
<1>1. /\ iSvgDocument' = iSvgDocument /\ listening' = listening
      /\ iMouseoverElement' = iMouseoverElement /\ by' = by /\ replaced' = replaced
      /\ disturbed' = disturbed
      /\ followed' = followed /\ lost' = lost /\ nested' = nested
      /\ rendering' = rendering
  BY DEF LeftTold, linking, filing
<1>2. EngineTyped
  BY DEF EngineInv
<1>3. /\ calls' \in Seq(CallsTold) /\ n \in Nat \ {0} /\ Len(calls') = n
      /\ \A i \in 1 .. n - 1 : calls'[i] = calls[i]
      /\ calls[n].op = "cross" /\ calls'[n].op = "arrive"
      /\ calls'[n].link = calls[n].link /\ calls'[n].name = calls[n].name
  BY <1>2, TurnCall
<1>4. \A i \in 1 .. n : calls'[i].op # "arrive" => i \in 1 .. n - 1 /\ calls'[i] = calls[i]
  BY <1>3
<1>5. \A i \in 1 .. n : /\ calls'[i].op \in Hovers <=> calls[i].op \in Hovers
                        /\ calls'[i].op = "follow" <=> calls[i].op = "follow"
                        /\ calls'[i].link = calls[i].link /\ calls'[i].name = calls[i].name
  BY <1>3 DEF Hovers
<1>6. \A ops : Inside(ops) <=> \E i \in 1 .. n : calls[i].op \in ops
  BY <1>2, InsideIndex
<1>7. /\ Inside({"follow"})' <=> \E i \in 1 .. n : calls'[i].op \in {"follow"}
      /\ Inside(Hovers)' <=> \E i \in 1 .. n : calls'[i].op \in Hovers
  BY <1>3, InsideLater
<1>8. Last(calls) = calls[n]
  BY DEF Last
<1> HIDE DEF n
<1>9. EngineTyped'
  BY <1>1, <1>2, <1>3 DEF EngineTyped
<1>f. FilesInv'
  BY <1>1, <1>3, FilesInvKept DEF EngineInv, FilesInv, LeftTold, drawing, n
<1>10. HoverInv'
  BY <1>1, <1>3, <1>5 DEF EngineInv, HoverInv, Current, Outside, Hovers, n
<1>11. KnownInv'
  <2> SUFFICES ASSUME ~disturbed PROVE KnownInv'
    BY <1>1 DEF KnownInv
  <2>1. /\ entered = {} /\ listening /\ calls[n].link # None /\ calls[n].name = "href"
        /\ \A i, j \in 1 .. n : calls[i].op \in Hovers /\ calls[j].op \in Hovers => i = j
    BY <1>3 DEF EngineInv, KnownInv, n
  <2>2. calls[n].op \in Hovers
    BY <1>3 DEF Hovers
  <2>3. \A i \in 1 .. n : calls'[i].op \in Hovers => i = n
    BY <1>3, <1>5, <2>1, <2>2
  <2>4. entered' = Known(calls'[n].link, calls'[n].name)
    <3>1. entered' = {<<"href", calls[n].link>>}
      BY <1>8, <2>1 DEF LeftTold, Enters
    <3> QED BY <1>3, <2>1, <3>1 DEF Known
  <2>5. Inside(Hovers)'
    BY <1>3, <1>5, <1>7, <2>2
  <2>6. \A i \in 1 .. n : calls'[i].op \in Hovers =>
          calls'[i].op = "arrive" /\ entered' = Known(calls'[i].link, calls'[i].name)
    BY <1>3, <2>3, <2>4
  <2>7. \A i, j \in 1 .. n : calls'[i].op \in Hovers /\ calls'[j].op \in Hovers => i = j
    BY <2>3
  <2> QED BY <1>3, <2>5, <2>6, <2>7 DEF KnownInv, Known, Hovers
<1>12. FollowInv'
  BY <1>1, <1>3, <1>5, <1>6, <1>7 DEF EngineInv, FollowInv, n
<1> QED BY <1>9, <1>f, <1>10, <1>11, <1>12 DEF EngineInv

LEMMA AllToldInv ==
  ASSUME EngineInv, AllTold
  PROVE  EngineInv'
<1> DEFINE n == Len(calls)
<1>1. /\ iSvgDocument' = iSvgDocument /\ listening' = listening /\ entered' = entered
      /\ iMouseoverElement' = Last(calls).link /\ by' = Last(calls).name
      /\ replaced' = (replaced \/ (rendering # <<>> /\ Last(calls).link # None))
      /\ disturbed' = disturbed
      /\ followed' = followed /\ lost' = lost /\ nested' = nested
      /\ rendering' = rendering /\ calls' = Front(calls)
      /\ calls # <<>> /\ Last(calls).op = "arrive"
  BY DEF AllTold, Returning, linking, filing
<1>2. EngineTyped
  BY DEF EngineInv
<1>3. /\ calls' \in Seq(CallsTold) /\ n \in Nat \ {0} /\ Len(calls') = n - 1
      /\ \A i \in 1 .. n - 1 : calls'[i] = calls[i]
      /\ calls[n] = Last(calls) /\ calls[n] \in CallsTold /\ calls[n].op = "arrive"
  BY <1>1, <1>2, PopCall
<1>4. \A ops : Inside(ops) <=> \E i \in 1 .. n : calls[i].op \in ops
  BY <1>2, InsideIndex
<1>5. /\ Inside({"follow"})' <=> \E i \in 1 .. n - 1 : calls[i].op \in {"follow"}
      /\ Inside(Hovers)' <=> \E i \in 1 .. n - 1 : calls[i].op \in Hovers
  BY <1>3, InsideLater
<1> HIDE DEF n
<1>6. EngineTyped'
  BY <1>1, <1>2, <1>3 DEF EngineTyped, CallsTold
<1>7. calls[n].op \in Hovers
  BY <1>3 DEF Hovers
<1>f. FilesInv'
  <2>1. rendering # <<>> => Last(rendering).depth \in Nat /\ Last(rendering).depth <= n - 1
    <3>1. rendering # <<>> => Last(rendering).depth \in Nat /\ n > Last(rendering).depth
      BY FilesStand DEF AllTold, Returning, EngineInv, n
    <3> QED BY <1>3, <3>1
  <2>2. /\ FilesInv /\ UNCHANGED <<rendering, iSvgDocument, iFrameBuffer>>
        /\ iSvgDocument \in Documents \cup {None, "file"}
        /\ iFrameBuffer \in Buffers \cup {None}
    BY DEF EngineInv, FilesInv, AllTold, drawing, filing
  <2>3. Len(calls) = n /\ n \in Nat /\ Len(calls') = n - 1 /\ n - 1 \in Nat
    BY <1>3 DEF n
  <2> QED BY <2>1, <2>2, <2>3, FilesInvKept
<1>8. HoverInv'
  <2> SUFFICES ASSUME ~replaced' PROVE HoverInv'
    BY DEF HoverInv
  <2>1. ~replaced /\ (calls[n].link # None => rendering = <<>>)
    BY <1>1, <1>3
  <2>2. Current' = Current /\ \A i : Outside(i)' = Outside(i)
    BY <1>1 DEF Current, Outside
  <2>3. ASSUME NEW i \in 1 .. n, calls[i].op \in Hovers, calls[i].link # None, Outside(i)
        PROVE  DocumentOf[calls[i].link] = Current
    BY <2>1, <2>3 DEF EngineInv, HoverInv, n
  <2>4. calls[n].link # None => DocumentOf[calls[n].link] = Current
    BY <1>3, <1>7, <2>1, <2>3 DEF Outside
  <2> QED BY <1>1, <1>3, <2>2, <2>3, <2>4 DEF HoverInv, Hovers
<1>9. KnownInv'
  <2> SUFFICES ASSUME ~disturbed PROVE KnownInv'
    BY <1>1 DEF KnownInv
  <2>1. /\ entered = Known(calls[n].link, calls[n].name)
        /\ \A i, j \in 1 .. n : calls[i].op \in Hovers /\ calls[j].op \in Hovers => i = j
    BY <1>3 DEF EngineInv, KnownInv, n
  <2>2. \A i \in 1 .. n - 1 : calls'[i].op \notin Hovers
    BY <1>3, <1>7, <2>1
  <2>3. entered' = Known(iMouseoverElement', by')
    BY <1>1, <1>3, <2>1
  <2> QED BY <1>3, <2>2, <2>3 DEF KnownInv, Known, Hovers
<1>10. FollowInv'
  <2>1. Inside({"follow"})' <=> Inside({"follow"})
    BY <1>3, <1>4, <1>5
  <2> QED BY <1>1, <1>3, <2>1 DEF EngineInv, FollowInv, n
<1> QED BY <1>6, <1>f, <1>8, <1>9, <1>10 DEF EngineInv

(* The links that are followed do not concern the pointer.                   *)
LEMMA KeepsPointer ==
  ASSUME EngineInv, EngineTyped',
         UNCHANGED <<iSvgDocument, listening, hovering, rendering>>,
         \A i \in 1 .. Len(calls') :
           calls'[i].op \in Hovers => i \in 1 .. Len(calls) /\ calls'[i] = calls[i],
         Inside(Hovers) => Inside(Hovers)'
  PROVE  HoverInv' /\ KnownInv'
<1>1. /\ iSvgDocument' = iSvgDocument /\ listening' = listening /\ entered' = entered
      /\ iMouseoverElement' = iMouseoverElement /\ by' = by
      /\ replaced' = replaced /\ disturbed' = disturbed /\ rendering' = rendering
  BY DEF hovering
<1>2. HoverInv'
  BY <1>1 DEF EngineInv, HoverInv, Current, Outside, Hovers
<1>3. KnownInv'
  <2> SUFFICES ASSUME ~disturbed PROVE KnownInv'
    BY <1>1 DEF KnownInv
  <2>1. ~Inside(Hovers)' => entered' = Known(iMouseoverElement', by')
    BY <1>1 DEF EngineInv, KnownInv
  <2>2. \A i, j \in 1 .. Len(calls') :
          calls'[i].op \in Hovers /\ calls'[j].op \in Hovers => i = j
    BY DEF EngineInv, KnownInv
  <2>3. \A i \in 1 .. Len(calls') : calls'[i].op \in Hovers =>
          /\ calls'[i].op = "arrive" => entered' = Known(calls'[i].link, calls'[i].name)
          /\ calls'[i].op = "cross" => /\ entered' = {} /\ listening'
                                       /\ calls'[i].link # None /\ calls'[i].name = "href"
    BY <1>1 DEF EngineInv, KnownInv
  <2> QED BY <2>1, <2>2, <2>3 DEF KnownInv, Known, Hovers
<1> QED BY <1>2, <1>3

LEMMA LinkToldInv ==
  ASSUME EngineInv, LinkTold
  PROVE  EngineInv'
<1> DEFINE n == Len(calls)
<1>1. /\ UNCHANGED <<iSvgDocument, listening, hovering, rendering>>
      /\ nested' = nested /\ calls' = Front(calls) /\ iLinkUri' = None /\ followed' = 0
      /\ calls # <<>> /\ Last(calls).op = "follow"
  BY DEF LinkTold, Returning, filing, Resets
<1>l. ~lost /\ followed = 1 => ~lost'
  <2>1. lost' => lost \/ followed = 0
    BY DEF LinkTold
  <2> QED BY <2>1
<1>2. EngineTyped
  BY DEF EngineInv
<1>3. /\ calls' \in Seq(CallsTold) /\ n \in Nat \ {0} /\ Len(calls') = n - 1
      /\ \A i \in 1 .. n - 1 : calls'[i] = calls[i]
      /\ calls[n].op = "follow"
  BY <1>1, <1>2, PopCall
<1>4. \A ops : Inside(ops) <=> \E i \in 1 .. n : calls[i].op \in ops
  BY <1>2, InsideIndex
<1>5. /\ Inside({"follow"})' <=> \E i \in 1 .. n - 1 : calls[i].op \in {"follow"}
      /\ Inside(Hovers)' <=> \E i \in 1 .. n - 1 : calls[i].op \in Hovers
  BY <1>3, InsideLater
<1> HIDE DEF n
<1>6. EngineTyped'
  BY <1>1, <1>2, <1>3 DEF EngineTyped, hovering
<1>f. FilesInv'
  <2>1. rendering # <<>> => Last(rendering).depth \in Nat /\ Last(rendering).depth <= n - 1
    <3>1. rendering # <<>> => Last(rendering).depth \in Nat /\ n > Last(rendering).depth
      BY FilesStand DEF LinkTold, Returning, EngineInv, n
    <3> QED BY <1>3, <3>1
  <2> QED BY <1>1, <1>3, <2>1, FilesInvKept DEF EngineInv, FilesInv, LinkTold, drawing, n
<1>7. HoverInv' /\ KnownInv'
  <2>1. Inside(Hovers) => Inside(Hovers)'
    BY <1>3, <1>4, <1>5 DEF Hovers
  <2>2. \A i \in 1 .. Len(calls') : i \in 1 .. Len(calls) /\ calls'[i] = calls[i]
    BY <1>3 DEF n
  <2> QED BY <1>1, <1>6, <2>1, <2>2, KeepsPointer
<1>8. FollowInv'
  <2> SUFFICES ASSUME ~nested PROVE FollowInv'
    BY <1>1 DEF FollowInv
  <2>1. Inside({"follow"})
    BY <1>3, <1>4
  <2>2. /\ ~lost /\ followed = 1
        /\ \A i, j \in 1 .. n : calls[i].op = "follow" /\ calls[j].op = "follow" => i = j
    BY <2>1 DEF EngineInv, FollowInv, n
  <2>3. \A i \in 1 .. n - 1 : calls[i].op # "follow"
    BY <1>3, <2>2
  <2> QED BY <1>1, <1>l, <1>3, <1>5, <2>2, <2>3 DEF FollowInv
<1> QED BY <1>6, <1>f, <1>7, <1>8 DEF EngineInv

LEMMA ProcessEventInv ==
  ASSUME EngineInv, ProcessEvent \/ \E uri \in Uris : LinkRequest(uri)
  PROVE  EngineInv'
<1> DEFINE n == Len(calls)
<1>1. /\ UNCHANGED <<iSvgDocument, listening, hovering, rendering>>
      /\ lost' = lost
      /\ ~nested' => ~nested /\ ~Inside({"follow"})
      /\ UNCHANGED drawing
  BY DEF ProcessEvent, LinkRequest, filing
<1>2. EngineTyped
  BY DEF EngineInv
<1>3. /\ n \in Nat
      /\ \A ops : Inside(ops) <=> \E i \in 1 .. n : calls[i].op \in ops
  BY <1>2, InsideIndex
<1>4. ~nested' => ~lost /\ followed = 0 /\ \A i \in 1 .. n : calls[i].op # "follow"
  BY <1>1, <1>3 DEF EngineInv, FollowInv
<1>5. \/ calls' = calls /\ followed' \in {followed, 0}
      \/ CallBack("follow", None, "href") /\ followed' = followed + 1
  BY DEF ProcessEvent, LinkRequest, Follows
<1>6. CASE calls' = calls /\ followed' \in {followed, 0}
  <2>1. EngineTyped'
    BY <1>1, <1>2, <1>6 DEF EngineTyped, hovering
  <2>2. HoverInv' /\ KnownInv'
    <3>1. Inside(Hovers)' = Inside(Hovers)
      BY <1>6 DEF Inside, Hovers
    <3> QED BY <1>1, <1>6, <2>1, <3>1, KeepsPointer
  <2>3. Inside({"follow"})' = Inside({"follow"})
    BY <1>6 DEF Inside
  <2>4. FilesInv'
    BY <1>1, <1>3, <1>6, FilesInvKept DEF EngineInv, FilesInv, drawing
  <2> QED BY <1>1, <1>4, <1>6, <2>1, <2>2, <2>3, <2>4 DEF EngineInv, FollowInv
<1>7. CASE CallBack("follow", None, "href") /\ followed' = followed + 1
  <2>1. /\ calls' \in Seq(CallsTold) /\ Len(calls') = n + 1
        /\ \A i \in 1 .. n : calls'[i] = calls[i]
        /\ calls'[n + 1].op = "follow"
    <3>1. /\ calls' \in Seq(CallsTold) /\ Len(calls') = n + 1
          /\ \A i \in 1 .. n : calls'[i] = calls[i]
          /\ calls'[n + 1] = [op |-> "follow", link |-> None, name |-> "href"]
      BY <1>2, <1>7, PushCall
    <3> HIDE DEF n
    <3> QED BY <3>1
  <2>2. /\ Inside({"follow"})' <=> \E i \in 1 .. n + 1 : calls'[i].op \in {"follow"}
        /\ Inside(Hovers)' <=> \E i \in 1 .. n + 1 : calls'[i].op \in Hovers
    BY <2>1, InsideLater
  <2> HIDE DEF n
  <2>3. EngineTyped'
    BY <1>1, <1>2, <2>1 DEF EngineTyped, hovering
  <2>4. HoverInv' /\ KnownInv'
    <3>1. Inside(Hovers) => Inside(Hovers)'
      BY <1>3, <2>1, <2>2
    <3>2. \A i \in 1 .. Len(calls') : calls'[i].op \in Hovers =>
            i \in 1 .. Len(calls) /\ calls'[i] = calls[i]
      BY <1>3, <2>1 DEF Hovers, n
    <3> QED BY <1>1, <2>3, <3>1, <3>2, KeepsPointer
  <2>5. FollowInv'
    <3> SUFFICES ASSUME ~nested' PROVE FollowInv'
      BY DEF FollowInv
    <3>1. followed' = 1 /\ ~lost'
      BY <1>1, <1>4, <1>7
    <3>2. Inside({"follow"})'
      BY <1>3, <2>1, <2>2
    <3>3. \A i \in 1 .. n + 1 : calls'[i].op = "follow" => i = n + 1
      BY <1>3, <1>4, <2>1
    <3>4. \A i, j \in 1 .. Len(calls') : calls'[i].op = "follow" /\ calls'[j].op = "follow" => i = j
      BY <2>1, <3>3
    <3> QED BY <3>1, <3>2, <3>4 DEF FollowInv
  <2>6. FilesInv'
    BY <1>1, <1>3, <2>1, FilesInvKept DEF EngineInv, FilesInv, drawing, n
  <2> QED BY <2>3, <2>4, <2>5, <2>6 DEF EngineInv
<1> QED BY <1>5, <1>6, <1>7

(* Whatever calls and links that were asked for has nothing to do with.         *)
LEMMA NoCallInv ==
  ASSUME EngineInv, UNCHANGED <<calls, linking>>,
         iMouseoverElement' \in {iMouseoverElement, None}, HoverInv', FilesInv',
         \/ UNCHANGED <<iMouseoverElement, entered, by, listening, disturbed>>
         \/ ~disturbed' => /\ ~disturbed /\ ~Inside(Hovers)
                           /\ UNCHANGED <<iMouseoverElement, entered, by>>
  PROVE  EngineInv'
<1>1. /\ calls' = calls /\ followed' = followed /\ lost' = lost /\ nested' = nested
  BY DEF linking
<1>2. EngineTyped'
  BY <1>1 DEF EngineInv, EngineTyped
<1>3. Inside({"follow"})' = Inside({"follow"}) /\ Inside(Hovers)' = Inside(Hovers)
  BY <1>1 DEF Inside, Hovers
<1>4. FollowInv'
  BY <1>1, <1>3 DEF EngineInv, FollowInv
<1>5. EngineTyped
  BY DEF EngineInv
<1>6. KnownInv'
  <2> SUFFICES ASSUME ~disturbed' PROVE KnownInv'
    BY DEF KnownInv
  <2>1. CASE UNCHANGED <<iMouseoverElement, entered, by, listening, disturbed>>
    BY <1>1, <1>3, <2>1 DEF EngineInv, KnownInv, Known, Hovers
  <2>2. CASE /\ ~disturbed /\ ~Inside(Hovers)
             /\ UNCHANGED <<iMouseoverElement, entered, by>>
    <3>1. \A i \in 1 .. Len(calls) : calls[i].op \notin Hovers
      BY <1>5, <2>2, InsideIndex
    <3> QED BY <1>1, <1>3, <2>2, <3>1 DEF EngineInv, KnownInv, Known, Hovers
  <2> QED BY <2>1, <2>2
<1> QED BY <1>2, <1>4, <1>6 DEF EngineInv

LEMMA SetDocumentInv ==
  ASSUME EngineInv, NEW d \in Documents \cup {None}, SetDocument(d)
  PROVE  EngineInv'
<1>1. /\ UNCHANGED <<calls, linking, iMouseoverElement, entered, by, listening, disturbed>>
      /\ iSvgDocument' = d /\ rendering' = rendering
      /\ UNCHANGED drawing
      /\ ~replaced' =>
           /\ ~replaced
           /\ \/ rendering # <<>> \/ d = iSvgDocument
              \/ iMouseoverElement = None /\ ~Inside(Hovers)
  BY DEF SetDocument, filing
<1>2. HoverInv'
  <2> SUFFICES ASSUME ~replaced' PROVE HoverInv'
    BY DEF HoverInv
  <2>1. CASE rendering # <<>> \/ d = iSvgDocument
    BY <1>1, <2>1 DEF EngineInv, HoverInv, Current, Outside, Hovers
  <2>2. CASE iMouseoverElement = None /\ ~Inside(Hovers)
    <3>1. \A i \in 1 .. Len(calls) : calls[i].op \notin Hovers
      BY <2>2, InsideIndex DEF EngineInv
    <3> QED BY <1>1, <2>2, <3>1 DEF HoverInv, Hovers
  <2> QED BY <1>1, <2>1, <2>2
<1>3. FilesInv'
  BY <1>1, FilesInvKept, InsideIndex DEF EngineInv, FilesInv, drawing
<1> QED BY <1>1, <1>2, <1>3, NoCallInv

LEMMA ForgetHoverInv ==
  ASSUME EngineInv, ForgetHover
  PROVE  EngineInv'
<1>1. /\ UNCHANGED <<calls, linking, entered, by, listening, iSvgDocument, rendering, drawing>>
      /\ iMouseoverElement' = None
      /\ ~disturbed' => ~disturbed /\ ~Inside(Hovers) /\ iMouseoverElement = None
      /\ ~replaced' => ~replaced \/ ~Inside(Hovers)
  BY DEF ForgetHover, Forgets, filing
<1>2. HoverInv'
  <2> SUFFICES ASSUME ~replaced' PROVE HoverInv'
    BY DEF HoverInv
  <2>1. CASE ~replaced
    BY <1>1, <2>1 DEF EngineInv, HoverInv, Current, Outside, Hovers
  <2>2. CASE ~Inside(Hovers)
    <3>1. \A i \in 1 .. Len(calls) : calls[i].op \notin Hovers
      BY <2>2, InsideIndex DEF EngineInv
    <3> QED BY <1>1, <3>1 DEF HoverInv, Hovers
  <2> QED BY <1>1, <2>1, <2>2
<1>3. UNCHANGED <<calls, linking>> /\ iMouseoverElement' \in {iMouseoverElement, None}
  BY <1>1
<1>4. ~disturbed' => /\ ~disturbed /\ ~Inside(Hovers)
                     /\ UNCHANGED <<iMouseoverElement, entered, by>>
  BY <1>1
<1>5. FilesInv'
  BY <1>1, FilesInvKept, InsideIndex DEF EngineInv, FilesInv, drawing
<1> QED BY <1>2, <1>3, <1>4, <1>5, NoCallInv

LEMMA ListenInv ==
  ASSUME EngineInv, NEW on, Listen(on)
  PROVE  EngineInv'
<1>1. /\ UNCHANGED <<calls, linking, iMouseoverElement, entered, by, replaced, iSvgDocument,
                     rendering, drawing>>
      /\ ~disturbed' => ~disturbed /\ calls = <<>>
  BY DEF Listen, filing
<1>2. HoverInv'
  BY <1>1 DEF EngineInv, HoverInv, Current, Outside, Hovers
<1>3. calls = <<>> => ~Inside(Hovers)
  <2>1. EngineTyped
    BY DEF EngineInv
  <2> QED BY <2>1, InsideIndex
<1>4. UNCHANGED <<calls, linking>> /\ iMouseoverElement' \in {iMouseoverElement, None}
  BY <1>1
<1>5. ~disturbed' => /\ ~disturbed /\ ~Inside(Hovers)
                     /\ UNCHANGED <<iMouseoverElement, entered, by>>
  BY <1>1, <1>3
<1>6. FilesInv'
  BY <1>1, FilesInvKept, InsideIndex DEF EngineInv, FilesInv, drawing
<1> QED BY <1>2, <1>4, <1>5, <1>6, NoCallInv

(* Drawing, and files rendered to a buffer, leave the pointer and links alone.  *)
LEMMA DrawingInv ==
  ASSUME EngineInv, UNCHANGED <<calls, hovering, linking, listening>>,
         Current' = Current, \A i \in 1 .. Len(calls) : Outside(i)' => Outside(i), FilesInv'
  PROVE  EngineInv'
<1>1. UNCHANGED <<calls, linking, iMouseoverElement, entered, by, listening, disturbed, replaced>>
  BY DEF hovering
<1>2. HoverInv'
  BY <1>1 DEF EngineInv, HoverInv, Hovers
<1> QED BY <1>1, <1>2, NoCallInv

LEMMA BufferInv ==
  ASSUME EngineInv, UNCHANGED <<iSvgDocument, listening, calls, hovering, linking, rendering>>,
         iFrameBuffer' \in Buffers \cup {None}
  PROVE  EngineInv'
<1>1. Current' = Current /\ \A i : Outside(i)' = Outside(i)
  BY DEF Current, Outside
<1>2. FilesInv'
  BY FilesInvKept, InsideIndex DEF EngineInv, FilesInv
<1> QED BY <1>1, <1>2, DrawingInv

(* What was there when a file began is of the same document as before.         *)
LEMMA RenderFileInv ==
  ASSUME EngineInv, NEW buffer \in Buffers, RenderFile(buffer)
  PROVE  EngineInv'
<1> DEFINE n == Len(rendering)
<1>1. FilesInv /\ EngineTyped
  BY DEF EngineInv
<1>2. PICK drawn \in BOOLEAN :
        /\ rendering' = Append(rendering, [document |-> iSvgDocument, buffer |-> iFrameBuffer,
                                           depth |-> Len(calls), drawn |-> drawn])
        /\ iSvgDocument' \in {"file", iSvgDocument}
  BY DEF RenderFile
<1> DEFINE frame == [document |-> iSvgDocument, buffer |-> iFrameBuffer,
                     depth |-> Len(calls), drawn |-> drawn]
<1>3. /\ UNCHANGED <<calls, hovering, linking, listening>> /\ iFrameBuffer' = buffer
      /\ Len(calls) \in Nat
  BY <1>1, InsideIndex DEF RenderFile
<1>4. frame \in FileFrames /\ frame.document = iSvgDocument /\ frame.depth = Len(calls)
  BY <1>1, <1>3 DEF FileFrames, FilesInv
<1> HIDE DEF frame
<1>5. /\ rendering' \in Seq(FileFrames) /\ Len(rendering') = n + 1 /\ n \in Nat
      /\ \A k \in 1 .. n : rendering'[k] = rendering[k]
      /\ rendering'[n + 1] = frame
  BY <1>1, <1>2, <1>4, AppendProperties, LenProperties DEF FilesInv, frame
<1>6. /\ \A k \in 1 .. n : rendering[k].depth \in Nat /\ rendering[k].depth <= Len(calls)
      /\ rendering = <<>> <=> n = 0
  BY <1>1, FilesStand DEF FilesInv
<1>7. \A j, k \in 1 .. n : j <= k => rendering[j].depth <= rendering[k].depth
  BY <1>1 DEF FilesInv
<1> HIDE DEF n
<1>8. \A j, k \in 1 .. n + 1 : j <= k => rendering'[j].depth <= rendering'[k].depth
  <2> SUFFICES ASSUME NEW j \in 1 .. n + 1, NEW k \in 1 .. n + 1, j <= k
               PROVE  rendering'[j].depth <= rendering'[k].depth
    OBVIOUS
  <2>1. CASE k \in 1 .. n
    BY <1>5, <1>7, <2>1
  <2>2. CASE k = n + 1 /\ j \in 1 .. n
    BY <1>4, <1>5, <1>6, <2>2
  <2>3. CASE k = n + 1 /\ j = n + 1
    BY <1>3, <1>4, <1>5, <2>3
  <2> QED BY <1>5, <2>1, <2>2, <2>3
<1>9. \A k \in 1 .. n + 1 : rendering'[k].depth <= Len(calls)
  <2> SUFFICES ASSUME NEW k \in 1 .. n + 1 PROVE rendering'[k].depth <= Len(calls)
    OBVIOUS
  <2>1. CASE k \in 1 .. n
    BY <1>5, <1>6, <2>1
  <2>2. CASE k = n + 1
    BY <1>3, <1>4, <1>5, <2>2
  <2> QED BY <1>5, <2>1, <2>2
<1>10. FilesInv'
  <2>1. /\ iSvgDocument' \in Documents \cup {None, "file"}
        /\ iFrameBuffer' \in Buffers \cup {None}
    BY <1>1, <1>2, <1>3 DEF FilesInv
  <2> QED BY <1>3, <1>5, <1>8, <1>9, <2>1 DEF FilesInv
<1>11. rendering' # <<>>
  BY <1>5, EmptySeq
<1>12. /\ n = 0 => rendering'[1].document = iSvgDocument
       /\ n # 0 => rendering'[1] = rendering[1]
  BY <1>4, <1>5
<1>13. Current' = Current
  BY <1>6, <1>11, <1>12 DEF Current
<1>14. \A i \in 1 .. Len(calls) : Outside(i)' => Outside(i)
  BY <1>6, <1>11, <1>12 DEF Outside
<1> QED BY <1>3, <1>10, <1>13, <1>14, DrawingInv

LEMMA PutBackInv ==
  ASSUME EngineInv, PutBack
  PROVE  EngineInv'
<1> DEFINE n == Len(rendering)
<1>1. FilesInv /\ EngineTyped
  BY DEF EngineInv
<1>2. /\ UNCHANGED <<calls, hovering, linking, listening>>
      /\ rendering # <<>> /\ Len(calls) = Last(rendering).depth
      /\ iSvgDocument' = Last(rendering).document /\ iFrameBuffer' = Last(rendering).buffer
      /\ rendering' = Front(rendering)
  BY DEF PutBack, FileEnds, DocumentAfterFile
<1>3. /\ rendering' \in Seq(FileFrames) /\ n \in Nat \ {0} /\ Len(rendering') = n - 1
      /\ \A k \in 1 .. n - 1 : rendering'[k] = rendering[k]
      /\ Last(rendering) = rendering[n] /\ Last(rendering) \in FileFrames
  BY <1>1, <1>2, FrontProperties DEF FilesInv
<1>4. \A j, k \in 1 .. n : j <= k => rendering[j].depth <= rendering[k].depth
  BY <1>1 DEF FilesInv
<1>5. \A k \in 1 .. n : rendering[k].depth <= Len(calls)
  BY <1>1 DEF FilesInv
<1> HIDE DEF n
<1>6. FilesInv'
  <2>1. /\ iSvgDocument' \in Documents \cup {None, "file"}
        /\ iFrameBuffer' \in Buffers \cup {None}
    BY <1>2, <1>3 DEF FileFrames
  <2>2. \A j, k \in 1 .. n - 1 : j <= k => rendering'[j].depth <= rendering'[k].depth
    BY <1>3, <1>4
  <2>3. \A k \in 1 .. n - 1 : rendering'[k].depth <= Len(calls)
    BY <1>3, <1>5
  <2> QED BY <1>2, <1>3, <2>1, <2>2, <2>3 DEF FilesInv
<1>7. rendering' = <<>> <=> n = 1
  BY <1>3, EmptySeq
<1>8. n = 1 \/ rendering'[1] = rendering[1]
  BY <1>3
<1>9. Current' = Current
  <2>1. CASE n = 1
    BY <1>2, <1>3, <1>7, <2>1 DEF Current
  <2>2. CASE n # 1
    BY <1>2, <1>7, <1>8, <2>2 DEF Current
  <2> QED BY <2>1, <2>2
<1>10. \A i \in 1 .. Len(calls) : Outside(i)
           <=> (n = 1 \/ i <= rendering[1].depth)
  <2>1. n = 1 => rendering[1].depth = Len(calls)
    BY <1>2, <1>3
  <2>2. Len(calls) \in Nat
    BY <1>1, InsideIndex
  <2> QED BY <1>2, <2>1, <2>2 DEF Outside
<1>11. \A i \in 1 .. Len(calls) : Outside(i)' => Outside(i)
  BY <1>7, <1>8, <1>10 DEF Outside
<1> QED BY <1>2, <1>6, <1>9, <1>11, DrawingInv

-----------------------------------------------------------------------------
LEMMA InitEngine == EngineInit => EngineInv
<1> SUFFICES ASSUME EngineInit PROVE EngineInv
  OBVIOUS
<1>1. /\ calls = <<>> /\ iMouseoverElement = None /\ entered = {} /\ followed = 0
      /\ lost = FALSE /\ rendering = <<>> /\ iSvgDocument = None
      /\ iFrameBuffer \in Buffers \cup {None}
  BY DEF EngineInit
<1>2. EngineTyped /\ Len(calls) = 0
  BY <1>1, EmptySeq DEF EngineTyped
<1>3. \A ops : ~Inside(ops)
  BY <1>2, InsideIndex
<1>4. FilesInv
  <2>1. rendering \in Seq(FileFrames) /\ Len(rendering) = 0
    BY <1>1, EmptySeq
  <2> QED BY <1>1, <2>1 DEF FilesInv
<1> QED BY <1>1, <1>2, <1>3, <1>4 DEF EngineInv, HoverInv, KnownInv, FollowInv, Known

LEMMA NextEngine == EngineInv /\ [EngineNext]_engineVars => EngineInv'
<1> SUFFICES ASSUME EngineInv, [EngineNext]_engineVars PROVE EngineInv'
  OBVIOUS
<1>b. iFrameBuffer \in Buffers \cup {None}
  BY DEF EngineInv, FilesInv
<1>1. ASSUME ClientCalls PROVE EngineInv'
  <2>1. ASSUME NEW d \in Documents \cup {None}, SetDocument(d) PROVE EngineInv'
    BY <2>1, SetDocumentInv
  <2>2. CASE StartEngine \/ RenderFrame
    BY <2>2, ForgetHoverInv DEF StartEngine, RenderFrame
  <2>3. ASSUME NEW on \in BOOLEAN, Listen(on) PROVE EngineInv'
    BY <2>3, ListenInv
  <2>4. ASSUME NEW link \in Links \cup {None}, CheckForHyperlinkMouseover(link)
        PROVE EngineInv'
    <3>1. PICK op \in {"cross", "arrive"} : Tells(op, link, "href")
      BY <2>4, PointerTells DEF EngineInv
    <3> QED BY <3>1, TellsInv
  <2>5. ASSUME NEW link \in Links,
               NotifyElementActivatedLinkEntered(link) \/ NotifyElementActivatedLinkExited(link)
        PROVE EngineInv'
    <3>1. PICK l \in {link, None} : Tells("arrive", l, "id")
      BY <2>5, FocusTells DEF EngineInv
    <3> QED BY <3>1, TellsInv
  <2>6. CASE ProcessEvent \/ \E uri \in Uris : LinkRequest(uri)
    BY <2>6, ProcessEventInv
  <2>7. ASSUME NEW buffer \in Buffers \cup {None}, SetGdiContext(buffer) PROVE EngineInv'
    BY <2>7, BufferInv DEF SetGdiContext, filing
  <2>8. ASSUME NEW buffer \in Buffers \cup {None}, NEW size, SetGdiContextWithSize(buffer, size)
        PROVE EngineInv'
    BY <2>8, BufferInv DEF SetGdiContextWithSize, filing
  <2>9. CASE CustomOption
    BY <1>b, <2>9, BufferInv DEF CustomOption, filing
  <2>10. ASSUME NEW buffer \in Buffers, RenderFile(buffer) PROVE EngineInv'
    BY <2>10, RenderFileInv
  <2> QED BY <1>1, <2>1, <2>2, <2>3, <2>4, <2>5, <2>6, <2>7, <2>8, <2>9, <2>10
          DEF ClientCalls
<1>2. ASSUME CallsReturn PROVE EngineInv'
  BY <1>2, LeftToldInv, AllToldInv, LinkToldInv DEF CallsReturn
<1>3. ASSUME FollowsNull PROVE EngineInv'
  BY <1>b, <1>3, BufferInv DEF FollowsNull, drawing
<1>4. CASE UNCHANGED engineVars
  BY <1>b, <1>4, BufferInv DEF engineVars, filing, drawing
<1> QED BY <1>1, <1>2, <1>3, <1>4, PutBackInv DEF EngineNext

(* As long as nothing disturbs it, what a listener was told as entered and not as *)
(* left is the link under the pointer, by the name it was told by, whenever no    *)
(* call that tells it is under way.                                        *)
THEOREM ListenerKnows == EngineSpec => []ListenersKnowHover
<1>1. EngineInv => ListenersKnowHover
  <2> SUFFICES ASSUME EngineInv, calls = <<>>, ~disturbed
               PROVE  entered = Known(iMouseoverElement, by)
    BY DEF ListenersKnowHover, Known
  <2>1. EngineTyped
    BY DEF EngineInv
  <2>2. ~Inside(Hovers)
    BY <2>1, InsideIndex
  <2> QED BY <2>2 DEF EngineInv, KnownInv
<1> QED BY InitEngine, NextEngine, <1>1, PTL DEF EngineSpec

(* The link under the pointer is one of the document the client has set, if it   *)
(* has not replaced it, nor entered a link while a file was rendered.          *)
THEOREM HoverOfDocument == EngineSpec => []HoverInDocument
<1>1. EngineInv => HoverInDocument
  BY DEF EngineInv, HoverInv, HoverInDocument, Current
<1> QED BY InitEngine, NextEngine, <1>1, PTL DEF EngineSpec

(* If no event comes from within, the link that was asked for last is told once, *)
(* and not forgotten untold while there is somebody to tell it to.             *)
THEOREM FollowedOnce == EngineSpec => []EachLinkFollowedOnce
<1>1. EngineInv => EachLinkFollowedOnce
  BY DEF EngineInv, FollowInv, EachLinkFollowedOnce
<1> QED BY InitEngine, NextEngine, <1>1, PTL DEF EngineSpec

(* Rendering a file puts back what was there, whatever failed on the way and     *)
(* whatever the client called, unless a document was missing.                 *)
THEOREM FileLeavesEngine == EngineSpec => FileLeavesEngineAsItWas
<1> DEFINE Restored ==
      /\ Len(rendering') < Len(rendering) =>
           /\ iSvgDocument' = Last(rendering).document /\ iFrameBuffer' = Last(rendering).buffer
           /\ iGfxContext' \in {Side(Last(rendering).buffer), iGfxContext}
      /\ crashed' => Last(rendering).document = None \/ iSvgDocument = None
<1>1. ASSUME EngineInv, EngineNext PROVE Restored
  <2>1. Len(rendering) \in Nat
    BY FilesStand DEF EngineInv
  <2>2. CASE PutBack
    <3>1. ~crashed'
      BY <1>1, <2>2 DEF EngineNext, PutBack
    <3> QED BY <2>2, <3>1 DEF PutBack, DocumentAfterFile, MayResize
  <2>3. CASE FollowsNull
    BY <2>1, <2>3 DEF FollowsNull
  <2>4. ASSUME \E buffer \in Buffers : RenderFile(buffer) PROVE Restored
    <3>1. PICK buffer \in Buffers : RenderFile(buffer)
      BY <2>4
    <3>2. PICK frame : rendering' = Append(rendering, frame) /\ frame \in FileFrames
      <4>1. PICK drawn \in BOOLEAN :
              rendering' = Append(rendering, [document |-> iSvgDocument, buffer |-> iFrameBuffer,
                                          depth |-> Len(calls), drawn |-> drawn])
        BY <3>1 DEF RenderFile
      <4>2. Len(calls) \in Nat
        BY <1>1, InsideIndex DEF EngineInv
      <4>3. [document |-> iSvgDocument, buffer |-> iFrameBuffer,
             depth |-> Len(calls), drawn |-> drawn] \in FileFrames
        BY <1>1, <4>2 DEF FileFrames, EngineInv, FilesInv
      <4> QED BY <4>1, <4>3
    <3>3. Len(rendering') = Len(rendering) + 1
      BY <1>1, <3>2, AppendProperties DEF EngineInv, FilesInv
    <3>4. ~crashed'
      BY <1>1, <3>1 DEF EngineNext, RenderFile
    <3> QED BY <2>1, <3>3, <3>4
  <2>5. ASSUME UNCHANGED filing PROVE Restored
    BY <1>1, <2>1, <2>5 DEF filing, EngineNext
  <2>6. ASSUME ClientCalls
        PROVE  (\E buffer \in Buffers : RenderFile(buffer)) \/ UNCHANGED filing
    BY <2>6 DEF ClientCalls, SetDocument, StartEngine, RenderFrame, ForgetHover, Listen,
                CheckForHyperlinkMouseover, NotifyElementActivatedLinkEntered,
                NotifyElementActivatedLinkExited, LinkRequest, ProcessEvent, SetGdiContext,
                SetGdiContextWithSize, CustomOption
  <2>7. CallsReturn => UNCHANGED filing
    BY DEF CallsReturn, LeftTold, AllTold, LinkTold
  <2> QED BY <1>1, <2>2, <2>3, <2>4, <2>5, <2>6, <2>7 DEF EngineNext
<1>2. EngineInv /\ [EngineNext]_engineVars => [Restored]_engineVars
  BY <1>1
<1> QED BY InitEngine, NextEngine, <1>2, PTL DEF EngineSpec, FileLeavesEngineAsItWas
=============================================================================
