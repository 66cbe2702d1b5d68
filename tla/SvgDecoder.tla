----------------------------- MODULE SvgDecoder -----------------------------
(***************************************************************************)
(* How CSvgDecoder builds the tree of a binary SVG file, takes out of it what   *)
(* this phone must not show, and what CSvgEngineImpl then draws of it.         *)
(*                                                                         *)
(* A file is a sequence of elements and ends of elements.  Elements are        *)
(* numbered as they are read, so that siblings, and all elements in the order  *)
(* of the document, are in the order of their numbers.                       *)
(***************************************************************************)
EXTENDS Integers, Sequences, FiniteSets, SequencesExt

CONSTANTS
  Shapes,       \* the elements a file may have below its root
  RootShapes,   \* its svg element
  Features,     \* the features this phone has
  Language,     \* the language it is set to
  MaxElements,  \* bound: elements of a file
  MaxBound      \* bound: images that drawings which left have left bound

None == 0
Kinds == {"svg", "g", "shape", "switch", "use", "animation", "motion", "media", "mpath", "image"}
Looks == {"plain", "hidden", "invisible", "translucent", "closed", "bare", "empty"}

ASSUME ShapesAssumption ==
  \A s \in Shapes \cup RootShapes :
    /\ s.kind \in Kinds /\ s.look \in Looks
    /\ s.forward \in BOOLEAN   \* it refers to an element that was not read yet
    /\ s.lacks \in BOOLEAN     \* a required attribute is missing
    /\ s.embedded \in BOOLEAN  \* an image whose bytes are in the file
ASSUME RootAssumption == \A s \in RootShapes : s.kind = "svg"
ASSUME BoundAssumption == MaxElements \in Nat \ {0} /\ MaxBound \in Nat

VARIABLES
  stage,       \* "start", "reading", "elements", "switches", "done", "left" or "crashed"
  element,     \* the elements read
  parentNode,  \* of each of them
  alive,       \* those that were not deleted
  iCurrentParentElement, iRootElement,
  iUseElementArray, iAnimRefElementArray, iAnimationElementArray,
  iReqFetAttSysArray, iSwitchElementArray,
  iImageElements, iEmbeddedImagesCount,
  iImageElementsCount,  \* the document's
  iSvgError,
  removedReceivers,     \* animations that were taken from the event receivers
  drawn,                \* what was drawn, each with the images bound at the time
  iIsRendering,
  iGfxContext           \* how many images are bound in it between drawings

lists == <<iUseElementArray, iAnimRefElementArray, iAnimationElementArray,
           iReqFetAttSysArray, iSwitchElementArray>>
images == <<iImageElements, iEmbeddedImagesCount, iImageElementsCount>>
tree == <<element, parentNode, alive, iRootElement>>
messages == <<iSvgError, removedReceivers>>
drawing == <<drawn, iIsRendering, iGfxContext>>
vars == <<stage, iCurrentParentElement, tree, lists, images, messages, drawing>>

Init ==
  /\ stage = "start" /\ element = <<>> /\ parentNode = <<>> /\ alive = {}
  /\ iCurrentParentElement = None /\ iRootElement = None
  /\ iUseElementArray = <<>> /\ iAnimRefElementArray = <<>> /\ iAnimationElementArray = <<>>
  /\ iReqFetAttSysArray = <<>> /\ iSwitchElementArray = <<>>
  /\ iImageElements = <<>> /\ iEmbeddedImagesCount = 0 /\ iImageElementsCount = 0
  /\ iSvgError = "none" /\ removedReceivers = {}
  /\ drawn = <<>> /\ iIsRendering = FALSE /\ iGfxContext = 0

-----------------------------------------------------------------------------
(* The tree                                                                 *)

Kind(e) == IF e = None THEN "none" ELSE element[e].kind
AnimationKinds == {"animation", "motion"}
IsAnimatedElement(e) == Kind(e) \in AnimationKinds \cup {"media"}
HasAnyTests(s) == s.extensions # {} \/ s.features # {} \/ s.languages # {}

Children(e) == {c \in alive : parentNode[c] = e}
Least(S) == IF S = {} THEN None ELSE CHOOSE c \in S : \A d \in S : c <= d
FirstChild(e) == Least(Children(e))
NextSibling(e) == Least({c \in alive : parentNode[c] = parentNode[e] /\ c > e})

SelfAndAncestors(e) ==
  LET up[d \in 0 .. Len(element)] ==
        IF d = None THEN {} ELSE {d} \cup up[parentNode[d]]
  IN  up[e]
Subtree(e) == {d \in alive : e \in SelfAndAncestors(d)}

(* An extension with a name is never there; of the languages one has to be     *)
(* that of the phone.                                                       *)
VerifyReqExReqFtrSys(s) ==
  /\ s.extensions = {}
  /\ s.features \subseteq Features
  /\ s.languages # {} => Language \in s.languages

-----------------------------------------------------------------------------
(* Reading                                                                  *)

AppendIf(list, condition, e) == IF condition THEN Append(list, e) ELSE list

StartDecoding ==
  /\ stage = "start"
  /\ \/ stage' = "reading" /\ UNCHANGED iSvgError
     \/ stage' = "left" /\ iSvgError' = "not valid"
  /\ UNCHANGED <<iCurrentParentElement, tree, lists, images, removedReceivers, drawing>>

AppendChild(s) ==
  /\ stage = "reading" /\ Len(element) < MaxElements
  /\ s \in IF iRootElement = None THEN RootShapes ELSE Shapes
  /\ element' = Append(element, s)
  /\ parentNode' = Append(parentNode, iCurrentParentElement)
  /\ alive' = alive \cup {Len(element) + 1}
  /\ iRootElement' = IF iRootElement = None THEN Len(element) + 1 ELSE iRootElement

(* The references of animations and of <use>, and images outside the file.     *)
DecodeUriRefAttribute(s, e) ==
  /\ iUseElementArray' = AppendIf(iUseElementArray, s.kind = "use" /\ s.forward, e)
  /\ iAnimRefElementArray' =
       AppendIf(iAnimRefElementArray, s.kind \in AnimationKinds /\ s.forward, e)
  /\ iImageElements' = AppendIf(iImageElements, s.kind = "image" /\ ~s.embedded, e)
  /\ iEmbeddedImagesCount' =
       iEmbeddedImagesCount + IF s.kind = "image" /\ s.embedded THEN 1 ELSE 0

(* A path below the element makes up for the missing path of <animateMotion>.  *)
Forgives(s) == s.kind = "mpath" /\ Kind(iCurrentParentElement) = "motion" /\ iSvgError = "missing"

CheckRequiredAttributes(s, e) ==
  /\ iSvgError' = IF s.lacks THEN "missing" ELSE IF Forgives(s) THEN "none" ELSE iSvgError
  /\ removedReceivers' =
       (removedReceivers \ (IF Forgives(s) THEN {iCurrentParentElement} ELSE {}))
         \cup (IF s.lacks /\ s.kind \in AnimationKinds THEN {e} ELSE {})

ReadElement(s) ==
  /\ AppendChild(s)
  /\ LET e == Len(element) + 1 IN
       /\ DecodeUriRefAttribute(s, e)
       /\ iReqFetAttSysArray' = AppendIf(iReqFetAttSysArray, HasAnyTests(s), e)
       /\ iSwitchElementArray' = AppendIf(iSwitchElementArray, s.kind = "switch", e)
       /\ iAnimationElementArray' =
            AppendIf(iAnimationElementArray, s.kind \in AnimationKinds \cup {"media"}, e)
       /\ CheckRequiredAttributes(s, e)
       /\ iCurrentParentElement' = e
  /\ UNCHANGED <<stage, iImageElementsCount, drawing>>

(* The first element is appended to none, if it is not the root.               *)
FollowsNull ==
  /\ stage = "reading" /\ iRootElement = None
  /\ \E s \in Shapes : s.kind # "svg"
  /\ stage' = "crashed"
  /\ UNCHANGED <<iCurrentParentElement, tree, lists, images, messages, drawing>>

(* Decoding may leave at any attribute, or where the file has no element.       *)
Leaves ==
  /\ stage = "reading" /\ stage' = "left"
  /\ \/ UNCHANGED tree
     \/ \E s \in Shapes \cup RootShapes : AppendChild(s)
  /\ UNCHANGED <<iCurrentParentElement, lists, images, messages, drawing>>

ReadEndOfElement ==
  /\ stage = "reading" /\ iCurrentParentElement # iRootElement
  /\ iCurrentParentElement' = parentNode[iCurrentParentElement]
  /\ UNCHANGED <<stage, tree, lists, images, messages, drawing>>

(* At the end the images are counted and loaded and the references that were    *)
(* left open are looked up.                                                 *)
ReadEndOfFile ==
  /\ stage = "reading" /\ stage' = "elements"
  /\ iImageElementsCount' = Len(iImageElements) + iEmbeddedImagesCount
  /\ UNCHANGED <<iCurrentParentElement, tree, lists, iImageElements, iEmbeddedImagesCount,
                 messages, drawing>>

-----------------------------------------------------------------------------
(* What is taken out                                                        *)

WithoutAll(list, gone) ==
  LET kept[n \in 0 .. Len(list)] ==
        IF n = 0 THEN <<>> ELSE AppendIf(kept[n - 1], list[n] \notin gone, list[n])
  IN  kept[Len(list)]

\* Mutant: the references of the elements below stay.
ForgetsOne(e) == {e}

Forgets(e) == Subtree(e)

RemoveInternalReferences(gone) ==
  /\ iUseElementArray' = WithoutAll(iUseElementArray, {e \in gone : Kind(e) = "use"})
  /\ iSwitchElementArray' = WithoutAll(iSwitchElementArray, {e \in gone : Kind(e) = "switch"})
  /\ iAnimationElementArray' =
       WithoutAll(iAnimationElementArray, {e \in gone : IsAnimatedElement(e)})
  /\ iAnimRefElementArray' =
       WithoutAll(iAnimRefElementArray, {e \in gone : IsAnimatedElement(e)})
  /\ iReqFetAttSysArray' = WithoutAll(iReqFetAttSysArray, gone)

(* The last of the elements with tests, which may be the root: the document is    *)
(* given that root all the same.                                           *)
RemoveFalseElement ==
  /\ stage = "elements" /\ iReqFetAttSysArray # <<>>
  /\ LET e == Last(iReqFetAttSysArray) IN
       IF VerifyReqExReqFtrSys(element[e])
       THEN /\ iReqFetAttSysArray' = Front(iReqFetAttSysArray)
            /\ UNCHANGED <<alive, iUseElementArray, iSwitchElementArray,
                           iAnimationElementArray, iAnimRefElementArray>>
       ELSE RemoveInternalReferences(Forgets(e)) /\ alive' = alive \ Subtree(e)
  /\ UNCHANGED <<stage, iCurrentParentElement, element, parentNode, iRootElement, images,
                 messages, drawing>>

NoFalseElements ==
  /\ stage = "elements" /\ iReqFetAttSysArray = <<>> /\ stage' = "switches"
  /\ UNCHANGED <<iCurrentParentElement, tree, lists, images, messages, drawing>>

TrueCases(switch) == {c \in Children(switch) : VerifyReqExReqFtrSys(element[c])}

\* Mutant: what follows the first true case is tested like any other.
KeepsTrueCases(switch) == TrueCases(switch)

(* The first child whose tests pass.                                         *)
KeptCases(switch) == {c \in TrueCases(switch) : \A d \in TrueCases(switch) : c <= d}

(* The last of the switches: its children but one, with all below them.         *)
RemoveFalseSwitchCase ==
  /\ stage = "switches" /\ iSwitchElementArray # <<>>
  /\ LET switch == Last(iSwitchElementArray)
         removed == Children(switch) \ KeptCases(switch)
         gone == UNION {Subtree(c) : c \in removed}
     IN /\ RemoveInternalReferences({switch} \cup UNION {Forgets(c) : c \in removed})
        /\ alive' = alive \ gone
  /\ UNCHANGED <<stage, iCurrentParentElement, element, parentNode, iRootElement, images,
                 messages, drawing>>

NoFalseSwitchCases ==
  /\ stage = "switches" /\ iSwitchElementArray = <<>> /\ stage' = "done"
  /\ UNCHANGED <<iCurrentParentElement, tree, lists, images, messages, drawing>>

-----------------------------------------------------------------------------
(* Drawing                                                                  *)

Look(e) == element[e].look
Hidden(e) == Look(e) = "hidden" \/ element[e].lacks

(* A translucent group with children is not drawn itself.                     *)
DrawsItself(e) ==
  /\ Look(e) # "invisible"
  /\ Look(e) = "translucent" => Kind(e) # "g" \/ FirstChild(e) = None

\* Mutant: the image that was bound for an element stays bound.
StaysBound(e, bound) == bound + IF Look(e) = "translucent" THEN 1 ELSE 0

BoundAfter(e, bound) == bound

(* An element, what is below it, then its siblings.  A bare element, which has   *)
(* no display attribute, is not drawn: each of its children is, with all        *)
(* siblings that follow, and nothing after it.                               *)
Drawing(draw, e, bound) ==
  IF e = None THEN <<>>
  ELSE IF Look(e) = "bare"
  THEN FlattenSeq([c \in 1 .. Len(element) |->
         IF c \in Children(e) THEN draw[c][bound] ELSE <<>>])
  ELSE LET inner == bound + IF Look(e) = "translucent" THEN 1 ELSE 0
           own == IF DrawsItself(e) THEN <<[element |-> e, bound |-> inner]>> ELSE <<>>
           below == IF Look(e) = "closed" THEN <<>> ELSE draw[FirstChild(e)][inner]
       IN (IF Hidden(e) THEN <<>> ELSE own \o below)
            \o draw[NextSibling(e)][BoundAfter(e, bound)]

DrawElements(root, bound) ==
  LET draw[e \in 0 .. Len(element)] == [b \in Nat |-> Drawing(draw, e, b)]
  IN  draw[root][bound]

IsDrawn(root) == root # None /\ Look(root) # "empty"

(* A root with an empty view box is not drawn.                               *)
Redraw ==
  /\ stage \in {"done", "left"}
  /\ iRootElement # None => iRootElement \in alive
  /\ drawn' = IF IsDrawn(iRootElement) THEN DrawElements(iRootElement, iGfxContext) ELSE <<>>
  /\ iIsRendering' = FALSE
  /\ UNCHANGED <<stage, iCurrentParentElement, tree, lists, images, messages, iGfxContext>>

(* Drawing may leave anywhere, as it binds an image for an element or as it draws *)
(* the element into it: the images bound until then stay so.                   *)
RedrawLeaves ==
  /\ stage \in {"done", "left"} /\ IsDrawn(iRootElement) /\ iRootElement \in alive
  /\ LET all == DrawElements(iRootElement, iGfxContext)
     IN \E n \in 0 .. Len(all) :
          /\ drawn' = SubSeq(all, 1, n)
          /\ iGfxContext' \in iGfxContext .. MaxBound
          /\ iGfxContext' <= IF n < Len(all) THEN all[n + 1].bound ELSE iGfxContext
  /\ iIsRendering' = TRUE
  /\ UNCHANGED <<stage, iCurrentParentElement, tree, lists, images, messages>>

(* A root that was deleted is drawn.                                         *)
DrawsDeleted ==
  /\ stage \in {"done", "left"} /\ iRootElement # None /\ iRootElement \notin alive
  /\ stage' = "crashed"
  /\ UNCHANGED <<iCurrentParentElement, tree, lists, images, messages, drawing>>

-----------------------------------------------------------------------------
Next ==
  \/ StartDecoding
  \/ \E s \in Shapes \cup RootShapes : ReadElement(s)
  \/ FollowsNull \/ Leaves \/ ReadEndOfElement \/ ReadEndOfFile
  \/ RemoveFalseElement \/ NoFalseElements
  \/ RemoveFalseSwitchCase \/ NoFalseSwitchCases
  \/ Redraw \/ RedrawLeaves \/ DrawsDeleted

Spec == Init /\ [][Next]_vars

-----------------------------------------------------------------------------
(* The five lists of elements to be looked at again, of <use>, of animations, of   *)
(* their references, of tests and of switches, have none that was deleted,        *)
(* whatever is taken out with what is around it: the loops that follow use all    *)
(* that are left.  The list of images keeps those that were deleted.            *)
ListsAlive ==
  UNION {ToSet(list) : list \in ToSet(lists)} \subseteq alive

(* What is left when the decoder is done is what passes its own tests and those  *)
(* of all around it, and of each switch only the first child that passes.      *)
PassesIn(e) ==
  /\ VerifyReqExReqFtrSys(element[e])
  /\ Kind(parentNode[e]) = "switch" =>
       \A d \in DOMAIN element :
         parentNode[d] = parentNode[e] /\ d < e => ~VerifyReqExReqFtrSys(element[d])
LeavesWhatPasses ==
  stage = "done" =>
    alive = {e \in DOMAIN element : \A a \in SelfAndAncestors(e) : PassesIn(a)}

(* A drawing that ends has drawn what is to be seen once and in the order of the *)
(* document, each element inside the images of the translucent ones around it    *)
(* and no others but those an earlier drawing that left has left bound, unless an  *)
(* element has no display attribute.                                         *)
IsShown(e) ==
  /\ DrawsItself(e) /\ ~Hidden(e)
  /\ \A a \in SelfAndAncestors(e) \ {e} : ~Hidden(a) /\ Look(a) # "closed"
DrawsWhatIsShown ==
  /\ stage \in {"done", "left"} /\ drawn # <<>> /\ ~iIsRendering
  /\ \A e \in alive : Look(e) # "bare"
  => /\ {drawn[i].element : i \in DOMAIN drawn} = {e \in alive : IsShown(e)}
     /\ \A i, j \in DOMAIN drawn : i < j => drawn[i].element < drawn[j].element
     /\ \A i \in DOMAIN drawn :
          drawn[i].bound = iGfxContext + Cardinality({a \in SelfAndAncestors(drawn[i].element) :
                                                        Look(a) = "translucent"})
=============================================================================
