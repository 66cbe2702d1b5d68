----------------------------- MODULE SvgListeners -----------------------------
(***************************************************************************)
(* The listeners of the SVG engine (CSvgEngineImpl) and of its documents    *)
(* (CSvgDocumentImpl).  A list is told of an event by calling its listeners  *)
(* one after the other, on the caller's thread, and a listener may add and    *)
(* remove listeners, itself among them, while it is being called.           *)
(*                                                                         *)
(* All loops but one read the number of listeners before the first call;    *)
(* the document's loop over its mouse listeners reads it before every call.   *)
(* An index past the end of a list panics the thread (external: RPointerArray).*)
(***************************************************************************)
EXTENDS SvgCommon, Integers, Sequences, FiniteSets, SequencesExt

CONSTANTS
  Listeners,
  ReportingAll,   \* the loading listeners that ask for elements below <svg> too
  MaxRegistered   \* bound: entries in all lists together

ASSUME ListenersAssumption == ReportingAll \subseteq Listeners
ASSUME BoundAssumption == MaxRegistered \in Nat

CountedOnce == {"animation", "textArea", "text", "hyperlink", "interactive",
                "mouse", "loading"}
CountedEachTime == {"internalMouse"}
Lists == CountedOnce \cup CountedEachTime

ASSUME NoneAssumption == None \notin Lists

VARIABLES
  list,      \* per list, its listeners in the order they were added
  telling,   \* the list that is being told of an event, or None
  audience,  \* the listeners the event is for
  next,      \* the index of the next listener to call
  count,     \* the number of listeners when the first one was called
  panicked,
  \* history of the event that is being told
  told,      \* those that were called and not removed since
  waiting,   \* those in the list when it began, neither called nor removed
  removed,   \* a listener was removed from the list
  again      \* a listener was called twice without having been removed

history == <<told, waiting, removed, again>>
loop == <<telling, audience, next, count>>
listenersVars == <<list, loop, panicked, history>>

ListenersInit ==
  /\ list = [k \in Lists |-> <<>>]
  /\ telling = None /\ audience = {} /\ next = 1 /\ count = 0
  /\ panicked = FALSE
  /\ told = {} /\ waiting = {} /\ removed = FALSE /\ again = FALSE

-----------------------------------------------------------------------------
(* Adding and removing, by the client or by a listener that is being called *)

Registered(k) == {list[k][i] : i \in DOMAIN list[k]}

Adds(k, l) == IF l \in Registered(k) THEN list[k] ELSE Append(list[k], l)

AddListener(k, l) ==
  /\ MapThenSumSet(LAMBDA j : Len(list[j]), Lists) < MaxRegistered
  /\ list' = [list EXCEPT ![k] = Adds(k, l)]
  /\ UNCHANGED <<loop, panicked, history>>

RemoveListener(k, l) ==
  /\ \E i \in DOMAIN list[k] :
       /\ list[k][i] = l
       /\ list' = [list EXCEPT ![k] = RemoveAt(@, i)]
  /\ IF telling = k
     THEN told' = told \ {l} /\ waiting' = waiting \ {l} /\ removed' = TRUE
     ELSE UNCHANGED <<told, waiting, removed>>
  /\ UNCHANGED <<loop, panicked, again>>

-----------------------------------------------------------------------------
(* Telling a list of an event: the three steps of every Notify loop.        *)

\* An empty list has nobody to tell: the loop ends before it begins.
BeginTelling(k, whom) ==
  /\ telling = None /\ list[k] # <<>>
  /\ telling' = k /\ audience' = whom /\ next' = 1 /\ count' = Len(list[k])
  /\ told' = {} /\ waiting' = Registered(k) \cap whom /\ removed' = FALSE
  /\ UNCHANGED <<list, panicked, again>>

\* Mutant: the loop runs one too far.
LoopCountPlusOne == 1 + IF telling \in CountedEachTime THEN Len(list[telling])
                        ELSE count
LoopCount == IF telling \in CountedEachTime THEN Len(list[telling]) ELSE count

CallNext ==
  /\ telling # None /\ next <= LoopCount
  /\ IF next > Len(list[telling])
     THEN panicked' = TRUE /\ UNCHANGED <<loop, history>>
     ELSE LET l == list[telling][next] IN
          /\ next' = next + 1
          /\ IF l \in audience
             THEN /\ told' = told \cup {l} /\ waiting' = waiting \ {l}
                  /\ again' = (again \/ l \in told)
             ELSE UNCHANGED <<told, waiting, again>>
          /\ UNCHANGED <<telling, audience, count, removed, panicked>>
  /\ UNCHANGED list

EndTelling ==
  /\ telling # None /\ next > LoopCount
  /\ telling' = None /\ audience' = {} /\ next' = 1 /\ count' = 0
  /\ told' = {} /\ waiting' = {} /\ removed' = FALSE
  /\ UNCHANGED <<list, panicked, again>>

-----------------------------------------------------------------------------
(* The lists, each with what adds to it, removes from it and tells it.  When *)
(* an event happens is the engine's and the parser's affair: at any time     *)
(* here.                                                                    *)

Operations(k, whoms) ==
  \/ \E l \in Listeners : AddListener(k, l) \/ RemoveListener(k, l)
  \/ \E whom \in whoms : BeginTelling(k, whom)

Everyone == {Listeners}

AnimationListeners == Operations("animation", Everyone)
TextAreaListeners == Operations("textArea", Everyone)
TextListeners == Operations("text", Everyone)
HyperlinkListeners == Operations("hyperlink", Everyone)
InteractiveElementListeners == Operations("interactive", Everyone)
MouseListeners == Operations("mouse", Everyone)
InternalMouseListeners == Operations("internalMouse", Everyone)

(* The loading listeners are in a list of the client's that the document was  *)
(* given; it tells the elements below <svg> only to those who report all.     *)
LoadingListeners == Operations("loading", {Listeners, ReportingAll})

ListenersNext ==
  /\ ~panicked
  /\ \/ AnimationListeners
     \/ TextAreaListeners
     \/ TextListeners
     \/ HyperlinkListeners
     \/ InteractiveElementListeners
     \/ MouseListeners
     \/ InternalMouseListeners
     \/ LoadingListeners
     \/ CallNext
     \/ EndTelling

ListenersSpec == ListenersInit /\ [][ListenersNext]_listenersVars

-----------------------------------------------------------------------------
(* Lists hold listeners, and a loop runs over one of them.                  *)
TypeOK ==
  /\ list \in [Lists -> Seq(Listeners)]
  /\ telling \in Lists \cup {None}
  /\ audience \subseteq Listeners
  /\ next \in Nat \ {0} /\ count \in Nat
  /\ panicked \in BOOLEAN /\ removed \in BOOLEAN /\ again \in BOOLEAN
  /\ told \subseteq Listeners /\ waiting \subseteq Listeners

(* Whatever listeners do while they are called, nobody is told of an event   *)
(* twice, unless it was removed and added again: the lists have no           *)
(* duplicates, and what they add comes after, what they remove moves others  *)
(* only to places the loop has left behind.                                  *)
ToldOnce == ~again

(* A listener that stays in the list is told, and the loop does not run past  *)
(* the end of the list, as long as nobody is removed: it takes a removal in a  *)
(* callback to lose a call or to panic.                                     *)
ToldUnlessRemoved ==
  /\ panicked => removed
  /\ telling # None /\ next > LoopCount /\ waiting # {} => removed

(* The loop that reads the number of listeners before every call never runs   *)
(* past the end.                                                            *)
LiveCountNeverPanics == panicked => telling \in CountedOnce
=============================================================================
