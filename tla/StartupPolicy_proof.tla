------------------------ MODULE StartupPolicy_proof ------------------------
(***************************************************************************)
(* The order of the start-up, for every number of resets.  The argument is   *)
(* about the lists as a whole: what is still to be done never has a higher   *)
(* priority than what is being awaited, so the wait at the end of a list      *)
(* comes after the last deferred command, and a failure that ends a list      *)
(* comes before the first.                                                 *)
(***************************************************************************)
EXTENDS StartupPolicy, TLAPS

(* What is asked of a list.  A wait of lower priority follows a deferred      *)
(* command; what may still be due after a deferred command is deferred too,   *)
(* or a wait.                                                              *)
ListOK(list) ==
  /\ \A c \in list : /\ c.priority \in Nat /\ c.retries \in 0 .. 2
                     /\ c.high = TRUE \/ c.high = FALSE
  /\ \A w \in list : IsWait(w) => ~w.deferred /\ ~w.high
  /\ \A d \in list : d.deferred => \E w \in list : IsWait(w)
  /\ \A d, w \in list : d.deferred /\ IsWait(w) => w.priority < d.priority
  /\ \A d, c \in list :
       d.deferred /\ c.priority <= d.priority => c.deferred \/ IsWait(c)

\* The state adaptation is told by the first command of a list.
TellsFirst(list) ==
  /\ sastate \in list
  /\ \A c \in list : c # sastate => c.priority < sastate.priority

-----------------------------------------------------------------------------
Quiet == mainState # "Startup" => todo = {} /\ outstanding = {}

Deferreds ==
  /\ \A d \in outstanding : d.deferred
  /\ \A d \in outstanding : \A c \in todo : c.priority <= d.priority

WaitToCome ==
  outstanding # {} \/ (\E d \in todo : d.deferred) => \E w \in todo : IsWait(w)

\* After an error of high severity no more than deferred commands are started.
SevereLate == severe => \A c \in todo : c.deferred \/ IsWait(c)

\* As long as the adaptation has not been told, nothing has been done.
ToldOrFirst ==
  mainState = "Startup" /\ subState # "PreUiServices" =>
    \/ sastate \in todo
    \/ <<subState, "sastate">> \in succeeded
    \/ todo = {} /\ outstanding = {}

NothingSkipped ==
  mainState = "Startup" /\ ~severe =>
    \A c \in Commands(subState) :
      c.high => c \in todo \/ c \in outstanding \/ <<subState, c.name>> \in succeeded

NeededOf(sub) == {need \in Needed : need[1] = sub}

Behind ==
  mainState \in {"Startup", "Up"} =>
    /\ subState # "PreUiServices" => NeededOf("PreUiServices") \subseteq succeeded
    /\ subState = "StartingCriticalApps" => NeededOf("StartingUiServices") \subseteq succeeded

IInv == /\ TypeOK /\ Quiet /\ Deferreds /\ WaitToCome /\ SevereLate
        /\ ToldOrFirst /\ NothingSkipped /\ Behind /\ AdaptationToldFirst

-----------------------------------------------------------------------------
(* The lists.                                                              *)

LEMMA PreUiServicesOK == ListOK(PreUiServices)
<1> USE DEF PreUiServices, StartsServices, ServiceAt, Services, MultiWaitAt, Command, IsWait
<1>1. \A c \in PreUiServices : c.priority \in Nat /\ c.retries \in 0 .. 2
  OBVIOUS
<1>2. \A c \in PreUiServices : c.priority \in {\hFFF1, \hFE01, \hFE00}
  OBVIOUS
<1>3. \A c \in PreUiServices : c.deferred => c.priority = \hFE01
  OBVIOUS
<1>4. \A c \in PreUiServices : c.priority = \hFE01 => c.deferred
  OBVIOUS
<1>5. \A c \in PreUiServices : IsWait(c) <=> c.priority = \hFE00
  OBVIOUS
<1>6. \A c \in PreUiServices : IsWait(c) => ~c.deferred /\ ~c.high
  OBVIOUS
<1>7. \A c \in PreUiServices : c.high = TRUE \/ c.high = FALSE
  OBVIOUS
<1> HIDE DEF PreUiServices, StartsServices, ServiceAt, Services, MultiWaitAt, Command, IsWait
<1>8. \E w \in PreUiServices : IsWait(w)
  <2>1. MultiWaitAt(\hFE00) \in PreUiServices
    BY DEF PreUiServices, MultiWaitAt, Command
  <2>2. IsWait(MultiWaitAt(\hFE00))
    BY DEF MultiWaitAt, Command, IsWait
  <2> QED BY <2>1, <2>2
<1> QED BY <1>1, <1>2, <1>3, <1>4, <1>5, <1>6, <1>7, <1>8 DEF ListOK

LEMMA UiServicesOK == ListOK(UiServices)
<1> USE DEF UiServices, sastate, publishstate, psstate, MultiWaitAt, Command, IsWait
<1>1. \A c \in UiServices : c.priority \in Nat /\ c.retries \in 0 .. 2
  OBVIOUS
<1>2. \A c \in UiServices : ~c.deferred
  OBVIOUS
<1>3. \A c \in UiServices : IsWait(c) => ~c.high
  OBVIOUS
<1>4. \A c \in UiServices : c.high = TRUE \/ c.high = FALSE
  OBVIOUS
<1> HIDE DEF UiServices, sastate, publishstate, psstate, MultiWaitAt, Command, IsWait
<1> QED BY <1>1, <1>2, <1>3, <1>4 DEF ListOK

LEMMA CriticalAppsOK == ListOK(CriticalApps)
BY DEF ListOK, CriticalApps, sastate, publishstate, psstate, MultiWaitAt, Command, IsWait

LEMMA ListsOK == \A sub \in SubStates : ListOK(Commands(sub))
BY PreUiServicesOK, UiServicesOK, CriticalAppsOK DEF SubStates, Commands

LEMMA ListsTellFirst == \A sub \in SubStates \ {"PreUiServices"} : TellsFirst(Commands(sub))
<1>1. TellsFirst(UiServices)
  BY DEF TellsFirst, UiServices, sastate, publishstate, psstate, MultiWaitAt, Command
<1>2. TellsFirst(CriticalApps)
  BY DEF TellsFirst, CriticalApps, sastate, publishstate, psstate, MultiWaitAt, Command
<1> QED BY <1>1, <1>2 DEF SubStates, Commands

\* What the menu relies on is of high severity where it is listed.
LEMMA NeededListed ==
  \A sub \in {"PreUiServices", "StartingUiServices"} : \A need \in NeededOf(sub) :
    \E c \in Commands(sub) : c.high /\ need = <<sub, c.name>>
<1>1. \A name \in Services : \E c \in PreUiServices : c.high /\ c.name = name
  <2>1. StartsServices \subseteq PreUiServices
    BY DEF PreUiServices, Command, MultiWaitAt
  <2>2. \A name \in Services : ServiceAt(name, \hFE01) \in StartsServices
    BY DEF StartsServices
  <2>3. \A name \in Services :
          ServiceAt(name, \hFE01).name = name /\ ServiceAt(name, \hFE01).high
    BY DEF ServiceAt, Command
  <2> QED BY <2>1, <2>2, <2>3
<1>2. \A name \in {"startupmode", "loadpowersup", "aknstart", "apparc_init"} :
        \E c \in UiServices : c.high /\ c.name = name
  BY DEF UiServices, Command
<1>3. ASSUME NEW need \in NeededOf("PreUiServices")
      PROVE  \E c \in Commands("PreUiServices") : c.high /\ need = <<"PreUiServices", c.name>>
  BY <1>1 DEF NeededOf, Needed, Commands
<1>4. ASSUME NEW need \in NeededOf("StartingUiServices")
      PROVE  \E c \in Commands("StartingUiServices") :
               c.high /\ need = <<"StartingUiServices", c.name>>
  BY <1>2 DEF NeededOf, Needed, Commands
<1> QED BY <1>3, <1>4

LEMMA CommandsOfLists ==
  /\ \A sub \in SubStates : Commands(sub) \subseteq AllCommands
  /\ \A sub \in SubStates : \A c \in Commands(sub) :
       <<sub, c.name>> \in SubStates \X {d.name : d \in AllCommands}
  /\ NoFailures \in [AllCommands -> 0 .. 2]
BY DEF AllCommands, NoFailures

LEMMA AdaptationCommand ==
  sastate.name = "sastate" /\ ~sastate.deferred /\ ~IsWait(sastate)
BY DEF sastate, Command, IsWait

USE LimitAssumption

-----------------------------------------------------------------------------
(* What the manager does to the lists.                                     *)

\* The next list, or the first one, is begun when nothing of the last is left.
LEMMA EnterKeeps ==
  ASSUME NEW sub \in SubStates, Enter(sub), TypeOK, mainState' = "Startup",
         ~severe', outstanding' = {}, Behind',
         AdaptationToldFirst', resets' \in 0 .. ResetLimit,
         powerOffs' \in 0 .. MaxPowerOffs,
         succeeded' \subseteq SubStates \X {c.name : c \in AllCommands},
         severe' \in BOOLEAN
  PROVE  IInv'
<1>1. todo' = Commands(sub) /\ subState' = sub /\ failures' = NoFailures
  BY DEF Enter
<1>2. TypeOK'
  BY <1>1, CommandsOfLists DEF TypeOK
<1>3. WaitToCome'
  BY <1>1, ListsOK DEF WaitToCome, ListOK
<1>4. ToldOrFirst'
  BY <1>1, ListsTellFirst DEF ToldOrFirst, TellsFirst
<1> QED
  BY <1>1, <1>2, <1>3, <1>4 DEF IInv, Quiet, Deferreds, SevereLate, NothingSkipped

LEMMA SwitchOnKeeps == ASSUME IInv, SwitchOn PROVE IInv'
<1>1. Behind' BY DEF SwitchOn, Enter, Behind
<1>2. AdaptationToldFirst' BY DEF SwitchOn, AdaptationToldFirst
<1> QED BY <1>1, <1>2, EnterKeeps DEF SwitchOn, IInv, TypeOK, SubStates

\* When the policy is asked, all that is of high severity has succeeded.
LEMMA ListDone ==
  ASSUME IInv, mainState = "Startup", todo = {}, ~severe,
         subState \in {"PreUiServices", "StartingUiServices"}
  PROVE  NeededOf(subState) \subseteq succeeded
<1>1. outstanding = {} BY DEF IInv, WaitToCome
<1>2. \A c \in Commands(subState) : c.high => <<subState, c.name>> \in succeeded
  BY <1>1 DEF IInv, NothingSkipped
<1> QED BY <1>2, NeededListed

LEMMA GetNextStateKeeps == ASSUME IInv, GetNextState PROVE IInv'
<1>1. /\ mainState = "Startup" /\ todo = {} /\ ~severe
      /\ outstanding = {} /\ outstanding' = {}
      /\ severe' = severe /\ succeeded' = succeeded
      /\ resets' = resets /\ powerOffs' = powerOffs
  BY DEF GetNextState, IInv, WaitToCome
<1>2. AdaptationToldFirst'
  BY <1>1 DEF IInv, AdaptationToldFirst
<1>3. CASE subState = "PreUiServices" /\ Enter("StartingUiServices") /\ UNCHANGED mainState
  <2>1. Behind' BY <1>1, <1>3, ListDone DEF Behind, Enter
  <2> QED BY <1>1, <1>2, <1>3, <2>1, EnterKeeps DEF IInv, TypeOK, SubStates
<1>4. CASE subState = "StartingUiServices" /\ Enter("StartingCriticalApps")
             /\ UNCHANGED mainState
  <2>1. Behind' BY <1>1, <1>4, ListDone DEF Behind, Enter, IInv
  <2> QED BY <1>1, <1>2, <1>4, <2>1, EnterKeeps DEF IInv, TypeOK, SubStates
<1>5. CASE subState = "StartingCriticalApps" /\ mainState' = "Up"
             /\ UNCHANGED <<subState, todo, failures>>
  <2>1. subState' = subState /\ todo' = todo /\ failures' = failures BY <1>5
  <2>2. TypeOK' /\ Quiet' BY <1>1, <1>5, <2>1 DEF IInv, TypeOK, Quiet
  <2>3. Deferreds' /\ WaitToCome' /\ SevereLate' /\ ToldOrFirst' /\ NothingSkipped'
    BY <1>1, <1>5, <2>1 DEF Deferreds, WaitToCome, SevereLate, ToldOrFirst, NothingSkipped
  <2>4. Behind' BY <1>1, <1>5, <2>1 DEF IInv, Behind
  <2> QED BY <1>2, <2>2, <2>3, <2>4 DEF IInv
<1> QED BY <1>3, <1>4, <1>5 DEF GetNextState

\* In the other main states nothing is left to be done.
LEMMA StoppedKeeps ==
  ASSUME IInv, TypeOK', mainState' \notin {"Startup", "Up"},
         todo' = {}, outstanding' = {}, succeeded' \in {{}, succeeded}
  PROVE  IInv'
BY DEF IInv, Quiet, Deferreds, WaitToCome, SevereLate, ToldOrFirst, NothingSkipped, Behind,
       AdaptationToldFirst

LEMMA ErrorKeeps == ASSUME IInv, GetNextStateAfterError PROVE IInv'
<1>1. todo = {} /\ outstanding = {}
  BY DEF GetNextStateAfterError, IInv, WaitToCome
<1>2. TypeOK'
  BY DEF GetNextStateAfterError, IInv, TypeOK
<1> QED BY <1>1, <1>2, StoppedKeeps DEF GetNextStateAfterError

LEMMA OffKeeps == ASSUME IInv, Shutdown \/ PowerOff PROVE IInv'
<1>1. CASE Shutdown
  <2>1. TypeOK' BY <1>1, CommandsOfLists DEF Shutdown, IInv, TypeOK
  <2> QED BY <1>1, <2>1, StoppedKeeps DEF Shutdown, IInv, Quiet
<1>2. CASE PowerOff
  <2>1. powerOffs' \in 0 .. MaxPowerOffs BY <1>2 DEF PowerOff, IInv, TypeOK
  <2>2. TypeOK' BY <1>2, <2>1, CommandsOfLists DEF PowerOff, IInv, TypeOK
  <2> QED BY <1>2, <2>2, StoppedKeeps DEF PowerOff
<1> QED BY <1>1, <1>2

-----------------------------------------------------------------------------
(* The commands.  What is asked of the list holds of the part of it that is   *)
(* still to be done or awaited.                                            *)

LEMMA CurrentList ==
  ASSUME IInv
  PROVE  /\ ListOK(Commands(subState))
         /\ todo \subseteq Commands(subState) /\ outstanding \subseteq Commands(subState)
         /\ Commands(subState) \subseteq AllCommands
         /\ \A c \in Commands(subState) :
              <<subState, c.name>> \in SubStates \X {d.name : d \in AllCommands}
         /\ subState # "PreUiServices" => TellsFirst(Commands(subState))
BY ListsOK, ListsTellFirst, CommandsOfLists DEF IInv, TypeOK

\* A command that is due and not deferred comes before the first deferred one, as
\* long as it is no wait.
LEMMA DueBeforeDeferred ==
  ASSUME IInv, NEW c \in todo, Due(c), ~c.deferred, ~IsWait(c)
  PROVE  outstanding = {} /\ ~severe
BY CurrentList DEF IInv, Deferreds, SevereLate, ListOK

\* Where the adaptation is told, it is told before any other command is due, and
\* before any is awaited.
LEMMA ToldBeforeOthers ==
  ASSUME IInv, subState # "PreUiServices", sastate \in todo
  PROVE  /\ \A c \in todo : Due(c) => c = sastate
         /\ outstanding = {}
<1>1. \A c \in Commands(subState) : c # sastate => c.priority < sastate.priority
  BY CurrentList DEF TellsFirst
<1>2. /\ \A c \in Commands(subState) : c.priority \in Nat
      /\ sastate \in Commands(subState)
  BY CurrentList DEF ListOK
<1>3. ASSUME NEW c \in todo, Due(c) PROVE c = sastate
  BY <1>1, <1>2, <1>3, CurrentList DEF Due
<1>4. ASSUME NEW d \in outstanding PROVE FALSE
  <2>1. d # sastate BY AdaptationCommand DEF IInv, Deferreds
  <2>2. sastate.priority <= d.priority BY DEF IInv, Deferreds
  <2> QED BY <1>1, <1>2, <2>1, <2>2, CurrentList
<1> QED BY <1>3, <1>4

\* A command has succeeded, which was due or awaited.
LEMMA SucceededKeeps ==
  ASSUME IInv, mainState = "Startup", NEW c \in Commands(subState),
         subState # "PreUiServices" /\ sastate \in todo => c = sastate,
         c \in todo \/ c \in outstanding,
         mainState' = mainState, subState' = subState,
         succeeded' = succeeded \cup {<<subState, c.name>>}
  PROVE  /\ AdaptationToldFirst' /\ Behind'
         /\ succeeded' \subseteq SubStates \X {d.name : d \in AllCommands}
         /\ sastate = c => <<subState, "sastate">> \in succeeded'
<1>1. succeeded' \subseteq SubStates \X {d.name : d \in AllCommands}
  BY CurrentList DEF IInv, TypeOK
<1>2. sastate = c => <<subState, "sastate">> \in succeeded'
  BY AdaptationCommand
<1>3. Behind'
  BY DEF IInv, Behind
<1>4. subState # "PreUiServices" => <<subState, "sastate">> \in succeeded'
  BY <1>2 DEF IInv, ToldOrFirst
<1>5. AdaptationToldFirst'
  BY <1>4 DEF IInv, AdaptationToldFirst
<1> QED BY <1>1, <1>2, <1>3, <1>5

LEMMA ExecuteKeeps == ASSUME IInv, NEW c \in todo, Execute(c) PROVE IInv'
<1>1. /\ Due(c) /\ ~c.deferred /\ ~IsWait(c) /\ mainState = "Startup"
      /\ todo' = todo \ {c} /\ failures' = [failures EXCEPT ![c] = 0]
      /\ succeeded' = succeeded \cup {<<subState, c.name>>}
      /\ mainState' = mainState /\ subState' = subState /\ outstanding' = outstanding
      /\ severe' = severe /\ resets' = resets /\ powerOffs' = powerOffs
  BY DEF Execute, Due
<1>2. c \in Commands(subState) /\ outstanding = {}
  BY <1>1, CurrentList, DueBeforeDeferred
<1>3. subState # "PreUiServices" /\ sastate \in todo => c = sastate
  BY <1>1, ToldBeforeOthers
<1>4. /\ AdaptationToldFirst' /\ Behind'
      /\ succeeded' \subseteq SubStates \X {d.name : d \in AllCommands}
      /\ sastate = c => <<subState, "sastate">> \in succeeded'
  BY <1>1, <1>2, <1>3, SucceededKeeps
<1>5. TypeOK' BY <1>1, <1>4, CurrentList DEF IInv, TypeOK
<1>6. Quiet' /\ Deferreds' /\ SevereLate'
  BY <1>1, <1>2 DEF IInv, Quiet, Deferreds, SevereLate
<1>7. WaitToCome' BY <1>1, <1>2 DEF IInv, WaitToCome
<1>8. ToldOrFirst' BY <1>1, <1>2, <1>4 DEF IInv, ToldOrFirst
<1>9. NothingSkipped' BY <1>1 DEF IInv, NothingSkipped
<1> QED BY <1>4, <1>5, <1>6, <1>7, <1>8, <1>9 DEF IInv

LEMMA RetryKeeps == ASSUME IInv, NEW c \in todo \cup outstanding, Retry(c) PROVE IInv'
<1>1. /\ failures[c] < c.retries /\ failures' = [failures EXCEPT ![c] = @ + 1]
      /\ mainState' = mainState /\ subState' = subState /\ todo' = todo
      /\ outstanding' = outstanding /\ severe' = severe /\ succeeded' = succeeded
      /\ resets' = resets /\ powerOffs' = powerOffs
  BY DEF Retry
<1>2. c.retries \in 0 .. 2 /\ c \in AllCommands
  BY CurrentList DEF ListOK
<1>3. TypeOK' BY <1>1, <1>2 DEF IInv, TypeOK
<1> QED
  BY <1>1, <1>3 DEF IInv, Quiet, Deferreds, WaitToCome, SevereLate, ToldOrFirst,
                    NothingSkipped, Behind, AdaptationToldFirst

LEMMA FailKeeps == ASSUME IInv, NEW c \in todo, Fail(c) PROVE IInv'
<1>1. /\ Due(c) /\ ~c.deferred /\ ~IsWait(c) /\ mainState = "Startup"
      /\ severe' = c.high /\ todo' = IF c.high THEN {} ELSE todo \ {c}
      /\ mainState' = mainState /\ subState' = subState /\ outstanding' = outstanding
      /\ failures' = failures /\ succeeded' = succeeded
      /\ resets' = resets /\ powerOffs' = powerOffs
  BY DEF Fail, Due
<1>2. c \in Commands(subState) /\ outstanding = {} /\ ~severe
  BY <1>1, CurrentList, DueBeforeDeferred
<1>3. c.high = TRUE \/ c.high = FALSE
  BY <1>2, CurrentList DEF ListOK
<1>4. todo' \subseteq todo BY <1>1
<1>5. TypeOK' BY <1>1, <1>3, <1>4 DEF IInv, TypeOK
<1>6. Quiet' /\ Deferreds' BY <1>1, <1>2 DEF Quiet, Deferreds
<1>7. WaitToCome'
  BY <1>1, <1>2, <1>3 DEF IInv, WaitToCome
<1>8. SevereLate' BY <1>1, <1>3 DEF SevereLate
<1>9. ToldOrFirst'
  <2>1. CASE subState # "PreUiServices" /\ sastate \in todo
    <3>1. c = sastate BY <1>1, <2>1, ToldBeforeOthers
    <3>2. sastate.high BY DEF sastate, Command
    <3> QED BY <1>1, <1>2, <3>1, <3>2 DEF ToldOrFirst
  <2>2. CASE ~(subState # "PreUiServices" /\ sastate \in todo)
    BY <1>1, <2>2 DEF IInv, ToldOrFirst
  <2> QED BY <2>1, <2>2
<1>10. NothingSkipped' BY <1>1, <1>2 DEF IInv, NothingSkipped
<1>11. Behind' /\ AdaptationToldFirst' BY <1>1 DEF IInv, Behind, AdaptationToldFirst
<1> QED BY <1>5, <1>6, <1>7, <1>8, <1>9, <1>10, <1>11 DEF IInv

LEMMA DeferKeeps == ASSUME IInv, NEW c \in todo, Defer(c) PROVE IInv'
<1>1. /\ Due(c) /\ c.deferred /\ mainState = "Startup"
      /\ todo' = todo \ {c} /\ outstanding' = outstanding \cup {c}
      /\ mainState' = mainState /\ subState' = subState /\ failures' = failures
      /\ severe' = severe /\ succeeded' = succeeded
      /\ resets' = resets /\ powerOffs' = powerOffs
  BY DEF Defer, Due
<1>2. c \in Commands(subState) BY CurrentList
<1>3. TypeOK' BY <1>1, <1>2 DEF IInv, TypeOK
<1>4. Quiet' /\ SevereLate' BY <1>1 DEF IInv, Quiet, SevereLate
<1>5. Deferreds' BY <1>1 DEF IInv, Deferreds, Due
<1>6. WaitToCome'
  <2>1. PICK w \in todo : IsWait(w) BY <1>1 DEF IInv, WaitToCome
  <2>2. w # c BY <1>1, <2>1, CurrentList DEF ListOK
  <2>3. w \in todo' BY <1>1, <2>2
  <2> QED BY <2>1, <2>3 DEF WaitToCome, IsWait
<1>7. ToldOrFirst'
  BY <1>1, AdaptationCommand, ToldBeforeOthers DEF IInv, ToldOrFirst
<1>8. NothingSkipped' BY <1>1 DEF IInv, NothingSkipped
<1>9. Behind' /\ AdaptationToldFirst' BY <1>1 DEF IInv, Behind, AdaptationToldFirst
<1> QED BY <1>3, <1>4, <1>5, <1>6, <1>7, <1>8, <1>9 DEF IInv

\* A deferred command has ended, well or not.
LEMMA AwaitedKeeps ==
  ASSUME IInv, NEW c \in outstanding, DeferredDone(c) \/ DeferredFails(c) PROVE IInv'
<1>1. /\ outstanding' = outstanding \ {c} /\ failures' = [failures EXCEPT ![c] = 0]
      /\ mainState' = mainState /\ subState' = subState /\ todo' = todo
      /\ resets' = resets /\ powerOffs' = powerOffs
  BY DEF DeferredDone, DeferredFails
<1>2. /\ mainState = "Startup" /\ c \in Commands(subState) /\ c \in AllCommands
      /\ c.deferred
  BY CurrentList DEF IInv, Quiet, Deferreds
<1>3. Quiet' /\ Deferreds' /\ WaitToCome'
  BY <1>1, <1>2 DEF IInv, Quiet, Deferreds, WaitToCome
<1>4. CASE DeferredDone(c)
  <2>1. severe' = severe /\ succeeded' = succeeded \cup {<<subState, c.name>>}
    BY <1>4 DEF DeferredDone
  <2>2. subState # "PreUiServices" /\ sastate \in todo => c = sastate
    BY ToldBeforeOthers
  <2>3. /\ AdaptationToldFirst' /\ Behind'
        /\ succeeded' \subseteq SubStates \X {d.name : d \in AllCommands}
    BY <1>1, <1>2, <2>1, <2>2, SucceededKeeps
  <2>4. TypeOK' BY <1>1, <1>2, <2>1, <2>3 DEF IInv, TypeOK
  <2>5. SevereLate' /\ ToldOrFirst' /\ NothingSkipped'
    BY <1>1, <2>1 DEF IInv, SevereLate, ToldOrFirst, NothingSkipped
  <2> QED BY <1>3, <2>3, <2>4, <2>5 DEF IInv
<1>5. CASE DeferredFails(c)
  <2>1. severe' = (severe \/ c.high) /\ succeeded' = succeeded
    BY <1>5 DEF DeferredFails
  <2>2. TypeOK' BY <1>1, <1>2, <2>1 DEF IInv, TypeOK
  <2>3. \A e \in todo : e.deferred \/ IsWait(e)
    BY <1>2, CurrentList DEF IInv, Deferreds, ListOK
  <2>4. SevereLate' BY <1>1, <2>3 DEF SevereLate
  <2>5. NothingSkipped' BY <1>1, <2>1 DEF IInv, NothingSkipped
  <2>6. ToldOrFirst' /\ Behind' /\ AdaptationToldFirst'
    BY <1>1, <2>1 DEF IInv, ToldOrFirst, Behind, AdaptationToldFirst
  <2> QED BY <1>3, <2>2, <2>4, <2>5, <2>6 DEF IInv
<1> QED BY <1>4, <1>5

LEMMA MultiWaitKeeps == ASSUME IInv, NEW c \in todo, MultiWait(c) PROVE IInv'
<1>1. /\ Due(c) /\ IsWait(c) /\ mainState = "Startup" /\ outstanding = {}
      /\ todo' = IF severe THEN {} ELSE todo \ {c}
      /\ mainState' = mainState /\ subState' = subState /\ outstanding' = outstanding
      /\ failures' = failures /\ severe' = severe /\ succeeded' = succeeded
      /\ resets' = resets /\ powerOffs' = powerOffs
  BY DEF MultiWait, Due
<1>2. todo' \subseteq todo BY <1>1
<1>3. TypeOK' BY <1>1, <1>2 DEF IInv, TypeOK
<1>4. Quiet' /\ Deferreds' /\ SevereLate'
  BY <1>1, <1>2 DEF Quiet, Deferreds, IInv, SevereLate
<1>5. \A d \in todo : ~d.deferred
  <2> SUFFICES ASSUME NEW d \in todo, d.deferred PROVE FALSE
    OBVIOUS
  <2>1. c \in Commands(subState) /\ d \in Commands(subState) BY CurrentList
  <2>2. c.priority \in Nat /\ d.priority \in Nat BY <2>1, CurrentList DEF ListOK
  <2>3. c.priority < d.priority BY <1>1, <2>1, CurrentList DEF ListOK
  <2>4. d.priority <= c.priority BY <1>1 DEF Due
  <2> QED BY <2>2, <2>3, <2>4
<1>6. WaitToCome' BY <1>1, <1>2, <1>5 DEF WaitToCome
<1>7. ToldOrFirst' BY <1>1, AdaptationCommand DEF IInv, ToldOrFirst
<1>8. ~c.high BY <1>1, CurrentList DEF ListOK
<1>9. NothingSkipped' BY <1>1, <1>8 DEF IInv, NothingSkipped
<1>10. Behind' /\ AdaptationToldFirst' BY <1>1 DEF IInv, Behind, AdaptationToldFirst
<1> QED BY <1>3, <1>4, <1>6, <1>7, <1>9, <1>10 DEF IInv

-----------------------------------------------------------------------------
(* The argument above, as one invariant of the specification.              *)
THEOREM ListsInductive == Spec => []IInv
<1>1. Init => IInv
  <2> SUFFICES ASSUME Init PROVE IInv
    OBVIOUS
  <2>1. TypeOK
    <3>1. failures \in [AllCommands -> 0 .. 2] BY CommandsOfLists DEF Init
    <3>2. resets \in 0 .. ResetLimit /\ powerOffs \in 0 .. MaxPowerOffs BY DEF Init
    <3> QED BY <3>1, <3>2 DEF Init, TypeOK, SubStates
  <2>2. Quiet /\ Deferreds /\ WaitToCome /\ SevereLate
    BY DEF Init, Quiet, Deferreds, WaitToCome, SevereLate
  <2>3. ToldOrFirst /\ NothingSkipped /\ Behind /\ AdaptationToldFirst
    BY DEF Init, ToldOrFirst, NothingSkipped, Behind, AdaptationToldFirst
  <2> QED BY <2>1, <2>2, <2>3 DEF IInv
<1>2. IInv /\ [Next]_vars => IInv'
  <2> SUFFICES ASSUME IInv, [Next]_vars PROVE IInv'
    OBVIOUS
  <2>1. CASE SwitchOn \/ GetNextState \/ GetNextStateAfterError
    BY <2>1, SwitchOnKeeps, GetNextStateKeeps, ErrorKeeps
  <2>2. CASE Shutdown \/ PowerOff
    BY <2>2, OffKeeps
  <2>3. CASE \E c \in todo : Execute(c) \/ Retry(c) \/ Fail(c) \/ Defer(c) \/ MultiWait(c)
    BY <2>3, ExecuteKeeps, RetryKeeps, FailKeeps, DeferKeeps, MultiWaitKeeps
  <2>4. CASE \E c \in outstanding : Retry(c) \/ DeferredDone(c) \/ DeferredFails(c)
    BY <2>4, RetryKeeps, AwaitedKeeps
  <2>5. CASE UNCHANGED vars
    BY <2>5 DEF vars, IInv, TypeOK, Quiet, Deferreds, WaitToCome, SevereLate, ToldOrFirst,
       NothingSkipped, Behind, AdaptationToldFirst, Due
  <2> QED BY <2>1, <2>2, <2>3, <2>4, <2>5 DEF Next, Manager
<1> QED BY <1>1, <1>2, PTL DEF Spec

(* When the policy is asked for the next state (or finds an error), no        *)
(* deferred command of the list is left without somebody who waits for it.    *)
THEOREM NobodyForgotten == Spec => []DeferredAwaited
<1>1. IInv => DeferredAwaited
  <2> SUFFICES ASSUME IInv, todo = {} PROVE outstanding = {}
    BY DEF DeferredAwaited
  <2> QED BY DEF IInv, WaitToCome
<1> QED BY <1>1, ListsInductive, PTL

(* In every sub-state that tells the adaptation of the state, it is told       *)
(* first; and the menu is started only when the services, the start-up mode,   *)
(* the user interface and the application framework have succeeded in this      *)
(* start-up, however often commands failed and were retried, and whatever       *)
(* resets and power-offs came before.                                       *)
THEOREM OrderKept == Spec => []ServicesInOrder
<1>1. IInv => ServicesInOrder
  <2>1. Needed \subseteq NeededOf("PreUiServices") \cup NeededOf("StartingUiServices")
    BY DEF Needed, NeededOf
  <2>2. IInv => MenuAfterServices
    BY <2>1, Zenon DEF IInv, Behind, MenuAfterServices
  <2> QED BY <2>2 DEF IInv, ServicesInOrder
<1> QED BY <1>1, ListsInductive, PTL
=============================================================================
