---------------------------- MODULE StartupPolicy ----------------------------
(***************************************************************************)
(* Starting the device: CSsmStartupPolicy of startup/ssmstartuppolicy.cpp  *)
(* names the sub-states, and the command lists startup/stem_*cmdlist.rss   *)
(* say what is executed in each.  The system state manager that executes   *)
(* the lists and asks the policy is not in the repository; it is modelled  *)
(* from what the resources ask of it: commands run in the order of their   *)
(* priorities, a failed one is retried, a deferred one is awaited by the   *)
(* next multiple wait, and a failure of high severity ends the list.       *)
(***************************************************************************)
EXTENDS Integers, Sequences, FiniteSets

CONSTANTS ResetLimit,     \* resets allowed by ResetLimitReached
          MaxPowerOffs    \* bound: times the user switches the device off

ASSUME LimitAssumption == ResetLimit \in Nat /\ MaxPowerOffs \in Nat

(* A command: its priority, whether its severity is at least               *)
(* ECmdHighSeverity, whether it is deferred, and its retries.              *)
Command(name, priority, high, deferred, retries) ==
  [name |-> name, priority |-> priority, high |-> high, deferred |-> deferred,
   retries |-> retries]

publishstate == Command("publishstate", \hFFF1, TRUE, FALSE, 2)
psstate == Command("psstate", \hFFF0, TRUE, FALSE, 0)
sastate == Command("sastate", \hFFF2, TRUE, FALSE, 2)
MultiWaitAt(priority) == Command("multiwait", priority, FALSE, FALSE, 0)

Services == {"sysagt", "initpskeys", "deltempfiles", "sysmon", "ssmutilsrv"}
ServiceAt(service, priority) == Command(service, priority, TRUE, TRUE, 2)
StartsServices == {ServiceAt(service, \hFE01) : service \in Services}

\* Mutant: nothing waits for the services.
PreUiServicesNoWait ==
  {[publishstate EXCEPT !.high = FALSE]}
    \cup StartsServices

PreUiServices ==
  {Command("publishstate", \hFFF1, FALSE, FALSE, 2), MultiWaitAt(\hFE00)}
    \cup StartsServices

UiServices ==
  {sastate, publishstate, psstate,
   Command("startupmode", \hFFE7, TRUE, FALSE, 2),
   Command("loadpowersup", \hFFE7, TRUE, FALSE, 0),
   Command("splash", \hFFA7, FALSE, FALSE, 0),
   MultiWaitAt(\hFF96),
   Command("aknstart", \hFF79, TRUE, FALSE, 2),
   Command("apparc_init", \hFF77, TRUE, FALSE, 0)}

\* Mutant: the state adaptation is told after the others.
CriticalAppsTellsLate ==
  {[sastate EXCEPT !.priority = \hFFEF], publishstate, psstate,
   Command("menu", \hFFE7, FALSE, TRUE, 0),
   MultiWaitAt(\hFFE6)}

CriticalApps ==
  {sastate, publishstate, psstate,
   Command("menu", \hFFE7, FALSE, TRUE, 0),
   MultiWaitAt(\hFFE6)}

SubStates == {"PreUiServices", "StartingUiServices", "StartingCriticalApps"}

Commands(sub) == CASE sub = "PreUiServices"        -> PreUiServices
                   [] sub = "StartingUiServices"   -> UiServices
                   [] sub = "StartingCriticalApps" -> CriticalApps

AllCommands == UNION {Commands(sub) : sub \in SubStates}

VARIABLES
  mainState,     \* "Off", or the main state of the device; "Up" when the
                 \* start-up has nothing more to come
  subState,
  todo,          \* commands of the list not yet started
  outstanding,   \* deferred commands started and not yet awaited
  failures,      \* failed attempts at a command of the list
  severe,        \* a command of high severity has failed
  succeeded,     \* the commands that have succeeded since the device was
                 \* switched on, with their sub-state
  resets,        \* KSsmStartupErrorResetCounter, which survives
  powerOffs

vars == <<mainState, subState, todo, outstanding, failures, severe, succeeded,
          resets, powerOffs>>

NoFailures == [c \in AllCommands |-> 0]

Init ==
  /\ mainState = "Off" /\ subState = "PreUiServices"
  /\ todo = {} /\ outstanding = {}
  /\ failures = NoFailures /\ severe = FALSE /\ succeeded = {}
  /\ resets = 0 /\ powerOffs = 0

Enter(sub) ==
  /\ subState' = sub
  /\ todo' = Commands(sub)
  /\ failures' = NoFailures

-----------------------------------------------------------------------------
(* The policy.                                                             *)

(* TargetSubState turns KSsmAnySubState, which the device is switched on   *)
(* with, into the first sub-state.                                         *)
SwitchOn ==
  /\ mainState = "Off"
  /\ mainState' = "Startup"
  /\ Enter("PreUiServices")
  /\ outstanding' = {} /\ severe' = FALSE /\ succeeded' = {}
  /\ UNCHANGED <<resets, powerOffs>>

\* GetNextState after a list without an error of high severity.
GetNextState ==
  /\ mainState = "Startup" /\ todo = {} /\ ~severe
  /\ \/ subState = "PreUiServices" /\ Enter("StartingUiServices") /\ UNCHANGED mainState
     \/ subState = "StartingUiServices" /\ Enter("StartingCriticalApps")
                                        /\ UNCHANGED mainState
     \/ /\ subState = "StartingCriticalApps" /\ mainState' = "Up"
        /\ UNCHANGED <<subState, todo, failures>>
  /\ UNCHANGED <<outstanding, severe, succeeded, resets, powerOffs>>

\* Mutant: the reset is not counted.
GetNextStateAfterErrorUncounted ==
  /\ mainState = "Startup" /\ todo = {} /\ severe
  /\ mainState' = IF resets >= ResetLimit THEN "Fail" ELSE "Shutdown"
  /\ UNCHANGED <<subState, todo, outstanding, failures, severe, succeeded, resets,
                 powerOffs>>

\* GetNextState after an error of high severity: ResetLimitReached counts.
GetNextStateAfterError ==
  /\ mainState = "Startup" /\ todo = {} /\ severe
  /\ IF resets >= ResetLimit
     THEN mainState' = "Fail" /\ UNCHANGED resets
     ELSE mainState' = "Shutdown" /\ resets' = resets + 1
  /\ UNCHANGED <<subState, todo, outstanding, failures, severe, succeeded, powerOffs>>

-----------------------------------------------------------------------------
(* The commands.                                                           *)

Due(c) == /\ mainState = "Startup" /\ c \in todo
          /\ \A d \in todo : d.priority <= c.priority

IsWait(c) == c.name = "multiwait"

Execute(c) ==
  /\ Due(c) /\ ~c.deferred /\ ~IsWait(c)
  /\ todo' = todo \ {c}
  /\ failures' = [failures EXCEPT ![c] = 0]
  /\ succeeded' = succeeded \cup {<<subState, c.name>>}
  /\ UNCHANGED <<mainState, subState, outstanding, severe, resets, powerOffs>>

Retry(c) ==
  /\ \/ Due(c) /\ ~c.deferred /\ ~IsWait(c)
     \/ c \in outstanding
  /\ failures[c] < c.retries
  /\ failures' = [failures EXCEPT ![c] = @ + 1]
  /\ UNCHANGED <<mainState, subState, todo, outstanding, severe, succeeded, resets,
                 powerOffs>>

Fail(c) ==
  /\ Due(c) /\ ~c.deferred /\ ~IsWait(c)
  /\ failures[c] = c.retries
  /\ severe' = c.high
  /\ todo' = IF c.high THEN {} ELSE todo \ {c}
  /\ UNCHANGED <<mainState, subState, outstanding, failures, succeeded, resets, powerOffs>>

Defer(c) ==
  /\ Due(c) /\ c.deferred
  /\ todo' = todo \ {c}
  /\ outstanding' = outstanding \cup {c}
  /\ UNCHANGED <<mainState, subState, failures, severe, succeeded, resets, powerOffs>>

DeferredDone(c) ==
  /\ c \in outstanding
  /\ outstanding' = outstanding \ {c}
  /\ failures' = [failures EXCEPT ![c] = 0]
  /\ succeeded' = succeeded \cup {<<subState, c.name>>}
  /\ UNCHANGED <<mainState, subState, todo, severe, resets, powerOffs>>

\* The wait that comes will see that a deferred command has failed.
DeferredFails(c) ==
  /\ c \in outstanding
  /\ failures[c] = c.retries
  /\ outstanding' = outstanding \ {c}
  /\ failures' = [failures EXCEPT ![c] = 0]
  /\ severe' = (severe \/ c.high)
  /\ UNCHANGED <<mainState, subState, todo, succeeded, resets, powerOffs>>

MultiWait(c) ==
  /\ Due(c) /\ IsWait(c)
  /\ outstanding = {}
  /\ todo' = IF severe THEN {} ELSE todo \ {c}
  /\ UNCHANGED <<mainState, subState, outstanding, failures, severe, succeeded, resets,
                 powerOffs>>

-----------------------------------------------------------------------------
(* The device.                                                             *)

\* The shutdown lists have run; an error shutdown switches on again.
Shutdown ==
  /\ mainState = "Shutdown"
  /\ mainState' = "Off"
  /\ failures' = NoFailures /\ severe' = FALSE /\ succeeded' = {}
  /\ UNCHANGED <<subState, todo, outstanding, resets, powerOffs>>

\* The user or an empty battery: at any time, and not an error.
PowerOff ==
  /\ mainState \in {"Startup", "Up"} /\ powerOffs < MaxPowerOffs
  /\ mainState' = "Off"
  /\ powerOffs' = powerOffs + 1
  /\ todo' = {} /\ outstanding' = {} /\ failures' = NoFailures
  /\ severe' = FALSE /\ succeeded' = {}
  /\ UNCHANGED <<subState, resets>>

Manager == \/ SwitchOn \/ GetNextState \/ GetNextStateAfterError \/ Shutdown
           \/ \E c \in todo : Execute(c) \/ Retry(c) \/ Fail(c) \/ Defer(c) \/ MultiWait(c)
           \/ \E c \in outstanding : Retry(c) \/ DeferredDone(c) \/ DeferredFails(c)

Next == Manager \/ PowerOff

Spec == Init /\ [][Next]_vars

\* Every command ends, one way or the other (a process that starts or dies answers
\* its rendezvous), and the manager goes on.
FairSpec == Spec /\ WF_vars(Manager)

-----------------------------------------------------------------------------
TypeOK ==
  /\ mainState \in {"Off", "Startup", "Up", "Shutdown", "Fail"}
  /\ subState \in SubStates
  /\ todo \subseteq Commands(subState) /\ outstanding \subseteq Commands(subState)
  /\ failures \in [AllCommands -> 0 .. 2] /\ severe \in BOOLEAN
  /\ succeeded \subseteq SubStates \X {c.name : c \in AllCommands}
  /\ resets \in 0 .. ResetLimit /\ powerOffs \in 0 .. MaxPowerOffs

(* When the policy is asked for the next state, every deferred command has *)
(* been awaited: a list that ends has a multiple wait after its deferred   *)
(* commands, and an error before it leaves nobody waiting.                 *)
DeferredAwaited == mainState = "Startup" /\ todo = {} => outstanding = {}

(* In the two sub-states that have it, no other command succeeds before    *)
(* the state adaptation was told of the state.                             *)
AdaptationToldFirst ==
  \A done \in succeeded :
    done[1] # "PreUiServices" => <<done[1], "sastate">> \in succeeded

(* What the menu relies on: the commands of high severity of the sub-states *)
(* before, the services and the application framework among them.          *)
Needed == {<<"PreUiServices", service>> : service \in Services} \cup
          {<<"StartingUiServices", name>> :
             name \in {"startupmode", "loadpowersup", "aknstart", "apparc_init"}}

MenuAfterServices ==
  mainState \in {"Startup", "Up"} /\ subState = "StartingCriticalApps"
    => Needed \subseteq succeeded

(* "This needs to be the first command in state": whatever is retried, no   *)
(* command succeeds before the adaptation was told of the state, and the    *)
(* menu is not started before all it needs has succeeded in this start-up.  *)
ServicesInOrder == AdaptationToldFirst /\ MenuAfterServices

(* A device on which some command fails again and again does not reset for *)
(* ever: it comes up, or it gives up and stays in the fail state.          *)
SettlesDown == <>[](mainState \in {"Up", "Fail"})
=============================================================================
