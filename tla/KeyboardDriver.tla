--------------------------- MODULE KeyboardDriver ---------------------------
(***************************************************************************)
(* The keyboard driver of hacks/syborg_keyboard.cpp.  The interrupt        *)
(* handler Isr puts the key codes the device holds into a ring of          *)
(* FIFO_SIZE slots, and RxDfc, running later in a kernel thread, takes them*)
(* out and turns them into key events.  The interrupt comes between any two*)
(* memory accesses of the DFC and nothing guards iFifoPos and iFifoCount,  *)
(* so the DFC is modelled access by access.  Nothing else runs until the   *)
(* interrupt handler ends.  HAL calls that switch the keyboard on and off  *)
(* are messages handled in the same kernel thread.                         *)
(*                                                                         *)
(* The nth key typed has the code n; a slot never written holds 0.         *)
(***************************************************************************)
EXTENDS Integers, Sequences

CONSTANTS FIFO_SIZE,   \* slots of iKeyFifo
          MaxKeys,     \* bound: keys typed
          DeathKeys,   \* the codes of F10
          Clients,     \* threads that call the HAL
          MaxCalls     \* bound: HAL calls

ASSUME FifoAssumption == FIFO_SIZE \in Nat \ {0}
ASSUME KeyAssumption == MaxKeys \in Nat /\ DeathKeys \subseteq 1 .. MaxKeys
ASSUME CallAssumption == MaxCalls \in Nat

Keys == 0 .. MaxKeys
Slots == 0 .. FIFO_SIZE - 1

VARIABLES
  typed,        \* keys typed so far
  device,       \* codes in the FIFO of the keyboard hardware
  inIsr,        \* the interrupt handler is running
  intEnabled,   \* the keyboard interrupt is enabled
  iKeyFifo, iFifoPos, iFifoCount,
  iMsgQ,        \* HAL calls waiting for an answer: the client and what it asks
  calls,        \* HAL calls so far
  dfcs,         \* DFCs queued in the kernel thread
  pc,           \* where the kernel thread is; the places of RxDfc are accesses
  val, count,   \* registers of FifoPop: the code, and iFifoCount as loaded
  faulted,      \* Kern::Fault has been called
  accepted,     \* history: codes for which there was a slot
  delivered,    \* history: codes handed to Kern::AddEvent
  raced         \* history: codes came while FifoPop was updating the ring

fifoVars == <<iKeyFifo, iFifoPos, iFifoCount>>
deviceVars == <<typed, device>>
callVars == <<iMsgQ, calls, intEnabled>>
regVars == <<val, count>>
history == <<accepted, delivered, raced>>
driverVars == <<deviceVars, inIsr, fifoVars, callVars, dfcs, pc, regVars, faulted, history>>

RxPlaces == {"check", "pop", "advance", "load", "store", "wrap", "event"}
Dfcs == {"rx", "message"}
Places == RxPlaces \cup {"idle", "message"}

\* After Create: interrupt bound, keyboard on, nothing received.
DriverInit ==
  /\ typed = 0 /\ device = <<>> /\ inIsr = FALSE
  /\ intEnabled = TRUE
  /\ iKeyFifo = [slot \in Slots |-> 0] /\ iFifoPos = 0 /\ iFifoCount = 0
  /\ iMsgQ = <<>> /\ calls = 0
  /\ dfcs = <<>> /\ pc = "idle"
  /\ val = 0 /\ count = 0
  /\ faulted = FALSE
  /\ accepted = <<>> /\ delivered = <<>> /\ raced = FALSE

-----------------------------------------------------------------------------
(* The interrupt handler.                                                  *)

\* The slot of the nth code of the ring, counted from 0.
Slot(n) == LET slot == iFifoPos + n
           IN  IF slot >= FIFO_SIZE THEN slot - FIFO_SIZE ELSE slot

\* A code that finds the ring full is dropped.
FifoPush(key) ==
  IF iFifoCount = FIFO_SIZE
  THEN UNCHANGED <<iKeyFifo, iFifoCount, accepted, raced>>
  ELSE /\ iKeyFifo' = [iKeyFifo EXCEPT ![Slot(iFifoCount)] = key]
       /\ iFifoCount' = iFifoCount + 1
       /\ accepted' = Append(accepted, key)
       /\ raced' = (raced \/ pc \in {"load", "store"})

Queued(q, dfc) == \E i \in DOMAIN q : q[i] = dfc

\* Queueing a DFC that is queued already changes nothing.
AddDfc(dfc) == IF Queued(dfcs, dfc) THEN dfcs ELSE Append(dfcs, dfc)

Interrupt ==
  /\ ~faulted /\ ~inIsr /\ intEnabled /\ device # <<>>
  /\ inIsr' = TRUE
  /\ UNCHANGED <<deviceVars, fifoVars, callVars, dfcs, pc, regVars, faulted, history>>

IsrPush ==
  /\ inIsr /\ device # <<>>
  /\ FifoPush(Head(device))
  /\ device' = Tail(device)
  /\ UNCHANGED <<typed, inIsr, iFifoPos, callVars, dfcs, pc, regVars, faulted,
                 delivered>>

IsrEnd ==
  /\ inIsr /\ device = <<>>
  /\ inIsr' = FALSE
  /\ dfcs' = AddDfc("rx")
  /\ UNCHANGED <<deviceVars, fifoVars, callVars, pc, regVars, faulted, history>>

-----------------------------------------------------------------------------
(* RxDfc, with FifoPop inlined.                                            *)

kernelThread == ~faulted /\ ~inIsr

\* The kernel thread takes the DFC that was queued first.
RunDfc ==
  /\ kernelThread /\ pc = "idle" /\ dfcs # <<>>
  /\ pc' = IF Head(dfcs) = "rx" THEN "check" ELSE "message"
  /\ dfcs' = Tail(dfcs)
  /\ UNCHANGED <<deviceVars, fifoVars, callVars, regVars, inIsr, faulted, history>>

CheckCount ==
  /\ kernelThread /\ pc = "check"
  /\ pc' = IF iFifoCount > 0 THEN "pop" ELSE "idle"
  /\ UNCHANGED <<deviceVars, fifoVars, callVars, dfcs, regVars, inIsr, faulted,
                 history>>

ReadKey ==
  /\ kernelThread /\ pc = "pop"
  /\ val' = iKeyFifo[iFifoPos]
  /\ pc' = "advance"
  /\ UNCHANGED <<deviceVars, fifoVars, callVars, dfcs, count, inIsr, faulted,
                 history>>

AdvancePos ==
  /\ kernelThread /\ pc = "advance"
  /\ iFifoPos' = iFifoPos + 1
  /\ pc' = "load"
  /\ UNCHANGED <<deviceVars, iKeyFifo, iFifoCount, callVars, dfcs, regVars,
                 inIsr, faulted, history>>

LoadCount ==
  /\ kernelThread /\ pc = "load"
  /\ count' = iFifoCount
  /\ pc' = "store"
  /\ UNCHANGED <<deviceVars, fifoVars, callVars, dfcs, val, inIsr, faulted, history>>

\* Mutant: the count is not decremented.
StoreCountKeeps ==
  /\ kernelThread /\ pc = "store"
  /\ iFifoCount' = count
  /\ pc' = "wrap"
  /\ UNCHANGED <<deviceVars, iKeyFifo, iFifoPos, callVars, dfcs, regVars,
                 inIsr, faulted, history>>

StoreCount ==
  /\ kernelThread /\ pc = "store"
  /\ iFifoCount' = count - 1
  /\ pc' = "wrap"
  /\ UNCHANGED <<deviceVars, iKeyFifo, iFifoPos, callVars, dfcs, regVars,
                 inIsr, faulted, history>>

\* Mutant: the position wraps one slot too early.
WrapPosEarly ==
  /\ kernelThread /\ pc = "wrap"
  /\ iFifoPos' = IF iFifoPos = FIFO_SIZE - 1 THEN 0 ELSE iFifoPos
  /\ pc' = "event"
  /\ UNCHANGED <<deviceVars, iKeyFifo, iFifoCount, callVars, dfcs, regVars,
                 inIsr, faulted, history>>

WrapPos ==
  /\ kernelThread /\ pc = "wrap"
  /\ iFifoPos' = IF iFifoPos = FIFO_SIZE THEN 0 ELSE iFifoPos
  /\ pc' = "event"
  /\ UNCHANGED <<deviceVars, iKeyFifo, iFifoCount, callVars, dfcs, regVars,
                 inIsr, faulted, history>>

\* Mutant: the DFC takes one code only.
AddEventOnce ==
  /\ kernelThread /\ pc = "event"
  /\ faulted' = (val \in DeathKeys)
  /\ delivered' = IF val \in DeathKeys THEN delivered ELSE Append(delivered, val)
  /\ pc' = "idle"
  /\ UNCHANGED <<deviceVars, fifoVars, callVars, dfcs, regVars, inIsr, accepted,
                 raced>>

\* F10 is the key of death: the system stops before the event is added.
AddEvent ==
  /\ kernelThread /\ pc = "event"
  /\ faulted' = (val \in DeathKeys)
  /\ delivered' = IF val \in DeathKeys THEN delivered ELSE Append(delivered, val)
  /\ pc' = "check"
  /\ UNCHANGED <<deviceVars, fifoVars, callVars, dfcs, regVars, inIsr, accepted,
                 raced>>

-----------------------------------------------------------------------------
(* HAL calls, handled one at a time in the kernel thread.                  *)

HalSetKeyboardState(c, on) ==
  /\ ~faulted /\ ~inIsr /\ calls < MaxCalls
  /\ \A i \in DOMAIN iMsgQ : iMsgQ[i].client # c
  /\ calls' = calls + 1
  /\ iMsgQ' = Append(iMsgQ, [client |-> c, iValue |-> on])
  /\ dfcs' = IF pc = "message" THEN dfcs ELSE AddDfc("message")
  /\ UNCHANGED <<deviceVars, fifoVars, intEnabled, pc, regVars, inIsr, faulted,
                 history>>

\* KeyboardOn or KeyboardOff; Complete receives the next message.
HandleMsg ==
  /\ kernelThread /\ pc = "message" /\ iMsgQ # <<>>
  /\ intEnabled' = Head(iMsgQ).iValue
  /\ iMsgQ' = Tail(iMsgQ)
  /\ dfcs' = IF Tail(iMsgQ) = <<>> THEN dfcs ELSE AddDfc("message")
  /\ pc' = "idle"
  /\ UNCHANGED <<deviceVars, fifoVars, calls, regVars, inIsr, faulted, history>>

\* The user types: the device holds the code until it is read.
Type ==
  /\ ~faulted /\ typed < MaxKeys
  /\ typed' = typed + 1
  /\ device' = Append(device, typed + 1)
  /\ UNCHANGED <<inIsr, fifoVars, callVars, dfcs, pc, regVars, faulted,
                 history>>

RxDfc == \/ CheckCount \/ ReadKey \/ AdvancePos \/ LoadCount \/ StoreCount
         \/ WrapPos \/ AddEvent

DriverNext == \/ Type
        \/ Interrupt
        \/ IsrPush
        \/ IsrEnd
        \/ RunDfc
        \/ RxDfc
        \/ HandleMsg
        \/ \E c \in Clients, on \in BOOLEAN : HalSetKeyboardState(c, on)

DriverSpec == DriverInit /\ [][DriverNext]_driverVars

(* The processor takes an enabled interrupt, goes on with the handler, and,*)
(* when there is none, with the kernel thread.                             *)
FairDriverSpec == DriverSpec /\ WF_driverVars(Interrupt \/ IsrPush \/ IsrEnd)
                 /\ WF_driverVars(RunDfc \/ RxDfc \/ HandleMsg)

-----------------------------------------------------------------------------
(* Every variable keeps its type.  It is the memory safety of the ring:    *)
(* whenever the interrupt comes, FifoPush and FifoPop index iKeyFifo within*)
(* its bounds, and a lost update of iFifoCount never takes it below zero or*)
(* above the size of the ring.                                             *)
DriverTypeOK ==
  /\ typed \in Keys /\ device \in Seq(Keys)
  /\ inIsr \in BOOLEAN /\ intEnabled \in BOOLEAN /\ faulted \in BOOLEAN
  /\ raced \in BOOLEAN
  /\ iKeyFifo \in [Slots -> Keys]
  /\ iFifoPos \in 0 .. FIFO_SIZE /\ iFifoCount \in 0 .. FIFO_SIZE
  /\ iMsgQ \in Seq([client : Clients, iValue : BOOLEAN]) /\ calls \in 0 .. MaxCalls
  /\ dfcs \in Seq(Dfcs) /\ pc \in Places
  /\ val \in Keys /\ count \in 0 .. FIFO_SIZE
  /\ accepted \in Seq(Keys) /\ delivered \in Seq(Keys)
  /\ iFifoPos = FIFO_SIZE => pc \in {"load", "store", "wrap"}
  /\ pc \in {"pop", "advance", "load"} => iFifoCount > 0
  /\ pc = "store" => count > 0

(* FifoPop has a code in hand from the store of iFifoPos to the event; until*)
(* the store of iFifoCount the ring holds one code less than it says.       *)
InHand == pc \in {"load", "store", "wrap", "event"}
Taken == Len(delivered) + (IF InHand THEN 1 ELSE 0)
Held == CASE pc = "load"  -> iFifoCount - 1
          [] pc = "store" -> count - 1
          [] OTHER        -> iFifoCount

(* As long as no code comes between the store of iFifoPos and the store of *)
(* iFifoCount in FifoPop, every code accepted is delivered once and in     *)
(* order, wherever else the interrupt hits the DFC: what was delivered,    *)
(* then the code in hand, then the ring, are the codes accepted.           *)
InOrder ==
  /\ Len(accepted) = Taken + Held
  /\ \A i \in 1 .. Len(delivered) : delivered[i] = accepted[i]
  /\ InHand => val = accepted[Taken]
  /\ \A i \in 1 .. Held : iKeyFifo[Slot(i - 1)] = accepted[Taken + i]

InOrderUnlessRaced == ~raced /\ ~faulted => InOrder

(* Raced or not, there is never an event more than codes were accepted: a  *)
(* race loses codes or delivers a wrong one in the place of another.       *)
NeverMoreThanAccepted == Taken + Held <= Len(accepted)

(* Every code in the ring has a DFC that will take it out: no interleaving *)
(* of Isr with the end of the DFC's loop leaves a code without one.        *)
RxDfcComes == iFifoCount > 0 => inIsr \/ pc \in RxPlaces \/ Queued(dfcs, "rx")

(* A HAL call is answered, and codes are taken out of the ring, unless the *)
(* key of death comes first.                                               *)
CallsReturn == \A c \in Clients :
  (\E i \in DOMAIN iMsgQ : iMsgQ[i].client = c)
    ~> (faulted \/ \A i \in DOMAIN iMsgQ : iMsgQ[i].client # c)

RingDrains == iFifoCount > 0 ~> iFifoCount = 0 \/ faulted
=============================================================================
