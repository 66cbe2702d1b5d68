----------------------------- MODULE Keys_proof -----------------------------
(***************************************************************************)
(* Proofs about what becomes of a key: KeyboardDriver, for a ring of any     *)
(* size, any number of keys and any interleaving of the interrupt with the   *)
(* DFC; EcsDetector, for every service number, every set of keys and every   *)
(* length of the queue; and KeySoundServer, for any number of sessions,       *)
(* sounds and maps.                                                        *)
(***************************************************************************)
EXTENDS KeyboardDriver, EcsDetector, KeySoundServer, ListLemmas, FiniteSetTheorems, TLAPS

-----------------------------------------------------------------------------
(* The ring's slots.                                                       *)

LEMMA SlotInBounds ==
  ASSUME FIFO_SIZE \in Nat \ {0}, iFifoPos \in 0 .. FIFO_SIZE,
         NEW n \in 0 .. FIFO_SIZE - 1
  PROVE  Slot(n) \in Slots
  BY DEF Slot, Slots

LEMMA SlotsDiffer ==
  ASSUME FIFO_SIZE \in Nat \ {0}, iFifoPos \in 0 .. FIFO_SIZE,
         NEW m \in 0 .. FIFO_SIZE - 1, NEW n \in 0 .. FIFO_SIZE - 1, m # n
  PROVE  Slot(m) # Slot(n)
  BY DEF Slot

(* The queue of DFCs.                                                      *)

LEMMA AddDfcQueues ==
  ASSUME dfcs \in Seq(Dfcs), NEW d \in Dfcs
  PROVE  /\ AddDfc(d) \in Seq(Dfcs)
         /\ Queued(AddDfc(d), d)
         /\ \A e \in Dfcs : Queued(dfcs, e) => Queued(AddDfc(d), e)
<1>1. CASE Queued(dfcs, d)
  BY <1>1 DEF AddDfc
<1>2. CASE ~Queued(dfcs, d)
  <2> DEFINE q == Append(dfcs, d)
  <2>1. /\ q \in Seq(Dfcs) /\ Len(q) = Len(dfcs) + 1 /\ q[Len(q)] = d
        /\ \A i \in 1 .. Len(dfcs) : q[i] = dfcs[i]
    OBVIOUS
  <2>2. DOMAIN q = 1 .. Len(dfcs) + 1 /\ DOMAIN dfcs = 1 .. Len(dfcs)
    BY <2>1
  <2>3. AddDfc(d) = q
    BY <1>2 DEF AddDfc
  <2> HIDE DEF q
  <2> QED BY <2>1, <2>2, <2>3 DEF Queued
<1> QED BY <1>1, <1>2

-----------------------------------------------------------------------------
(* Types and bounds.                                                       *)

LEMMA InitDriverType == DriverInit => DriverTypeOK
<1> SUFFICES ASSUME DriverInit PROVE DriverTypeOK
  OBVIOUS
<1> USE FifoAssumption, KeyAssumption, CallAssumption
<1>1. 0 \in Keys
  BY DEF Keys
<1>2. iKeyFifo \in [Slots -> Keys]
  BY <1>1 DEF DriverInit
<1>3. iFifoPos \in 0 .. FIFO_SIZE /\ iFifoCount \in 0 .. FIFO_SIZE /\ iFifoPos # FIFO_SIZE
  BY DEF DriverInit
<1>4. calls \in 0 .. MaxCalls /\ count \in 0 .. FIFO_SIZE
  BY DEF DriverInit
<1>5. /\ device \in Seq(Keys) /\ accepted \in Seq(Keys) /\ delivered \in Seq(Keys)
      /\ iMsgQ \in Seq([client : Clients, iValue : BOOLEAN]) /\ dfcs \in Seq(Dfcs)
  BY DEF DriverInit
<1>6. typed \in Keys /\ val \in Keys /\ pc = "idle"
  BY <1>1 DEF DriverInit
<1>7. {inIsr, intEnabled, faulted, raced} \subseteq BOOLEAN
  BY DEF DriverInit
<1> QED BY <1>2, <1>3, <1>4, <1>5, <1>6, <1>7 DEF DriverTypeOK, Places

LEMMA NextDriverType == DriverTypeOK /\ [DriverNext]_driverVars => DriverTypeOK'
<1> SUFFICES ASSUME DriverTypeOK, [DriverNext]_driverVars PROVE DriverTypeOK'
  OBVIOUS
<1> USE FifoAssumption, KeyAssumption, CallAssumption
    DEF DriverTypeOK, Places, RxPlaces, fifoVars, deviceVars, callVars, regVars, history
<1>1. CASE Type
  <2>1. typed + 1 \in Keys
    BY <1>1 DEF Type, Keys
  <2> QED BY <1>1, <2>1 DEF Type
<1>2. CASE Interrupt
  BY <1>2 DEF Interrupt
<1>3. CASE IsrPush
  <2>1. Head(device) \in Keys /\ device' \in Seq(Keys)
    BY <1>3 DEF IsrPush
  <2>2. CASE iFifoCount = FIFO_SIZE
    BY <1>3, <2>1, <2>2 DEF IsrPush, FifoPush
  <2>3. CASE iFifoCount # FIFO_SIZE
    <3>1. Slot(iFifoCount) \in Slots
      BY <2>3, SlotInBounds
    <3>2. iKeyFifo' \in [Slots -> Keys]
      BY <1>3, <2>1, <2>3, <3>1 DEF IsrPush, FifoPush
    <3>3. iFifoCount' = iFifoCount + 1 /\ iFifoCount' \in 0 .. FIFO_SIZE
      BY <1>3, <2>3 DEF IsrPush, FifoPush
    <3>4. accepted' \in Seq(Keys) /\ raced' \in BOOLEAN
      <4>1. accepted' = Append(accepted, Head(device))
        BY <1>3, <2>3 DEF IsrPush, FifoPush
      <4>2. raced' = (raced \/ pc \in {"load", "store"})
        BY <1>3, <2>3 DEF IsrPush, FifoPush
      <4> QED BY <2>1, <4>1, <4>2
    <3>5. UNCHANGED <<typed, inIsr, iFifoPos, callVars, dfcs, pc, regVars, faulted,
                      delivered>>
      BY <1>3 DEF IsrPush
    <3> QED BY <2>1, <3>2, <3>3, <3>4, <3>5
  <2> QED BY <2>2, <2>3
<1>4. CASE IsrEnd
  <2>1. dfcs' \in Seq(Dfcs)
    BY <1>4, AddDfcQueues DEF IsrEnd, Dfcs
  <2> QED BY <1>4, <2>1 DEF IsrEnd
<1>5. CASE RunDfc
  BY <1>5 DEF RunDfc
<1>6. CASE CheckCount
  BY <1>6 DEF CheckCount
<1>7. CASE ReadKey
  <2>1. iFifoPos \in Slots
    BY <1>7 DEF ReadKey, Slots
  <2> QED BY <1>7, <2>1 DEF ReadKey
<1>8. CASE AdvancePos
  BY <1>8 DEF AdvancePos
<1>9. CASE LoadCount
  BY <1>9 DEF LoadCount
<1>10. CASE StoreCount
  BY <1>10 DEF StoreCount
<1>11. CASE WrapPos
  BY <1>11 DEF WrapPos
<1>12. CASE AddEvent
  BY <1>12 DEF AddEvent
<1>13. CASE HandleMsg
  <2>1. dfcs' \in Seq(Dfcs)
    BY <1>13, AddDfcQueues DEF HandleMsg, Dfcs
  <2>2. intEnabled' \in BOOLEAN /\ iMsgQ' \in Seq([client : Clients, iValue : BOOLEAN])
    <3> DEFINE Msgs == [client : Clients, iValue : BOOLEAN]
    <3>1. ASSUME NEW q \in Seq(Msgs), q # <<>>
          PROVE Head(q).iValue \in BOOLEAN /\ Tail(q) \in Seq(Msgs)
      <4>1. Head(q) \in Msgs /\ Tail(q) \in Seq(Msgs)
        <5> HIDE DEF Msgs
        <5> QED BY <3>1
      <4> QED BY <4>1
    <3>2. /\ iMsgQ \in Seq(Msgs) /\ iMsgQ # <<>>
          /\ intEnabled' = Head(iMsgQ).iValue /\ iMsgQ' = Tail(iMsgQ)
      BY <1>13 DEF HandleMsg
    <3> HIDE DEF Msgs
    <3>3. intEnabled' \in BOOLEAN /\ iMsgQ' \in Seq(Msgs)
      BY <3>1, <3>2
    <3> QED BY <3>3 DEF Msgs
  <2>3. /\ pc' = "idle" /\ pc = "message"
        /\ UNCHANGED <<deviceVars, fifoVars, calls, regVars, inIsr, faulted, history>>
    BY <1>13 DEF HandleMsg
  <2> QED BY <2>1, <2>2, <2>3
<1>14. ASSUME NEW c \in Clients, NEW on \in BOOLEAN, HalSetKeyboardState(c, on)
       PROVE DriverTypeOK'
  <2>1. dfcs' \in Seq(Dfcs)
    BY <1>14, AddDfcQueues DEF HalSetKeyboardState, Dfcs
  <2>2. iMsgQ' \in Seq([client : Clients, iValue : BOOLEAN])
    BY <1>14 DEF HalSetKeyboardState
  <2> QED BY <1>14, <2>1, <2>2 DEF HalSetKeyboardState
<1>15. CASE UNCHANGED driverVars
  BY <1>15 DEF driverVars
<1> QED
  BY <1>1, <1>2, <1>3, <1>4, <1>5, <1>6, <1>7, <1>8, <1>9, <1>10, <1>11, <1>12,
     <1>13, <1>14, <1>15 DEF DriverNext, RxDfc

(* The ring is never indexed out of its bounds, and iFifoCount never leaves*)
(* 0 .. FIFO_SIZE, although the interrupt and the DFC race for it.         *)
THEOREM RingInBounds == DriverSpec => []DriverTypeOK
<1>1. DriverTypeOK /\ [DriverNext]_driverVars => DriverTypeOK'
  BY NextDriverType
<1> QED BY InitDriverType, <1>1, PTL DEF DriverSpec

-----------------------------------------------------------------------------
(* The DFC comes for every code.                                           *)

(* No interleaving of the end of the interrupt handler with the end of the *)
(* DFC's loop leaves a code in the ring without a DFC to take it out.      *)
THEOREM NoCodeStranded == DriverSpec => []RxDfcComes
<1> DEFINE Inv == DriverTypeOK /\ RxDfcComes
<1>1. DriverInit => Inv
  BY InitDriverType DEF DriverInit, RxDfcComes
<1>2. Inv /\ [DriverNext]_driverVars => Inv'
  <2> SUFFICES ASSUME DriverTypeOK, RxDfcComes, [DriverNext]_driverVars PROVE RxDfcComes'
    BY NextDriverType
  <2> USE DEF RxDfcComes, DriverTypeOK, RxPlaces, fifoVars, callVars
  <2>1. CASE IsrEnd
    BY <2>1, AddDfcQueues DEF IsrEnd, Dfcs
  <2>2. CASE IsrPush
    BY <2>2 DEF IsrPush
  <2>3. CASE RunDfc
    <3>1. CASE Head(dfcs) = "rx"
      BY <2>3, <3>1 DEF RunDfc
    <3>2. CASE Head(dfcs) # "rx"
      <4>1. Queued(dfcs, "rx") => Queued(Tail(dfcs), "rx")
        <5> SUFFICES ASSUME NEW i \in DOMAIN dfcs, dfcs[i] = "rx"
                     PROVE Queued(Tail(dfcs), "rx")
          BY DEF Queued
        <5>1. i \in 1 .. Len(dfcs) /\ i # 1
          BY <3>2
        <5>2. i - 1 \in DOMAIN Tail(dfcs) /\ Tail(dfcs)[i - 1] = "rx"
          BY <5>1
        <5> QED BY <5>2 DEF Queued
      <4> QED BY <2>3, <3>2, <4>1 DEF RunDfc
    <3> QED BY <3>1, <3>2
  <2>4. CASE HandleMsg
    <3>1. Queued(dfcs, "rx") => Queued(dfcs', "rx")
      BY <2>4, AddDfcQueues DEF HandleMsg, Dfcs
    <3> QED BY <2>4, <3>1 DEF HandleMsg
  <2>5. ASSUME NEW c \in Clients, NEW on \in BOOLEAN, HalSetKeyboardState(c, on)
        PROVE RxDfcComes'
    <3>1. Queued(dfcs, "rx") => Queued(dfcs', "rx")
      BY <2>5, AddDfcQueues DEF HalSetKeyboardState, Dfcs
    <3> QED BY <2>5, <3>1 DEF HalSetKeyboardState
  <2>6. CASE Type \/ Interrupt
    BY <2>6 DEF Type, Interrupt
  <2>7. CASE RxDfc
    BY <2>7 DEF RxDfc, CheckCount, ReadKey, AdvancePos, LoadCount, StoreCount,
       WrapPos, AddEvent
  <2>8. CASE UNCHANGED driverVars
    BY <2>8 DEF driverVars
  <2> QED BY <2>1, <2>2, <2>3, <2>4, <2>5, <2>6, <2>7, <2>8 DEF DriverNext
<1>3. Inv => RxDfcComes
  OBVIOUS
<1> QED BY <1>1, <1>2, <1>3, PTL DEF DriverSpec

-----------------------------------------------------------------------------
(* Order.  ~raced excludes the two places where FifoPop has stored iFifoPos*)
(* and not yet iFifoCount, so that elsewhere Slot(iFifoCount) is the slot  *)
(* after the last code.  At "advance" the register holds the oldest code,  *)
(* which is what the store of iFifoPos takes out of the ring; at "store"   *)
(* the count loaded is the count.                                          *)

Registers == /\ pc = "advance" => val = iKeyFifo[Slot(0)]
             /\ pc = "store" => count = iFifoCount

OrderInv == /\ DriverTypeOK
            /\ InOrderUnlessRaced
            /\ ~raced /\ ~faulted => Registers

(* What the steps below need of the types.                                 *)
RingTypes ==
  /\ FIFO_SIZE \in Nat \ {0}
  /\ iFifoPos \in 0 .. FIFO_SIZE /\ iFifoCount \in 0 .. FIFO_SIZE
  /\ iKeyFifo \in [Slots -> Keys]
  /\ accepted \in Seq(Keys) /\ delivered \in Seq(Keys)
  /\ pc \in {"pop", "advance", "load"} => iFifoCount > 0

LEMMA DriverTypeRing == DriverTypeOK => RingTypes
  BY FifoAssumption DEF DriverTypeOK, RingTypes

(* A step that leaves the ring, the register and what was delivered, and   *)
(* does not move between the places that Taken and Held tell apart.        *)
LEMMA OrderKept ==
  ASSUME InOrder, RingTypes,
         UNCHANGED <<iKeyFifo, iFifoPos, iFifoCount, count, val, accepted, delivered>>,
         \/ UNCHANGED pc
         \/ /\ pc \notin {"load", "store", "wrap", "event"}
            /\ pc' \notin {"load", "store", "wrap", "event"}
  PROVE  InOrder'
<1>1. UNCHANGED <<InHand, Taken, Held>>
  BY DEF InHand, Taken, Held
<1>2. \A n \in Int : (Slot(n))' = Slot(n)
  BY DEF Slot
<1>3. \A i \in 1 .. Held : i - 1 \in Int
  BY DEF Held
<1> QED BY <1>1, <1>2, <1>3 DEF InOrder

LEMMA OrderPush ==
  ASSUME InOrder, RingTypes, NEW key \in Keys, iFifoCount # FIFO_SIZE,
         pc \notin {"load", "store"},
         iKeyFifo' = [iKeyFifo EXCEPT ![Slot(iFifoCount)] = key],
         iFifoCount' = iFifoCount + 1,
         accepted' = Append(accepted, key),
         UNCHANGED <<iFifoPos, pc, val, delivered>>
  PROVE  /\ InOrder'
         /\ iFifoCount > 0 => iKeyFifo'[Slot(0)] = iKeyFifo[Slot(0)]
<1> DEFINE slot == Slot(iFifoCount)
           n == Len(accepted)
<1>1. /\ FIFO_SIZE \in Nat \ {0} /\ iFifoPos \in 0 .. FIFO_SIZE
      /\ iFifoCount \in 0 .. FIFO_SIZE - 1
  BY DEF RingTypes
<1>2. slot \in Slots
  BY <1>1, SlotInBounds
<1>3. iKeyFifo'[slot] = key
  BY <1>2 DEF RingTypes
<1>4. \A m \in 0 .. iFifoCount - 1 : iKeyFifo'[Slot(m)] = iKeyFifo[Slot(m)]
  <2> TAKE m \in 0 .. iFifoCount - 1
  <2>1. m \in 0 .. FIFO_SIZE - 1 /\ m # iFifoCount
    BY <1>1
  <2>2. Slot(m) # slot
    BY <1>1, <2>1, SlotsDiffer
  <2>3. Slot(m) \in Slots
    BY <1>1, <2>1, SlotInBounds
  <2> QED BY <2>2, <2>3 DEF RingTypes
<1>5. /\ n \in Nat /\ Len(accepted') = n + 1 /\ accepted'[n + 1] = key
      /\ \A i \in 1 .. n : accepted'[i] = accepted[i]
  BY DEF RingTypes
<1>6. /\ Held = iFifoCount /\ Held' = iFifoCount + 1
      /\ Taken' = Taken /\ InHand' = InHand
  BY DEF Held, Taken, InHand
<1>7. Taken \in Nat /\ Len(delivered) \in 0 .. Taken /\ (InHand => Taken > 0)
  BY DEF Taken, RingTypes
<1>8. n = Taken + iFifoCount
  BY <1>6 DEF InOrder
<1>9. \A m \in Int : (Slot(m))' = Slot(m)
  BY DEF Slot
<1> HIDE DEF slot, n
<1>10. \A i \in 1 .. Held' : iKeyFifo'[(Slot(i - 1))'] = accepted'[Taken' + i]
  <2> TAKE i \in 1 .. Held'
  <2>1. i \in Int /\ (Slot(i - 1))' = Slot(i - 1)
    BY <1>6, <1>9, <1>1
  <2>2. CASE i = iFifoCount + 1
    <3>1. i - 1 = iFifoCount /\ Taken + i = n + 1
      BY <1>1, <1>7, <1>8, <2>2
    <3> QED BY <1>3, <1>5, <1>6, <2>1, <3>1 DEF slot
  <2>3. CASE i # iFifoCount + 1
    <3>1. /\ i \in 1 .. Held /\ i - 1 \in 0 .. iFifoCount - 1
          /\ Taken + i \in 1 .. n
      BY <1>1, <1>6, <1>7, <1>8, <2>3
    <3>2. iKeyFifo[Slot(i - 1)] = accepted[Taken + i]
      BY <3>1 DEF InOrder
    <3> QED BY <1>4, <1>5, <1>6, <2>1, <3>1, <3>2
  <2> QED BY <2>2, <2>3
<1>11. \A i \in 1 .. Len(delivered') : delivered'[i] = accepted'[i]
  <2> TAKE i \in 1 .. Len(delivered')
  <2>1. i \in 1 .. Len(delivered) /\ i \in 1 .. n
    BY <1>1, <1>7, <1>8
  <2> QED BY <1>5, <2>1 DEF InOrder
<1>12. InHand' => val' = accepted'[Taken']
  <2>1. InHand => Taken \in 1 .. n
    BY <1>1, <1>7, <1>8
  <2> QED BY <1>5, <1>6, <2>1 DEF InOrder
<1>13. Len(accepted') = Taken' + Held'
  BY <1>1, <1>5, <1>6, <1>7, <1>8
<1>14. InOrder'
  BY <1>10, <1>11, <1>12, <1>13 DEF InOrder
<1>15. iFifoCount > 0 => iKeyFifo'[Slot(0)] = iKeyFifo[Slot(0)]
  BY <1>1, <1>4
<1> QED BY <1>14, <1>15

LEMMA OrderAdvance ==
  ASSUME InOrder, RingTypes, pc = "advance", val = iKeyFifo[Slot(0)], AdvancePos,
         iFifoPos # FIFO_SIZE
  PROVE  InOrder'
<1>1. /\ pc' = "load" /\ iFifoPos' = iFifoPos + 1
      /\ UNCHANGED <<iKeyFifo, iFifoCount, val, accepted, delivered>>
  BY DEF AdvancePos, regVars, history
<1>2. /\ Held = iFifoCount /\ Held' = iFifoCount - 1 /\ Taken = Len(delivered)
      /\ Taken' = Taken + 1 /\ InHand'
  BY <1>1 DEF Held, Taken, InHand
<1>3. /\ iFifoCount \in 1 .. FIFO_SIZE /\ Taken \in Nat
      /\ iFifoPos \in 0 .. FIFO_SIZE - 1 /\ FIFO_SIZE \in Nat
  BY <1>2 DEF RingTypes
<1>4. \A i \in 1 .. iFifoCount - 1 : (Slot(i - 1))' = Slot((i + 1) - 1)
  BY <1>1, <1>3 DEF Slot
<1>5. \A i \in 1 .. iFifoCount : iKeyFifo[Slot(i - 1)] = accepted[Taken + i]
  BY <1>2 DEF InOrder
<1>6. \A i \in 1 .. Held' : iKeyFifo'[(Slot(i - 1))'] = accepted'[Taken' + i]
  <2> TAKE i \in 1 .. Held'
  <2>1. /\ i \in 1 .. iFifoCount - 1 /\ i + 1 \in 1 .. iFifoCount
        /\ Taken' + i = Taken + (i + 1)
    BY <1>2, <1>3
  <2> QED BY <1>1, <1>4, <1>5, <2>1
<1>7. val' = accepted'[Taken']
  <2>1. 1 \in 1 .. iFifoCount /\ Slot(1 - 1) = Slot(0)
    BY <1>3
  <2>2. iKeyFifo[Slot(1 - 1)] = accepted[Taken + 1]
    BY <1>5, <2>1
  <2> QED BY <1>1, <1>2, <2>1, <2>2
<1>8. Len(accepted') = Taken' + Held'
  BY <1>1, <1>2, <1>3 DEF InOrder
<1> QED BY <1>1, <1>6, <1>7, <1>8 DEF InOrder

LEMMA OrderWrap ==
  ASSUME InOrder, RingTypes, WrapPos
  PROVE  InOrder'
<1>1. /\ pc = "wrap" /\ pc' = "event"
      /\ iFifoPos' = IF iFifoPos = FIFO_SIZE THEN 0 ELSE iFifoPos
      /\ UNCHANGED <<iKeyFifo, iFifoCount, val, accepted, delivered>>
  BY DEF WrapPos, regVars, history
<1>2. Held = iFifoCount /\ Held' = Held /\ Taken' = Taken /\ InHand' = InHand
  BY <1>1 DEF Held, Taken, InHand
<1>3. \A i \in 1 .. Held : (Slot(i - 1))' = Slot(i - 1)
  BY <1>1, <1>2 DEF Slot, RingTypes
<1> QED BY <1>1, <1>2, <1>3 DEF InOrder

LEMMA OrderEvent ==
  ASSUME InOrder, RingTypes, AddEvent, ~faulted'
  PROVE  InOrder'
<1>1. /\ pc = "event" /\ pc' = "check" /\ delivered' = Append(delivered, val)
      /\ UNCHANGED <<iKeyFifo, iFifoPos, iFifoCount, accepted>>
  BY DEF AddEvent, fifoVars
<1> DEFINE n == Len(delivered)
<1>2. /\ n \in Nat /\ Len(delivered') = n + 1 /\ delivered'[n + 1] = val
      /\ \A i \in 1 .. n : delivered'[i] = delivered[i]
  BY <1>1 DEF RingTypes
<1>3. /\ Held = iFifoCount /\ Held' = iFifoCount /\ InHand /\ ~InHand'
      /\ Taken = n + 1 /\ Taken' = n + 1
  BY <1>1, <1>2 DEF Held, Taken, InHand
<1>4. \A i \in 1 .. Held : (Slot(i - 1))' = Slot(i - 1)
  BY <1>1 DEF Slot
<1>5. \A i \in 1 .. Len(delivered') : delivered'[i] = accepted'[i]
  BY <1>1, <1>2, <1>3 DEF InOrder
<1> HIDE DEF n
<1> QED BY <1>1, <1>3, <1>4, <1>5 DEF InOrder

LEMMA OrderCount ==
  ASSUME InOrder, RingTypes, pc = "store" => count = iFifoCount,
         LoadCount \/ StoreCount
  PROVE  InOrder'
<1>1. UNCHANGED <<iKeyFifo, iFifoPos, val, accepted, delivered>>
  BY DEF LoadCount, StoreCount, fifoVars, history, regVars
<1>2. Held' = Held /\ Taken' = Taken /\ InHand' = InHand
  BY <1>1 DEF LoadCount, StoreCount, fifoVars, Held, Taken, InHand, RingTypes
<1>3. \A i \in 1 .. Held : (Slot(i - 1))' = Slot(i - 1)
  BY <1>1 DEF Slot
<1> QED BY <1>1, <1>2, <1>3 DEF InOrder

LEMMA NextOrder == OrderInv /\ [DriverNext]_driverVars => OrderInv'
<1> SUFFICES ASSUME OrderInv, [DriverNext]_driverVars, ~raced', ~faulted'
             PROVE  InOrder' /\ Registers'
  BY NextDriverType DEF OrderInv, InOrderUnlessRaced
<1> DEFINE Goal == InOrder' /\ Registers'
<1>a. RingTypes /\ DriverTypeOK
  BY DriverTypeRing DEF OrderInv
<1>b. ~raced /\ ~faulted
  <2>1. CASE IsrPush
    BY <2>1 DEF IsrPush, FifoPush
  <2>2. CASE AddEvent
    BY <2>2 DEF AddEvent, kernelThread
  <2>3. CASE ~IsrPush /\ ~AddEvent
    <3>1. UNCHANGED <<raced, faulted>>
      BY <2>3 DEF DriverNext, Type, Interrupt, IsrEnd, RunDfc, RxDfc, CheckCount, ReadKey,
         AdvancePos, LoadCount, StoreCount, WrapPos, HandleMsg, HalSetKeyboardState,
         driverVars, history
    <3> QED BY <3>1
  <2> QED BY <2>1, <2>2, <2>3
<1>c. InOrder /\ Registers
  BY <1>b DEF OrderInv, InOrderUnlessRaced
<1>1. CASE IsrPush /\ iFifoCount = FIFO_SIZE
  <2>1. UNCHANGED <<iKeyFifo, iFifoPos, iFifoCount, count, val, accepted, delivered, pc>>
    BY <1>1 DEF IsrPush, FifoPush, regVars
  <2> QED BY <1>a, <1>c, <2>1, OrderKept DEF Registers, Slot
<1>2. CASE IsrPush /\ iFifoCount # FIFO_SIZE
  <2>1. /\ pc \notin {"load", "store"}
        /\ iKeyFifo' = [iKeyFifo EXCEPT ![Slot(iFifoCount)] = Head(device)]
        /\ iFifoCount' = iFifoCount + 1
        /\ accepted' = Append(accepted, Head(device))
        /\ UNCHANGED <<iFifoPos, pc, val, delivered>>
    BY <1>2 DEF IsrPush, FifoPush, regVars
  <2>2. Head(device) \in Keys
    BY <1>2, <1>a DEF IsrPush, DriverTypeOK
  <2>3. InOrder' /\ (iFifoCount > 0 => iKeyFifo'[Slot(0)] = iKeyFifo[Slot(0)])
    BY <1>2, <1>a, <1>c, <2>1, <2>2, OrderPush
  <2>4. pc = "advance" => iFifoCount > 0
    BY <1>a DEF RingTypes
  <2>5. (Slot(0))' = Slot(0)
    BY <2>1 DEF Slot
  <2> QED BY <1>c, <2>1, <2>3, <2>4, <2>5 DEF Registers
<1>3. CASE ReadKey
  <2>1. /\ pc = "pop" /\ pc' = "advance" /\ val' = iKeyFifo[iFifoPos]
        /\ UNCHANGED <<iKeyFifo, iFifoPos, iFifoCount, accepted, delivered>>
    BY <1>3 DEF ReadKey, fifoVars, history
  <2>2. iFifoPos \in 0 .. FIFO_SIZE - 1 /\ FIFO_SIZE \in Nat
    BY <1>a, <2>1, FifoAssumption DEF DriverTypeOK
  <2>3. Registers'
    BY <2>1, <2>2 DEF Registers, Slot
  <2>4. Held' = Held /\ Taken' = Taken /\ ~InHand'
    BY <2>1 DEF Held, Taken, InHand
  <2>5. \A i \in 1 .. Held : (Slot(i - 1))' = Slot(i - 1)
    BY <2>1 DEF Slot
  <2> QED BY <1>c, <2>1, <2>3, <2>4, <2>5 DEF InOrder
<1>4. CASE AdvancePos
  <2>1. pc = "advance" /\ iFifoPos # FIFO_SIZE
    BY <1>4, <1>a DEF AdvancePos, DriverTypeOK
  <2>2. Registers'
    BY <1>4 DEF AdvancePos, Registers
  <2> QED BY <1>4, <1>a, <1>c, <2>1, <2>2, OrderAdvance DEF Registers
<1>5. CASE LoadCount \/ StoreCount
  <2>1. Registers'
    BY <1>5 DEF LoadCount, StoreCount, fifoVars, Registers
  <2> QED BY <1>5, <1>a, <1>c, <2>1, OrderCount DEF Registers
<1>6. CASE WrapPos
  <2>1. Registers'
    BY <1>6 DEF WrapPos, Registers
  <2> QED BY <1>6, <1>a, <1>c, <2>1, OrderWrap
<1>7. CASE AddEvent
  <2>1. Registers'
    BY <1>7 DEF AddEvent, Registers
  <2> QED BY <1>7, <1>a, <1>c, <2>1, OrderEvent
<1>8. CASE CheckCount \/ RunDfc \/ HandleMsg
  <2>1. /\ UNCHANGED <<iKeyFifo, iFifoPos, iFifoCount, count, val, accepted, delivered>>
        /\ pc \in {"check", "idle", "message"}
        /\ pc' \in {"check", "pop", "idle", "message"}
    BY <1>8 DEF CheckCount, RunDfc, HandleMsg, fifoVars, regVars, history
  <2>2. InOrder'
    BY <1>a, <1>c, <2>1, OrderKept
  <2> QED BY <2>1, <2>2 DEF Registers
<1>9. CASE \/ Type \/ Interrupt \/ IsrEnd \/ UNCHANGED driverVars
           \/ \E c \in Clients, on \in BOOLEAN : HalSetKeyboardState(c, on)
  <2>1. UNCHANGED <<iKeyFifo, iFifoPos, iFifoCount, count, val, accepted, delivered, pc>>
    BY <1>9 DEF Type, Interrupt, IsrEnd, HalSetKeyboardState, driverVars, fifoVars, regVars,
       history
  <2> QED BY <1>a, <1>c, <2>1, OrderKept DEF Registers, Slot
<1> HIDE DEF Goal
<1>10. Goal
  BY <1>1, <1>2, <1>3, <1>4, <1>5, <1>6, <1>7, <1>8, <1>9 DEF DriverNext, RxDfc, Goal
<1> QED BY <1>10 DEF Goal

(* Unless a code came between the two stores of FifoPop, every code        *)
(* accepted is delivered once and in the order it came.                    *)
THEOREM KeysInOrder == DriverSpec => []InOrderUnlessRaced
<1>1. DriverInit => OrderInv
  <2> SUFFICES ASSUME DriverInit PROVE InOrder /\ Registers
    BY InitDriverType DEF OrderInv, InOrderUnlessRaced
  <2>1. Taken = 0 /\ Held = 0 /\ ~InHand /\ Len(accepted) = 0 /\ Len(delivered) = 0
    BY DEF DriverInit, Taken, Held, InHand
  <2> QED BY <2>1 DEF InOrder, Registers, DriverInit
<1>2. OrderInv /\ [DriverNext]_driverVars => OrderInv'
  BY NextOrder
<1>3. OrderInv => InOrderUnlessRaced
  BY DEF OrderInv
<1> QED BY <1>1, <1>2, <1>3, PTL DEF DriverSpec

-----------------------------------------------------------------------------
(* Lost, never made up.  At "store" the count loaded may be too small, and *)
(* never too large: the interrupt handler only adds.                       *)

CountInv ==
  /\ DriverTypeOK
  /\ NeverMoreThanAccepted
  /\ pc = "store" => Taken + iFifoCount - 1 <= Len(accepted)

(* Whatever the races do, no more events are added than codes came in.     *)
THEOREM NothingMadeUp == DriverSpec => []NeverMoreThanAccepted
<1>1. DriverInit => CountInv
  BY InitDriverType DEF DriverInit, CountInv, NeverMoreThanAccepted, InHand, Taken, Held
<1>2. CountInv /\ [DriverNext]_driverVars => CountInv'
  <2> SUFFICES ASSUME CountInv, [DriverNext]_driverVars
               PROVE /\ NeverMoreThanAccepted'
                     /\ (pc = "store" => Taken + iFifoCount - 1 <= Len(accepted))'
    BY NextDriverType DEF CountInv
  <2>a. /\ Len(accepted) \in Nat /\ Len(delivered) \in Nat
        /\ iFifoCount \in Nat /\ count \in Nat
    BY FifoAssumption DEF CountInv, DriverTypeOK
  <2>b. /\ Taken + Held <= Len(accepted)
        /\ pc = "store" => Taken + iFifoCount - 1 <= Len(accepted)
    BY DEF CountInv, NeverMoreThanAccepted
  <2> USE <2>a, <2>b DEF NeverMoreThanAccepted, InHand, Taken, Held
  <2>1. CASE IsrPush
    <3>1. \/ UNCHANGED <<iFifoCount, accepted>>
          \/ iFifoCount' = iFifoCount + 1 /\ Len(accepted') = Len(accepted) + 1
      <4>1. \/ UNCHANGED <<iFifoCount, accepted>>
            \/ /\ iFifoCount' = iFifoCount + 1
               /\ accepted' = Append(accepted, Head(device))
        BY <2>1 DEF IsrPush, FifoPush
      <4>2. accepted \in Seq(Keys)
        BY DEF CountInv, DriverTypeOK
      <4> QED BY <4>1, <4>2
    <3>2. UNCHANGED <<pc, count, delivered>>
      BY <2>1 DEF IsrPush, regVars
    <3> QED BY <3>1, <3>2
  <2>2. CASE ReadKey \/ AdvancePos \/ LoadCount
    <3>1. UNCHANGED <<iFifoCount, accepted, delivered>>
      BY <2>2 DEF ReadKey, AdvancePos, LoadCount, fifoVars, history
    <3>2. \/ pc = "pop" /\ pc' = "advance"
          \/ pc = "advance" /\ pc' = "load"
          \/ pc = "load" /\ pc' = "store" /\ count' = iFifoCount
      BY <2>2 DEF ReadKey, AdvancePos, LoadCount
    <3> QED BY <3>1, <3>2
  <2>3. CASE StoreCount
    BY <2>3 DEF StoreCount, history
  <2>4. CASE WrapPos
    BY <2>4 DEF WrapPos, history
  <2>5. CASE AddEvent
    <3>1. Len(delivered') \in {Len(delivered), Len(delivered) + 1}
      <4>1. delivered \in Seq(Keys)
        BY DEF CountInv, DriverTypeOK
      <4> QED BY <2>5, <4>1 DEF AddEvent
    <3>2. /\ pc = "event" /\ pc' = "check"
          /\ UNCHANGED <<iFifoCount, accepted>>
      BY <2>5 DEF AddEvent, fifoVars
    <3> QED BY <3>1, <3>2
  <2>6. CASE CheckCount \/ RunDfc \/ HandleMsg
    <3>1. /\ UNCHANGED <<iFifoCount, accepted, delivered>>
          /\ pc \in {"check", "idle", "message"}
          /\ pc' \in {"check", "pop", "idle", "message"}
      BY <2>6 DEF CheckCount, RunDfc, HandleMsg, fifoVars, history
    <3> QED BY <3>1
  <2>7. CASE \/ Type \/ Interrupt \/ IsrEnd \/ UNCHANGED driverVars
             \/ \E c \in Clients, on \in BOOLEAN : HalSetKeyboardState(c, on)
    <3>1. UNCHANGED <<iFifoCount, count, accepted, delivered, pc>>
      BY <2>7 DEF Type, Interrupt, IsrEnd, HalSetKeyboardState, driverVars, fifoVars,
         regVars, history
    <3> QED BY <3>1
  <2> HIDE <2>a, <2>b DEF NeverMoreThanAccepted, InHand, Taken, Held
  <2> QED
    BY <2>1, <2>2, <2>3, <2>4, <2>5, <2>6, <2>7 DEF DriverNext, RxDfc
<1>3. CountInv => NeverMoreThanAccepted
  BY DEF CountInv
<1> QED BY <1>1, <1>2, <1>3, PTL DEF DriverSpec

-----------------------------------------------------------------------------
(* The key sound server.  All but the last part hold whatever the loops over *)
(* the sound lists do; the last is about these loops, round by round.        *)

LEMMA InitType == Init => SessionTypeOK
<1> SUFFICES ASSUME Init PROVE SessionTypeOK
  OBVIOUS
<1>1. iSoundStack \in [Sessions -> Seq(SoundMaps)]
  BY DEF Init
<1>2. client \in [Sessions -> ClientStates]
  BY DEF Init, ClientStates
<1> QED BY <1>1, <1>2 DEF Init, SessionTypeOK

LEMMA NextType == SessionTypeOK /\ [Next]_vars => SessionTypeOK'
<1> SUFFICES ASSUME SessionTypeOK, [Next]_vars PROVE SessionTypeOK'
  OBVIOUS
<1> USE DEF SessionTypeOK, ClientStates, serverVars
<1>1. ASSUME NEW s \in Sessions, Connect(s) PROVE SessionTypeOK'
  <2>1. (IF iDefaultSoundMap = NoMap THEN <<>> ELSE <<iDefaultSoundMap>>)
          \in Seq(SoundMaps)
    OBVIOUS
  <2>2. iSoundStack' \in [Sessions -> Seq(SoundMaps)]
    BY <1>1, <2>1 DEF Connect
  <2> QED BY <1>1, <2>2 DEF Connect, lockVars
<1>2. ASSUME NEW s \in Sessions, NEW uid \in Uids, InitSession(s, uid)
      PROVE SessionTypeOK'
  BY <1>2 DEF InitSession, mapVars, lockVars
<1>3. ASSUME NEW s \in Sessions, Close(s) PROVE SessionTypeOK'
  BY <1>3 DEF Close, LockedAfter, ForegroundAfter, mapVars
<1>4. ASSUME NEW s \in Sessions, NEW uid \in Uids \cup {DefaultUid},
             NEW added \in SUBSET (1 .. SoundsPerLoad), NEW complete \in BOOLEAN,
             AddSoundIdBuffer(s, uid, added, complete)
      PROVE SessionTypeOK'
  BY <1>4 DEF AddSoundIdBuffer, WalkSounds, mapVars, lockVars
<1>5. ASSUME NEW s \in Sessions, PushContext(s) PROVE SessionTypeOK'
  <2>1. PICK m \in SoundMaps : /\ soundMaps' = soundMaps \cup {m}
                               /\ iSoundStack' = [iSoundStack EXCEPT ![s] = Append(@, m)]
                               /\ iDefaultSoundMap' = IF iDefaultSoundMap = NoMap
                                                      THEN m ELSE iDefaultSoundMap
    BY <1>5 DEF PushContext
  <2>2. Append(iSoundStack[s], m) \in Seq(SoundMaps)
    OBVIOUS
  <2>3. iSoundStack' \in [Sessions -> Seq(SoundMaps)]
    BY <2>1, <2>2
  <2> QED BY <1>5, <2>1, <2>3 DEF PushContext, lockVars, sessionVars
<1>6. ASSUME NEW s \in Sessions, PopContext(s) PROVE SessionTypeOK'
  <2>1. SubSeq(iSoundStack[s], 1, Len(iSoundStack[s]) - 1) \in Seq(SoundMaps)
    BY <1>6 DEF PopContext
  <2>2. iSoundStack' \in [Sessions -> Seq(SoundMaps)]
    BY <1>6, <2>1 DEF PopContext
  <2> QED BY <1>6, <2>2 DEF PopContext, lockVars, sessionVars
<1>7. ASSUME NEW s \in Sessions, BringToForeground(s) PROVE SessionTypeOK'
  BY <1>7 DEF BringToForeground, mapVars, sessionVars
<1>8. ASSUME NEW s \in Sessions, LockContext(s) PROVE SessionTypeOK'
  BY <1>8 DEF LockContext, mapVars, sessionVars
<1>9. ASSUME NEW s \in Sessions, ReleaseContext(s) PROVE SessionTypeOK'
  BY <1>9 DEF ReleaseContext, mapVars, sessionVars
<1>10. ASSUME NEW s \in Sessions, NEW scancode \in ScanCodes,
              DisableNextKeySound(s, scancode)
       PROVE SessionTypeOK'
  BY <1>10 DEF DisableNextKeySound, mapVars, lockVars, sessionVars
<1>11. ASSUME NEW scancode \in ScanCodes, PlayKey(scancode) PROVE SessionTypeOK'
  BY <1>11 DEF PlayKey, mapVars, lockVars, sessionVars
<1>12. CASE HandleNotifyInt
  BY <1>12 DEF HandleNotifyInt, WalkSounds, mapVars, lockVars, sessionVars
<1>13. CASE CloseServer
  BY <1>13 DEF CloseServer, mapVars, lockVars, sessionVars
<1>14. CASE UNCHANGED vars
  BY <1>14 DEF vars, mapVars, lockVars, sessionVars
<1> QED
  BY <1>1, <1>2, <1>3, <1>4, <1>5, <1>6, <1>7, <1>8, <1>9, <1>10, <1>11, <1>12,
     <1>13, <1>14 DEF Next

(* The variables of the sessions and the context keep their types.         *)
THEOREM SessionTypes == Spec => []SessionTypeOK
<1>1. SessionTypeOK /\ [Next]_vars => SessionTypeOK'
  BY NextType
<1> QED BY InitType, <1>1, PTL DEF Spec

-----------------------------------------------------------------------------
(* The lock.  A lock is taken by the foreground session only, and nobody   *)
(* comes to the foreground while there is one, so the foreground session is*)
(* the holder; it unlocks when it closes, whoever else may believe to hold *)
(* the lock too.                                                           *)

LockInv == SessionTypeOK /\ ForegroundOpen /\ LockHasHolder

LEMMA InitLock == Init => LockInv
  BY InitType DEF Init, LockInv, ForegroundOpen, LockHasHolder

LEMMA NextLock == LockInv /\ [Next]_vars => LockInv'
<1> SUFFICES ASSUME LockInv, [Next]_vars PROVE LockInv'
  OBVIOUS
<1>0. SessionTypeOK'
  BY NextType DEF LockInv
<1> USE SessionsAssumption DEF LockInv, ForegroundOpen, LockHasHolder, Open,
        SessionTypeOK, ClientStates
<1>1. ASSUME NEW s \in Sessions, Connect(s) PROVE LockInv'
  BY <1>0, <1>1 DEF Connect, lockVars
<1>2. ASSUME NEW s \in Sessions, NEW uid \in Uids, InitSession(s, uid)
      PROVE LockInv'
  BY <1>0, <1>2 DEF InitSession, lockVars
<1>3. ASSUME NEW s \in Sessions, Close(s) PROVE LockInv'
  BY <1>0, <1>3 DEF Close, LockedAfter, ForegroundAfter
<1>4. ASSUME NEW s \in Sessions, NEW uid \in Uids \cup {DefaultUid},
             NEW added \in SUBSET (1 .. SoundsPerLoad), NEW complete \in BOOLEAN,
             AddSoundIdBuffer(s, uid, added, complete)
      PROVE LockInv'
  BY <1>0, <1>4 DEF AddSoundIdBuffer, lockVars
<1>5. ASSUME NEW s \in Sessions, PushContext(s) PROVE LockInv'
  BY <1>0, <1>5 DEF PushContext, lockVars, sessionVars
<1>6. ASSUME NEW s \in Sessions, PopContext(s) PROVE LockInv'
  BY <1>0, <1>6 DEF PopContext, lockVars, sessionVars
<1>7. ASSUME NEW s \in Sessions, BringToForeground(s) PROVE LockInv'
  BY <1>0, <1>7 DEF BringToForeground, sessionVars
<1>8. ASSUME NEW s \in Sessions, LockContext(s) PROVE LockInv'
  BY <1>0, <1>8 DEF LockContext, sessionVars
<1>9. ASSUME NEW s \in Sessions, ReleaseContext(s) PROVE LockInv'
  BY <1>0, <1>9 DEF ReleaseContext, sessionVars
<1>10. ASSUME NEW s \in Sessions, NEW scancode \in ScanCodes,
              DisableNextKeySound(s, scancode)
       PROVE LockInv'
  BY <1>0, <1>10 DEF DisableNextKeySound, lockVars, sessionVars
<1>11. ASSUME NEW scancode \in ScanCodes, PlayKey(scancode) PROVE LockInv'
  BY <1>0, <1>11 DEF PlayKey, lockVars, sessionVars
<1>12. CASE HandleNotifyInt
  BY <1>0, <1>12 DEF HandleNotifyInt, lockVars, sessionVars
<1>13. CASE CloseServer
  BY <1>0, <1>13 DEF CloseServer, lockVars, sessionVars
<1>14. CASE UNCHANGED vars
  BY <1>0, <1>14 DEF vars, lockVars, sessionVars
<1> HIDE DEF LockInv
<1> QED
  BY <1>1, <1>2, <1>3, <1>4, <1>5, <1>6, <1>7, <1>8, <1>9, <1>10, <1>11, <1>12,
     <1>13, <1>14 DEF Next

(* A locked context always has a holder that is connected and in the       *)
(* foreground: no interleaving of messages and closing sessions leaves a   *)
(* lock behind that nobody will release.                                   *)
THEOREM LockHeld == Spec => [](LockHasHolder /\ ForegroundOpen)
<1>1. LockInv /\ [Next]_vars => LockInv'
  BY NextLock
<1>2. LockInv => LockHasHolder /\ ForegroundOpen
  BY DEF LockInv
<1> QED BY InitLock, <1>1, <1>2, PTL DEF Spec

(* While the context is locked the foreground stays where it is.           *)
LEMMA LockStep == LockInv /\ [Next]_vars =>
                    (iContextLocked /\ iContextLocked'
                       => iCurrentSoundStack' = iCurrentSoundStack)
<1> SUFFICES ASSUME LockInv, [Next]_vars, iContextLocked, iContextLocked'
             PROVE iCurrentSoundStack' = iCurrentSoundStack
  OBVIOUS
<1>1. ASSUME NEW s \in Sessions, Close(s)
      PROVE iCurrentSoundStack' = iCurrentSoundStack
  BY <1>1 DEF Close, LockedAfter, ForegroundAfter, LockInv, LockHasHolder
<1>2. ASSUME NEW s \in Sessions, BringToForeground(s) PROVE FALSE
  BY <1>2 DEF BringToForeground
<1>3. CASE UNCHANGED vars
  BY <1>3 DEF vars, lockVars
<1> QED
  BY <1>1, <1>2, <1>3 DEF Next, Connect, InitSession, AddSoundIdBuffer,
     PushContext, PopContext, LockContext, ReleaseContext, DisableNextKeySound,
     PlayKey, HandleNotifyInt, CloseServer, lockVars

(* A client that has locked the context keeps the foreground until the     *)
(* lock is released or it goes away.                                       *)
THEOREM LockKeeps == Spec => LockKeepsForeground
<1>1. LockInv /\ [Next]_vars => LockInv'
  BY NextLock
<1>2. LockInv /\ [Next]_vars =>
        [iContextLocked /\ iContextLocked'
           => iCurrentSoundStack' = iCurrentSoundStack]_vars
  BY LockStep
<1> QED BY InitLock, <1>1, <1>2, PTL DEF Spec, LockKeepsForeground

(* The server implements the sound context: each of its steps is a step of *)
(* SoundContext or leaves the context alone.                               *)
LEMMA ContextStep == LockInv /\ [Next]_vars => [Context!Next]_(Context!vars)
<1> SUFFICES ASSUME LockInv, [Next]_vars
             PROVE [Context!Next]_(Context!vars)
  OBVIOUS
<1> USE SessionsAssumption
    DEF LockInv, LockHasHolder, SessionTypeOK, Context!Next, Context!vars,
        Context!BringToForeground, Context!Lock, Context!Release, Context!Leave
<1>1. ASSUME NEW s \in Sessions, Close(s) PROVE [Context!Next]_(Context!vars)
  <2>1. CASE iCurrentSoundStack = s
    BY <1>1, <2>1 DEF Close, LockedAfter, ForegroundAfter
  <2>2. CASE iCurrentSoundStack # s
    BY <1>1, <2>2 DEF Close, LockedAfter, ForegroundAfter
  <2> QED BY <2>1, <2>2
<1>2. ASSUME NEW s \in Sessions, BringToForeground(s)
      PROVE [Context!Next]_(Context!vars)
  BY <1>2 DEF BringToForeground
<1>3. ASSUME NEW s \in Sessions, LockContext(s)
      PROVE [Context!Next]_(Context!vars)
  BY <1>3 DEF LockContext
<1>4. ASSUME NEW s \in Sessions, ReleaseContext(s)
      PROVE [Context!Next]_(Context!vars)
  BY <1>4 DEF ReleaseContext
<1>5. ASSUME UNCHANGED lockVars PROVE [Context!Next]_(Context!vars)
  BY <1>5 DEF lockVars
<1>6. \/ UNCHANGED lockVars
      \/ \E s \in Sessions : \/ Close(s) \/ BringToForeground(s)
                             \/ LockContext(s) \/ ReleaseContext(s)
  BY DEF Next, Connect, InitSession, AddSoundIdBuffer, PushContext, PopContext,
     DisableNextKeySound, PlayKey, HandleNotifyInt, CloseServer, vars, lockVars
<1> QED BY <1>1, <1>2, <1>3, <1>4, <1>5, <1>6

THEOREM RefinesSoundContext == Spec => ImplementsSoundContext
<1>1. Init => Context!Init
  BY DEF Init, Context!Init
<1>2. LockInv /\ [Next]_vars => LockInv'
  BY NextLock
<1> QED
  BY <1>1, <1>2, InitLock, ContextStep, PTL
  DEF Spec, ImplementsSoundContext, Context!Spec

-----------------------------------------------------------------------------
(* The default sounds.                                                     *)

(* A client that has got past EKeySoundServerInit has an application's uid,*)
(* so the sounds it loads next are not the default ones.                   *)
UidsKnown ==
  \A s \in Sessions : client[s] \notin {"none", "connected"} => iClientUid[s] \in Uids

LEMMA NoDefaultUid == DefaultUid \notin Uids
  BY UidsAssumption DEF DefaultUid

LoaderInv == SessionTypeOK /\ UidsKnown /\ OneDefaultLoader

(* Of all the clients that connect and go away, at most one loads the      *)
(* default sounds: the first to ask, until it closes its session again.    *)
THEOREM DefaultLoaderUnique == Spec => []OneDefaultLoader
<1>1. Init => LoaderInv
  BY InitType DEF Init, LoaderInv, UidsKnown, OneDefaultLoader, DefaultLoader
<1>2. LoaderInv /\ [Next]_vars => LoaderInv'
  <2> SUFFICES ASSUME LoaderInv, [Next]_vars
               PROVE UidsKnown' /\ OneDefaultLoader'
    BY NextType DEF LoaderInv
  <2> DEFINE Goal == UidsKnown' /\ OneDefaultLoader'
  <2> USE DEF LoaderInv, UidsKnown, OneDefaultLoader, DefaultLoader, SessionTypeOK,
          ClientStates
  <2>1. ASSUME NEW s \in Sessions, Connect(s) PROVE Goal
    BY <2>1 DEF Connect
  <2>2. ASSUME NEW s \in Sessions, NEW uid \in Uids, InitSession(s, uid) PROVE Goal
    BY <2>2 DEF InitSession
  <2>3. ASSUME NEW s \in Sessions, Close(s) PROVE Goal
    BY <2>3 DEF Close
  <2>4. ASSUME NEW s \in Sessions, NEW uid \in Uids \cup {DefaultUid},
               NEW added \in SUBSET (1 .. SoundsPerLoad), NEW complete \in BOOLEAN,
               AddSoundIdBuffer(s, uid, added, complete)
        PROVE Goal
    <3>1. CASE client[s] = "loadDefaults"
      BY <2>4, <3>1 DEF AddSoundIdBuffer
    <3>2. CASE client[s] = "ready" /\ uid = iClientUid[s]
      <4>1. uid # DefaultUid
        <5>1. uid \in Uids
          BY <3>2
        <5> QED BY <5>1, NoDefaultUid
      <4>2. \A t \in Sessions : iOwnsDefaultSounds'[t] = iOwnsDefaultSounds[t]
        BY <2>4, <4>1 DEF AddSoundIdBuffer
      <4>3. /\ client'[s] = "loaded"
            /\ \A t \in Sessions \ {s} : client'[t] = client[t]
            /\ UNCHANGED <<iInit, iClientUid>>
        BY <2>4, <3>2, <4>1 DEF AddSoundIdBuffer
      <4> QED BY <3>2, <4>2, <4>3
    <3> QED BY <2>4, <3>1, <3>2 DEF AddSoundIdBuffer
  <2>5. ASSUME UNCHANGED sessionVars PROVE Goal
    BY <2>5 DEF sessionVars
  <2>6. \/ UNCHANGED sessionVars
        \/ \E s \in Sessions :
             \/ Connect(s)
             \/ \E uid \in Uids : InitSession(s, uid)
             \/ Close(s)
             \/ \E uid \in Uids \cup {DefaultUid},
                   added \in SUBSET (1 .. SoundsPerLoad), complete \in BOOLEAN :
                     AddSoundIdBuffer(s, uid, added, complete)
    BY DEF Next, PushContext, PopContext, BringToForeground, LockContext,
       ReleaseContext, DisableNextKeySound, PlayKey, HandleNotifyInt, CloseServer,
       vars
  <2> HIDE DEF Goal
  <2>7. Goal
    BY <2>1, <2>2, <2>3, <2>4, <2>5, <2>6
  <2> QED BY <2>7 DEF Goal
<1>3. LoaderInv => OneDefaultLoader
  BY DEF LoaderInv
<1> QED BY <1>1, <1>2, <1>3, PTL DEF Spec

-----------------------------------------------------------------------------
(* The sound maps.  A map above the bottom of a stack is in that place only*)
(* and is not the default map, so the session that pops it, or goes away   *)
(* with it, destroys no map that another stack still holds.  What makes    *)
(* this inductive is that the first map ever pushed becomes the default    *)
(* map: before, all stacks are empty, and that map is at a bottom.         *)

NoMapsYet == iDefaultSoundMap = NoMap => \A s \in Sessions : iSoundStack[s] = <<>>

MapsInv == SessionTypeOK /\ MapsLive /\ NoMapsYet

LEMMA InitMaps == Init => MapsInv
  BY InitType DEF Init, MapsInv, MapsLive, NoMapsYet, NoMap

LEMMA NextMaps == MapsInv /\ [Next]_vars => MapsInv'
<1> SUFFICES ASSUME MapsInv, [Next]_vars PROVE MapsLive' /\ NoMapsYet'
  BY NextType DEF MapsInv
<1> DEFINE Goal == MapsLive' /\ NoMapsYet'
<1>a. SessionTypeOK'
  BY NextType DEF MapsInv
<1> USE DEF MapsInv, MapsLive, NoMapsYet
<1>1. ASSUME NEW s \in Sessions, Connect(s) PROVE Goal
  <2>1. UNCHANGED <<iDefaultSoundMap, soundMaps>>
    BY <1>1 DEF Connect
  <2>2. iSoundStack' = [iSoundStack EXCEPT ![s] =
                          IF iDefaultSoundMap = NoMap THEN <<>>
                          ELSE <<iDefaultSoundMap>>]
    BY <1>1 DEF Connect
  <2>3. \A t \in Sessions \ {s} : iSoundStack'[t] = iSoundStack[t]
    BY <2>2 DEF SessionTypeOK
  <2>4. CASE iDefaultSoundMap = NoMap
    BY <2>1, <2>2, <2>3, <2>4 DEF SessionTypeOK
  <2>5. CASE iDefaultSoundMap # NoMap
    <3>1. /\ DOMAIN iSoundStack'[s] = {1}
          /\ iSoundStack'[s][1] = iDefaultSoundMap
      BY <2>2, <2>5 DEF SessionTypeOK
    <3> QED BY <2>1, <2>3, <2>5, <3>1
  <2> QED BY <2>4, <2>5
<1>2. ASSUME NEW s \in Sessions, Close(s) PROVE Goal
  <2>1. /\ iDefaultSoundMap' = iDefaultSoundMap
        /\ soundMaps' = soundMaps \ OwnMaps(s)
        /\ iSoundStack'[s] = <<>>
        /\ \A t \in Sessions \ {s} : iSoundStack'[t] = iSoundStack[t]
    BY <1>2 DEF Close, SessionTypeOK
  <2>2. iDefaultSoundMap \notin OwnMaps(s)
    BY DEF OwnMaps, SessionTypeOK
  <2>3. ASSUME NEW t \in Sessions \ {s}, NEW j \in DOMAIN iSoundStack[t]
        PROVE iSoundStack[t][j] \notin OwnMaps(s)
    <3>1. ASSUME NEW i \in 2 .. Len(iSoundStack[s])
          PROVE iSoundStack[s][i] # iSoundStack[t][j]
      <4>1. i \in DOMAIN iSoundStack[s] /\ i > 1
        BY DEF SessionTypeOK
      <4> QED BY <4>1
    <3> QED BY <3>1 DEF OwnMaps
  <2>4. DOMAIN iSoundStack'[s] = {}
    BY <2>1
  <2> QED BY <2>1, <2>2, <2>3, <2>4
<1>3. ASSUME NEW s \in Sessions, PushContext(s) PROVE Goal
  <2>1. PICK m \in SoundMaps \ soundMaps :
               /\ soundMaps' = soundMaps \cup {m}
               /\ iSoundStack' = [iSoundStack EXCEPT ![s] = Append(@, m)]
               /\ iDefaultSoundMap' = IF iDefaultSoundMap = NoMap
                                      THEN m ELSE iDefaultSoundMap
    BY <1>3 DEF PushContext
  <2> DEFINE n == Len(iSoundStack[s])
  <2>2. /\ n \in Nat
        /\ DOMAIN iSoundStack[s] = 1 .. n
        /\ DOMAIN iSoundStack'[s] = 1 .. n + 1
        /\ iSoundStack'[s][n + 1] = m
        /\ \A i \in 1 .. n : iSoundStack'[s][i] = iSoundStack[s][i]
        /\ \A t \in Sessions \ {s} : iSoundStack'[t] = iSoundStack[t]
    BY <2>1 DEF SessionTypeOK
  <2>3. iDefaultSoundMap' # NoMap
    BY <2>1 DEF SoundMaps, NoMap
  <2>4. iDefaultSoundMap' \in soundMaps'
    BY <2>1
  <2>5. CASE iDefaultSoundMap = NoMap
    <3>1. n = 0
      BY <2>5
    <3>2. \A t \in Sessions \ {s} : DOMAIN iSoundStack'[t] = {}
      BY <2>2, <2>5
    <3> HIDE DEF n
    <3> QED BY <2>1, <2>2, <2>3, <2>4, <3>1, <3>2
  <2>6. CASE iDefaultSoundMap # NoMap
    <3>1. iDefaultSoundMap' = iDefaultSoundMap /\ iDefaultSoundMap # m
      BY <2>1, <2>6
    <3>2. ASSUME NEW t \in Sessions, NEW i \in DOMAIN iSoundStack'[t]
          PROVE IF t = s /\ i = n + 1 THEN iSoundStack'[t][i] = m
                ELSE /\ i \in DOMAIN iSoundStack[t]
                     /\ iSoundStack'[t][i] = iSoundStack[t][i]
                     /\ iSoundStack'[t][i] # m
      BY <2>1, <2>2, <3>2
    <3> HIDE DEF n
    <3>3. ASSUME NEW t \in Sessions, NEW i \in DOMAIN iSoundStack'[t]
          PROVE /\ iSoundStack'[t][i] \in soundMaps'
                /\ i > 1 => iSoundStack'[t][i] # iDefaultSoundMap'
      BY <2>1, <3>1, <3>2
    <3>4. ASSUME NEW t \in Sessions, NEW i \in DOMAIN iSoundStack'[t], i > 1,
                 NEW u \in Sessions, NEW j \in DOMAIN iSoundStack'[u],
                 iSoundStack'[t][i] = iSoundStack'[u][j]
          PROVE t = u /\ i = j
      BY <3>2, <3>4
    <3> QED BY <2>3, <2>4, <3>3, <3>4
  <2> QED BY <2>5, <2>6
<1>4. ASSUME NEW s \in Sessions, PopContext(s) PROVE Goal
  <2> DEFINE n == Len(iSoundStack[s])
  <2>1. /\ n \in Nat /\ n > 1
        /\ DOMAIN iSoundStack[s] = 1 .. n
        /\ DOMAIN iSoundStack'[s] = 1 .. n - 1
        /\ \A i \in 1 .. n - 1 : iSoundStack'[s][i] = iSoundStack[s][i]
        /\ \A t \in Sessions \ {s} : iSoundStack'[t] = iSoundStack[t]
        /\ soundMaps' = soundMaps \ {iSoundStack[s][n]}
        /\ iDefaultSoundMap' = iDefaultSoundMap
    BY <1>4 DEF PopContext, SessionTypeOK
  <2>2. iDefaultSoundMap # NoMap
    BY <2>1
  <2> HIDE DEF n
  <2>3. ASSUME NEW t \in Sessions, NEW i \in DOMAIN iSoundStack'[t]
        PROVE /\ i \in DOMAIN iSoundStack[t]
              /\ iSoundStack'[t][i] = iSoundStack[t][i]
              /\ ~(t = s /\ i = n)
    BY <2>1, <2>3
  <2>4. ASSUME NEW t \in Sessions, NEW i \in DOMAIN iSoundStack'[t]
        PROVE iSoundStack[t][i] # iSoundStack[s][n]
    BY <2>1, <2>3
  <2> QED BY <2>1, <2>2, <2>3, <2>4
<1>5. ASSUME UNCHANGED mapVars PROVE Goal
  BY <1>5 DEF mapVars
<1>6. \/ UNCHANGED mapVars
      \/ \E s \in Sessions : \/ Connect(s) \/ Close(s)
                             \/ PushContext(s) \/ PopContext(s)
  BY DEF Next, InitSession, AddSoundIdBuffer, BringToForeground, LockContext,
     ReleaseContext, DisableNextKeySound, PlayKey, HandleNotifyInt, CloseServer,
     vars
<1> HIDE DEF Goal
<1>7. Goal
  BY <1>1, <1>2, <1>3, <1>4, <1>5, <1>6
<1> QED BY <1>7 DEF Goal

(* No message and no closing session destroys a sound map that a stack, or *)
(* the server as its default map, still holds.                             *)
THEOREM MapsStayAlive == Spec => []MapsLive
<1>1. MapsInv /\ [Next]_vars => MapsInv'
  BY NextMaps
<1>2. MapsInv => MapsLive
  BY DEF MapsInv
<1> QED BY InitMaps, <1>1, <1>2, PTL DEF Spec

-----------------------------------------------------------------------------
(* The sound lists.                                                        *)

Entries == [iSid : Nat, iSoundInfo : SoundInfos]

\* The lists in order, in any record that has them.
ListsSound(l) ==
  /\ l.sids \in Seq(Entries) /\ l.sounds \in Seq(SoundInfos) /\ l.live \subseteq SoundInfos
  /\ Len(l.sids) = Len(l.sounds)
  /\ \A i, j \in 1 .. Len(l.sids) :
       i < j => /\ l.sids[i].iSid <= l.sids[j].iSid
                /\ l.sids[i].iSoundInfo # l.sids[j].iSoundInfo
  /\ l.live = {l.sids[i].iSoundInfo : i \in 1 .. Len(l.sids)}

LEMMA EntryFields ==
  ASSUME NEW e \in Entries
  PROVE  e.iSid \in Nat /\ e.iSoundInfo \in SoundInfos
BY DEF Entries

(* One round of RemoveSids: the cell that goes is that of the entry that goes.  *)
LEMMA RemoveRound ==
  ASSUME NEW acc \in [ii : Nat, sids : Seq(Entries), sounds : Seq(SoundInfos),
                      live : SUBSET SoundInfos],
         ListsSound(acc), acc.ii \in 1 .. Len(acc.sids), NEW uid
  PROVE  LET r == RemoveSidAt(acc, uid)
         IN  /\ r \in [ii : Nat, sids : Seq(Entries), sounds : Seq(SoundInfos),
                       live : SUBSET SoundInfos]
             /\ ListsSound(r)
             /\ r.ii >= 1 /\ Len(r.sids) - r.ii = Len(acc.sids) - acc.ii - 1
<1> DEFINE Accs == [ii : Nat, sids : Seq(Entries), sounds : Seq(SoundInfos),
                    live : SUBSET SoundInfos]
<1> DEFINE r == RemoveSidAt(acc, uid)
<1> DEFINE n == Len(acc.sids)
<1> DEFINE k == acc.ii
<1>0. /\ n \in Nat /\ k \in 1 .. n /\ acc.sids \in Seq(Entries) /\ Len(acc.sounds) = n
      /\ acc.sounds \in Seq(SoundInfos) /\ acc.live \subseteq SoundInfos
  BY LenProperties DEF ListsSound
<1>a. \A i, j \in 1 .. n : i < j => /\ acc.sids[i].iSid <= acc.sids[j].iSid
                                     /\ acc.sids[i].iSoundInfo # acc.sids[j].iSoundInfo
  BY DEF ListsSound
<1>b. acc.live = {acc.sids[i].iSoundInfo : i \in 1 .. n}
  BY DEF ListsSound
<1>1. CASE r = [acc EXCEPT !.ii = @ + 1]
  <2>1. r \in Accs /\ r.ii = k + 1 /\ r.sids = acc.sids /\ r.sounds = acc.sounds
        /\ r.live = acc.live
    BY <1>0, <1>1
  <2>2. ListsSound(r)
    <3> HIDE DEF r
    <3> QED BY <2>1 DEF ListsSound
  <2> HIDE DEF r
  <2> QED BY <1>0, <2>1, <2>2 DEF r
<1>2. CASE r = [ii     |-> k,
                sids   |-> RemoveAt(acc.sids, k),
                sounds |-> RemoveAt(acc.sounds, k),
                live   |-> acc.live \ {acc.sids[k].iSoundInfo}]
  <2> DEFINE s == RemoveAt(acc.sids, k)
  <2> DEFINE t == RemoveAt(acc.sounds, k)
  <2>1. /\ s \in Seq(Entries) /\ Len(s) = n - 1
        /\ \A j \in 1 .. n - 1 : s[j] = IF j < k THEN acc.sids[j] ELSE acc.sids[j + 1]
    BY <1>0, RemoveAtProperties
  <2>2. t \in Seq(SoundInfos) /\ Len(t) = n - 1
    BY <1>0, RemoveAtProperties
  <2>3. r.ii = k /\ r.sids = s /\ r.sounds = t /\ r.live = acc.live \ {acc.sids[k].iSoundInfo}
    BY <1>2
  <2> DEFINE Old(j) == IF j < k THEN j ELSE j + 1
  <2>4. \A j \in 1 .. n - 1 : Old(j) \in 1 .. n /\ Old(j) # k /\ s[j] = acc.sids[Old(j)]
    BY <1>0, <2>1
  <2>5. \A i, j \in 1 .. n - 1 : i < j => Old(i) < Old(j)
    BY <1>0
  <2>6. \A i \in 1 .. n : i # k => \E j \in 1 .. n - 1 : Old(j) = i
    <3> TAKE i \in 1 .. n
    <3>1. i < k => i \in 1 .. n - 1 /\ Old(i) = i
      BY <1>0
    <3>2. i > k => i - 1 \in 1 .. n - 1 /\ Old(i - 1) = i
      BY <1>0
    <3> HIDE DEF Old
    <3> QED BY <1>0, <3>1, <3>2
  <2> HIDE DEF Old, s, t
  <2>7. \A i, j \in 1 .. n - 1 : i < j => /\ s[i].iSid <= s[j].iSid
                                          /\ s[i].iSoundInfo # s[j].iSoundInfo
    <3> TAKE i, j \in 1 .. n - 1
    <3> HIDE DEF n
    <3>1. i < j => Old(i) < Old(j) /\ Old(i) \in 1 .. n /\ Old(j) \in 1 .. n
      BY <2>4, <2>5
    <3>2. s[i] = acc.sids[Old(i)] /\ s[j] = acc.sids[Old(j)]
      BY <2>4
    <3> QED BY <1>a, <3>1, <3>2
  <2>8. \A i \in 1 .. n : i # k => acc.sids[i].iSoundInfo # acc.sids[k].iSoundInfo
    BY <1>0 DEF ListsSound
  <2>9. r.live = {s[j].iSoundInfo : j \in 1 .. n - 1}
    <3>1. ASSUME NEW x \in r.live PROVE \E j \in 1 .. n - 1 : x = s[j].iSoundInfo
      <4>1. PICK i \in 1 .. n : x = acc.sids[i].iSoundInfo
        BY <2>3 DEF ListsSound
      <4>2. i # k
        BY <2>3, <4>1
      <4> QED BY <2>4, <2>6, <4>1, <4>2
    <3>2. ASSUME NEW j \in 1 .. n - 1 PROVE s[j].iSoundInfo \in r.live
      BY <2>3, <2>4, <2>8 DEF ListsSound
    <3> HIDE DEF r
    <3> QED BY <3>1, <3>2
  <2>10. r \in Accs
    BY <1>0, <1>2, <2>1, <2>2 DEF s, t
  <2> HIDE DEF r
  <2>11. ListsSound(r)
    <3>1. r.sids \in Seq(Entries) /\ r.sounds \in Seq(SoundInfos) /\ r.live \subseteq SoundInfos
      BY <1>0, <2>1, <2>2, <2>3
    <3>2. Len(r.sids) = n - 1 /\ Len(r.sounds) = n - 1
      BY <2>1, <2>2, <2>3
    <3> HIDE DEF n
    <3>3. \A i, j \in 1 .. Len(r.sids) :
            i < j => /\ r.sids[i].iSid <= r.sids[j].iSid
                     /\ r.sids[i].iSoundInfo # r.sids[j].iSoundInfo
      BY <2>3, <2>7, <3>2
    <3>4. r.live = {r.sids[j].iSoundInfo : j \in 1 .. Len(r.sids)}
      BY <2>3, <2>9, <3>2
    <3>5. Len(r.sids) = Len(r.sounds)
      BY <3>2
    <3> QED BY <3>1, <3>3, <3>4, <3>5 DEF ListsSound
  <2>12. r.ii >= 1 /\ Len(r.sids) - r.ii = n - k - 1
    BY <1>0, <2>1, <2>3
  <2> QED BY <2>10, <2>11, <2>12 DEF r
<1> QED BY <1>1, <1>2 DEF RemoveSidAt

\* RemoveSids keeps the lists in order, and the entries that are left were there.
LEMMA RemoveSidsKeeps ==
  ASSUME NEW l, ListsSound(l), NEW uid
  PROVE  ListsSound(RemoveSids(l, uid))
<1> DEFINE Accs == [ii : Nat, sids : Seq(Entries), sounds : Seq(SoundInfos),
                    live : SUBSET SoundInfos]
<1> DEFINE m == Len(l.sids)
<1> DEFINE a == [ii |-> 1, sids |-> l.sids, sounds |-> l.sounds, live |-> l.live]
<1> DEFINE I == [n \in 0 .. m |->
                   {acc \in Accs : /\ ListsSound(acc) /\ acc.ii >= 1
                                   /\ Len(acc.sids) - acc.ii = m - 1 - n}]
<1> DEFINE g == [n \in 1 .. m |-> [acc \in I[n - 1] |-> RemoveSidAt(acc, uid)]]
<1> DEFINE Follows(f) == f = [n \in 0 .. m |-> IF n = 0 THEN a ELSE RemoveSidAt(f[n - 1], uid)]
<1> DEFINE after == CHOOSE f : Follows(f)
<1>0. m \in Nat
  BY LenProperties DEF ListsSound
<1>1. a \in I[0]
  <2>1. a \in Accs
    BY DEF ListsSound
  <2>2. ListsSound(a)
    BY DEF ListsSound
  <2> HIDE DEF Accs
  <2> QED BY <1>0, <2>1, <2>2
<1>2. ASSUME NEW n \in 1 .. m, NEW acc \in I[n - 1]
      PROVE  RemoveSidAt(acc, uid) \in I[n]
  <2>1. n - 1 \in 0 .. m /\ n \in 0 .. m
    BY <1>0
  <2>2. /\ acc \in Accs /\ ListsSound(acc) /\ acc.ii >= 1
        /\ Len(acc.sids) - acc.ii = m - 1 - (n - 1)
    BY <2>1
  <2>3. Len(acc.sids) \in Nat /\ acc.ii \in Nat
    BY <2>2, LenProperties
  <2>4. acc.ii \in 1 .. Len(acc.sids)
    BY <1>0, <2>2, <2>3
  <2> DEFINE r == RemoveSidAt(acc, uid)
  <2>5. /\ r \in Accs /\ ListsSound(r) /\ r.ii >= 1
        /\ Len(r.sids) - r.ii = Len(acc.sids) - acc.ii - 1
    BY <2>2, <2>4, RemoveRound
  <2>6. Len(acc.sids) - acc.ii - 1 = m - 1 - n
    BY <1>0, <2>2, <2>3
  <2> HIDE DEF r, Accs, m
  <2> QED BY <2>1, <2>5, <2>6 DEF r
<1> HIDE DEF a, I
<1>3. \A n \in 1 .. m : \A acc \in I[n - 1] : g[n][acc] \in I[n]
  BY <1>2
<1>4. \E f : IsRun(f, m, a, g) /\ \A n \in 0 .. m : f[n] \in I[n]
  <2> HIDE DEF g, m
  <2> QED BY <1>0, <1>1, <1>3, Loop, Zenon
<1>5. \E f : Follows(f)
  <2>1. PICK f : /\ f = [n \in 0 .. m |-> IF n = 0 THEN a ELSE g[n][f[n - 1]]]
                 /\ \A n \in 0 .. m : f[n] \in I[n]
    BY <1>4 DEF IsRun
  <2>2. ASSUME NEW n \in 0 .. m
        PROVE  f[n] = IF n = 0 THEN a ELSE RemoveSidAt(f[n - 1], uid)
    <3>1. CASE n = 0
      BY <1>0, <2>1, <3>1
    <3>2. CASE n # 0
      <4>1. n \in 1 .. m /\ n - 1 \in 0 .. m
        BY <1>0, <3>2
      <4>2. f[n] = g[n][f[n - 1]] /\ f[n - 1] \in I[n - 1]
        <5> HIDE DEF g
        <5> QED BY <2>1, <3>2, <4>1
      <4> QED BY <3>2, <4>1, <4>2
    <3> QED BY <3>1, <3>2
  <2> HIDE DEF m
  <2>3. Follows(f)
    BY <2>1, <2>2
  <2> HIDE DEF Follows
  <2> QED BY <2>3
<1>6. Follows(after)
  <2> HIDE DEF Follows
  <2> QED BY <1>5
<1>7. after[m] \in I[m]
  <2> HIDE DEF after, g, m
  <2>1. after[0] \in I[0]
    BY <1>0, <1>1, <1>6
  <2>2. ASSUME NEW n \in 1 .. m, after[n - 1] \in I[n - 1] PROVE after[n] \in I[n]
    <3>1. n \in 0 .. m /\ n # 0
      BY <1>0
    <3>2. after[n] = RemoveSidAt(after[n - 1], uid)
      BY <1>6, <3>1
    <3> QED BY <1>2, <2>2, <3>2
  <2>3. \A n \in 0 .. m : after[n] \in I[n]
    BY <1>0, <2>1, <2>2, LoopInvariant, Zenon
  <2> QED BY <1>0, <2>3
<1>8. RemoveSids(l, uid)
        = [sids |-> after[m].sids, sounds |-> after[m].sounds, live |-> after[m].live]
  BY DEF RemoveSids, a
<1>9. ListsSound(after[m])
  <2> HIDE DEF after
  <2> QED BY <1>0, <1>7 DEF I
<1> DEFINE end == after[m]
<1> DEFINE r == [sids |-> end.sids, sounds |-> end.sounds, live |-> end.live]
<1>10. ListsSound(r)
  <2>1. r.sids = end.sids /\ r.sounds = end.sounds /\ r.live = end.live
    OBVIOUS
  <2>2. ListsSound(end)
    BY <1>9
  <2> HIDE DEF end, r
  <2> QED BY <2>1, <2>2 DEF ListsSound
<1>11. RemoveSids(l, uid) = r
  BY <1>8
<1> HIDE DEF r
<1> QED BY <1>10, <1>11

-----------------------------------------------------------------------------
\* An entry goes where the sids are still no greater on one side and greater on the other.
LEMMA InsertSidPlace ==
  ASSUME NEW sids \in Seq(Entries), NEW e \in Entries,
         \A i, j \in 1 .. Len(sids) : i < j => sids[i].iSid <= sids[j].iSid
  PROVE  \E k \in 1 .. Len(sids) + 1 :
           /\ InsertSid(sids, e) = InsertAt(sids, k, e)
           /\ \A j \in 1 .. Len(sids) : j < k <=> sids[j].iSid <= e.iSid
<1> DEFINE n == Len(sids)
<1> DEFINE before == {i \in DOMAIN sids : sids[i].iSid <= e.iSid}
<1> DEFINE Greater == {i \in 1 .. n : ~(sids[i].iSid <= e.iSid)}
<1>0. n \in Nat /\ DOMAIN sids = 1 .. n
  BY LenProperties
<1>a. e.iSid \in Nat /\ \A i \in 1 .. n : sids[i].iSid \in Nat
  BY <1>0, EntryFields, ElementOfSeq
<1>1. ASSUME NEW k \in 1 .. n + 1, \A j \in 1 .. n : j < k <=> sids[j].iSid <= e.iSid
      PROVE  InsertSid(sids, e) = InsertAt(sids, k, e)
  <2>1. before = 1 .. k - 1
    BY <1>0, <1>1
  <2>2. Cardinality(1 .. k - 1) = k - 1
    <3>1. Cardinality(1 .. k - 1) = IF 1 > k - 1 THEN 0 ELSE k - 1 - 1 + 1
      BY <1>0, FS_Interval
    <3> QED BY <1>0, <3>1
  <2>3. Cardinality(before) + 1 = k
    <3> HIDE DEF before
    <3> QED BY <1>0, <2>1, <2>2
  <2> QED BY <2>3 DEF InsertSid
<1>2. CASE Greater = {}
  <2>1. n + 1 \in 1 .. n + 1 /\ \A j \in 1 .. n : j < n + 1 <=> sids[j].iSid <= e.iSid
    BY <1>0, <1>2
  <2> QED BY <1>1, <2>1
<1>3. CASE Greater # {}
  <2>1. Greater \in SUBSET Nat
    BY <1>0
  <2>2. PICK k \in Greater : \A j \in Greater : k <= j
    <3> HIDE DEF Greater
    <3> QED BY <1>3, <2>1, LeastElement
  <2>3. k \in 1 .. n /\ k \in 1 .. n + 1 /\ ~(sids[k].iSid <= e.iSid)
    BY <1>0
  <2>4. ASSUME NEW j \in 1 .. n PROVE j < k <=> sids[j].iSid <= e.iSid
    <3>1. j < k => sids[j].iSid <= e.iSid
      <4>1. j \notin Greater => sids[j].iSid <= e.iSid
        OBVIOUS
      <4>2. j < k => j \notin Greater
        <5> HIDE DEF Greater
        <5> QED BY <1>0, <2>2, <2>3
      <4> QED BY <4>1, <4>2
    <3>2. k < j => ~(sids[j].iSid <= e.iSid)
      <4>1. k < j => sids[k].iSid <= sids[j].iSid
        BY <2>3
      <4>2. sids[k].iSid \in Nat /\ sids[j].iSid \in Nat /\ e.iSid \in Nat
        BY <1>a, <2>3
      <4> HIDE DEF n
      <4> QED BY <2>3, <4>1, <4>2
    <3> QED BY <1>0, <2>3, <3>1, <3>2
  <2> QED BY <1>1, <2>3, <2>4
<1> QED BY <1>2, <1>3

\* There is a cell for a sound as long as the lists are not full.
LEMMA FreshInfo ==
  ASSUME NEW l, ListsSound(l), Len(l.sids) < MaxSids
  PROVE  SoundInfos \ (l.live \cup ToSet(l.sounds)) # {}
<1> SUFFICES ASSUME SoundInfos \subseteq l.live \cup ToSet(l.sounds) PROVE FALSE
  OBVIOUS
<1> DEFINE n == Len(l.sids)
<1> DEFINE h == [j \in 1 .. 2 * n |->
                   IF j <= n THEN l.sids[j].iSoundInfo ELSE l.sounds[j - n]]
<1> DEFINE f == [i \in SoundInfos |-> CHOOSE j \in 1 .. 2 * n : h[j] = i]
<1>0. n \in Nat /\ MaxSids \in Nat /\ n < MaxSids /\ Len(l.sounds) = n
  BY BoundsAssumption, LenProperties DEF ListsSound
<1>1. \A i \in SoundInfos : \E j \in 1 .. 2 * n : h[j] = i
  <2> TAKE i \in SoundInfos
  <2>1. CASE i \in l.live
    <3>1. PICK j \in 1 .. n : i = l.sids[j].iSoundInfo
      BY <2>1 DEF ListsSound
    <3>2. j \in 1 .. 2 * n /\ j <= n
      BY <1>0
    <3>3. h[j] = i
      BY <3>1, <3>2
    <3> QED BY <3>2, <3>3
  <2>2. CASE i \in ToSet(l.sounds)
    <3>1. PICK j \in 1 .. n : i = l.sounds[j]
      BY <1>0, <2>2, LenProperties DEF ToSet, ListsSound
    <3>2. n + j \in 1 .. 2 * n /\ ~(n + j <= n) /\ (n + j) - n = j
      BY <1>0
    <3>3. h[n + j] = i
      BY <3>1, <3>2
    <3> QED BY <3>2, <3>3
  <2> QED BY <2>1, <2>2
<1> HIDE DEF h, n
<1>2. f \in [SoundInfos -> 1 .. 2 * n] /\ \A i \in SoundInfos : h[f[i]] = i
  BY <1>1
<1> HIDE DEF f
<1>3. IsFiniteSet(1 .. 2 * n) /\ Cardinality(1 .. 2 * n) = 2 * n
  <2>1. 1 \in Int /\ 2 * n \in Int
    BY <1>0
  <2>2. /\ IsFiniteSet(1 .. 2 * n)
        /\ Cardinality(1 .. 2 * n) = IF 1 > 2 * n THEN 0 ELSE 2 * n - 1 + 1
    BY <2>1, FS_Interval
  <2> QED BY <1>0, <2>2
<1>4. IsFiniteSet(SoundInfos) /\ Cardinality(SoundInfos) = 2 * MaxSids
  <2>1. 1 \in Int /\ 2 * MaxSids \in Int
    BY <1>0
  <2>2. /\ IsFiniteSet(1 .. 2 * MaxSids)
        /\ Cardinality(1 .. 2 * MaxSids) = IF 1 > 2 * MaxSids THEN 0 ELSE 2 * MaxSids - 1 + 1
    BY <2>1, FS_Interval
  <2> QED BY <1>0, <2>2 DEF SoundInfos
<1>5. Cardinality(1 .. 2 * n) < Cardinality(SoundInfos)
  BY <1>0, <1>3, <1>4
<1>6. \E i, j \in SoundInfos : i # j /\ f[i] = f[j]
  <2> DEFINE Cells == 1 .. 2 * n
  <2>1. f \in [SoundInfos -> Cells] /\ IsFiniteSet(Cells)
        /\ Cardinality(Cells) < Cardinality(SoundInfos)
    BY <1>2, <1>3, <1>5
  <2> HIDE DEF Cells
  <2> QED BY <1>4, <2>1, FS_PigeonHole
<1> QED BY <1>2, <1>6

\* A sound gets a cell of its own and a place in the order.
LEMMA AddSidKeeps ==
  ASSUME NEW l, ListsSound(l), Len(l.sids) < MaxSids, NEW sid \in Nat
  PROVE  ListsSound(AddSid(l, sid)) /\ Len(AddSid(l, sid).sids) = Len(l.sids) + 1
<1> DEFINE info == CHOOSE i \in SoundInfos \ (l.live \cup ToSet(l.sounds)) : TRUE
<1> DEFINE e == [iSid |-> sid, iSoundInfo |-> info]
<1> DEFINE n == Len(l.sids)
<1> DEFINE s == InsertSid(l.sids, e)
<1> DEFINE r == AddSid(l, sid)
<1>0. /\ n \in Nat /\ l.sids \in Seq(Entries) /\ Len(l.sounds) = n
      /\ l.sounds \in Seq(SoundInfos) /\ l.live \subseteq SoundInfos
  BY LenProperties DEF ListsSound
<1>1. info \in SoundInfos /\ info \notin l.live
  BY FreshInfo
<1>2. r = [sids |-> s, sounds |-> Append(l.sounds, info), live |-> l.live \cup {info}]
  BY DEF AddSid
<1> HIDE DEF info
<1>3. e \in Entries /\ e.iSid = sid /\ e.iSoundInfo = info
  BY <1>1 DEF Entries
<1> HIDE DEF e
<1>a. \A i, j \in 1 .. n : i < j => /\ l.sids[i].iSid <= l.sids[j].iSid
                                     /\ l.sids[i].iSoundInfo # l.sids[j].iSoundInfo
  BY DEF ListsSound
<1>b. l.live = {l.sids[i].iSoundInfo : i \in 1 .. n}
  BY DEF ListsSound
<1>c. \A i \in 1 .. n : l.sids[i].iSid \in Nat
  BY <1>0, EntryFields, ElementOfSeq
<1>4. PICK k \in 1 .. n + 1 : /\ s = InsertAt(l.sids, k, e)
                              /\ \A j \in 1 .. n : j < k <=> l.sids[j].iSid <= e.iSid
  BY <1>0, <1>3, <1>a, InsertSidPlace
<1>5. /\ s \in Seq(Entries) /\ Len(s) = n + 1
      /\ \A j \in 1 .. n + 1 : s[j] = IF j < k THEN l.sids[j]
                                      ELSE IF j = k THEN e ELSE l.sids[j - 1]
  <2> DEFINE t == InsertAt(l.sids, k, e)
  <2>1. /\ t \in Seq(Entries) /\ Len(t) = n + 1
        /\ \A j \in 1 .. n + 1 : t[j] = IF j < k THEN l.sids[j]
                                        ELSE IF j = k THEN e ELSE l.sids[j - 1]
    <3>1. l.sids \in Seq(Entries) /\ k \in 1 .. Len(l.sids) + 1 /\ e \in Entries
      BY <1>0, <1>3
    <3>2. t \in Seq(Entries)
      BY <3>1, InsertAtProperties
    <3>3. Len(t) = Len(l.sids) + 1
      BY <3>1, InsertAtProperties
    <3>4. \A j \in 1 .. Len(l.sids) + 1 :
            t[j] = IF j < k THEN l.sids[j] ELSE IF j = k THEN e ELSE l.sids[j - 1]
      <4> TAKE j \in 1 .. Len(l.sids) + 1
      <4> DEFINE q == l.sids
      <4>1. q \in Seq(Entries) /\ k \in 1 .. Len(q) + 1 /\ j \in 1 .. Len(q) + 1
        BY <3>1
      <4> HIDE DEF q
      <4>2. InsertAt(q, k, e)[j] = IF j < k THEN q[j] ELSE IF j = k THEN e ELSE q[j - 1]
        BY <3>1, <4>1, InsertAtEntry
      <4> QED BY <4>2 DEF q
    <3> QED BY <3>2, <3>3, <3>4
  <2>2. s = t
    BY <1>4
  <2> HIDE DEF s, t
  <2> QED BY <2>1, <2>2
<1> HIDE DEF s, n
<1>6. ASSUME NEW i \in 1 .. n + 1, NEW j \in 1 .. n + 1, i < j
      PROVE  s[i].iSid <= s[j].iSid /\ s[i].iSoundInfo # s[j].iSoundInfo
  <2>0. \A m \in 1 .. n : l.sids[m].iSoundInfo # info
    BY <1>1, <1>b
  <2>1. CASE i = k
    <3>1. j - 1 \in 1 .. n /\ ~(j - 1 < k) /\ s[i] = e /\ s[j] = l.sids[j - 1]
      BY <1>0, <1>4, <1>5, <1>6, <2>1
    <3>2. ~(l.sids[j - 1].iSid <= e.iSid) /\ l.sids[j - 1].iSid \in Nat
      BY <1>4, <1>c, <3>1
    <3> QED BY <1>3, <2>0, <3>1, <3>2
  <2>2. CASE j = k
    <3>1. i \in 1 .. n /\ i < k /\ s[i] = l.sids[i] /\ s[j] = e
      BY <1>0, <1>4, <1>5, <1>6, <2>2
    <3> QED BY <1>3, <1>4, <2>0, <3>1
  <2>3. CASE i # k /\ j # k
    <3> DEFINE Old(m) == IF m < k THEN m ELSE m - 1
    <3>1. Old(i) \in 1 .. n /\ Old(j) \in 1 .. n /\ Old(i) < Old(j)
      BY <1>0, <1>4, <1>6, <2>3
    <3>2. s[i] = l.sids[Old(i)] /\ s[j] = l.sids[Old(j)]
      BY <1>5, <2>3
    <3> HIDE DEF Old
    <3> QED BY <1>a, <3>1, <3>2
  <2> QED BY <2>1, <2>2, <2>3
<1>7. l.live \cup {info} = {s[j].iSoundInfo : j \in 1 .. n + 1}
  <2>1. ASSUME NEW x \in l.live \cup {info} PROVE \E j \in 1 .. n + 1 : x = s[j].iSoundInfo
    <3>1. CASE x = info
      BY <1>0, <1>3, <1>4, <1>5, <3>1
    <3>2. CASE x \in l.live
      <4>1. PICK i \in 1 .. n : x = l.sids[i].iSoundInfo
        BY <1>b, <3>2
      <4>2. i < k => i \in 1 .. n + 1 /\ s[i] = l.sids[i]
        BY <1>0, <1>5
      <4>3. ~(i < k) => i + 1 \in 1 .. n + 1 /\ s[i + 1] = l.sids[i]
        <5> SUFFICES ASSUME ~(i < k) PROVE i + 1 \in 1 .. n + 1 /\ s[i + 1] = l.sids[i]
          OBVIOUS
        <5>1. i + 1 \in 1 .. n + 1 /\ ~(i + 1 < k) /\ i + 1 # k /\ (i + 1) - 1 = i
          BY <1>0
        <5> QED BY <1>5, <5>1
      <4> QED BY <4>1, <4>2, <4>3
    <3> QED BY <3>1, <3>2
  <2>2. ASSUME NEW j \in 1 .. n + 1 PROVE s[j].iSoundInfo \in l.live \cup {info}
    <3>1. j < k => j \in 1 .. n /\ s[j] = l.sids[j]
      BY <1>0, <1>4, <1>5
    <3>2. j = k => s[j] = e
      BY <1>5
    <3>3. j > k => j - 1 \in 1 .. n /\ s[j] = l.sids[j - 1]
      BY <1>0, <1>4, <1>5
    <3> QED BY <1>0, <1>3, <1>4, <1>b, <3>1, <3>2, <3>3
  <2> QED BY <2>1, <2>2
<1>8. Append(l.sounds, info) \in Seq(SoundInfos) /\ Len(Append(l.sounds, info)) = n + 1
  BY <1>0, <1>1, AppendProperties
<1>9. r.sids = s /\ r.sounds = Append(l.sounds, info) /\ r.live = l.live \cup {info}
  BY <1>2
<1> HIDE DEF r
<1>10. ListsSound(r)
  <2>1. r.sids \in Seq(Entries) /\ r.sounds \in Seq(SoundInfos) /\ r.live \subseteq SoundInfos
    BY <1>0, <1>1, <1>5, <1>8, <1>9
  <2>2. Len(r.sids) = n + 1 /\ Len(r.sids) = Len(r.sounds)
    BY <1>5, <1>8, <1>9
  <2>3. \A i, j \in 1 .. Len(r.sids) :
          i < j => /\ r.sids[i].iSid <= r.sids[j].iSid
                   /\ r.sids[i].iSoundInfo # r.sids[j].iSoundInfo
    BY <1>6, <1>9, <2>2
  <2>4. r.live = {r.sids[j].iSoundInfo : j \in 1 .. Len(r.sids)}
    BY <1>7, <1>9, <2>2
  <2> QED BY <2>1, <2>2, <2>3, <2>4 DEF ListsSound
<1> QED BY <1>5, <1>9, <1>10 DEF r, n

\* AddSids keeps the lists in order, if there is room for all that may be added.
LEMMA AddSidsKeeps ==
  ASSUME NEW l \in [sids : Seq(Entries), sounds : Seq(SoundInfos), live : SUBSET SoundInfos],
         ListsSound(l), NEW uid \in Nat, NEW added,
         Len(l.sids) + SoundsPerLoad <= MaxSids
  PROVE  ListsSound(AddSids(l, uid, added))
<1> DEFINE Records == [sids : Seq(Entries), sounds : Seq(SoundInfos), live : SUBSET SoundInfos]
<1> DEFINE m == SoundsPerLoad
<1> DEFINE Round(n, x) == IF n \in added THEN AddSid(x, Sid(uid, n)) ELSE x
<1> DEFINE I == [n \in 0 .. m |->
                   {x \in Records : ListsSound(x) /\ Len(x.sids) <= Len(l.sids) + n}]
<1> DEFINE g == [n \in 1 .. m |-> [x \in I[n - 1] |-> Round(n, x)]]
<1> DEFINE Follows(f) ==
             f = [n \in 0 .. m |-> IF n = 0 THEN l
                                   ELSE IF n \in added THEN AddSid(f[n - 1], Sid(uid, n))
                                   ELSE f[n - 1]]
<1> DEFINE upTo == CHOOSE f : Follows(f)
<1>0. m \in Nat /\ MaxSids \in Nat /\ Len(l.sids) \in Nat
  BY BoundsAssumption, LenProperties
<1>1. l \in I[0]
  BY <1>0
<1>2. ASSUME NEW n \in 1 .. m, NEW x \in I[n - 1]
      PROVE  Round(n, x) \in I[n]
  <2>1. n - 1 \in 0 .. m /\ n \in 0 .. m
    BY <1>0
  <2>2. x \in Records /\ ListsSound(x) /\ Len(x.sids) <= Len(l.sids) + (n - 1)
    BY <2>1
  <2>3. Len(x.sids) \in Nat /\ Len(x.sids) < MaxSids /\ Len(x.sids) + 1 <= Len(l.sids) + n
    BY <1>0, <2>2, LenProperties
  <2>4. Sid(uid, n) \in Nat
    BY <1>0 DEF Sid
  <2> DEFINE r == AddSid(x, Sid(uid, n))
  <2>5. ListsSound(r) /\ Len(r.sids) = Len(x.sids) + 1
    BY <2>2, <2>3, <2>4, AddSidKeeps
  <2>6. r = [sids |-> r.sids, sounds |-> r.sounds, live |-> r.live]
    BY DEF AddSid
  <2> HIDE DEF r
  <2>7. r \in Records
    BY <2>5, <2>6 DEF ListsSound
  <2>8. r \in I[n]
    BY <1>0, <2>1, <2>3, <2>5, <2>7
  <2>9. x \in I[n]
    BY <1>0, <2>1, <2>2, <2>3
  <2> HIDE DEF I
  <2> QED BY <2>8, <2>9 DEF r
<1> HIDE DEF I
<1>3. \A n \in 1 .. m : \A x \in I[n - 1] : g[n][x] \in I[n]
  BY <1>2
<1>4. \E f : IsRun(f, m, l, g) /\ \A n \in 0 .. m : f[n] \in I[n]
  <2> HIDE DEF g, m
  <2> QED BY <1>0, <1>1, <1>3, Loop, Zenon
<1>5. \E f : Follows(f)
  <2>1. PICK f : /\ f = [n \in 0 .. m |-> IF n = 0 THEN l ELSE g[n][f[n - 1]]]
                 /\ \A n \in 0 .. m : f[n] \in I[n]
    BY <1>4 DEF IsRun
  <2>2. ASSUME NEW n \in 0 .. m
        PROVE  f[n] = IF n = 0 THEN l ELSE Round(n, f[n - 1])
    <3>1. CASE n = 0
      BY <1>0, <2>1, <3>1
    <3>2. CASE n # 0
      <4>1. n \in 1 .. m /\ n - 1 \in 0 .. m
        BY <1>0, <3>2
      <4>2. f[n] = g[n][f[n - 1]] /\ f[n - 1] \in I[n - 1]
        <5> HIDE DEF g
        <5> QED BY <2>1, <3>2, <4>1
      <4>3. g[n][f[n - 1]] = Round(n, f[n - 1])
        <5> HIDE DEF Round
        <5> QED BY <4>1, <4>2
      <4> HIDE DEF Round, g
      <4> QED BY <3>2, <4>2, <4>3
    <3> QED BY <3>1, <3>2
  <2> HIDE DEF m
  <2>3. Follows(f)
    BY <2>1, <2>2
  <2> HIDE DEF Follows
  <2> QED BY <2>3
<1>6. Follows(upTo)
  <2> HIDE DEF Follows
  <2> QED BY <1>5
<1>7. upTo[m] \in I[m]
  <2> HIDE DEF upTo, g, m
  <2>1. upTo[0] \in I[0]
    BY <1>0, <1>1, <1>6
  <2>2. ASSUME NEW n \in 1 .. m, upTo[n - 1] \in I[n - 1] PROVE upTo[n] \in I[n]
    <3>1. n \in 0 .. m /\ n # 0
      BY <1>0
    <3>2. upTo[n] = Round(n, upTo[n - 1])
      BY <1>6, <3>1
    <3> HIDE DEF Round
    <3> QED BY <1>2, <2>2, <3>2
  <2>3. \A n \in 0 .. m : upTo[n] \in I[n]
    BY <1>0, <2>1, <2>2, LoopInvariant, Zenon
  <2> QED BY <1>0, <2>3
<1>8. AddSids(l, uid, added) = upTo[m]
  BY DEF AddSids
<1>9. ListsSound(upTo[m])
  <2> HIDE DEF upTo
  <2> QED BY <1>0, <1>7 DEF I
<1> QED BY <1>8, <1>9

\* The lists after a step that leaves them as l are in order if l is.
LEMMA SetListsSound ==
  ASSUME NEW l, ListsSound(l), SetLists(l)
  PROVE  ListsSound(lists)'
BY DEF ListsSound, SetLists, lists

(* Whatever applications load, and whichever of them end in whatever order:    *)
(* the sid list is sorted, and names each living sound once.                 *)
THEOREM SidListStaysSound == Spec => []SidListSound
<1>1. Init => ListsSound(lists)
  BY EmptySeq DEF Init, ListsSound, lists
<1>2. ListsSound(lists) /\ [Next]_vars => ListsSound(lists)'
  <2> SUFFICES ASSUME ListsSound(lists), [Next]_vars PROVE ListsSound(lists)'
    OBVIOUS
  <2>1. ASSUME NEW s \in Sessions, Close(s) PROVE ListsSound(lists)'
    <3>1. ListsSound(RemoveSessionSids(lists, s))
      BY RemoveSidsKeeps DEF RemoveSessionSids
    <3> QED BY <2>1, <3>1, SetListsSound DEF Close
  <2>2. ASSUME NEW s \in Sessions, NEW uid \in Uids \cup {DefaultUid},
               NEW added \in SUBSET (1 .. SoundsPerLoad), NEW complete \in BOOLEAN,
               AddSoundIdBuffer(s, uid, added, complete)
        PROVE ListsSound(lists)'
    <3>1. uid \in Nat
      BY UidsAssumption DEF DefaultUid
    <3>2. lists \in [sids : Seq(Entries), sounds : Seq(SoundInfos), live : SUBSET SoundInfos]
      BY DEF ListsSound, lists
    <3>3. Len(lists.sids) + SoundsPerLoad <= MaxSids
      BY <2>2 DEF AddSoundIdBuffer, lists
    <3>4. ListsSound(AddSids(lists, uid, added))
      BY <3>1, <3>2, <3>3, AddSidsKeeps
    <3> QED BY <2>2, <3>4, SetListsSound DEF AddSoundIdBuffer
  <2>3. ASSUME UNCHANGED soundVars PROVE ListsSound(lists)'
    <3>1. UNCHANGED lists
      BY <2>3 DEF soundVars, lists
    <3> QED BY <3>1 DEF ListsSound
  <2>4. \/ UNCHANGED soundVars
        \/ \E s \in Sessions :
             \/ Close(s)
             \/ \E uid \in Uids \cup {DefaultUid},
                   added \in SUBSET (1 .. SoundsPerLoad), complete \in BOOLEAN :
                     AddSoundIdBuffer(s, uid, added, complete)
    BY DEF Next, Connect, InitSession, PushContext, PopContext, BringToForeground, LockContext,
       ReleaseContext, DisableNextKeySound, PlayKey, HandleNotifyInt, CloseServer, vars
  <2> QED BY <2>1, <2>2, <2>3, <2>4
<1>3. ListsSound(lists) => SidListSound
  <2> SUFFICES ASSUME ListsSound(lists) PROVE SidListSound
    OBVIOUS
  <2>1. lists.sids = iSidList /\ lists.sounds = iSoundList /\ lists.live = soundInfos
    BY DEF lists
  <2>2. DOMAIN iSidList = 1 .. Len(iSidList)
    BY <2>1, LenProperties DEF ListsSound
  <2> QED BY <2>1, <2>2 DEF ListsSound, SidListSound
<1> QED BY <1>1, <1>2, <1>3, PTL DEF Spec

-----------------------------------------------------------------------------
(* The detector.                                                           *)

USE LengthAssumption, BufferAssumption

LEMMA WholeSequence ==
  ASSUME NEW S, NEW s \in Seq(S) PROVE SubSeq(s, 1, Len(s)) = s
<1>1. Len(SubSeq(s, 1, Len(s))) = Len(s) /\ SubSeq(s, 1, Len(s)) \in Seq(S)
  OBVIOUS
<1>2. \A i \in 1 .. Len(s) : SubSeq(s, 1, Len(s))[i] = s[i]
  OBVIOUS
<1> QED BY <1>1, <1>2, SeqEqual

(* The code a key adds, and the queue it makes.                            *)
LEMMA AddedType ==
  ASSUME NEW code \in Codes, DetectorTypeOK
  PROVE Added(code) \in Seq(Codes) /\ Len(Added(code)) \in 1 .. KAknEcsMaxMatchingLength
  BY DEF Added, DetectorTypeOK

LEMMA QueueType ==
  ASSUME NEW buffer \in Seq(Codes), Len(buffer) <= KAknEcsMaxMatchingLength,
         NEW match \in BOOLEAN, SetQueue(buffer, match)
  PROVE /\ iCharBuffer' = buffer
        /\ iMatchPosition' \in 0 .. Len(buffer)
        /\ match => iMatchPosition' = 0 /\ IsServiceNum(buffer)
  BY DEF SetQueue

(* The buffer an application sets is cut to the length of the queue.       *)
LEMMA CutType ==
  ASSUME NEW newBuffer \in Seq(Codes)
  PROVE LET length == IF Len(newBuffer) > KAknEcsMaxMatchingLength
                      THEN KAknEcsMaxMatchingLength ELSE Len(newBuffer)
        IN  /\ SubSeq(newBuffer, 1, length) \in Seq(Codes)
            /\ Len(SubSeq(newBuffer, 1, length)) <= KAknEcsMaxMatchingLength
  OBVIOUS

MatchInv == DetectorTypeOK /\ MatchIsCurrent /\ (iState = "EServiceNumMatch" => armed)

LEMMA NoKeys == <<>> \in Seq(Codes) /\ Len(<<>>) = 0
  OBVIOUS

LEMMA InitMatch == DetectorInit => MatchInv
<1> SUFFICES ASSUME DetectorInit PROVE MatchInv
  OBVIOUS
<1>1. DetectorTypeOK
  <2>1. iCharBuffer = <<>> /\ iMatchPosition = 0 /\ keys = 0
    BY DEF DetectorInit
  <2>2. /\ iCharBuffer \in Seq(Codes) /\ Len(iCharBuffer) <= KAknEcsMaxMatchingLength
        /\ iMatchPosition \in 0 .. Len(iCharBuffer) /\ keys \in 0 .. MaxTyped
    BY <2>1, NoKeys
  <2>3. /\ iServiceCallEnabled \in BOOLEAN /\ connected \in BOOLEAN
        /\ iState \in States /\ iKeyTimeoutTimer \in BOOLEAN
        /\ armed \in BOOLEAN /\ emptied \in BOOLEAN /\ stopped \in BOOLEAN
    BY DEF DetectorInit, States
  <2> QED BY <2>2, <2>3 DEF DetectorTypeOK
<1>2. iState # "EServiceNumMatch"
  BY DEF DetectorInit
<1> QED BY <1>1, <1>2 DEF MatchInv, MatchIsCurrent

(* The empty queue keeps its types.                                        *)
LEMMA ResetType ==
  ASSUME ResetQueue
  PROVE /\ iCharBuffer' \in Seq(Codes) /\ Len(iCharBuffer') <= KAknEcsMaxMatchingLength
        /\ iMatchPosition' \in 0 .. Len(iCharBuffer')
<1>1. iCharBuffer' = <<>> /\ iMatchPosition' = 0
  BY DEF ResetQueue
<1> QED BY <1>1, NoKeys

(* What AddChar and SetBuffer have in common.                              *)
LEMMA NewBuffer ==
  ASSUME MatchInv, NEW buffer \in Seq(Codes), Len(buffer) <= KAknEcsMaxMatchingLength,
         NEW match \in BOOLEAN, SetQueue(buffer, match), DetermineState(buffer, match),
         UNCHANGED <<iServiceCallEnabled, connected>>,
         iKeyTimeoutTimer' \in BOOLEAN, stopped' \in BOOLEAN, keys' \in 0 .. MaxTyped
  PROVE MatchInv'
<1>1. /\ iCharBuffer' = buffer
      /\ iMatchPosition' \in 0 .. Len(buffer)
      /\ match => iMatchPosition' = 0 /\ buffer = ServiceNumber /\ iServiceCallEnabled
  BY QueueType DEF IsServiceNum
<1>2. CASE buffer = <<>>
  BY <1>1, <1>2 DEF MatchInv, DetectorTypeOK, MatchIsCurrent, DetermineState
<1>3. CASE buffer # <<>>
  BY <1>1, <1>3 DEF MatchInv, DetectorTypeOK, MatchIsCurrent, DetermineState, States
<1> QED BY <1>2, <1>3

LEMMA NextMatch == MatchInv /\ [DetectorNext]_detectorVars => MatchInv'
<1> SUFFICES ASSUME MatchInv, [DetectorNext]_detectorVars PROVE MatchInv'
  OBVIOUS
<1>1. ASSUME NEW layout \in Layouts, NEW key \in TypedScanCodes, AddChar(layout, key)
      PROVE MatchInv'
  <2>1. Added(Convert(layout, key)) \in Seq(Codes)
        /\ Len(Added(Convert(layout, key))) <= KAknEcsMaxMatchingLength
    <3>1. Convert(layout, key) \in Codes
      BY DEF Codes
    <3> QED BY <3>1, AddedType DEF MatchInv
  <2>2. keys' \in 0 .. MaxTyped
    BY <1>1 DEF AddChar, MatchInv, DetectorTypeOK
  <2> QED BY <1>1, <2>1, <2>2, NewBuffer DEF AddChar
<1>2. ASSUME NEW newBuffer \in Buffers, SetBuffer(newBuffer) PROVE MatchInv'
  <2>1. newBuffer \in Seq(Codes)
    OBVIOUS
  <2>2. keys' \in 0 .. MaxTyped
    BY <1>2 DEF SetBuffer, MatchInv, DetectorTypeOK
  <2>3. iKeyTimeoutTimer' \in BOOLEAN
    BY <1>2 DEF SetBuffer, MatchInv, DetectorTypeOK
  <2> QED BY <1>2, <2>1, <2>2, <2>3, CutType, NewBuffer DEF SetBuffer
<1>3. ASSUME AddInvalidChar PROVE MatchInv'
  BY <1>3 DEF AddInvalidChar, MatchInv, DetectorTypeOK, MatchIsCurrent, queueVars
<1>4. ASSUME AddSendKey PROVE MatchInv'
  <2>1. /\ iCharBuffer' \in Seq(Codes) /\ Len(iCharBuffer') <= KAknEcsMaxMatchingLength
        /\ iMatchPosition' \in 0 .. Len(iCharBuffer')
    <3>1. CASE ResetQueue
      BY <3>1, ResetType
    <3>2. CASE UNCHANGED queueVars
      BY <3>2 DEF queueVars, MatchInv, DetectorTypeOK
    <3> QED BY <1>4, <3>1, <3>2 DEF AddSendKey, queueVars
  <2>2. /\ UNCHANGED <<iServiceCallEnabled, connected, keys, emptied>>
        /\ iState' \in {iState, "ECompleteMatchThenSendKey"}
        /\ armed' \in {armed, FALSE} /\ iKeyTimeoutTimer' = FALSE /\ stopped' = TRUE
    BY <1>4 DEF AddSendKey
  <2>3. DetectorTypeOK'
    BY <2>1, <2>2 DEF MatchInv, DetectorTypeOK, States
  <2>4. iState' # "EServiceNumMatch" \/ ~iServiceCallEnabled
    BY <1>4 DEF AddSendKey
  <2>5. iState' # "EServiceNumMatch"
    BY <1>4, <2>4 DEF AddSendKey, MatchInv, MatchIsCurrent
  <2> QED BY <2>3, <2>5 DEF MatchInv, MatchIsCurrent
<1>5. ASSUME Reset, iKeyTimeoutTimer' \in BOOLEAN, stopped' \in BOOLEAN PROVE MatchInv'
  <2>1. /\ iCharBuffer' \in Seq(Codes) /\ Len(iCharBuffer') <= KAknEcsMaxMatchingLength
        /\ iMatchPosition' \in 0 .. Len(iCharBuffer')
    BY <1>5, ResetType DEF Reset
  <2>2. /\ iState' = "EEmpty" /\ armed' = FALSE /\ emptied' = FALSE
        /\ UNCHANGED <<iServiceCallEnabled, connected, keys>>
    BY <1>5 DEF Reset
  <2>3. DetectorTypeOK'
    BY <1>5, <2>1, <2>2 DEF MatchInv, DetectorTypeOK, States
  <2> QED BY <2>2, <2>3 DEF MatchInv, MatchIsCurrent
<1>6. CASE ConnectToEventSource \/ CloseEventSource
  <2>1. /\ UNCHANGED <<iServiceCallEnabled, iCharBuffer, iMatchPosition, iState,
                       iKeyTimeoutTimer, keys, armed, emptied, stopped>>
        /\ connected' \in BOOLEAN
    BY <1>6 DEF ConnectToEventSource, CloseEventSource, queueVars, matchHistory
  <2> QED BY <2>1 DEF MatchInv, DetectorTypeOK, MatchIsCurrent
<1>7. CASE UNCHANGED detectorVars
  BY <1>7 DEF detectorVars, MatchInv, DetectorTypeOK, MatchIsCurrent, queueVars, matchHistory
<1>8. CASE ApplicationReset \/ HandlePointerEvent \/ CancelMatch
  <2>1. Reset /\ iKeyTimeoutTimer' \in BOOLEAN /\ stopped' \in BOOLEAN
    BY <1>8 DEF ApplicationReset, HandlePointerEvent, CancelMatch, MatchInv, DetectorTypeOK
  <2> QED BY <2>1, <1>5
<1> QED BY <1>1, <1>2, <1>3, <1>4, <1>6, <1>7, <1>8 DEF DetectorNext

(* The queue never outgrows its buffer, and every variable has its type.   *)
THEOREM QueueBounded == DetectorSpec => []DetectorTypeOK
<1>1. MatchInv => DetectorTypeOK
  BY DEF MatchInv
<1> QED BY InitMatch, NextMatch, <1>1, PTL DEF DetectorSpec

(* The match state means that the service number was typed, and is what the*)
(* queue holds, or that the application emptied the queue.                 *)
THEOREM MatchSaysQueue == DetectorSpec => []MatchIsCurrent
<1>1. MatchInv => MatchIsCurrent
  BY DEF MatchInv
<1> QED BY InitMatch, NextMatch, <1>1, PTL DEF DetectorSpec

(* Send calls the service number, once for each match.                     *)
THEOREM CallsOnlyServiceNumber == DetectorSpec => CallsServiceNumber
<1> DEFINE Call == dialled' # NoCall =>
                     /\ armed
                     /\ dialled' = IF emptied THEN <<>> ELSE ServiceNumber
<1>1. ASSUME MatchInv, AddSendKey PROVE Call
  <2> SUFFICES ASSUME dialled' # NoCall PROVE Call
    OBVIOUS
  <2>1. /\ iState = "EServiceNumMatch"
        /\ dialled' = SubSeq(iCharBuffer, iMatchPosition + 1, Len(iCharBuffer))
    BY <1>1 DEF AddSendKey, CurrentMatch
  <2>2. CASE emptied
    <3>1. iCharBuffer = <<>> /\ iMatchPosition = 0
      BY <1>1, <2>1, <2>2 DEF MatchInv, MatchIsCurrent, DetectorTypeOK
    <3>2. SubSeq(iCharBuffer, 1, Len(iCharBuffer)) = iCharBuffer
      BY <1>1, WholeSequence DEF MatchInv, DetectorTypeOK
    <3> QED BY <1>1, <2>1, <2>2, <3>1, <3>2 DEF MatchInv
  <2>3. CASE ~emptied
    <3>1. iCharBuffer = ServiceNumber /\ iMatchPosition = 0
      BY <1>1, <2>1, <2>3 DEF MatchInv, MatchIsCurrent
    <3>2. SubSeq(iCharBuffer, 1, Len(iCharBuffer)) = iCharBuffer
      BY <1>1, WholeSequence DEF MatchInv, DetectorTypeOK
    <3> QED BY <1>1, <2>1, <2>3, <3>1, <3>2 DEF MatchInv
  <2> QED BY <2>2, <2>3
<1>2. ASSUME DetectorNext, ~AddSendKey PROVE dialled' = NoCall
  BY <1>2 DEF DetectorNext, ConnectToEventSource, CloseEventSource, AddChar, AddInvalidChar,
              SetBuffer, ApplicationReset, HandlePointerEvent, CancelMatch, Reset
<1>3. MatchInv /\ [DetectorNext]_detectorVars => [Call]_detectorVars
  BY <1>1, <1>2
<1> QED BY InitMatch, NextMatch, <1>3, PTL DEF DetectorSpec, CallsServiceNumber
=============================================================================
