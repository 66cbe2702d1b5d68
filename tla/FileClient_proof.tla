-------------------------- MODULE FileClient_proof --------------------------
(***************************************************************************)
(* Every call of the file server client is served at the range it names,   *)
(* for every width of a machine word; every asynchronous call is answered  *)
(* once; and a cancel leaves nothing behind.                               *)
(***************************************************************************)
EXTENDS FileClient, FiniteSetTheorems, TLAPS

-----------------------------------------------------------------------------
(* Slots *)

\* The server finds p in the slot of a read or a write, or only the caller's frame says so.
RightPos(overload, slot, p) ==
  IF slot.desc
  THEN slot.value = p /\ (overload = "TUint" \/ (overload = "TInt64" /\ p >= KMaxTUint))
  ELSE OrCurrent(slot, slot.value) = p \/ (overload = "TUint" /\ p = KMaxTUint)

\* The server finds n in a slot that carries a signed number.
RightNumber(slot, n) == Signed(slot, slot.value) = n

\* A number that fits a TInt goes through a raw slot unchanged, minus one becomes all ones.
LEMMA RawValue ==
  /\ \A n \in 0 .. KMaxTUint : Raw(n) = [desc |-> FALSE, value |-> n]
  /\ Raw(KCurrentPosition64) = [desc |-> FALSE, value |-> KMaxTUint]
<1>1. ASSUME NEW n \in 0 .. KMaxTUint PROVE n % Word = n
  BY WordAssumption DEF KMaxTUint
<1>2. (-1) % Word = Word - 1
  <2>1. Word \in Nat /\ Word >= 2 BY WordAssumption
  <2> QED BY <2>1
<1> QED BY <1>1, <1>2 DEF Raw, I64LOW, KCurrentPosition64, KMaxTUint

LEMMA Bounds == /\ Word \in Nat /\ Word >= 2 /\ KMaxTUint = Word - 1
                /\ KMaxTInt \in Nat /\ 2 * KMaxTInt + 2 = Word
                /\ I64LOW(KCurrentPosition64) = KMaxTUint
<1>1. Word \in Nat /\ Word >= 2 BY WordAssumption
<1>2. KMaxTInt \in Nat /\ 2 * KMaxTInt + 2 = Word BY WordAssumption DEF KMaxTInt
<1>3. (-1) % Word = Word - 1 BY <1>1
<1> QED BY <1>1, <1>2, <1>3 DEF KMaxTUint, I64LOW, KCurrentPosition64

\* The slot of each overload brings the position to the server.
LEMMA SlotOfCurrent ==
  \A overload : RightPos(overload, CurrentSlot, KCurrentPosition64)
BY RawValue, Bounds DEF RightPos, CurrentSlot, OrCurrent

LEMMA SlotOfTInt ==
  \A overload : \A p \in 0 .. KMaxTInt : RightPos(overload, TIntSlot(p), p)
<1> SUFFICES ASSUME NEW p \in 0 .. KMaxTInt, NEW overload
             PROVE  RightPos(overload, TIntSlot(p), p)
  OBVIOUS
<1>1. p \in 0 .. KMaxTUint /\ p # KMaxTUint BY Bounds
<1> QED BY <1>1, RawValue, Bounds DEF RightPos, TIntSlot, OrCurrent

LEMMA SlotOfTInt64 ==
  \A p \in Nat : RightPos("TInt64", TInt64Slot(p), p)
<1> SUFFICES ASSUME NEW p \in Nat PROVE RightPos("TInt64", TInt64Slot(p), p)
  OBVIOUS
<1>1. CASE p + 1 < Word
  <2>1. p \in 0 .. KMaxTUint /\ p # KMaxTUint BY <1>1, Bounds
  <2>2. (p + 1) \div Word = 0 BY <1>1, Bounds
  <2>3. TInt64Slot(p) = [desc |-> FALSE, value |-> p]
    BY <2>1, <2>2, RawValue DEF TInt64Slot, I64HIGH
  <2> QED BY <2>1, <2>3, Bounds DEF RightPos, OrCurrent
<1>2. CASE p + 1 >= Word
  <2>1. (p + 1) \div Word # 0 BY <1>2, Bounds
  <2>2. TInt64Slot(p) = Package(p) BY <2>1 DEF TInt64Slot, I64HIGH
  <2>3. p >= KMaxTUint BY <1>2, Bounds
  <2> QED BY <2>2, <2>3 DEF RightPos, Package
<1> QED BY <1>1, <1>2, Bounds

LEMMA SlotOfTUint ==
  \A p \in 0 .. KMaxTUint : RightPos("TUint", TUintSlot(p), p)
<1> SUFFICES ASSUME NEW p \in 0 .. KMaxTUint PROVE RightPos("TUint", TUintSlot(p), p)
  OBVIOUS
<1>1. CASE p = KMaxTUint
  <2>1. (p + 1) % Word = 0 BY <1>1, Bounds
  <2> QED BY <1>1, <2>1 DEF RightPos, TUintSlot, Raw
<1>2. CASE p # KMaxTUint
  <2>1. (p + 1) % Word # 0 BY <1>2, Bounds
  <2> QED BY <2>1 DEF RightPos, TUintSlot, Package
<1> QED BY <1>1, <1>2

\* Signed numbers: a TInt in a raw slot, or a descriptor.
LEMMA SlotOfNumber ==
  /\ \A n \in -1 .. KMaxTInt : RightNumber(Raw(n), n)
  /\ \A n \in Nat : RightNumber(LockSlot(n), n)
  /\ \A n : RightNumber(Package(n), n)
<1>1. ASSUME NEW n \in -1 .. KMaxTInt PROVE RightNumber(Raw(n), n)
  <2>1. CASE n = -1
    <3>1. Raw(n) = [desc |-> FALSE, value |-> Word - 1]
      BY <2>1, RawValue, Bounds DEF KCurrentPosition64
    <3> QED BY <2>1, <3>1, Bounds DEF RightNumber, Signed
  <2>2. CASE n \in 0 .. KMaxTInt
    <3>1. n \in 0 .. KMaxTUint BY <2>2, Bounds
    <3>2. Raw(n) = [desc |-> FALSE, value |-> n] BY <3>1, RawValue
    <3> QED BY <2>2, <3>2, Bounds DEF RightNumber, Signed
  <2> QED BY <2>1, <2>2, Bounds
<1>2. ASSUME NEW n PROVE RightNumber(Package(n), n)
  BY DEF RightNumber, Signed, Package
<1>3. ASSUME NEW n \in Nat PROVE RightNumber(LockSlot(n), n)
  <2>1. CASE n <= KMaxTInt
    <3>1. n \in -1 .. KMaxTInt BY <2>1, Bounds
    <3> QED BY <3>1, <1>1, <2>1 DEF LockSlot
  <2>2. CASE ~(n <= KMaxTInt)
    BY <2>2, <1>2 DEF LockSlot
  <2> QED BY <2>1, <2>2
<1> QED BY <1>1, <1>2, <1>3

-----------------------------------------------------------------------------
(* The requests that calls make *)

\* The slots of a request bring what the call asked for.
RightSlots(r) ==
  /\ r.asked = <<r.asked[1], r.asked[2]>>
  /\ r.op \in {"Read", "Write"} => /\ RightPos(r.overload, r.pos, r.asked[1])
                                  /\ r.len.value = r.asked[2]
  /\ r.op \in {"Seek", "SetSize"} => /\ RightNumber(r.pos, r.asked[1])
                                    /\ r.asked[2] = 0
  /\ r.op \in {"Lock", "UnLock"} => /\ RightNumber(r.pos, r.asked[1])
                                   /\ RightNumber(r.len, r.asked[2])
  /\ r.op \in {"Size", "Flush"} => r.asked = <<0, 0>>

\* The request of a call that SendReceive makes.
WellMade(r) ==
  /\ RightSlots(r)
  /\ r.id = calls + 1
  /\ r.status \in Callers
  /\ r.op = "ReadCancel" => r.status = NoStatus

LEMMA TransferWellMade ==
  ASSUME NEW op \in {"Read", "Write"}, NEW file, NEW overload, NEW status \in Callers,
         NEW slot, NEW aPos, NEW aLength \in Lengths,
         RightPos(overload, slot, aPos), Transfer(op, file, overload, status, slot, aPos, aLength)
  PROVE  \E r : SendReceive(r) /\ WellMade(r)
<1> DEFINE r == [Request(op, file, overload, status, <<aPos, aLength>>)
                   EXCEPT !.pos = slot, !.len = Raw(aLength)]
<1>1. aLength \in 0 .. KMaxTUint BY LengthAssumption, Bounds DEF Lengths
<1>2. Raw(aLength).value = aLength BY <1>1, RawValue
<1>3. WellMade(r) BY <1>2 DEF WellMade, RightSlots, Request
<1>4. SendReceive(r) BY DEF Transfer
<1> QED BY <1>3, <1>4

LEMMA LengthReadWellMade ==
  ASSUME NEW file, NEW overload, NEW status \in Callers, NEW slot, NEW aPos,
         RightPos(overload, slot, aPos), LengthRead(file, overload, status, slot, aPos)
  PROVE  \/ \E r : SendReceive(r) /\ WellMade(r)
         \/ EndHere(status)
<1>1. CASE EndHere(status) BY <1>1
<1>2. ASSUME NEW aLength \in 1 .. DesLength,
             Transfer("Read", file, overload, status, slot, aPos, aLength)
      PROVE  \E r : SendReceive(r) /\ WellMade(r)
  <2>1. aLength \in Lengths BY LengthAssumption DEF Lengths
  <2> QED BY <1>2, <2>1, TransferWellMade
<1> QED BY <1>1, <1>2 DEF LengthRead

LEMMA CallsOfRFile ==
  ASSUME CallRFile
  PROVE  \/ \E r : SendReceive(r) /\ WellMade(r)
         \/ \E status \in Callers : EndHere(status)
<1> DEFINE Made == \E r : SendReceive(r) /\ WellMade(r)
<1>0. DesLength \in Lengths BY LengthAssumption DEF Lengths
<1>1. ASSUME NEW aPos \in TInts, NEW status \in Callers,
             \/ ReadTInt(aPos, status) \/ ReadTIntLength(aPos, status)
             \/ WriteTInt(aPos, status) \/ WriteTIntLength(aPos, status)
      PROVE  Made \/ EndHere(status)
  <2>1. RightPos("TInt", TIntSlot(aPos), aPos) BY SlotOfTInt DEF TInts
  <2>2. CASE ReadTInt(aPos, status) BY <1>0, <2>1, <2>2, TransferWellMade DEF ReadTInt
  <2>3. CASE ReadTIntLength(aPos, status) BY <2>1, <2>3, LengthReadWellMade DEF ReadTIntLength
  <2>4. CASE WriteTInt(aPos, status) BY <1>0, <2>1, <2>4, TransferWellMade DEF WriteTInt
  <2>5. CASE WriteTIntLength(aPos, status) BY <2>1, <2>5, TransferWellMade DEF WriteTIntLength
  <2> QED BY <1>1, <2>2, <2>3, <2>4, <2>5
<1>2. ASSUME NEW aPos \in TInts, NEW aLength \in TInts, NEW op \in {"Lock", "UnLock"},
             LockTInt(op, aPos, aLength)
      PROVE  Made
  <2> DEFINE r == [Request(op, "RFile", "TInt", NoStatus, <<aPos, aLength>>)
                     EXCEPT !.pos = Raw(aPos), !.len = Raw(aLength)]
  <2>1. aPos \in -1 .. KMaxTInt /\ aLength \in -1 .. KMaxTInt BY Bounds DEF TInts
  <2>2. WellMade(r) BY <2>1, SlotOfNumber DEF WellMade, RightSlots, Request, Callers
  <2>3. SendReceive(r) BY <1>2 DEF LockTInt
  <2> QED BY <2>2, <2>3
<1>3. ASSUME NEW aMode \in Modes, NEW aPos \in {-1} \cup TInts, SeekTInt(aMode, aPos)
      PROVE  Made
  <2> DEFINE r == [Request("Seek", "RFile", "TInt", NoStatus, <<aPos, 0>>)
                     EXCEPT !.pos = Raw(aPos), !.mode = aMode]
  <2>1. aPos \in -1 .. KMaxTInt BY Bounds DEF TInts
  <2>2. WellMade(r) BY <2>1, SlotOfNumber DEF WellMade, RightSlots, Request, Callers
  <2>3. SendReceive(r) BY <1>3 DEF SeekTInt
  <2> QED BY <2>2, <2>3
<1>4. ASSUME NEW aSize \in TInts, SetSizeTInt(aSize) PROVE Made
  <2> DEFINE r == [Request("SetSize", "RFile", "TInt", NoStatus, <<aSize, 0>>)
                     EXCEPT !.pos = Raw(aSize)]
  <2>1. aSize \in -1 .. KMaxTInt BY Bounds DEF TInts
  <2>2. WellMade(r) BY <2>1, SlotOfNumber DEF WellMade, RightSlots, Request, Callers
  <2>3. SendReceive(r) BY <1>4 DEF SetSizeTInt
  <2> QED BY <2>2, <2>3
<1> HIDE DEF Made
<1>5. Made \/ \E status \in Callers : EndHere(status)
  BY <1>1, <1>2, <1>3, <1>4 DEF CallRFile
<1> QED BY <1>5 DEF Made

LEMMA CallsOfRFile64 ==
  ASSUME CallRFile64
  PROVE  \/ \E r : SendReceive(r) /\ WellMade(r)
         \/ \E status \in Callers : EndHere(status)
<1> DEFINE Made == \E r : SendReceive(r) /\ WellMade(r)
<1>0. DesLength \in Lengths /\ Named \subseteq Nat
  BY LengthAssumption, NamedAssumption DEF Lengths
<1>1. ASSUME NEW aPos \in Named, NEW status \in Callers,
             \/ ReadTInt64(aPos, status) \/ ReadTInt64Length(aPos, status)
             \/ WriteTInt64(aPos, status) \/ WriteTInt64Length(aPos, status)
      PROVE  Made \/ EndHere(status)
  <2>1. RightPos("TInt64", TInt64Slot(aPos), aPos) BY <1>0, SlotOfTInt64
  <2>2. CASE ReadTInt64(aPos, status) BY <1>0, <2>1, <2>2, TransferWellMade DEF ReadTInt64
  <2>3. CASE ReadTInt64Length(aPos, status)
    BY <2>1, <2>3, LengthReadWellMade DEF ReadTInt64Length
  <2>4. CASE WriteTInt64(aPos, status) BY <1>0, <2>1, <2>4, TransferWellMade DEF WriteTInt64
  <2>5. CASE WriteTInt64Length(aPos, status)
    BY <2>1, <2>5, TransferWellMade DEF WriteTInt64Length
  <2> QED BY <1>1, <2>2, <2>3, <2>4, <2>5
<1>2. ASSUME NEW aPos \in TUints, NEW status \in Callers,
             \/ ReadTUint(aPos, status) \/ ReadTUintLength(aPos, status)
             \/ WriteTUint(aPos, status) \/ WriteTUintLength(aPos, status)
      PROVE  Made \/ EndHere(status)
  <2>1. RightPos("TUint", TUintSlot(aPos), aPos) BY SlotOfTUint DEF TUints
  <2>2. CASE ReadTUint(aPos, status) BY <1>0, <2>1, <2>2, TransferWellMade DEF ReadTUint
  <2>3. CASE ReadTUintLength(aPos, status)
    BY <2>1, <2>3, LengthReadWellMade DEF ReadTUintLength
  <2>4. CASE WriteTUint(aPos, status) BY <1>0, <2>1, <2>4, TransferWellMade DEF WriteTUint
  <2>5. CASE WriteTUintLength(aPos, status)
    BY <2>1, <2>5, TransferWellMade DEF WriteTUintLength
  <2> QED BY <1>2, <2>2, <2>3, <2>4, <2>5
<1>3. ASSUME NEW aPos \in Named, NEW aLength \in Named,
             LockTInt64(aPos, aLength) \/ UnLockTInt64(aPos, aLength)
      PROVE  Made
  <2> DEFINE r(op) == [Request(op, "RFile64", "TInt64", NoStatus, <<aPos, aLength>>)
                         EXCEPT !.pos = LockSlot(aPos), !.len = LockSlot(aLength)]
  <2>1. RightNumber(LockSlot(aPos), aPos) /\ RightNumber(LockSlot(aLength), aLength)
    BY <1>0, SlotOfNumber
  <2>2. WellMade(r("Lock")) /\ WellMade(r("UnLock"))
    BY <2>1 DEF WellMade, RightSlots, Request, Callers
  <2>3. SendReceive(r("Lock")) \/ SendReceive(r("UnLock")) BY <1>3 DEF LockTInt64, UnLockTInt64
  <2> QED BY <2>2, <2>3
<1>4. ASSUME NEW aMode \in Modes, NEW aPos \in {-1} \cup Named, SeekTInt64(aMode, aPos)
      PROVE  Made
  <2> DEFINE r == [Request("Seek", "RFile64", "TInt64", NoStatus, <<aPos, 0>>)
                     EXCEPT !.pos = Package(aPos), !.mode = aMode]
  <2>1. WellMade(r) BY SlotOfNumber DEF WellMade, RightSlots, Request, Callers
  <2>2. SendReceive(r) BY <1>4 DEF SeekTInt64
  <2> QED BY <2>1, <2>2
<1>5. ASSUME NEW aSize \in Named, SetSizeTInt64(aSize) PROVE Made
  <2> DEFINE r == [Request("SetSize", "RFile64", "TInt64", NoStatus, <<aSize, 0>>)
                     EXCEPT !.pos = Package(aSize)]
  <2>1. WellMade(r) BY SlotOfNumber DEF WellMade, RightSlots, Request, Callers
  <2>2. SendReceive(r) BY <1>5 DEF SetSizeTInt64
  <2> QED BY <2>1, <2>2
<1> HIDE DEF Made
<1>6. Made \/ \E status \in Callers : EndHere(status)
  BY <1>1, <1>2, <1>3, <1>4, <1>5 DEF CallRFile64
<1> QED BY <1>6 DEF Made

LEMMA CallsOfEither ==
  ASSUME CallEither
  PROVE  \/ \E r : SendReceive(r) /\ WellMade(r)
         \/ \E status \in Callers : EndHere(status)
         \/ \E file \in Files, aStatus \in Statuses : ReadCancel(file, aStatus)
<1> DEFINE Made == \E r : SendReceive(r) /\ WellMade(r)
<1>0. DesLength \in Lengths BY LengthAssumption DEF Lengths
<1>1. ASSUME NEW file \in Files, NEW status \in Callers,
             \/ ReadHere(file, status) \/ ReadHereLength(file, status)
             \/ WriteHere(file, status) \/ Flush(file, status)
      PROVE  Made \/ EndHere(status)
  <2>1. RightPos("current", CurrentSlot, KCurrentPosition64) BY SlotOfCurrent
  <2>2. CASE ReadHere(file, status) BY <1>0, <2>1, <2>2, TransferWellMade DEF ReadHere
  <2>3. CASE ReadHereLength(file, status)
    BY <2>1, <2>3, LengthReadWellMade DEF ReadHereLength
  <2>4. CASE WriteHere(file, status) BY <2>1, <2>4, TransferWellMade DEF WriteHere
  <2>5. CASE Flush(file, status)
    <3>1. WellMade(Request("Flush", file, "none", status, <<0, 0>>))
      BY DEF WellMade, RightSlots, Request
    <3> QED BY <2>5, <3>1 DEF Flush
  <2> QED BY <1>1, <2>2, <2>3, <2>4, <2>5
<1>2. ASSUME NEW file \in Files, ReadCancelAll(file) \/ AskSize(file) PROVE Made
  <2>1. /\ WellMade(Request("ReadCancel", file, "none", NoStatus, <<0, 0>>))
        /\ WellMade(Request("Size", file, "none", NoStatus, <<0, 0>>))
    BY DEF WellMade, RightSlots, Request, Callers
  <2> QED BY <1>2, <2>1 DEF ReadCancelAll, AskSize
<1> HIDE DEF Made
<1>3. \/ Made \/ \E status \in Callers : EndHere(status)
      \/ \E file \in Files, aStatus \in Statuses : ReadCancel(file, aStatus)
  BY <1>1, <1>2 DEF CallEither
<1> QED BY <1>3 DEF Made

-----------------------------------------------------------------------------
(* Requests in transit *)

\* Requests have their own numbers and bring what was asked.
RequestInv ==
  /\ calls \in Nat
  /\ \A r \in requests : RightSlots(r) /\ r.id \in 1 .. calls /\ r.status \in Callers
  /\ \A q, r \in requests : q.id = r.id => q = r

\* A request without a status, or a cancel, is that of the call the thread waits in.
Blocks(r) == r.status = NoStatus \/ r.op = "ReadCancel"
SyncInv == \A r \in requests : Blocks(r) => thread = "sync" /\ r.id = calls

TransitInv == RequestInv /\ SyncInv

LEMMA SendTransit ==
  ASSUME TransitInv, NEW r, SendReceive(r), WellMade(r)
  PROVE  TransitInv'
<1>1. /\ thread = "idle" /\ calls' = calls + 1 /\ requests' = requests \cup {r}
      /\ thread' = IF r.status # NoStatus THEN "async" ELSE "sync"
  BY DEF SendReceive, CanCall
<1>2. RequestInv' BY <1>1 DEF TransitInv, RequestInv, WellMade
<1>3. \A q \in requests : ~Blocks(q) BY <1>1 DEF TransitInv, SyncInv
<1>4. SyncInv' BY <1>1, <1>3 DEF SyncInv, WellMade, Blocks
<1> QED BY <1>2, <1>4 DEF TransitInv

LEMMA EndHereTransit ==
  ASSUME TransitInv, NEW status, EndHere(status)
  PROVE  TransitInv'
<1>1. thread = "idle" /\ calls' = calls + 1 /\ requests' = requests
  BY DEF EndHere, CanCall
<1>2. RequestInv' BY <1>1 DEF TransitInv, RequestInv
<1>3. SyncInv' BY <1>1 DEF TransitInv, SyncInv
<1> QED BY <1>2, <1>3 DEF TransitInv

LEMMA ReadCancelTransit ==
  ASSUME TransitInv, NEW file, NEW aStatus \in Statuses, ReadCancel(file, aStatus)
  PROVE  TransitInv'
<1>1. thread = "idle" /\ calls' = calls + 1
  BY DEF ReadCancel, CanCall
<1>2. \A q \in requests : ~Blocks(q) BY <1>1 DEF TransitInv, SyncInv
<1>3. CASE aStatus \notin pending
  <2>1. requests' = requests BY <1>3 DEF ReadCancel
  <2> QED BY <1>1, <1>2, <2>1 DEF TransitInv, RequestInv, SyncInv
<1>4. CASE aStatus \in pending
  <2> DEFINE c == [Request("ReadCancel", file, "none", NoStatus, <<0, 0>>) EXCEPT !.status = aStatus]
  <2>1. requests' = requests \cup {c} /\ thread' = "sync" BY <1>4 DEF ReadCancel
  <2>2. RightSlots(c) /\ c.id = calls + 1 /\ c.status \in Callers
    BY DEF RightSlots, Request, Callers
  <2> HIDE DEF c
  <2>3. RequestInv' BY <1>1, <2>1, <2>2 DEF TransitInv, RequestInv
  <2>4. SyncInv' BY <1>1, <1>2, <2>1, <2>2 DEF SyncInv, Blocks
  <2> QED BY <2>3, <2>4 DEF TransitInv
<1> QED BY <1>3, <1>4

LEMMA FinishTransit ==
  ASSUME TransitInv, NEW r \in requests, NEW served, Finish(r, served)
  PROVE  TransitInv'
<1>1. /\ requests' = requests \ {r} /\ calls' = calls
      /\ r.status # NoStatus => thread' = thread
  BY DEF Finish
<1>2. RequestInv' BY <1>1 DEF TransitInv, RequestInv
<1>3. SyncInv' BY <1>1 DEF TransitInv, RequestInv, SyncInv, Blocks
<1> QED BY <1>2, <1>3 DEF TransitInv

LEMMA CancelTransit ==
  ASSUME TransitInv, NEW r \in requests, ServeCancel(r)
  PROVE  TransitInv'
<1>1. requests' \subseteq requests \ {r} /\ calls' = calls /\ r.op = "ReadCancel"
  BY DEF ServeCancel
<1>2. RequestInv' BY <1>1 DEF TransitInv, RequestInv
<1>3. SyncInv' BY <1>1 DEF TransitInv, RequestInv, SyncInv, Blocks
<1> QED BY <1>2, <1>3 DEF TransitInv

LEMMA ReturnTransit ==
  ASSUME TransitInv, Return
  PROVE  TransitInv'
BY DEF TransitInv, RequestInv, SyncInv, Return

\* What Serve does to the requests is Finish.
LEMMA ServeFinishes ==
  ASSUME NEW r \in requests, Serve(r)
  PROVE  /\ \E served : Finish(r, served)
         /\ r.op # "ReadCancel"
BY DEF Serve, ServeRead, ServeWrite, ServeSeek, ServeSetSize, ServeSize, ServeLock, ServeFlush

\* The calls and the server's steps are all there is.
LEMMA Steps ==
  ASSUME Next
  PROVE  \/ \E r : SendReceive(r) /\ WellMade(r)
         \/ \E status \in Callers : EndHere(status)
         \/ \E file \in Files, aStatus \in Statuses : ReadCancel(file, aStatus)
         \/ Return
         \/ \E r \in requests : Serve(r)
         \/ \E r \in requests : ServeCancel(r)
BY CallsOfRFile, CallsOfRFile64, CallsOfEither DEF Next

LEMMA NextTransit ==
  ASSUME TransitInv, Next
  PROVE  TransitInv'
<1>1. ASSUME NEW r, SendReceive(r), WellMade(r) PROVE TransitInv' BY <1>1, SendTransit
<1>2. ASSUME NEW status \in Callers, EndHere(status) PROVE TransitInv' BY <1>2, EndHereTransit
<1>3. ASSUME NEW file \in Files, NEW aStatus \in Statuses, ReadCancel(file, aStatus)
      PROVE  TransitInv'
  BY <1>3, ReadCancelTransit
<1>4. ASSUME NEW r \in requests, Serve(r) PROVE TransitInv' BY <1>4, ServeFinishes, FinishTransit
<1>5. ASSUME NEW r \in requests, ServeCancel(r) PROVE TransitInv' BY <1>5, CancelTransit
<1>6. CASE Return BY <1>6, ReturnTransit
<1> QED BY <1>1, <1>2, <1>3, <1>4, <1>5, <1>6, Steps

\* Requests in transit keep their numbers and what was asked, and a thread waits in at
\* most one of them.
THEOREM Transit == Spec => []TransitInv
<1>1. Init => TransitInv BY DEF Init, TransitInv, RequestInv, SyncInv
<1>2. TransitInv /\ UNCHANGED vars => TransitInv'
  BY DEF TransitInv, RequestInv, SyncInv, vars, clientVars
<1>3. TransitInv /\ [Next]_vars => TransitInv' BY <1>2, NextTransit
<1> QED BY <1>1, <1>3, PTL DEF Spec

-----------------------------------------------------------------------------
(* Served where asked *)

\* The position the server takes from a slot is the one asked for, or excused.
LEMMA PositionFound ==
  ASSUME TransitInv, NEW r \in requests, r.op \in {"Read", "Write"},
         NEW found \in Found(r, r.pos)
  PROVE  \/ OrCurrent(r.pos, found) = r.asked[1]
         \/ r.overload = "TUint" /\ (r.status # NoStatus \/ r.asked[1] = KMaxTUint)
         \/ r.overload = "TInt64" /\ r.status # NoStatus /\ r.asked[1] >= KMaxTUint
<1>1. RightPos(r.overload, r.pos, r.asked[1])
  BY DEF TransitInv, RequestInv, RightSlots
<1>2. CASE ~r.pos.desc
  <2>1. found = r.pos.value BY <1>2 DEF Found
  <2> QED BY <1>1, <1>2, <2>1 DEF RightPos
<1>3. CASE r.pos.desc /\ FrameLive(r)
  BY <1>1, <1>3 DEF Found, RightPos, OrCurrent
<1>4. CASE r.pos.desc /\ ~FrameLive(r)
  <2>1. r.status # NoStatus BY <1>4 DEF TransitInv, SyncInv, Blocks, FrameLive
  <2> QED BY <1>1, <1>4, <2>1 DEF RightPos
<1> QED BY <1>2, <1>3, <1>4

LEMMA ServeWhereAsked ==
  ASSUME TransitInv, NEW r \in requests, Serve(r)
  PROVE  ServedWhereAsked'
<1>0. RightSlots(r) BY DEF TransitInv, RequestInv
<1>1. ASSUME NEW served, Finish(r, served), served = r.asked PROVE ServedWhereAsked'
  BY <1>1 DEF Finish, ServedWhereAsked
<1>2. ASSUME r.op \in {"Read", "Write"}, NEW found \in Found(r, r.pos),
             Finish(r, <<OrCurrent(r.pos, found), r.len.value>>)
      PROVE  ServedWhereAsked'
  <2>1. r.len.value = r.asked[2] /\ r.asked = <<r.asked[1], r.asked[2]>>
    BY <1>0, <1>2 DEF RightSlots
  <2>2. CASE OrCurrent(r.pos, found) = r.asked[1] BY <1>1, <1>2, <2>1, <2>2
  <2>3. CASE \/ r.overload = "TUint" /\ (r.status # NoStatus \/ r.asked[1] = KMaxTUint)
             \/ r.overload = "TInt64" /\ r.status # NoStatus /\ r.asked[1] >= KMaxTUint
    BY <1>2, <2>3 DEF Finish, ServedWhereAsked, KMaxTUint
  <2> QED BY <1>2, <2>2, <2>3, PositionFound
<1>3. CASE r.op = "Read" /\ ServeRead(r) BY <1>2, <1>3 DEF ServeRead
<1>4. CASE r.op = "Write" /\ ServeWrite(r) BY <1>2, <1>4 DEF ServeWrite
<1>5. CASE r.op = "Seek" /\ ServeSeek(r)
  BY <1>0, <1>1, <1>5 DEF ServeSeek, RightSlots, RightNumber
<1>6. CASE r.op = "SetSize" /\ ServeSetSize(r)
  BY <1>0, <1>1, <1>6 DEF ServeSetSize, RightSlots, RightNumber
<1>7. CASE r.op = "Size" /\ ServeSize(r)
  BY <1>0, <1>1, <1>7 DEF ServeSize, RightSlots
<1>8. CASE r.op \in {"Lock", "UnLock"} /\ ServeLock(r)
  BY <1>0, <1>1, <1>8 DEF ServeLock, RightSlots, RightNumber
<1>9. CASE r.op = "Flush" /\ ServeFlush(r)
  BY <1>0, <1>1, <1>9 DEF ServeFlush, RightSlots
<1> QED BY <1>3, <1>4, <1>5, <1>6, <1>7, <1>8, <1>9 DEF Serve

\* Every call is served at the range it names, for every width of a machine word, except
\* the last position of the TUint overloads and asynchronous calls that sent a descriptor.
THEOREM PositionsKept == Spec => []ServedWhereAsked
<1>1. Init => ServedWhereAsked BY DEF Init, ServedWhereAsked, NothingServed
<1>2. ASSUME TransitInv, ServedWhereAsked, Next PROVE ServedWhereAsked'
  <2>1. ASSUME NEW r, SendReceive(r) PROVE ServedWhereAsked'
    BY <2>1 DEF SendReceive, ServedWhereAsked, NothingServed
  <2>2. ASSUME NEW status \in Callers, EndHere(status) PROVE ServedWhereAsked'
    BY <2>2 DEF EndHere, ServedWhereAsked, NothingServed
  <2>3. ASSUME NEW file \in Files, NEW aStatus \in Statuses, ReadCancel(file, aStatus)
        PROVE  ServedWhereAsked'
    BY <2>3 DEF ReadCancel, ServedWhereAsked, NothingServed
  <2>4. ASSUME NEW r \in requests, Serve(r) PROVE ServedWhereAsked'
    BY <1>2, <2>4, ServeWhereAsked
  <2>5. ASSUME NEW r \in requests, ServeCancel(r) PROVE ServedWhereAsked'
    BY <1>2, <2>5 DEF ServeCancel, ServedWhereAsked, KMaxTUint
  <2>6. CASE Return BY <1>2, <2>6 DEF Return, ServedWhereAsked, KMaxTUint
  <2> QED BY <1>2, <2>1, <2>2, <2>3, <2>4, <2>5, <2>6, Steps
<1>3. ServedWhereAsked /\ UNCHANGED vars => ServedWhereAsked'
  BY DEF ServedWhereAsked, vars, KMaxTUint
<1>4. TransitInv /\ ServedWhereAsked /\ [Next]_vars => ServedWhereAsked' BY <1>2, <1>3
<1> QED BY <1>1, <1>4, Transit, PTL DEF Spec

-----------------------------------------------------------------------------
(* Answered once *)

CountInv ==
  /\ IsFiniteSet(pending) /\ signals \in Nat /\ asyncCalls \in Nat
  /\ pending \subseteq Statuses
  /\ asyncCalls = signals + Cardinality(pending)

\* Each pending status is held by one request, and each request with a status by a pending one.
HolderInv ==
  /\ \A status \in pending : \E r \in requests : r.status = status /\ r.op # "ReadCancel"
  /\ \A r \in requests : r.status # NoStatus /\ r.op # "ReadCancel" => r.status \in pending
  /\ \A q, r \in requests :
       q.status = r.status /\ q.op # "ReadCancel" /\ r.op # "ReadCancel" => q = r

AnswerInv == CountInv /\ HolderInv

LEMMA SendAnswer ==
  ASSUME TransitInv, AnswerInv, NEW r, SendReceive(r), WellMade(r)
  PROVE  AnswerInv'
<1>1. /\ thread = "idle" /\ requests' = requests \cup {r} /\ r.status \notin pending
      /\ pending' = pending \cup ({r.status} \ {NoStatus}) /\ signals' = signals
      /\ asyncCalls' = asyncCalls + (IF r.status # NoStatus THEN 1 ELSE 0)
      /\ r.status \in Statuses \cup {NoStatus}
      /\ r.op = "ReadCancel" => r.status = NoStatus
  BY DEF SendReceive, CanCall, WellMade, Callers
<1>2. \A q \in requests : q.status # NoStatus /\ q.op # "ReadCancel"
  BY <1>1 DEF TransitInv, SyncInv, Blocks
<1>3. CountInv'
  <2>1. CASE r.status = NoStatus
    <3>1. pending' = pending /\ asyncCalls' = asyncCalls + 0 BY <1>1, <2>1
    <3> QED BY <1>1, <3>1 DEF AnswerInv, CountInv
  <2>2. CASE r.status # NoStatus
    <3>1. pending' = pending \cup {r.status} /\ asyncCalls' = asyncCalls + 1
      BY <1>1, <2>2
    <3>2. IsFiniteSet(pending') /\ Cardinality(pending') = Cardinality(pending) + 1
      <4>1. IsFiniteSet(pending) BY DEF AnswerInv, CountInv
      <4>2. r.status \notin pending BY <1>1
      <4>3. /\ IsFiniteSet(pending \cup {r.status})
            /\ Cardinality(pending \cup {r.status}) = Cardinality(pending) + 1
        BY <4>1, <4>2, FS_AddElement
      <4> QED BY <3>1, <4>3
    <3>3. Cardinality(pending) \in Nat BY FS_CardinalityType DEF AnswerInv, CountInv
    <3> QED BY <1>1, <2>2, <3>1, <3>2, <3>3 DEF AnswerInv, CountInv
  <2> QED BY <2>1, <2>2
<1>4. HolderInv' BY <1>1, <1>2 DEF AnswerInv, HolderInv
<1> QED BY <1>3, <1>4 DEF AnswerInv

LEMMA EndHereAnswer ==
  ASSUME AnswerInv, NEW status, EndHere(status)
  PROVE  AnswerInv'
<1>1. requests' = requests /\ pending' = pending BY DEF EndHere
<1>2. \/ signals' = signals + 0 /\ asyncCalls' = asyncCalls + 0
      \/ signals' = signals + 1 /\ asyncCalls' = asyncCalls + 1
  BY DEF EndHere
<1>3. Cardinality(pending) \in Nat BY FS_CardinalityType DEF AnswerInv, CountInv
<1> QED BY <1>1, <1>2, <1>3 DEF AnswerInv, CountInv, HolderInv

LEMMA ReadCancelAnswer ==
  ASSUME AnswerInv, NEW file, NEW aStatus \in Statuses, ReadCancel(file, aStatus)
  PROVE  AnswerInv'
<1>1. pending' = pending /\ signals' = signals /\ asyncCalls' = asyncCalls
  BY DEF ReadCancel
<1>2. CASE aStatus \notin pending
  <2>1. requests' = requests BY <1>2 DEF ReadCancel
  <2> QED BY <1>1, <2>1 DEF AnswerInv, CountInv, HolderInv
<1>3. CASE aStatus \in pending
  <2> DEFINE c == [Request("ReadCancel", file, "none", NoStatus, <<0, 0>>) EXCEPT !.status = aStatus]
  <2>1. requests' = requests \cup {c} /\ c.op = "ReadCancel" BY <1>3 DEF ReadCancel, Request
  <2> HIDE DEF c
  <2>2. HolderInv' BY <1>1, <2>1 DEF AnswerInv, HolderInv
  <2> QED BY <1>1, <2>2 DEF AnswerInv, CountInv
<1> QED BY <1>2, <1>3

LEMMA FinishAnswer ==
  ASSUME AnswerInv, NEW r \in requests, r.op # "ReadCancel", NEW served, Finish(r, served)
  PROVE  AnswerInv'
<1>1. requests' = requests \ {r} /\ asyncCalls' = asyncCalls BY DEF Finish
<1>2. CASE r.status = NoStatus
  <2>1. pending' = pending /\ signals' = signals BY <1>2 DEF Finish
  <2>2. NoStatus \notin pending BY StatusAssumption DEF AnswerInv, CountInv
  <2> QED BY <1>1, <1>2, <2>1, <2>2 DEF AnswerInv, CountInv, HolderInv
<1>3. CASE r.status # NoStatus
  <2>1. pending' = pending \ {r.status} /\ signals' = signals + 1 BY <1>3 DEF Finish
  <2>2. r.status \in pending BY <1>3 DEF AnswerInv, HolderInv
  <2>3. IsFiniteSet(pending') /\ Cardinality(pending') = Cardinality(pending) - 1
    BY <2>1, <2>2, FS_RemoveElement DEF AnswerInv, CountInv
  <2>4. Cardinality(pending) \in Nat BY FS_CardinalityType DEF AnswerInv, CountInv
  <2>5. CountInv' BY <1>1, <2>1, <2>3, <2>4 DEF AnswerInv, CountInv
  <2>6. HolderInv' BY <1>1, <2>1 DEF AnswerInv, HolderInv
  <2> QED BY <2>5, <2>6 DEF AnswerInv
<1> QED BY <1>2, <1>3

\* The reads a cancel ends.
ReadsOf(r) == {q \in requests : /\ q.op = "Read" /\ q.file = r.file /\ q.status # NoStatus
                                /\ r.status \in {NoStatus, q.status}}

LEMMA CancelAnswer ==
  ASSUME AnswerInv, NEW r \in requests, ServeCancel(r)
  PROVE  AnswerInv'
<1> DEFINE ended == {q.status : q \in ReadsOf(r)}
<1>1. /\ requests' = requests \ (ReadsOf(r) \cup {r}) /\ r.op = "ReadCancel"
      /\ pending' = pending \ ended /\ signals' = signals + Cardinality(ended)
      /\ asyncCalls' = asyncCalls
  BY DEF ServeCancel, ReadsOf
<1>2. ended \subseteq pending BY DEF AnswerInv, HolderInv, ReadsOf
<1>3. CountInv'
  <2>1. pending \cap ended = ended BY <1>2
  <2>2. IsFiniteSet(pending) BY DEF AnswerInv, CountInv
  <2>3. IsFiniteSet(ended) BY <1>2, <2>2, FS_Subset
  <2>4. IsFiniteSet(pending') /\ Cardinality(pending') = Cardinality(pending) - Cardinality(ended)
    <3> HIDE DEF ended
    <3>1. /\ IsFiniteSet(pending \ ended)
          /\ Cardinality(pending \ ended) = Cardinality(pending) - Cardinality(pending \cap ended)
      BY <2>2, FS_Difference
    <3>2. pending' = pending \ ended BY <1>1
    <3> QED BY <2>1, <3>1, <3>2
  <2>5. Cardinality(pending) \in Nat /\ Cardinality(ended) \in Nat
    BY <2>2, <2>3, FS_CardinalityType
  <2> HIDE DEF ended
  <2> QED BY <1>1, <2>4, <2>5 DEF AnswerInv, CountInv
<1>4. HolderInv'
  <2>1. ASSUME NEW q \in requests', q.status # NoStatus, q.op # "ReadCancel"
        PROVE  q.status \in pending'
    <3>1. q \in requests /\ q \notin ReadsOf(r) BY <1>1, <2>1
    <3>2. q.status \in pending BY <2>1, <3>1 DEF AnswerInv, HolderInv
    <3>3. \A p \in ReadsOf(r) : p \in requests /\ p.op # "ReadCancel" BY DEF ReadsOf
    <3>4. q.status \notin ended BY <2>1, <3>1, <3>3 DEF AnswerInv, HolderInv
    <3> QED BY <1>1, <3>2, <3>4
  <2>2. ASSUME NEW status \in pending'
        PROVE  \E q \in requests' : q.status = status /\ q.op # "ReadCancel"
    <3>1. status \in pending /\ status \notin ended BY <1>1, <2>2
    <3>2. PICK q \in requests : q.status = status /\ q.op # "ReadCancel"
      BY <3>1 DEF AnswerInv, HolderInv
    <3>3. q \notin ReadsOf(r) BY <3>1, <3>2
    <3>4. q \in requests' BY <1>1, <3>2, <3>3
    <3> QED BY <3>2, <3>4
  <2>3. requests' \subseteq requests BY <1>1
  <2> QED BY <2>1, <2>2, <2>3 DEF AnswerInv, HolderInv
<1> QED BY <1>3, <1>4 DEF AnswerInv

LEMMA NextAnswer ==
  ASSUME TransitInv, AnswerInv, Next
  PROVE  AnswerInv'
<1>1. ASSUME NEW r, SendReceive(r), WellMade(r) PROVE AnswerInv' BY <1>1, SendAnswer
<1>2. ASSUME NEW status \in Callers, EndHere(status) PROVE AnswerInv' BY <1>2, EndHereAnswer
<1>3. ASSUME NEW file \in Files, NEW aStatus \in Statuses, ReadCancel(file, aStatus)
      PROVE  AnswerInv'
  BY <1>3, ReadCancelAnswer
<1>4. ASSUME NEW r \in requests, Serve(r) PROVE AnswerInv' BY <1>4, ServeFinishes, FinishAnswer
<1>5. ASSUME NEW r \in requests, ServeCancel(r) PROVE AnswerInv' BY <1>5, CancelAnswer
<1>6. CASE Return BY <1>6 DEF Return, AnswerInv, CountInv, HolderInv
<1> QED BY <1>1, <1>2, <1>3, <1>4, <1>5, <1>6, Steps

LEMMA Answers == Spec => []AnswerInv
<1>1. Init => AnswerInv BY FS_EmptySet DEF Init, AnswerInv, CountInv, HolderInv
<1>2. AnswerInv /\ UNCHANGED vars => AnswerInv'
  BY DEF AnswerInv, CountInv, HolderInv, vars, clientVars
<1>3. TransitInv /\ AnswerInv /\ [Next]_vars => AnswerInv' BY <1>2, NextAnswer
<1> QED BY <1>1, <1>3, Transit, PTL DEF Spec

\* Every asynchronous call is answered once, by the server, a cancel or the call itself.
THEOREM EachAnsweredOnce == Spec => []AnsweredOnce
<1>1. AnswerInv => AnsweredOnce BY DEF AnswerInv, CountInv, HolderInv, AnsweredOnce
<1> QED BY <1>1, Answers, PTL

-----------------------------------------------------------------------------
(* Nothing left behind a cancel *)

\* The request whose status a cancel names is one of the same sub-session.
CancelNames ==
  \A c, r \in requests :
    c.op = "ReadCancel" /\ c.status # NoStatus /\ r.status = c.status => r.file = c.file
CancelInv == CancelNames /\ CancelSettles

LEMMA NextCancel ==
  ASSUME TransitInv, AnswerInv, CancelInv, Next
  PROVE  CancelInv'
<1>1. ASSUME NEW r, SendReceive(r), WellMade(r) PROVE CancelInv'
  <2>1. /\ thread = "idle" /\ requests' = requests \cup {r} /\ cancelled' = cancelled \ {r.status}
        /\ r.op = "ReadCancel" => r.status = NoStatus
    BY <1>1 DEF SendReceive, CanCall, WellMade
  <2>2. \A q \in requests : q.op # "ReadCancel" BY <2>1 DEF TransitInv, SyncInv, Blocks
  <2> QED BY <2>1, <2>2 DEF CancelInv, CancelNames, CancelSettles
<1>2. ASSUME NEW status \in Callers, EndHere(status) PROVE CancelInv'
  BY <1>2 DEF EndHere, CancelInv, CancelNames, CancelSettles
<1>3. ASSUME NEW file \in Files, NEW aStatus \in Statuses, ReadCancel(file, aStatus)
      PROVE  CancelInv'
  <2>1. thread = "idle" /\ \A r \in requests : r.status = aStatus => r.file = file
    BY <1>3 DEF ReadCancel, CanCall
  <2>2. \A q \in requests : q.op # "ReadCancel" BY <2>1 DEF TransitInv, SyncInv, Blocks
  <2>3. aStatus # NoStatus BY StatusAssumption
  <2>4. CASE aStatus \notin pending
    <3>1. requests' = requests /\ cancelled' = cancelled \cup {aStatus}
      BY <1>3, <2>4 DEF ReadCancel
    <3>2. \A q \in requests : q.op = "Read" => q.status # aStatus
      BY <2>2, <2>3, <2>4 DEF AnswerInv, HolderInv
    <3> QED BY <3>1, <3>2 DEF CancelInv, CancelNames, CancelSettles
  <2>5. CASE aStatus \in pending
    <3> DEFINE c == [Request("ReadCancel", file, "none", NoStatus, <<0, 0>>) EXCEPT !.status = aStatus]
    <3>1. requests' = requests \cup {c} /\ cancelled' = cancelled BY <1>3, <2>5 DEF ReadCancel
    <3>2. c.op = "ReadCancel" /\ c.status = aStatus /\ c.file = file BY DEF Request
    <3> HIDE DEF c
    <3> QED BY <2>1, <2>2, <3>1, <3>2 DEF CancelInv, CancelNames, CancelSettles
  <2> QED BY <2>4, <2>5
<1>4. ASSUME NEW r \in requests, Serve(r) PROVE CancelInv'
  <2>1. PICK served : Finish(r, served) BY <1>4, ServeFinishes
  <2> QED BY <2>1 DEF Finish, CancelInv, CancelNames, CancelSettles
<1>5. ASSUME NEW c \in requests, ServeCancel(c) PROVE CancelInv'
  <2> DEFINE ended == {q.status : q \in ReadsOf(c)}
  <2>1. /\ requests' = requests \ (ReadsOf(c) \cup {c}) /\ c.op = "ReadCancel"
        /\ cancelled' = cancelled \cup ended \cup ({c.status} \ {NoStatus})
    BY <1>5 DEF ServeCancel, ReadsOf
  <2>2. ASSUME NEW q \in requests', q.op = "Read" PROVE q.status \notin cancelled'
    <3>1. q \in requests /\ q \notin ReadsOf(c) BY <2>1
    <3>2. q.status \notin cancelled BY <2>2, <3>1 DEF CancelInv, CancelSettles
    <3>3. \A p \in ReadsOf(c) : p \in requests /\ p.op = "Read" BY DEF ReadsOf
    <3>4. q.status \notin ended BY <2>2, <3>1, <3>3 DEF AnswerInv, HolderInv
    <3>5. c.status # NoStatus => q.status # c.status
      BY <2>1, <2>2, <3>1 DEF CancelInv, CancelNames, ReadsOf
    <3> QED BY <2>1, <3>2, <3>4, <3>5
  <2>3. CancelNames' BY <2>1 DEF CancelInv, CancelNames
  <2> QED BY <2>2, <2>3 DEF CancelInv, CancelSettles
<1>6. CASE Return BY <1>6 DEF Return, CancelInv, CancelNames, CancelSettles
<1> QED BY <1>1, <1>2, <1>3, <1>4, <1>5, <1>6, Steps

\* When ReadCancel has returned, no read that holds the status is left at the server.
THEOREM NothingLeftBehind == Spec => []CancelSettles
<1>1. Init => CancelInv BY DEF Init, CancelInv, CancelNames, CancelSettles
<1>2. CancelInv /\ UNCHANGED vars => CancelInv'
  BY DEF CancelInv, CancelNames, CancelSettles, vars, clientVars
<1>3. TransitInv /\ AnswerInv /\ CancelInv /\ [Next]_vars => CancelInv' BY <1>2, NextCancel
<1>4. CancelInv => CancelSettles BY DEF CancelInv
<1> QED BY <1>1, <1>3, <1>4, Transit, Answers, PTL DEF Spec
=============================================================================
