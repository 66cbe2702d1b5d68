----------------------------- MODULE FileClient -----------------------------
(***************************************************************************)
(* The file server client of hacks/cl_file.cpp: a thread with one RFile    *)
(* and one RFile64 open on the same file.  A call packs its position and   *)
(* length into the slots of a message: a number of one machine word, or a  *)
(* descriptor that names a 64-bit number in the caller's stack frame.  A   *)
(* synchronous call blocks the thread; an asynchronous one returns, and    *)
(* its frame with it, while the request may still wait at the server.      *)
(*                                                                         *)
(* The file server is external: it takes requests in order, a raw position *)
(* of all ones standing for the current one (cl_file.cpp tests aPos + 1    *)
(* for that value), and reads a descriptor when it takes the request.      *)
(* Locked regions and file contents are left out, the range that arrives   *)
(* at the server is not.  RFile64 is the build with the 64-bit API.        *)
(***************************************************************************)
EXTENDS Integers, FiniteSets

CONSTANTS Word,       \* machine word: 2^32 in the code
          MaxSize,    \* largest file the volume can hold
          DesLength,  \* aDes.MaxLength() of a read, aDes.Length() of a write
          Statuses,   \* the TRequestStatus objects of the thread
          Named,      \* bound: positions and lengths that calls name
          MaxCalls    \* bound: calls

ASSUME WordAssumption == Word \in Nat \ {0} /\ Word % 2 = 0
ASSUME SizeAssumption == MaxSize \in Nat
ASSUME NamedAssumption == Named \subseteq 0 .. MaxSize
ASSUME CallAssumption == MaxCalls \in Nat

NoStatus == "none"
ASSUME StatusAssumption == NoStatus \notin Statuses

KMaxTInt == Word \div 2 - 1
KMaxTUint == Word - 1
KCurrentPosition64 == -1
ASSUME LengthAssumption == DesLength \in 0 .. KMaxTInt
I64LOW(n) == n % Word
I64HIGH(n) == n \div Word

Files == {"RFile", "RFile64"}
Positions == 0 .. MaxSize
Lengths == 0 .. DesLength
Overloads == {"current", "TInt", "TInt64", "TUint", "none"}

VARIABLES
  thread,      \* "idle", in a "sync" call, or still in the frame of an "async" one
  calls,       \* calls so far; the number of a call identifies its request
  requests,    \* requests at the server
  pending,     \* statuses that are KRequestPending
  signals,     \* completions the thread's request semaphore has counted
  asyncCalls,  \* history: asynchronous calls made
  cancelled,   \* history: statuses a returned ReadCancel named, not used since
  size,        \* server: size of the file
  position,    \* server: current position of each sub-session
  answer,      \* what Size returned, and history: the size it is of; until the next call
  last         \* history: the last request served, until the next call

clientVars == <<thread, calls, requests, pending, signals, asyncCalls, cancelled>>
serverVars == <<size, position>>
vars == <<clientVars, serverVars, answer, last>>

Threads == {"idle", "sync", "async"}
Operations == {"Read", "Write", "Seek", "SetSize", "Size", "Lock", "UnLock", "Flush", "ReadCancel"}
Slots == [desc : BOOLEAN, value : Int]
Requests == [id : 1 .. MaxCalls, op : Operations, file : Files, overload : Overloads,
             status : Statuses \cup {NoStatus}, pos : Slots, len : Slots,
             asked : Int \X Int, mode : {"start", "current", "end"}]

Raw(n) == [desc |-> FALSE, value |-> I64LOW(n)]
Package(n) == [desc |-> TRUE, value |-> n]

NoAnswer == [err |-> "KErrNone", value |-> 0, of |-> 0]
NothingServed == [op |-> "Flush", overload |-> "none", async |-> FALSE,
                  asked |-> <<0, 0>>, served |-> <<0, 0>>]

\* The thread opened the file with both classes, Open with and without EFileBigFile.
Init ==
  /\ thread = "idle" /\ calls = 0 /\ requests = {}
  /\ pending = {} /\ signals = 0 /\ asyncCalls = 0 /\ cancelled = {}
  /\ size \in Named /\ position = [file \in Files |-> 0]
  /\ answer = NoAnswer /\ last = NothingServed

-----------------------------------------------------------------------------
(* SendReceive, and what the slots of a message hold *)

CanCall == thread = "idle" /\ calls < MaxCalls

\* A request of the call being made; each operation changes what it does not share.
Request(op, file, overload, status, asked) ==
  [id |-> calls + 1, op |-> op, file |-> file, overload |-> overload, status |-> status,
   pos |-> Raw(0), len |-> Raw(0), asked |-> asked, mode |-> "start"]

\* Both forms of SendReceive: the one with a status makes it pending and returns.
SendReceive(request) ==
  LET async == request.status # NoStatus
  IN /\ CanCall /\ request.status \notin pending
     /\ calls' = calls + 1
     /\ requests' = requests \cup {request}
     /\ thread' = IF async THEN "async" ELSE "sync"
     /\ pending' = pending \cup ({request.status} \ {NoStatus})
     /\ asyncCalls' = asyncCalls + (IF async THEN 1 ELSE 0)
     /\ cancelled' = cancelled \ {request.status}
     /\ answer' = NoAnswer /\ last' = NothingServed
     /\ UNCHANGED <<signals, serverVars>>

\* Mutant: a read of no bytes returns without completing its status.
EndHereSilently(status) ==
  /\ CanCall /\ status \notin pending
  /\ calls' = calls + 1
  /\ asyncCalls' = asyncCalls + (IF status = NoStatus THEN 0 ELSE 1)
  /\ cancelled' = cancelled \ {status}
  /\ answer' = NoAnswer /\ last' = NothingServed
  /\ UNCHANGED <<thread, requests, pending, signals, serverVars>>

\* A call that ends without the server, completing its status itself.
EndHere(status) ==
  /\ CanCall /\ status \notin pending
  /\ calls' = calls + 1
  /\ signals' = signals + (IF status = NoStatus THEN 0 ELSE 1)
  /\ asyncCalls' = asyncCalls + (IF status = NoStatus THEN 0 ELSE 1)
  /\ cancelled' = cancelled \ {status}
  /\ answer' = NoAnswer /\ last' = NothingServed
  /\ UNCHANGED <<thread, requests, pending, serverVars>>

\* The position slot of each overload of Read and Write.
CurrentSlot == Raw(KCurrentPosition64)
TIntSlot(aPos) == Raw(aPos)
\* Mutant: the last position of the low word goes as a word too.
TInt64SlotNext(aPos) == IF I64HIGH(aPos) = 0 THEN Raw(aPos) ELSE Package(aPos)
TInt64Slot(aPos) == IF I64HIGH(aPos + 1) = 0 THEN Raw(aPos) ELSE Package(aPos)
TUintSlot(aPos) == IF (aPos + 1) % Word = 0 THEN Raw(aPos) ELSE Package(aPos)
\* The slots of the locks of RFile64.
LockSlot(n) == IF n <= KMaxTInt THEN Raw(n) ELSE Package(n)

Transfer(op, file, overload, status, slot, aPos, aLength) ==
  SendReceive([Request(op, file, overload, status, <<aPos, aLength>>)
                 EXCEPT !.pos = slot, !.len = Raw(aLength)])

\* Read with a length: nothing to read or too much ends the call at once.
LengthRead(file, overload, status, slot, aPos) ==
  \/ EndHere(status)
  \/ \E aLength \in 1 .. DesLength :
       Transfer("Read", file, overload, status, slot, aPos, aLength)

-----------------------------------------------------------------------------
(* RFile: read, write *)

\* Read(TDes8&) and Write(const TDesC8&): the whole buffer, at the current position.
ReadHere(file, status) ==
  Transfer("Read", file, "current", status, CurrentSlot, KCurrentPosition64, DesLength)
ReadHereLength(file, status) ==
  LengthRead(file, "current", status, CurrentSlot, KCurrentPosition64)
WriteHere(file, status) ==
  \E aLength \in Lengths :
    Transfer("Write", file, "current", status, CurrentSlot, KCurrentPosition64, aLength)

\* With a position, which is not negative: the call panics.
ReadTInt(aPos, status) ==
  Transfer("Read", "RFile", "TInt", status, TIntSlot(aPos), aPos, DesLength)
ReadTIntLength(aPos, status) ==
  LengthRead("RFile", "TInt", status, TIntSlot(aPos), aPos)
WriteTInt(aPos, status) ==
  Transfer("Write", "RFile", "TInt", status, TIntSlot(aPos), aPos, DesLength)
WriteTIntLength(aPos, status) ==
  \E aLength \in Lengths :
    Transfer("Write", "RFile", "TInt", status, TIntSlot(aPos), aPos, aLength)

\* Mutant: the test of aStatus the other way round.
ReadCancelDone(file, aStatus) ==
  /\ \A r \in requests : r.status = aStatus => r.file = file
  /\ CanCall /\ calls' = calls + 1
  /\ IF aStatus \in pending
     THEN /\ cancelled' = cancelled \cup {aStatus}
          /\ UNCHANGED <<thread, requests>>
     ELSE /\ thread' = "sync"
          /\ requests' = requests \cup
               {[Request("ReadCancel", file, "none", NoStatus, <<0, 0>>) EXCEPT !.status = aStatus]}
          /\ UNCHANGED cancelled
  /\ answer' = NoAnswer /\ last' = NothingServed
  /\ UNCHANGED <<pending, signals, asyncCalls, serverVars>>

\* ReadCancel with a status and without: it asks the server only while aStatus is
\* pending.  The thread gives the status of a request of this sub-session.
ReadCancel(file, aStatus) ==
  /\ \A r \in requests : r.status = aStatus => r.file = file
  /\ CanCall /\ calls' = calls + 1
  /\ IF aStatus \notin pending
     THEN /\ cancelled' = cancelled \cup {aStatus}
          /\ UNCHANGED <<thread, requests>>
     ELSE /\ thread' = "sync"
          /\ requests' = requests \cup
               {[Request("ReadCancel", file, "none", NoStatus, <<0, 0>>) EXCEPT !.status = aStatus]}
          /\ UNCHANGED cancelled
  /\ answer' = NoAnswer /\ last' = NothingServed
  /\ UNCHANGED <<pending, signals, asyncCalls, serverVars>>
ReadCancelAll(file) ==
  SendReceive(Request("ReadCancel", file, "none", NoStatus, <<0, 0>>))

(* RFile: locks, position, size *)

LockTInt(op, aPos, aLength) ==
  SendReceive([Request(op, "RFile", "TInt", NoStatus, <<aPos, aLength>>)
                 EXCEPT !.pos = Raw(aPos), !.len = Raw(aLength)])
SeekTInt(aMode, aPos) ==
  SendReceive([Request("Seek", "RFile", "TInt", NoStatus, <<aPos, 0>>)
                 EXCEPT !.pos = Raw(aPos), !.mode = aMode])
Flush(file, status) == SendReceive(Request("Flush", file, "none", status, <<0, 0>>))
AskSize(file) == SendReceive(Request("Size", file, "none", NoStatus, <<0, 0>>))
SetSizeTInt(aSize) ==
  SendReceive([Request("SetSize", "RFile", "TInt", NoStatus, <<aSize, 0>>) EXCEPT !.pos = Raw(aSize)])

-----------------------------------------------------------------------------
(* RFile64 *)

ReadTInt64(aPos, status) ==
  Transfer("Read", "RFile64", "TInt64", status, TInt64Slot(aPos), aPos, DesLength)
ReadTInt64Length(aPos, status) ==
  LengthRead("RFile64", "TInt64", status, TInt64Slot(aPos), aPos)
WriteTInt64(aPos, status) ==
  Transfer("Write", "RFile64", "TInt64", status, TInt64Slot(aPos), aPos, DesLength)
WriteTInt64Length(aPos, status) ==
  \E aLength \in Lengths :
    Transfer("Write", "RFile64", "TInt64", status, TInt64Slot(aPos), aPos, aLength)

ReadTUint(aPos, status) ==
  Transfer("Read", "RFile64", "TUint", status, TUintSlot(aPos), aPos, DesLength)
ReadTUintLength(aPos, status) ==
  LengthRead("RFile64", "TUint", status, TUintSlot(aPos), aPos)
WriteTUint(aPos, status) ==
  Transfer("Write", "RFile64", "TUint", status, TUintSlot(aPos), aPos, DesLength)
WriteTUintLength(aPos, status) ==
  \E aLength \in Lengths :
    Transfer("Write", "RFile64", "TUint", status, TUintSlot(aPos), aPos, aLength)

LockTInt64(aPos, aLength) ==
  SendReceive([Request("Lock", "RFile64", "TInt64", NoStatus, <<aPos, aLength>>)
                 EXCEPT !.pos = LockSlot(aPos), !.len = LockSlot(aLength)])
UnLockTInt64(aPos, aLength) ==
  SendReceive([Request("UnLock", "RFile64", "TInt64", NoStatus, <<aPos, aLength>>)
                 EXCEPT !.pos = LockSlot(aPos), !.len = LockSlot(aLength)])
SeekTInt64(aMode, aPos) ==
  SendReceive([Request("Seek", "RFile64", "TInt64", NoStatus, <<aPos, 0>>)
                 EXCEPT !.pos = Package(aPos), !.mode = aMode])
SetSizeTInt64(aSize) ==
  SendReceive([Request("SetSize", "RFile64", "TInt64", NoStatus, <<aSize, 0>>)
                 EXCEPT !.pos = Package(aSize)])

\* What Size returns of the 64-bit size n in the reply.
SizeAnswer(file, n) ==
  IF file = "RFile"
  THEN [err |-> IF n > KMaxTInt THEN "KErrTooBig" ELSE "KErrNone", value |-> I64LOW(n), of |-> n]
  ELSE [err |-> "KErrNone", value |-> n, of |-> n]

\* An asynchronous call returns to its caller.
Return ==
  /\ thread = "async" /\ thread' = "idle"
  /\ UNCHANGED <<calls, requests, pending, signals, asyncCalls, cancelled, serverVars, answer, last>>

-----------------------------------------------------------------------------
(* The file server, external *)

\* The frame of the call that made r is still there.
FrameLive(r) == thread # "idle" /\ r.id = calls

\* What the server finds in a slot: after its frame is gone, a descriptor holds anything
\* (the positions that calls name stand for it).
Found(r, slot) ==
  IF ~slot.desc THEN {slot.value} ELSE IF FrameLive(r) THEN {slot.value} ELSE Named
OrCurrent(slot, n) == IF ~slot.desc /\ n = I64LOW(KCurrentPosition64) THEN KCurrentPosition64 ELSE n
Signed(slot, n) == IF ~slot.desc /\ n > KMaxTInt THEN n - Word ELSE n

Reach(n, end) == IF n < 0 THEN 0 ELSE IF n < end THEN n ELSE end
Limit(file) == IF file = "RFile" THEN KMaxTInt ELSE MaxSize

\* The request is done: a synchronous caller resumes, a status completes.
Finish(r, served) ==
  /\ requests' = requests \ {r}
  /\ IF r.status = NoStatus
     THEN thread' = "idle" /\ UNCHANGED <<pending, signals>>
     ELSE pending' = pending \ {r.status} /\ signals' = signals + 1 /\ UNCHANGED thread
  /\ last' = [op |-> r.op, overload |-> r.overload, async |-> r.status # NoStatus,
              asked |-> r.asked, served |-> served]
  /\ UNCHANGED <<calls, asyncCalls, cancelled>>

ServeRead(r) ==
  \E found \in Found(r, r.pos) :
    LET aPos == OrCurrent(r.pos, found)
        start == IF aPos = KCurrentPosition64 THEN position[r.file] ELSE aPos
    IN /\ position' = [position EXCEPT ![r.file] = Reach(start + r.len.value, size)]
       /\ Finish(r, <<aPos, r.len.value>>)
       /\ UNCHANGED <<size, answer>>

ServeWrite(r) ==
  \E found \in Found(r, r.pos) :
    LET aPos == OrCurrent(r.pos, found)
        start == Reach(IF aPos = KCurrentPosition64 THEN position[r.file] ELSE aPos, size)
        end == start + r.len.value
    IN /\ IF end <= size \/ end <= Limit(r.file)
          THEN /\ size' = IF end > size THEN end ELSE size
               /\ position' = [position EXCEPT ![r.file] = end]
          ELSE UNCHANGED serverVars
       /\ Finish(r, <<aPos, r.len.value>>)
       /\ UNCHANGED answer

ServeSeek(r) ==
  LET offset == Signed(r.pos, r.pos.value)
      base == [start |-> 0, current |-> position[r.file], end |-> size][r.mode]
  IN /\ position' = IF r.mode = "start" /\ offset < 0
                    THEN position
                    ELSE [position EXCEPT ![r.file] = Reach(base + offset, size)]
     /\ Finish(r, <<offset, 0>>)
     /\ UNCHANGED <<size, answer>>

ServeSetSize(r) ==
  LET newSize == Signed(r.pos, r.pos.value)
  IN /\ IF newSize \in Positions
        THEN /\ size' = newSize
             /\ position' = [file \in Files |-> Reach(position[file], newSize)]
        ELSE UNCHANGED serverVars
     /\ Finish(r, <<newSize, 0>>)
     /\ UNCHANGED answer

ServeSize(r) ==
  /\ answer' = SizeAnswer(r.file, size)
  /\ Finish(r, <<0, 0>>) /\ UNCHANGED serverVars

ServeLock(r) ==
  /\ Finish(r, <<Signed(r.pos, r.pos.value), Signed(r.len, r.len.value)>>)
  /\ UNCHANGED <<serverVars, answer>>

ServeFlush(r) == Finish(r, <<0, 0>>) /\ UNCHANGED <<serverVars, answer>>

\* The server takes the requests of a file in order.
Serve(r) ==
  /\ \A q \in requests : q.op = "ReadCancel" \/ q.id >= r.id
  /\ \/ r.op = "Read" /\ ServeRead(r)
     \/ r.op = "Write" /\ ServeWrite(r)
     \/ r.op = "Seek" /\ ServeSeek(r)
     \/ r.op = "SetSize" /\ ServeSetSize(r)
     \/ r.op = "Size" /\ ServeSize(r)
     \/ r.op \in {"Lock", "UnLock"} /\ ServeLock(r)
     \/ r.op = "Flush" /\ ServeFlush(r)

\* A cancel does not wait its turn: the reads it names complete with KErrCancel.
ServeCancel(r) ==
  /\ r.op = "ReadCancel"
  /\ LET reads == {q \in requests : /\ q.op = "Read" /\ q.file = r.file /\ q.status # NoStatus
                                     /\ r.status \in {NoStatus, q.status}}
         ended == {q.status : q \in reads}
     IN /\ requests' = requests \ (reads \cup {r})
        /\ pending' = pending \ ended
        /\ signals' = signals + Cardinality(ended)
        /\ cancelled' = cancelled \cup ended \cup ({r.status} \ {NoStatus})
  /\ thread' = "idle"
  /\ UNCHANGED <<calls, asyncCalls, serverVars, answer, last>>

-----------------------------------------------------------------------------
Callers == Statuses \cup {NoStatus}
TInts == Named \cap 0 .. KMaxTInt
TUints == Named \cap 0 .. KMaxTUint
Modes == {"start", "current", "end"}

CallRFile ==
  \/ \E aPos \in TInts, status \in Callers :
       \/ ReadTInt(aPos, status) \/ ReadTIntLength(aPos, status)
       \/ WriteTInt(aPos, status) \/ WriteTIntLength(aPos, status)
  \/ \E aPos, aLength \in TInts, op \in {"Lock", "UnLock"} : LockTInt(op, aPos, aLength)
  \/ \E aMode \in Modes, aPos \in {-1} \cup TInts : SeekTInt(aMode, aPos)
  \/ \E aSize \in TInts : SetSizeTInt(aSize)

CallRFile64 ==
  \/ \E aPos \in Named, status \in Callers :
       \/ ReadTInt64(aPos, status) \/ ReadTInt64Length(aPos, status)
       \/ WriteTInt64(aPos, status) \/ WriteTInt64Length(aPos, status)
  \/ \E aPos \in TUints, status \in Callers :
       \/ ReadTUint(aPos, status) \/ ReadTUintLength(aPos, status)
       \/ WriteTUint(aPos, status) \/ WriteTUintLength(aPos, status)
  \/ \E aPos, aLength \in Named : LockTInt64(aPos, aLength) \/ UnLockTInt64(aPos, aLength)
  \/ \E aMode \in Modes, aPos \in {-1} \cup Named : SeekTInt64(aMode, aPos)
  \/ \E aSize \in Named : SetSizeTInt64(aSize)

CallEither ==
  \E file \in Files :
    \/ \E status \in Callers : \/ ReadHere(file, status) \/ ReadHereLength(file, status)
                                \/ WriteHere(file, status) \/ Flush(file, status)
    \/ \E aStatus \in Statuses : ReadCancel(file, aStatus)
    \/ ReadCancelAll(file) \/ AskSize(file)

Next ==
  \/ CallRFile \/ CallRFile64 \/ CallEither
  \/ Return
  \/ \E r \in requests : Serve(r) \/ ServeCancel(r)

Spec == Init /\ [][Next]_vars

-----------------------------------------------------------------------------
(* Every variable has its type. *)
TypeOK ==
  /\ thread \in Threads /\ calls \in 0 .. MaxCalls /\ requests \subseteq Requests
  /\ pending \subseteq Statuses /\ cancelled \subseteq Statuses
  /\ signals \in Nat /\ asyncCalls \in Nat
  /\ size \in Positions /\ position \in [Files -> Positions]
  /\ answer \in [err : {"KErrNone", "KErrTooBig"}, value : Int, of : Int]
  /\ last \in [op : Operations, overload : Overloads, async : BOOLEAN,
                asked : Int \X Int, served : Int \X Int]

(* A call is served at the range it names, whichever overload, form and width    *)
(* of slot carried it, when other calls were served between, with two exceptions:*)
(* TUint at the last word (TUintSlot, line 3131), and an asynchronous call whose *)
(* position went as a descriptor.                                                *)
ServedWhereAsked ==
  \/ last.served = last.asked
  \/ last.overload = "TUint" /\ (last.async \/ last.asked[1] = KMaxTUint)
  \/ last.overload = "TInt64" /\ last.async /\ last.asked[1] >= KMaxTUint

(* Every asynchronous call is answered once: by the server, by a cancel or by the *)
(* call itself when there is nothing to read; and until then exactly one request *)
(* at the server holds its status.                                                *)
AnsweredOnce ==
  /\ asyncCalls = signals + Cardinality(pending)
  /\ \A status \in pending : \E r \in requests : r.status = status /\ r.op # "ReadCancel"
  /\ \A r \in requests : r.status # NoStatus /\ r.op # "ReadCancel" => r.status \in pending
  /\ \A q, r \in requests :
       q.status = r.status /\ q.op # "ReadCancel" /\ r.op # "ReadCancel" => q = r

(* When ReadCancel returns, no read that holds the status is left at the server, *)
(* whether the server finished it while the cancel was on its way or not.        *)
CancelSettles ==
  \A r \in requests : r.op = "Read" => r.status \notin cancelled

(* RFile::Size reports success only with the size of the file, which another     *)
(* sub-session may have made larger than the 32 bits of the answer.              *)
SizeHonest == answer.err = "KErrNone" => answer.value = answer.of

(* lines 2476-2477: the position an asynchronous read of RFile64 names is the    *)
(* position of the first byte to be read.                                        *)
AsyncReadAtPosition ==
  last.op = "Read" /\ last.overload = "TInt64" /\ last.async => last.served = last.asked
=============================================================================
