--------------------------- MODULE KeySoundServer ---------------------------
(***************************************************************************)
(* The key sound server of breakdeps/eikkeysoundserver.cpp: one server     *)
(* thread, one CEikKeySoundSession per client, and the state the sessions  *)
(* share.  The server handles one message at a time, so a message is one   *)
(* action; what interleaves is the order in which clients connect, send    *)
(* messages, and go away (a client that dies closes its session at any     *)
(* point).                                                                 *)
(*                                                                         *)
(* Sound infos and sound maps are heap cells, known by a number.  A cell   *)
(* that is live is in soundInfos or soundMaps; a pointer to a cell that is *)
(* not there dangles.  Application uids stand for their low 16 bits, the   *)
(* only bits a sid keeps.                                                  *)
(***************************************************************************)
EXTENDS Integers, Sequences, FiniteSets, SequencesExt

CONSTANTS Sessions,      \* the sessions clients may open
          None,          \* no session
          Uids,          \* application uids, 0 being the default sounds
          SoundsPerLoad, \* how many sounds an application's resource holds
          MaxSids,       \* bound: entries of iSidList
          MaxMaps,       \* bound: sound maps alive at a time
          MaxDepth,      \* bound: maps in one session's sound stack
          ScanCodes      \* scan codes of the keys pressed

MaxUid == 32767

ASSUME SessionsAssumption == None \notin Sessions
ASSUME UidsAssumption == Uids \subseteq 1 .. MaxUid
ASSUME BoundsAssumption == /\ SoundsPerLoad \in Nat
                           /\ MaxSids \in Nat
                           /\ MaxMaps \in Nat
                           /\ MaxDepth \in Nat
                           /\ ScanCodes \subseteq 0 .. 255

NoMap == 0
NoScanCode == -1
DefaultUid == 0
SoundMaps == 1 .. MaxMaps
SoundInfos == 1 .. 2 * MaxSids

VARIABLES
  running,             \* the server thread has neither been stopped nor died
  iInit,               \* some client was told that it loads the default sounds
  iSidList,            \* sid -> sound info, sorted by sid, duplicates allowed
  iSoundList,          \* the sound infos in the order they were added
  soundInfos,          \* sound infos alive
  iDefaultSoundMap,    \* the sound map under every sound stack
  iCurrentSoundStack,  \* the session whose sound stack is in the foreground
  iContextLocked,
  iDisabledScanCode,
  soundMaps,           \* sound maps alive
  client,              \* how far the client of a session has got
  iClientUid, iHasLockedContext, iOwnsDefaultSounds, iSoundStack

soundVars == <<iSidList, iSoundList, soundInfos>>
mapVars == <<iDefaultSoundMap, soundMaps, iSoundStack>>
lockVars == <<iCurrentSoundStack, iContextLocked, iHasLockedContext>>
sessionVars == <<iInit, client, iClientUid, iOwnsDefaultSounds>>
serverVars == <<running, iDisabledScanCode>>
vars == <<soundVars, mapVars, lockVars, sessionVars, serverVars>>

ClientStates == {"none", "connected", "loadDefaults", "ready", "loaded"}

Open == {s \in Sessions : client[s] # "none"}

Init ==
  /\ running = TRUE
  /\ iInit = FALSE
  /\ iSidList = <<>> /\ iSoundList = <<>> /\ soundInfos = {}
  /\ iDefaultSoundMap = NoMap /\ soundMaps = {}
  /\ iCurrentSoundStack = None
  /\ iContextLocked = FALSE
  /\ iDisabledScanCode = NoScanCode
  /\ client = [s \in Sessions |-> "none"]
  /\ iClientUid = [s \in Sessions |-> 0]
  /\ iHasLockedContext = [s \in Sessions |-> FALSE]
  /\ iOwnsDefaultSounds = [s \in Sessions |-> FALSE]
  /\ iSoundStack = [s \in Sessions |-> <<>>]

-----------------------------------------------------------------------------
(* The two sound lists.  They travel together through the operators below  *)
(* as one record.                                                          *)

lists == [sids |-> iSidList, sounds |-> iSoundList, live |-> soundInfos]

SetLists(l) == /\ iSidList' = l.sids
               /\ iSoundList' = l.sounds
               /\ soundInfos' = l.live

Sid(uid, n) == uid * 65536 + n
UidOf(sid) == sid \div 65536

\* InsertIsqAllowDuplicatesL: in key order, after the entries with the same key.
InsertSid(sids, entry) ==
  LET before == {i \in DOMAIN sids : sids[i].iSid <= entry.iSid}
  IN  InsertAt(sids, Cardinality(before) + 1, entry)

\* AddToneSidL, AddSequenceSidL and AddFileSidL: they differ in the sound only.
AddSid(l, sid) ==
  LET info == CHOOSE i \in SoundInfos \ (l.live \cup ToSet(l.sounds)) : TRUE
  IN  [sids   |-> InsertSid(l.sids, [iSid |-> sid, iSoundInfo |-> info]),
       sounds |-> Append(l.sounds, info),
       live   |-> l.live \cup {info}]

\* The sounds of uid whose numbers are in added, in the order of the buffer.
AddSids(l, uid, added) ==
  LET upTo[n \in 0 .. SoundsPerLoad] ==
        IF n = 0 THEN l
        ELSE IF n \in added THEN AddSid(upTo[n - 1], Sid(uid, n)) ELSE upTo[n - 1]
  IN  upTo[SoundsPerLoad]

\* Mutant: RemoveSids leaves the sound list alone.
RemoveSidAtKeepsSound(acc, uid) ==
  IF /\ UidOf(acc.sids[acc.ii].iSid) = uid
     /\ \A jj \in acc.ii + 1 .. Len(acc.sids) :
          acc.sids[jj].iSid # acc.sids[acc.ii].iSid
  THEN [acc EXCEPT !.sids = RemoveAt(@, acc.ii),
                   !.live = @ \ {acc.sids[acc.ii].iSoundInfo}]
  ELSE [acc EXCEPT !.ii = @ + 1]

\* One round of the loop in RemoveSids, at position acc.ii of the sid list.
RemoveSidAt(acc, uid) ==
  LET entry == acc.sids[acc.ii]
      duplicateFound == \E jj \in acc.ii + 1 .. Len(acc.sids) :
                            acc.sids[jj].iSid = entry.iSid
  IN  IF UidOf(entry.iSid) = uid /\ ~duplicateFound
      THEN [ii     |-> acc.ii,
            sids   |-> RemoveAt(acc.sids, acc.ii),
            sounds |-> RemoveAt(acc.sounds, acc.ii),
            live   |-> acc.live \ {entry.iSoundInfo}]
      ELSE [acc EXCEPT !.ii = @ + 1]

\* The loop: each round moves on, or brings the end nearer.
RemoveSids(l, uid) ==
  LET after[n \in 0 .. Len(l.sids)] ==
        IF n = 0 THEN [ii |-> 1, sids |-> l.sids, sounds |-> l.sounds, live |-> l.live]
        ELSE RemoveSidAt(after[n - 1], uid)
      end == after[Len(l.sids)]
  IN  [sids |-> end.sids, sounds |-> end.sounds, live |-> end.live]

(* SetVolumeForPreferenceType reads every sound info of iSoundList.  To    *)
(* read one that is deleted is undefined: the server may survive it or not.*)
WalkSounds(l) ==
  running' \in IF ToSet(l.sounds) \subseteq l.live THEN {TRUE} ELSE BOOLEAN

-----------------------------------------------------------------------------
(* Sessions come and go.                                                   *)

\* NewSessionL: the stack of a new session starts with the default sound map.
Connect(s) ==
  /\ running /\ client[s] = "none"
  /\ client' = [client EXCEPT ![s] = "connected"]
  /\ iSoundStack' = [iSoundStack EXCEPT ![s] =
                       IF iDefaultSoundMap = NoMap THEN <<>>
                       ELSE <<iDefaultSoundMap>>]
  /\ UNCHANGED <<iInit, iClientUid, iOwnsDefaultSounds, iDefaultSoundMap,
                 soundMaps, soundVars, lockVars, serverVars>>

\* Mutant: InitL tells the client but does not remember that it did.
InitSessionForgets(s, uid) ==
  /\ running /\ client[s] = "connected"
  /\ iClientUid' = [iClientUid EXCEPT ![s] = uid]
  /\ client' = [client EXCEPT ![s] = IF iInit THEN "ready" ELSE "loadDefaults"]
  /\ UNCHANGED <<iInit, iOwnsDefaultSounds, soundVars, mapVars, lockVars,
                 serverVars>>

\* EKeySoundServerInit tells the first client to load the default sounds.
InitSession(s, uid) ==
  /\ running /\ client[s] = "connected"
  /\ iClientUid' = [iClientUid EXCEPT ![s] = uid]
  /\ client' = [client EXCEPT ![s] = IF iInit THEN "ready" ELSE "loadDefaults"]
  /\ iInit' = TRUE
  /\ UNCHANGED <<iOwnsDefaultSounds, soundVars, mapVars, lockVars, serverVars>>

(* What ~CEikKeySoundSession does to the shared state, and mutants in which*)
(* it destroys the whole stack, does not unlock the context, or does not   *)
(* make sure that the server is not using its stack.                       *)
OwnMapsAll(s) == ToSet(iSoundStack[s])
LockedAfterAnyway(s) == iContextLocked
\* The maps to destroy: the bottom one is the server's.
OwnMaps(s) == {iSoundStack[s][i] : i \in 2 .. Len(iSoundStack[s])}

LockedAfter(s) == iContextLocked /\ ~iHasLockedContext[s]

ForegroundAfter(s) == IF iCurrentSoundStack = s THEN None ELSE iCurrentSoundStack

RemoveSessionSids(l, s) ==
  LET own == RemoveSids(l, iClientUid[s])
  IN  IF iOwnsDefaultSounds[s] THEN RemoveSids(own, DefaultUid) ELSE own

\* ~CEikKeySoundSession.
Close(s) ==
  /\ running /\ s \in Open
  /\ SetLists(RemoveSessionSids(lists, s))
  /\ iContextLocked' = LockedAfter(s)
  /\ iInit' = (iInit /\ ~iOwnsDefaultSounds[s])
  /\ soundMaps' = soundMaps \ OwnMaps(s)
  /\ iCurrentSoundStack' = ForegroundAfter(s)
  /\ client' = [client EXCEPT ![s] = "none"]
  /\ iClientUid' = [iClientUid EXCEPT ![s] = 0]
  /\ iHasLockedContext' = [iHasLockedContext EXCEPT ![s] = FALSE]
  /\ iOwnsDefaultSounds' = [iOwnsDefaultSounds EXCEPT ![s] = FALSE]
  /\ iSoundStack' = [iSoundStack EXCEPT ![s] = <<>>]
  /\ UNCHANGED <<iDefaultSoundMap, serverVars>>

-----------------------------------------------------------------------------
(* Loading sounds.                                                         *)

(* EKeySoundServerAddSIDS.  A sound whose append to iSoundList fails is    *)
(* skipped (its info leaks, and is not counted as alive), and the message  *)
(* leaves when the buffer cannot be read on: added is the set of sounds    *)
(* that made it, complete says that the message did not leave.             *)
AddSoundIdBuffer(s, uid, added, complete) ==
  LET l == AddSids(lists, uid, added)
  IN  /\ running
      /\ \/ client[s] = "loadDefaults" /\ uid = DefaultUid
         \/ client[s] = "ready" /\ uid = iClientUid[s]
      /\ Len(iSidList) + SoundsPerLoad <= MaxSids
      /\ SetLists(l)
      /\ iOwnsDefaultSounds' = [iOwnsDefaultSounds EXCEPT ![s] =
                                  @ \/ uid = DefaultUid]
      /\ client' = [client EXCEPT ![s] =
                      IF uid = DefaultUid THEN "ready" ELSE "loaded"]
      /\ IF complete THEN WalkSounds(l) ELSE UNCHANGED running
      /\ UNCHANGED <<iInit, iClientUid, iDisabledScanCode, mapVars, lockVars>>

\* HandleNotifyInt for the keypad volume.
HandleNotifyInt ==
  /\ running
  /\ WalkSounds(lists)
  /\ UNCHANGED <<iDisabledScanCode, soundVars, mapVars, lockVars, sessionVars>>

-----------------------------------------------------------------------------
(* The sound context.                                                      *)

PushContext(s) ==
  /\ running /\ s \in Open
  /\ Len(iSoundStack[s]) < MaxDepth
  /\ \E soundMap \in SoundMaps \ soundMaps :
       /\ \A m \in SoundMaps \ soundMaps : soundMap <= m
       /\ soundMaps' = soundMaps \cup {soundMap}
       /\ iSoundStack' = [iSoundStack EXCEPT ![s] = Append(@, soundMap)]
       /\ iDefaultSoundMap' = IF iDefaultSoundMap = NoMap THEN soundMap
                              ELSE iDefaultSoundMap
  /\ UNCHANGED <<soundVars, lockVars, sessionVars, serverVars>>

PopContext(s) ==
  LET count == Len(iSoundStack[s])
  IN  /\ running /\ s \in Open
      /\ count > 1
      /\ soundMaps' = soundMaps \ {iSoundStack[s][count]}
      /\ iSoundStack' = [iSoundStack EXCEPT ![s] = SubSeq(@, 1, count - 1)]
      /\ UNCHANGED <<iDefaultSoundMap, soundVars, lockVars, sessionVars, serverVars>>

BringToForeground(s) ==
  /\ running /\ s \in Open
  /\ ~iContextLocked
  /\ iCurrentSoundStack' = s
  /\ UNCHANGED <<iContextLocked, iHasLockedContext, soundVars, mapVars,
                 sessionVars, serverVars>>

LockContext(s) ==
  /\ running /\ s \in Open
  /\ ~iContextLocked /\ iCurrentSoundStack = s
  /\ iContextLocked' = TRUE
  /\ iHasLockedContext' = [iHasLockedContext EXCEPT ![s] = TRUE]
  /\ UNCHANGED <<iCurrentSoundStack, soundVars, mapVars, sessionVars, serverVars>>

\* EKeySoundServerReleaseContext does not ask who locked the context.
ReleaseContext(s) ==
  /\ running /\ s \in Open
  /\ iContextLocked' = FALSE
  /\ iHasLockedContext' = [iHasLockedContext EXCEPT ![s] = FALSE]
  /\ UNCHANGED <<iCurrentSoundStack, soundVars, mapVars, sessionVars, serverVars>>

-----------------------------------------------------------------------------
(* Keys.                                                                   *)

DisableNextKeySound(s, scancode) ==
  /\ running /\ s \in Open
  /\ iDisabledScanCode' = scancode
  /\ UNCHANGED <<running, soundVars, mapVars, lockVars, sessionVars>>

(* EKeySoundServerPlayKey.  A map of the current stack may name a sid for  *)
(* the key; the sound of a disabled key is skipped once.  Playing a sound  *)
(* changes nothing here: the sound infos of this build are silent.         *)
PlayKey(scancode) ==
  /\ running
  /\ iCurrentSoundStack # None /\ iSoundStack[iCurrentSoundStack] # <<>>
  /\ iDisabledScanCode' = IF scancode = iDisabledScanCode THEN NoScanCode
                          ELSE iDisabledScanCode
  /\ UNCHANGED <<running, soundVars, mapVars, lockVars, sessionVars>>

\* EKeySoundServerCloseServer, from a client in the server's own process.
CloseServer ==
  /\ running /\ Open # {}
  /\ running' = FALSE
  /\ UNCHANGED <<iDisabledScanCode, soundVars, mapVars, lockVars, sessionVars>>

Next ==
  \/ \E s \in Sessions :
       \/ Connect(s)
       \/ \E uid \in Uids : InitSession(s, uid)
       \/ Close(s)
       \/ \E uid \in Uids \cup {DefaultUid}, added \in SUBSET (1 .. SoundsPerLoad),
             complete \in BOOLEAN : AddSoundIdBuffer(s, uid, added, complete)
       \/ PushContext(s)
       \/ PopContext(s)
       \/ BringToForeground(s)
       \/ LockContext(s)
       \/ ReleaseContext(s)
       \/ \E scancode \in ScanCodes : DisableNextKeySound(s, scancode)
  \/ \E scancode \in ScanCodes : PlayKey(scancode)
  \/ HandleNotifyInt
  \/ CloseServer

Spec == Init /\ [][Next]_vars

-----------------------------------------------------------------------------
(* What is true of every state.                                            *)

(* Every variable keeps its type, and every sid belongs to an application  *)
(* that has a session uid (AddSoundIdBufferL builds sids, RemoveSids takes *)
(* them apart again).                                                      *)
SoundTypeOK ==
  /\ iSidList \in Seq([iSid : Nat, iSoundInfo : SoundInfos])
  /\ \A i \in DOMAIN iSidList : UidOf(iSidList[i].iSid) \in Uids \cup {DefaultUid}
  /\ iSoundList \in Seq(SoundInfos)
  /\ soundInfos \subseteq SoundInfos

SessionTypeOK ==
  /\ running \in BOOLEAN /\ iInit \in BOOLEAN /\ iContextLocked \in BOOLEAN
  /\ iDefaultSoundMap \in SoundMaps \cup {NoMap}
  /\ soundMaps \subseteq SoundMaps
  /\ iCurrentSoundStack \in Sessions \cup {None}
  /\ iDisabledScanCode \in ScanCodes \cup {NoScanCode}
  /\ client \in [Sessions -> ClientStates]
  /\ iClientUid \in [Sessions -> Uids \cup {0}]
  /\ iHasLockedContext \in [Sessions -> BOOLEAN]
  /\ iOwnsDefaultSounds \in [Sessions -> BOOLEAN]
  /\ iSoundStack \in [Sessions -> Seq(SoundMaps)]

TypeOK == SoundTypeOK /\ SessionTypeOK

(* A locked context has a holder: the session in the foreground, which     *)
(* knows that it holds the lock and will unlock when it goes away.  Without*)
(* a holder no client could ever come to the foreground again.             *)
LockHasHolder ==
  iContextLocked => /\ iCurrentSoundStack \in Open
                    /\ iHasLockedContext[iCurrentSoundStack]

(* The foreground stack is the stack of a session that is still there.     *)
ForegroundOpen == iCurrentSoundStack # None => iCurrentSoundStack \in Open

(* No sound map in use is destroyed, although every session has the default*)
(* map in its stack, and sessions pop and destroy maps in any order: the   *)
(* maps in the stacks and the default map are alive, and a map above the   *)
(* bottom of a stack is in no other place.                                 *)
MapsLive ==
  /\ iDefaultSoundMap # NoMap => iDefaultSoundMap \in soundMaps
  /\ \A s \in Sessions : \A i \in DOMAIN iSoundStack[s] :
       /\ iSoundStack[s][i] \in soundMaps
       /\ i > 1 => /\ iSoundStack[s][i] # iDefaultSoundMap
                   /\ \A t \in Sessions : \A j \in DOMAIN iSoundStack[t] :
                        iSoundStack[s][i] = iSoundStack[t][j] => s = t /\ i = j

(* The sid list is sorted as FindIsq needs it, as long as the sound list   *)
(* (RemoveSids deletes from both at one index), and names each living sound*)
(* info once: PlaySid never plays a deleted one, and none is lost.         *)
SidListSound ==
  /\ Len(iSidList) = Len(iSoundList)
  /\ \A i, j \in DOMAIN iSidList :
       i < j => /\ iSidList[i].iSid <= iSidList[j].iSid
                /\ iSidList[i].iSoundInfo # iSidList[j].iSoundInfo
  /\ soundInfos = {iSidList[i].iSoundInfo : i \in DOMAIN iSidList}

(* The loop of RemoveSids, which deletes while it walks, does in any state *)
(* what it is for: it takes the last copy of each of the application's     *)
(* sids and keeps the rest in order.                                       *)
RemoveSidsTakesLastCopies ==
  \A uid \in Uids \cup {DefaultUid} :
    LET kept == {i \in DOMAIN iSidList :
                   \/ UidOf(iSidList[i].iSid) # uid
                   \/ \E j \in DOMAIN iSidList :
                        j > i /\ iSidList[j].iSid = iSidList[i].iSid}
        inOrder == SetToSortSeq(kept, LAMBDA m, n : m < n)
    IN  RemoveSids(lists, uid).sids =
          [k \in 1 .. Cardinality(kept) |-> iSidList[inOrder[k]]]

(* At most one client at a time is told to load the default sounds, or has *)
(* loaded them; while there is one, iInit keeps others from loading them.  *)
DefaultLoader(s) == client[s] = "loadDefaults" \/ iOwnsDefaultSounds[s]

OneDefaultLoader ==
  /\ \A s, t \in Sessions : DefaultLoader(s) /\ DefaultLoader(t) => s = t
  /\ (\E s \in Sessions : DefaultLoader(s)) => iInit

(* While the context is locked, no message changes the foreground stack.   *)
LockKeepsForeground ==
  [][iContextLocked /\ iContextLocked'
       => iCurrentSoundStack' = iCurrentSoundStack]_vars

(* The server implements the sound context it promises its clients.        *)
Context == INSTANCE SoundContext WITH
             Clients <- Sessions, NoClient <- None,
             foreground <- iCurrentSoundStack, locked <- iContextLocked

ImplementsSoundContext == Context!Spec

-----------------------------------------------------------------------------
(* What comments in the source say, and the code does not do.              *)

(* "Remove sound at this position" (eikkeysoundserver.cpp:732): the sound  *)
(* RemoveSids deletes leaves both lists, so iSoundList, which the volume   *)
(* changes walk, names living sounds only.                                 *)
SoundListLive == ToSet(iSoundList) \subseteq soundInfos

(* "Remember if this session is loading the default sounds, so they can be *)
(* restored if this session goes down" (eikkeysoundserver.cpp:596): while  *)
(* iInit keeps others from loading them, somebody loads or has loaded them.*)
DefaultSoundsRestored == iInit => \E s \in Sessions : DefaultLoader(s)
=============================================================================
