------------------------------ MODULE Drm_proof ------------------------------
(***************************************************************************)
(* Proofs about the DRM common parts.  The rights server, for any files,      *)
(* contents and sessions: rights are granted once, a file stays only where     *)
(* its directory's import stopped, the backup client's handler exists, and     *)
(* the lists of users are right.  The key storage, for any roots: the chain    *)
(* fits the key, no root is lost but by an import that was cut short, the key  *)
(* is lost only so, and the serial number never changes.                    *)
(***************************************************************************)
EXTENDS RightsServer, DrmKeyStorage, FiniteSetTheorems, TLAPS

(* The rights server.                                                      *)

Types ==
  /\ file \in [Files -> Contents \cup NotRights \cup {None}]
  /\ granted \in [Files -> 0..2]
  /\ todo \subseteq Files /\ added \in Files \cup {None}
  /\ stopped \in [Directories -> Files \cup {None, "listing"}]

Importing == added # None => phase \in Directories

(* A file that was added once is gone, or just being deleted.                *)
Once(f) ==
  \/ granted[f] = 0
  \/ granted[f] <= 1 /\ (file[f] = None \/ added = f)
  \/ f \in Undeletable
  \/ f \in cutShort

OfDirectory == phase \in Directories => \A f \in todo : DirectoryOf(f) = phase

(* A file is still to come in its turn, or its directory was stopped.          *)
Running == {"internal", "disk", "naming", "up"}
Turn(f) ==
  \/ f \in Undeletable
  \/ stopped[DirectoryOf(f)] # None
  \/ phase \notin Running
  \/ phase = "internal" /\ DirectoryOf(f) = "disk"
  \/ phase = DirectoryOf(f) /\ f \in todo

ImportInv ==
  /\ Types /\ Importing /\ OfDirectory
  /\ \A f \in Files : Once(f)
  /\ \A f \in Files : file[f] # None => Turn(f)

-----------------------------------------------------------------------------
LEMMA DirectoryType == \A f \in Files : DirectoryOf(f) \in Directories
  BY DEF DirectoryOf, Directories

(* What leaves the files and the import alone keeps the invariant, if the       *)
(* process does not go on to or within the import.                          *)
LEMMA ImportAlone ==
  ASSUME ImportInv, UNCHANGED <<file, granted, cutShort, todo, added, stopped>>,
         \/ phase' = phase
         \/ phase' \notin Running /\ added = None
  PROVE  ImportInv'
  <1>1. Types' /\ Importing' /\ OfDirectory'
    BY DEF ImportInv, Types, Importing, OfDirectory, Running, Directories, DirectoryOf
  <1>2. \A f \in Files : Once(f)'
    BY DEF ImportInv, Once
  <1>3. \A f \in Files : file'[f] # None => Turn(f)'
    BY DEF ImportInv, Turn, DirectoryOf
  <1> QED BY <1>1, <1>2, <1>3 DEF ImportInv

LEMMA TriesKeep ==
  ASSUME ImportInv, NEW e, TryLeaves(e), phase \notin Directories
  PROVE  ImportInv'
  <1>1. UNCHANGED <<file, granted, cutShort, todo, added, stopped>>
    BY DEF TryLeaves, disk
  <1>2. phase' \notin Running /\ added = None
    BY DEF TryLeaves, Running, ImportInv, Importing
  <1> QED BY <1>1, <1>2, ImportAlone

(* The import of a directory begins, with the files that are there.            *)
LEMMA ListsKeep ==
  ASSUME ImportInv, NEW d \in Directories, Lists(d), phase' = d, added = None,
         \/ phase \notin Running /\ d = "internal"
         \/ phase = "internal" /\ todo = {} /\ d = "disk",
         UNCHANGED <<file, granted, cutShort, added>>
  PROVE  ImportInv'
  <1> USE DirectoryType
  <1>1. PICK listed \in BOOLEAN :
          IF listed
          THEN /\ todo' = {f \in Files : DirectoryOf(f) = d /\ file[f] # None}
               /\ stopped' = [stopped EXCEPT ![d] = None]
          ELSE todo' = {} /\ stopped' = [stopped EXCEPT ![d] = "listing"]
    <2>1. CASE /\ todo' = {f \in Files : DirectoryOf(f) = d /\ file[f] # None}
               /\ stopped' = [stopped EXCEPT ![d] = None]
      BY <2>1
    <2>2. CASE todo' = {} /\ stopped' = [stopped EXCEPT ![d] = "listing"]
      BY <2>2
    <2> QED BY <2>1, <2>2 DEF Lists
  <1>2. Types'
    BY <1>1 DEF ImportInv, Types
  <1>3. Importing' /\ OfDirectory'
    BY <1>1 DEF Importing, OfDirectory, DirectoryOf
  <1>4. \A f \in Files : Once(f)'
    BY DEF ImportInv, Once
  <1>5. ASSUME NEW f \in Files, file'[f] # None
        PROVE  Turn(f)'
    <2>1. CASE DirectoryOf(f) = d
      <3>1. CASE listed
        BY <1>1, <1>5, <2>1, <3>1 DEF Turn, DirectoryOf
      <3>2. CASE ~listed
        <4>1. stopped'[d] = "listing"
          BY <1>1, <3>2 DEF ImportInv, Types
        <4> QED BY <2>1, <4>1, NoneAssumption DEF Turn, DirectoryOf
      <3> QED BY <3>1, <3>2
    <2>2. CASE DirectoryOf(f) # d /\ d = "internal"
      <3>1. DirectoryOf(f)' = "disk"
        BY <2>2 DEF DirectoryOf
      <3> QED BY <2>2, <3>1 DEF Turn
    <2>3. CASE DirectoryOf(f) # d /\ d = "disk"
      <3>1. DirectoryOf(f) = "internal" /\ DirectoryOf(f)' = "internal"
        BY <2>3 DEF DirectoryOf
      <3>2. phase = "internal" /\ todo = {} /\ Turn(f)
        BY <1>5, <2>3 DEF ImportInv
      <3>3. f \in Undeletable \/ stopped["internal"] # None
        BY <3>1, <3>2 DEF Turn, Running
      <3>4. stopped'["internal"] = stopped["internal"]
        BY <1>1, <2>3 DEF ImportInv, Types, Directories
      <3> QED BY <3>1, <3>3, <3>4 DEF Turn
    <2> QED BY <2>1, <2>2, <2>3 DEF Directories
  <1> QED BY <1>2, <1>3, <1>4, <1>5 DEF ImportInv

LEMMA LeavesKeeps ==
  ASSUME ImportInv, NEW f \in todo, phase \in Directories, added = None, ImportLeaves(f)
  PROVE  ImportInv'
  <1> USE DirectoryType
  <1>1. /\ f \in Files /\ todo' = {} /\ added' = None /\ phase' = phase
        /\ stopped' = [stopped EXCEPT ![DirectoryOf(f)] = f]
        /\ UNCHANGED <<file, granted, cutShort, added>>
    BY DEF ImportLeaves, ImportInv, Types, start, disk
  <1>2. Types'
    BY <1>1 DEF ImportInv, Types
  <1>3. Importing' /\ OfDirectory'
    BY <1>1 DEF Importing, OfDirectory
  <1>4. \A g \in Files : Once(g)'
    BY <1>1 DEF ImportInv, Once
  <1>5. ASSUME NEW g \in Files, file'[g] # None
        PROVE  Turn(g)'
    <2>1. DirectoryOf(f) = phase
      BY DEF ImportInv, OfDirectory
    <2>2. CASE DirectoryOf(g) = phase
      <3>1. stopped'[DirectoryOf(g)] = f
        BY <1>1, <2>1, <2>2 DEF ImportInv, Types
      <3> QED BY <1>1, <3>1, NoneAssumption DEF Turn, DirectoryOf
    <2>3. CASE DirectoryOf(g) # phase
      <3>1. stopped'[DirectoryOf(g)] = stopped[DirectoryOf(g)]
        BY <1>1, <2>1, <2>3 DEF ImportInv, Types
      <3>2. Turn(g)
        BY <1>1, <1>5 DEF ImportInv
      <3> QED BY <1>1, <2>3, <3>1, <3>2 DEF Turn, DirectoryOf
    <2> QED BY <2>2, <2>3
  <1> QED BY <1>2, <1>3, <1>4, <1>5 DEF ImportInv

LEMMA AddsKeep ==
  ASSUME ImportInv, NEW f \in todo, phase \in Directories, added = None,
         AddRights(f) \/ NoRights(f)
  PROVE  ImportInv'
  <1>1. /\ f \in Files /\ added' = f
        /\ UNCHANGED <<phase, file, todo, cutShort, stopped>>
    BY DEF AddRights, NoRights, ImportInv, Types, start, disk
  <1>2. file[f] # None
    BY NoneAssumption DEF AddRights, NoRights
  <1>3. \/ granted' = granted
        \/ granted' = [granted EXCEPT ![f] = IF @ < 2 THEN @ + 1 ELSE @]
    BY DEF AddRights, NoRights, disk
  <1>4. granted' \in [Files -> 0..2]
    BY <1>1, <1>3 DEF ImportInv, Types
  <1>5. Types' /\ Importing' /\ OfDirectory'
    BY <1>1, <1>4 DEF ImportInv, Types, Importing, OfDirectory, DirectoryOf
  <1>6. ASSUME NEW g \in Files
        PROVE  Once(g)'
    <2>1. Once(g)
      BY DEF ImportInv
    <2>2. CASE g # f
      <3>1. granted'[g] = granted[g]
        BY <1>1, <1>3, <2>2 DEF ImportInv, Types
      <3> QED BY <1>1, <2>1, <2>2, <3>1, NoneAssumption DEF Once
    <2>3. CASE g = f
      <3>1. granted[f] = 0 \/ f \in Undeletable \/ f \in cutShort
        BY <1>1, <1>2, <2>1, <2>3, NoneAssumption DEF Once
      <3>2. granted[f] = 0 => granted'[f] <= 1
        BY <1>1, <1>3 DEF ImportInv, Types
      <3> QED BY <1>1, <2>3, <3>1, <3>2 DEF Once
    <2> QED BY <2>2, <2>3
  <1>7. \A g \in Files : file'[g] # None => Turn(g)'
    BY <1>1 DEF ImportInv, Turn, DirectoryOf
  <1> QED BY <1>5, <1>6, <1>7 DEF ImportInv

LEMMA FileDoneKeeps ==
  ASSUME ImportInv, FileDone
  PROVE  ImportInv'
  <1>1. /\ added \in Files /\ added' = None /\ todo' = todo \ {added}
        /\ file' = IF added \in Undeletable THEN file ELSE [file EXCEPT ![added] = None]
        /\ UNCHANGED <<phase, granted, cutShort, stopped>>
    BY DEF FileDone, DeleteImported, Delete, ImportInv, Types, start
  <1>2. Types' /\ Importing' /\ OfDirectory'
    BY <1>1 DEF ImportInv, Types, Importing, OfDirectory, DirectoryOf
  <1>3. ASSUME NEW g \in Files
        PROVE  Once(g)' /\ (file'[g] # None => Turn(g)')
    <2>1. Once(g) /\ (file[g] # None => Turn(g))
      BY DEF ImportInv
    <2>2. CASE g # added
      <3>1. file'[g] = file[g] /\ (g \in todo' <=> g \in todo)
        BY <1>1, <2>2 DEF ImportInv, Types
      <3> QED BY <1>1, <2>1, <2>2, <3>1 DEF Once, Turn, DirectoryOf
    <2>3. CASE g = added /\ g \in Undeletable
      BY <1>1, <2>3 DEF Once, Turn
    <2>4. CASE g = added /\ g \notin Undeletable
      <3>1. file'[g] = None
        BY <1>1, <2>4 DEF ImportInv, Types
      <3> QED BY <1>1, <2>1, <2>4, <3>1 DEF Once
    <2> QED BY <2>2, <2>3, <2>4
  <1> QED BY <1>2, <1>3 DEF ImportInv

LEMMA DirectoryDoneKeeps ==
  ASSUME ImportInv, DirectoryDone
  PROVE  ImportInv'
  <1>1. CASE phase = "internal" /\ AfterInternal
    <2>1. /\ phase' = "disk" /\ Lists("disk") /\ added = None /\ todo = {}
          /\ UNCHANGED <<file, granted, cutShort, added>>
      BY <1>1 DEF AfterInternal, NextDirectory, DirectoryDone, disk
    <2> QED BY <1>1, <2>1, ListsKeep DEF Directories
  <1>2. CASE phase = "disk" /\ GoesOnTo("naming")
    <2>1. /\ phase' = "naming" /\ added = None /\ todo = {}
          /\ UNCHANGED <<file, granted, cutShort, todo, added, stopped>>
      BY <1>2 DEF DirectoryDone, GoesOnTo, import, disk
    <2>2. Types' /\ Importing' /\ OfDirectory'
      BY <2>1 DEF ImportInv, Types, Importing, OfDirectory, DirectoryOf
    <2>3. \A f \in Files : Once(f)'
      BY <2>1 DEF ImportInv, Once
    <2>4. \A f \in Files : file'[f] # None => Turn(f)'
      BY <1>2, <2>1 DEF ImportInv, Turn, DirectoryOf, Running
    <2> QED BY <2>2, <2>3, <2>4 DEF ImportInv
  <1> QED BY <1>1, <1>2 DEF DirectoryDone

LEMMA ConstructKeeps ==
  ASSUME ImportInv, Construct
  PROVE  ImportInv'
  <1>1. CASE Opens
    <2>1. phase \notin Directories
      BY <1>1 DEF Opens, Directories
    <2>2. CASE GoesOnTo("notifier")
      <3>1. /\ UNCHANGED <<file, granted, cutShort, todo, added, stopped>>
            /\ phase' \notin Running
        BY <2>2 DEF GoesOnTo, import, disk, Running
      <3>2. added = None
        BY <2>1 DEF ImportInv, Importing
      <3> QED BY <3>1, <3>2, ImportAlone
    <2> QED BY <1>1, <2>1, <2>2, TriesKeep DEF Opens
  <1>2. CASE StartThreadL
    <2>1. phase \notin Directories
      BY <1>2 DEF StartThreadL, Directories, Threads
    <2>2. added = None
      BY <2>1 DEF ImportInv, Importing
    <2>3. CASE /\ phase' = CASE phase = "notifier" -> "roap" [] phase = "roap" -> "clock"
                             [] OTHER -> "joining"
               /\ UNCHANGED <<count, error, client, import, backups, users>>
      <3>1. phase' \in {"roap", "clock", "joining"}
        BY <2>3
      <3>2. UNCHANGED <<file, granted, cutShort, todo, added, stopped>>
        BY <2>3 DEF import, disk
      <3> QED BY <2>2, <3>1, <3>2, ImportAlone DEF Running
    <2> QED BY <1>2, <2>1, <2>3, TriesKeep DEF StartThreadL
  <1>3. CASE Joins
    <2>1. phase \notin Directories /\ phase \notin Running
      BY <1>3 DEF Joins, Directories, Running
    <2>2. added = None
      BY <2>1 DEF ImportInv, Importing
    <2>3. CASE /\ phase' = "internal" /\ Lists("internal")
               /\ UNCHANGED <<others, disk, added, backups, users>>
      <3>1. UNCHANGED <<file, granted, cutShort, added>>
        BY <2>3 DEF disk
      <3> QED BY <2>1, <2>2, <2>3, <3>1, ListsKeep DEF Directories
    <2> QED BY <1>3, <2>1, <2>3, TriesKeep DEF Joins
  <1>4. CASE \E f \in todo : ImportFile(f)
    BY <1>4, LeavesKeeps, AddsKeep DEF ImportFile
  <1>5. CASE FileDone
    BY <1>5, FileDoneKeeps
  <1>6. CASE DirectoryDone
    BY <1>6, DirectoryDoneKeeps
  <1>7. CASE Named
    <2>1. phase = "naming" /\ phase \notin Directories
      BY <1>7 DEF Named, Directories
    <2>2. CASE phase' = "up" /\ UNCHANGED import
      <3>1. UNCHANGED <<file, granted, cutShort, todo, added, stopped>>
        BY <2>2 DEF import, disk
      <3>2. Types' /\ Importing' /\ OfDirectory'
        BY <2>1, <2>2, <3>1 DEF ImportInv, Types, Importing, OfDirectory, Directories, DirectoryOf
      <3>3. \A f \in Files : Once(f)'
        BY <3>1 DEF ImportInv, Once
      <3>4. \A f \in Files : file'[f] # None => Turn(f)'
        BY <2>1, <2>2, <3>1, DirectoryType DEF ImportInv, Turn, DirectoryOf, Running, Directories
      <3> QED BY <3>2, <3>3, <3>4 DEF ImportInv
    <2> QED BY <1>7, <2>1, <2>2, TriesKeep DEF Named
  <1> QED BY <1>1, <1>2, <1>3, <1>4, <1>5, <1>6, <1>7 DEF Construct

LEMMA OffKeeps ==
  ASSUME ImportInv, Off
  PROVE  ImportInv'
  <1>1. /\ phase' = "down" /\ todo' = {} /\ added' = None
        /\ cutShort' = IF added = None THEN cutShort ELSE cutShort \cup {added}
        /\ stopped' = [d \in Directories |-> None]
        /\ UNCHANGED <<file, granted>>
    BY DEF Off
  <1>2. Types' /\ Importing' /\ OfDirectory'
    BY <1>1 DEF ImportInv, Types, Importing, OfDirectory
  <1>3. \A f \in Files : Once(f)'
    BY <1>1 DEF ImportInv, Once
  <1>4. \A f \in Files : Turn(f)'
    BY <1>1 DEF Turn, Running
  <1> QED BY <1>2, <1>3, <1>4 DEF ImportInv

LEMMA PutKeeps ==
  ASSUME ImportInv, PutFile
  PROVE  ImportInv'
  <1>1. PICK f \in Files, k \in Contents \cup NotRights :
          /\ file' = [file EXCEPT ![f] = k]
          /\ granted' = [granted EXCEPT ![f] = 0]
          /\ cutShort' = cutShort \ {f}
    BY DEF PutFile
  <1>2. UNCHANGED <<phase, todo, added, stopped>> /\ phase = "down"
    BY DEF PutFile, start
  <1>3. Types' /\ Importing' /\ OfDirectory'
    BY <1>1, <1>2 DEF ImportInv, Types, Importing, OfDirectory, DirectoryOf
  <1>4. ASSUME NEW g \in Files
        PROVE  Once(g)'
    <2>1. CASE g = f
      BY <1>1, <2>1 DEF ImportInv, Types, Once
    <2>2. CASE g # f
      <3>1. granted'[g] = granted[g] /\ file'[g] = file[g]
        BY <1>1, <2>2 DEF ImportInv, Types
      <3> QED BY <1>1, <1>2, <2>2, <3>1 DEF ImportInv, Once
    <2> QED BY <2>1, <2>2
  <1>5. \A g \in Files : Turn(g)'
    BY <1>2 DEF Turn, Running
  <1> QED BY <1>3, <1>4, <1>5 DEF ImportInv

LEMMA GoneKeeps ==
  ASSUME ImportInv, Gone
  PROVE  ImportInv'
  <1>1. /\ phase = "ended" /\ phase' = "down"
        /\ stopped' = [d \in Directories |-> None]
        /\ UNCHANGED <<file, granted, cutShort, todo, added>>
    BY DEF Gone, disk
  <1>2. added = None
    BY <1>1 DEF ImportInv, Importing, Directories
  <1>3. Types' /\ Importing' /\ OfDirectory'
    BY <1>1, <1>2 DEF ImportInv, Types, Importing, OfDirectory, Directories
  <1>4. \A f \in Files : Once(f)'
    BY <1>1 DEF ImportInv, Once
  <1>5. \A f \in Files : Turn(f)'
    BY <1>1 DEF Turn, Running
  <1> QED BY <1>3, <1>4, <1>5 DEF ImportInv

(* What starts, ends and is called by clients leaves the import alone.          *)
LEMMA OthersKeep ==
  ASSUME ImportInv,
         ClientStarts \/ TryAgain \/ GivesUp \/ HandleBackupEvent \/ SessionCalls
           \/ StopWatching \/ RightsGone \/ Dies
  PROVE  ImportInv'
  <1>1. UNCHANGED <<file, granted, cutShort, todo, added, stopped>>
    BY DEF ClientStarts, TryAgain, GivesUp, HandleBackupEvent, SessionCalls, StopWatching,
           RightsGone, Dies, import, disk
  <1>2. \/ phase' = phase
        \/ phase \notin Directories /\ phase' \notin Running
    BY DEF ClientStarts, TryAgain, GivesUp, HandleBackupEvent, SessionCalls, StopWatching,
           RightsGone, Dies, start, Directories, Running
  <1>3. \/ phase' = phase
        \/ phase' \notin Running /\ added = None
    BY <1>2 DEF ImportInv, Importing
  <1> QED BY <1>1, <1>3, ImportAlone

LEMMA ImportInduction == ImportInv /\ [Next]_vars => ImportInv'
  <1> SUFFICES ASSUME ImportInv, [Next]_vars PROVE ImportInv'
    OBVIOUS
  <1>1. CASE StartDBServer
    BY <1>1, ConstructKeeps, OthersKeep DEF StartDBServer
  <1>2. CASE HandleBackupEvent \/ SessionCalls \/ StopWatching \/ Dies
    BY <1>2, OthersKeep
  <1>3. CASE Gone
    BY <1>3, GoneKeeps
  <1>4. CASE Environment
    BY <1>4, OffKeeps, PutKeeps, OthersKeep DEF Environment, PowerLost, WatchedObjectChanged
  <1>5. CASE UNCHANGED vars
    <2>1. UNCHANGED <<file, granted, cutShort, todo, added, stopped, phase>>
      BY <1>5 DEF vars, import, disk, start
    <2> QED BY <2>1, ImportAlone
  <1> QED BY <1>1, <1>2, <1>3, <1>4, <1>5 DEF Next

THEOREM ImportInvariant == Spec => []ImportInv
  <1>1. Init => ImportInv
    <2> SUFFICES ASSUME Init PROVE ImportInv
      OBVIOUS
    <2>1. Types /\ Importing /\ OfDirectory
      BY DEF Init, Types, Importing, OfDirectory
    <2>2. \A f \in Files : Once(f) /\ Turn(f)
      BY DEF Init, Once, Turn, Running
    <2> QED BY <2>1, <2>2 DEF ImportInv
  <1> QED BY <1>1, ImportInduction, PTL DEF Spec

(* The rights of a file are granted once, whenever the power is lost and        *)
(* however often the server starts (DRMRightsServer.cpp, 1515-1524).          *)
THEOREM RightsOnce == Spec => []GrantedOnce
  <1>1. ImportInv => GrantedOnce
    BY DEF ImportInv, Types, Once, GrantedOnce
  <1> QED BY <1>1, ImportInvariant, PTL

(* A server that is up leaves a file only in a directory whose import was       *)
(* stopped: the other directory is imported all the same.                    *)
THEOREM ImportComplete == Spec => []LeftOnlyWhereStopped
  <1>1. ImportInv => LeftOnlyWhereStopped
    BY DirectoryType DEF ImportInv, Turn, Running, LeftOnlyWhereStopped, Directories
  <1> QED BY <1>1, ImportInvariant, PTL

-----------------------------------------------------------------------------
(* Whatever backup events come and fail, the backup client's handler exists.     *)
THEOREM HandlerExists == Spec => []BackupHasHandler
  <1>1. Init => BackupHasHandler
    BY DEF Init, BackupHasHandler
  <1>2. BackupHasHandler /\ [Next]_vars => BackupHasHandler'
    <2> SUFFICES ASSUME BackupHasHandler, [Next]_vars PROVE BackupHasHandler'
      OBVIOUS
    <2>1. CASE UNCHANGED backups
      BY <2>1 DEF backups, BackupHasHandler
    <2>2. CASE HandleBackupEvent
      <3>1. CASE BackupOver \/ NotAffected
        BY <3>1 DEF BackupOver, NotAffected, BackupHasHandler
      <3>2. CASE BackupBegins
        BY <3>2 DEF BackupBegins, BackupHasHandler
      <3> QED BY <2>2, <3>1, <3>2 DEF HandleBackupEvent, BeginBackup
    <2>3. CASE NoBackup
      BY <2>3 DEF NoBackup, BackupHasHandler
    <2>4. CASE StartDBServer
      <3>1. UNCHANGED backups
        BY <2>4 DEF StartDBServer, ClientStarts, TryAgain, GivesUp, Construct, Opens,
           StartThreadL, Joins, ImportFile, ImportLeaves, AddRights, NoRights, FileDone,
           DirectoryDone, AfterInternal, NextDirectory, Named, GoesOnTo, TryLeaves
      <3> QED BY <2>1, <3>1
    <2>5. CASE SessionCalls \/ StopWatching \/ Gone
      BY <2>1, <2>5 DEF SessionCalls, StopWatching, Gone
    <2>6. CASE Dies
      BY <2>3, <2>6 DEF Dies
    <2>7. CASE Environment
      BY <2>1, <2>3, <2>7 DEF Environment, PowerLost, WatchedObjectChanged, PutFile, RightsGone, Off
    <2>8. CASE UNCHANGED vars
      BY <2>1, <2>8 DEF vars
    <2> QED BY <2>2, <2>4, <2>5, <2>6, <2>7, <2>8 DEF Next
  <1> QED BY <1>1, <1>2, PTL DEF Spec

-----------------------------------------------------------------------------
UsersTypes ==
  /\ counting \subseteq Contents
  /\ urls \in [Contents -> Nat]
  /\ playing \in [Contents -> SUBSET Sessions]
  /\ accessing \in [Contents -> SUBSET Sessions]

UsersInv == UsersTypes /\ UsersKnown

LEMMA PlayingKeeps ==
  ASSUME UsersInv, NEW s \in Sessions, NEW c \in Contents,
         AddActiveCountConstraint(s, c) \/ RemoveActiveCountConstraint(s, c)
  PROVE  UsersInv'
  <1>1. UNCHANGED <<urls, accessing>>
    BY DEF AddActiveCountConstraint, RemoveActiveCountConstraint
  <1>2. UsersTypes'
    BY <1>1 DEF UsersInv, UsersTypes, AddActiveCountConstraint, RemoveActiveCountConstraint
  <1>3. \A d \in Contents : d \in counting' => playing'[d] # {}
    BY DEF UsersInv, UsersTypes, UsersKnown, AddActiveCountConstraint, RemoveActiveCountConstraint
  <1>4. \A d \in Contents : urls'[d] = Cardinality(accessing'[d])
    BY <1>1 DEF UsersInv, UsersKnown
  <1> QED BY <1>2, <1>3, <1>4 DEF UsersInv, UsersKnown

(* The reference counter of an URL goes with the set of those that access it.    *)
LEMMA AccessingKeeps ==
  ASSUME UsersInv, NEW s \in Sessions, NEW c \in Contents,
         AddAccessingUrl(s, c) \/ RemoveAccessingUrl(s, c)
  PROVE  UsersInv'
  <1>1. UNCHANGED <<counting, playing>>
    BY DEF AddAccessingUrl, RemoveAccessingUrl
  <1>2. /\ IsFiniteSet(accessing[c]) /\ urls[c] = Cardinality(accessing[c])
        /\ urls[c] \in Nat
    BY SessionsAssumption, FS_Subset DEF UsersInv, UsersTypes, UsersKnown
  <1>3. CASE AddAccessingUrl(s, c)
    <2>1. /\ s \notin accessing[c] /\ urls' = [urls EXCEPT ![c] = @ + 1]
          /\ accessing' = [accessing EXCEPT ![c] = @ \cup {s}]
      BY <1>3 DEF AddAccessingUrl
    <2>2. Cardinality(accessing[c] \cup {s}) = Cardinality(accessing[c]) + 1
      BY <1>2, <2>1, FS_AddElement
    <2>3. UsersTypes'
      BY <1>1, <2>1 DEF UsersInv, UsersTypes
    <2>4. urls'[c] = urls[c] + 1 /\ accessing'[c] = accessing[c] \cup {s}
      BY <2>1 DEF UsersInv, UsersTypes
    <2>5. \A d \in Contents \ {c} : urls'[d] = urls[d] /\ accessing'[d] = accessing[d]
      BY <2>1 DEF UsersInv, UsersTypes
    <2> QED BY <1>1, <1>2, <2>2, <2>3, <2>4, <2>5 DEF UsersInv, UsersKnown
  <1>4. CASE RemoveAccessingUrl(s, c)
    <2>1. /\ s \in accessing[c] /\ urls' = [urls EXCEPT ![c] = LessOne(@)]
          /\ accessing' = [accessing EXCEPT ![c] = @ \ {s}]
      BY <1>4 DEF RemoveAccessingUrl
    <2>2. Cardinality(accessing[c] \ {s}) = Cardinality(accessing[c]) - 1
      BY <1>2, <2>1, FS_RemoveElement
    <2>3. Cardinality(accessing[c] \ {s}) \in Nat
      BY <1>2, FS_RemoveElement, FS_CardinalityType
    <2>4. LessOne(urls[c]) = urls[c] - 1 /\ urls[c] - 1 \in Nat
      BY <1>2, <2>2, <2>3 DEF LessOne, OneLess
    <2>5. urls'[c] = urls[c] - 1 /\ accessing'[c] = accessing[c] \ {s}
      BY <2>1, <2>4 DEF UsersInv, UsersTypes
    <2>6. UsersTypes'
      BY <1>1, <2>1, <2>4 DEF UsersInv, UsersTypes
    <2>7. \A d \in Contents \ {c} : urls'[d] = urls[d] /\ accessing'[d] = accessing[d]
      BY <2>1 DEF UsersInv, UsersTypes
    <2> QED BY <1>1, <1>2, <2>2, <2>5, <2>6, <2>7 DEF UsersInv, UsersKnown
  <1> QED BY <1>3, <1>4

LEMMA NoUsersKeep ==
  ASSUME NoUsers
  PROVE  UsersInv'
  <1>1. UsersTypes'
    BY DEF NoUsers, UsersTypes
  <1>2. \A c \in Contents : urls'[c] = 0 /\ accessing'[c] = {} /\ c \notin counting'
    BY DEF NoUsers
  <1> QED BY <1>1, <1>2, FS_EmptySet DEF UsersInv, UsersKnown

(* Whatever sessions come and go, an URL is known as accessed until the last      *)
(* is done with it (DRMRightsServer.cpp, 1390-1441), and no content is held        *)
(* by its count that nobody plays (1331-1364).                               *)
THEOREM UsersCounted == Spec => []UsersKnown
  <1>1. Init => UsersInv
    <2> SUFFICES ASSUME Init PROVE UsersInv
      OBVIOUS
    <2>1. UsersTypes
      BY DEF Init, UsersTypes
    <2>2. \A c \in Contents : urls[c] = 0 /\ accessing[c] = {} /\ c \notin counting
      BY DEF Init
    <2> QED BY <2>1, <2>2, FS_EmptySet DEF UsersInv, UsersKnown
  <1>2. UsersInv /\ [Next]_vars => UsersInv'
    <2> SUFFICES ASSUME UsersInv, [Next]_vars PROVE UsersInv'
      OBVIOUS
    <2>1. CASE UNCHANGED <<counting, urls, playing, accessing>>
      BY <2>1 DEF UsersInv, UsersTypes, UsersKnown
    <2>2. CASE NoUsers
      BY <2>2, NoUsersKeep
    <2>3. CASE SessionCalls
      BY <2>3, PlayingKeeps, AccessingKeeps DEF SessionCalls
    <2>4. CASE StartDBServer
      <3>1. UNCHANGED <<counting, urls, playing, accessing>>
        BY <2>4 DEF StartDBServer, ClientStarts, TryAgain, GivesUp, Construct, Opens,
           StartThreadL, Joins, ImportFile, ImportLeaves, AddRights, NoRights, FileDone,
           DirectoryDone, AfterInternal, NextDirectory, Named, GoesOnTo, TryLeaves, users
      <3> QED BY <2>1, <3>1
    <2>5. CASE HandleBackupEvent \/ StopWatching \/ Gone
      BY <2>1, <2>5 DEF HandleBackupEvent, StopWatching, Gone, users
    <2>6. CASE Dies
      BY <2>2, <2>6 DEF Dies
    <2>7. CASE Environment
      BY <2>1, <2>2, <2>7 DEF Environment, PowerLost, WatchedObjectChanged, PutFile, RightsGone,
         Off, users
    <2>8. CASE UNCHANGED vars
      BY <2>1, <2>8 DEF vars, users
    <2> QED BY <2>3, <2>4, <2>5, <2>6, <2>7, <2>8 DEF Next
  <1>3. UsersInv => UsersKnown
    BY DEF UsersInv
  <1> QED BY <1>1, <1>2, <1>3, PTL DEF Spec

-----------------------------------------------------------------------------
(* The key storage.                                                        *)

\* What one finished import writes.
ImportedFolder(pair, signing) ==
  [f \in KeyFiles |-> IF f <= LastFile(signing) THEN pair ELSE None]

\* The folder of a root whose imports have all finished: one pair throughout,
\* and no file of it open.
Whole(r) ==
  /\ \A f \in KeyFiles : <<r, f>> \notin held
  /\ folder[r] # None => \E pair \in Pairs : folder[r] = ImportedFolder(pair, chain[r])

WholeUnlessCut == \A r \in Roots : r \in cut \/ Whole(r)

\* What a selection has set belongs together.
Fits(p) ==
  /\ p \in Places /\ p = PlaceOf(p.root) /\ p.root \in TrustedRoots
  /\ key \in Keys /\ key = [root |-> p.root, pair |-> FileAt(p, KeyFile)]
  /\ p.root \notin cut => rootIsCmla = (p.root \in CmlaRoots)

SelectionFits == rootSelected /\ disturbed = "no" => process = "up" /\ Fits(path)

DownUnselected == process = "down" => ~rootSelected /\ path = None /\ key = None

KeyInv == StorageTypeOK /\ WholeUnlessCut /\ SelectionFits /\ DownUnselected /\ KeyFitsPath

USE RootAssumption, ValueAssumption

-----------------------------------------------------------------------------
(* Files of a place.                                                       *)

LEMMA FileNames ==
  /\ KeyFile \in KeyFiles /\ CertFile \in KeyFiles /\ SigningFiles \subseteq KeyFiles
  /\ \A signing \in 0..Signing :
       /\ LastFile(signing) \in Nat /\ LastFile(signing) \in KeyFiles
       /\ KeyFile \in 1..LastFile(signing) /\ CertFile \in 1..LastFile(signing)
       /\ 1..LastFile(signing) \subseteq KeyFiles
       /\ signing # 0 => LastFile(signing) \in SigningFiles
BY DEF KeyFile, CertFile, LastFile, KeyFiles, SigningFiles

LEMMA RootFileOf ==
  ASSUME StorageTypeOK, NEW r \in TrustedRoots
  PROVE  \E signing \in 0..Signing :
            /\ RootFile(PlaceOf(r)) = LastFile(signing)
            /\ signing = 0 <=> CertificateAlone(r)
            /\ folder[r] # None => signing = chain[r]
<1>1. r \in Roots BY DEF TrustedRoots, Imported
<1>2. chain[r] \in 0..Signing BY <1>1 DEF StorageTypeOK
<1>3. CASE folder[r] = None
  BY <1>3 DEF PlaceOf, RootFile, CertificateAlone
<1>4. CASE folder[r] # None
  BY <1>2, <1>4 DEF PlaceOf, RootFile, CertificateAlone
<1> QED BY <1>3, <1>4

\* A place whose root is whole shows one pair in every file of its chain, which
\* can be read, and no other file.
LEMMA WholePlace ==
  ASSUME StorageTypeOK, NEW r \in TrustedRoots, Whole(r)
  PROVE  /\ PlaceOf(r) \in Places /\ PlaceOf(r).root = r
         /\ FileAt(PlaceOf(r), KeyFile) \in Pairs \cup {RomPair}
         /\ \A f \in 1..RootFile(PlaceOf(r)) :
              FileAt(PlaceOf(r), f) = FileAt(PlaceOf(r), KeyFile) /\ Readable(PlaceOf(r), f)
         /\ folder[r] # None =>
              \A f \in KeyFiles : f \in 1..RootFile(PlaceOf(r)) \/ FileAt(PlaceOf(r), f) = None
<1>1. r \in Roots BY DEF TrustedRoots, Imported
<1>2. PICK signing \in 0..Signing :
       /\ RootFile(PlaceOf(r)) = LastFile(signing)
       /\ folder[r] # None => signing = chain[r]
  BY RootFileOf
<1>3. CASE folder[r] = None
  BY <1>1, <1>2, <1>3, FileNames DEF PlaceOf, Places, FileAt, Readable
<1>4. CASE folder[r] # None
  <2>1. PICK pair \in Pairs : folder[r] = ImportedFolder(pair, signing)
    BY <1>2, <1>4 DEF Whole
  <2>2. PlaceOf(r) = [drive |-> "c", root |-> r] BY <1>4 DEF PlaceOf
  <2>3. \A f \in KeyFiles : FileAt(PlaceOf(r), f) = IF f <= LastFile(signing) THEN pair ELSE None
    BY <2>1, <2>2 DEF FileAt, ImportedFolder
  <2>4. \A f \in KeyFiles : f \in 1..LastFile(signing) <=> f <= LastFile(signing)
    BY FileNames DEF KeyFiles
  <2>5. \A f \in 1..LastFile(signing) : f \in KeyFiles /\ FileAt(PlaceOf(r), f) = pair
    BY <2>3, <2>4, FileNames
  <2>6. KeyFile \in 1..LastFile(signing) BY FileNames
  <2>7. \A f \in 1..LastFile(signing) : Readable(PlaceOf(r), f)
    BY <2>2, <2>5 DEF Readable, Whole
  <2>8. PlaceOf(r) \in Places /\ PlaceOf(r).root = r BY <1>1, <2>2 DEF Places
  <2>9. \A f \in KeyFiles : f \in 1..LastFile(signing) \/ FileAt(PlaceOf(r), f) = None
    BY <2>3, <2>4
  <2> QED BY <1>2, <2>5, <2>6, <2>7, <2>8, <2>9
<1> QED BY <1>3, <1>4

\* Of its signing certificates, if it has any, the last is the root's.
LEMMA WholeSigning ==
  ASSUME StorageTypeOK, NEW r \in TrustedRoots, Whole(r)
  PROVE  /\ SigningFound(PlaceOf(r)) \subseteq 1..RootFile(PlaceOf(r))
         /\ SigningFound(PlaceOf(r)) = {} <=> CertificateAlone(r)
         /\ ~CertificateAlone(r) => TakenForRoot(PlaceOf(r)) = RootFile(PlaceOf(r))
<1>1. PICK signing \in 0..Signing :
       /\ RootFile(PlaceOf(r)) = LastFile(signing)
       /\ signing = 0 <=> CertificateAlone(r)
       /\ folder[r] # None => signing = chain[r]
  BY RootFileOf
<1>2. \A f \in SigningFiles : f \in KeyFiles /\ f \in Nat BY DEF SigningFiles, KeyFiles
<1>3. folder[r] = None => RootFile(PlaceOf(r)) = LastFile(Signing) BY DEF PlaceOf, RootFile
<1>4. SigningFound(PlaceOf(r)) \subseteq 1..RootFile(PlaceOf(r))
  BY <1>2, <1>3, WholePlace DEF SigningFound, KeyFiles
<1>5. CASE signing = 0
  <2>1. 1..RootFile(PlaceOf(r)) \cap SigningFiles = {}
    BY <1>1, <1>5 DEF LastFile, SigningFiles
  <2> QED BY <1>1, <1>4, <1>5, <2>1 DEF SigningFound
<1>6. CASE signing # 0
  <2>1. RootFile(PlaceOf(r)) \in SigningFound(PlaceOf(r))
    <3>1. RootFile(PlaceOf(r)) \in SigningFiles BY <1>1, <1>6, FileNames
    <3>2. RootFile(PlaceOf(r)) \in 1..RootFile(PlaceOf(r)) BY <1>1 DEF LastFile
    <3> QED BY <3>1, <3>2, WholePlace DEF SigningFound
  <2>2. \A f \in SigningFound(PlaceOf(r)) : RootFile(PlaceOf(r)) >= f /\ f \in Nat
    BY <1>1, <1>4 DEF LastFile
  <2>3. \A x \in SigningFound(PlaceOf(r)) :
          (\A y \in SigningFound(PlaceOf(r)) : x >= y) => x = RootFile(PlaceOf(r))
    BY <1>1, <2>1, <2>2 DEF LastFile
  <2>4. Max(SigningFound(PlaceOf(r))) = RootFile(PlaceOf(r))
    BY <2>1, <2>2, <2>3 DEF Max
  <2> QED BY <1>1, <1>4, <1>6, <2>1, <2>4 DEF TakenForRoot
<1> QED BY <1>5, <1>6

LEMMA WholeSelectable ==
  ASSUME StorageTypeOK, NEW r \in TrustedRoots, Whole(r), ~CertificateAlone(r)
  PROVE  Selectable(r)
<1>1. /\ SigningFound(PlaceOf(r)) # {}
      /\ TakenForRoot(PlaceOf(r)) = RootFile(PlaceOf(r))
  BY WholeSigning
<1>2. /\ RootFile(PlaceOf(r)) \in 1..RootFile(PlaceOf(r))
      /\ KeyFile \in 1..RootFile(PlaceOf(r))
  BY RootFileOf, FileNames DEF LastFile
<1> QED BY <1>1, <1>2, WholePlace DEF Selectable, KeyLoads

\* The default is a root in the place where it is looked for.
LEMMA DefaultIsPlace ==
  ASSUME StorageTypeOK, NEW p \in Places, IsDefault(p)
  PROVE  p.root \in TrustedRoots /\ p = PlaceOf(p.root)
BY DEF IsDefault, First, PlaceOf, TrustedRoots, Imported, Places

-----------------------------------------------------------------------------
(* One lemma per action.                                                   *)

\* What a selection leaves alone.
LEMMA SelectKeeps ==
  ASSUME KeyInv, NEW r \in TrustedRoots, SelectAt(PlaceOf(r)),
         UNCHANGED <<storageDisk, held, serialHeld, given>>
  PROVE  KeyInv'
<1> USE DEF KeyInv
<1>0. r \in Roots BY DEF TrustedRoots, Imported
<1>1. PlaceOf(r) \in Places /\ PlaceOf(r).root = r BY <1>0 DEF PlaceOf, Places
<1>2. FileAt(PlaceOf(r), KeyFile) \in Content
  BY <1>0, FileNames DEF FileAt, PlaceOf, StorageTypeOK, Content
<1>3. StorageTypeOK'
  <2>1. path' \in Places BY <1>1 DEF SelectAt
  <2>2. key' \in Keys \cup {None}
    <3>1. CASE KeyLoads(PlaceOf(r)) /\ key' = [root |-> PlaceOf(r).root, pair |-> FileAt(PlaceOf(r), KeyFile)]
      BY <3>1, <1>0, <1>1, <1>2 DEF KeyLoads, Readable, Content, Keys
    <3>2. CASE key' = None BY <3>2
    <3> QED BY <3>1, <3>2 DEF SelectAt, CannotLoadKey, LoadKey
  <2>3. process' \in {"up", "panicked"} /\ rootSelected' \in BOOLEAN /\ rootIsCmla' \in BOOLEAN
        /\ disturbed' \in {"no", "failed"}
    BY DEF StorageTypeOK, SelectAt, CannotLoadKey, PanicsForCmla, CannotCheckForCmla, CheckRootForCmla
  <2> QED BY <2>1, <2>2, <2>3 DEF StorageTypeOK, storageDisk
<1>4. WholeUnlessCut' BY DEF WholeUnlessCut, Whole, storageDisk
<1>5. SelectionFits'
  <2> SUFFICES ASSUME rootSelected', disturbed' = "no" PROVE process' = "up" /\ Fits(path)'
    BY DEF SelectionFits
  <2>1. path' = PlaceOf(r) /\ LoadKey(PlaceOf(r)) /\ CheckRootForCmla(PlaceOf(r))
    BY DEF SelectAt, CannotLoadKey, PanicsForCmla, CannotCheckForCmla
  <2>2. path' = PlaceOf(r)' /\ (r \in TrustedRoots)'
    BY <2>1 DEF PlaceOf, storageDisk, TrustedRoots, Imported
  <2>3. key' = [root |-> r, pair |-> FileAt(PlaceOf(r), KeyFile)']
    BY <2>1, <1>1 DEF LoadKey, FileAt, PlaceOf, storageDisk
  <2>6. key' # None
    BY <2>1, <1>0, <1>1, <1>2 DEF LoadKey, KeyLoads, Readable, Content, Keys
  <2>4. r \notin cut' => rootIsCmla' = (r \in CmlaRoots)
    <3> SUFFICES ASSUME r \notin cut' PROVE rootIsCmla' = (r \in CmlaRoots)
      OBVIOUS
    <3>1. Whole(r) BY <1>0 DEF WholeUnlessCut, storageDisk
    <3>2. SigningFound(PlaceOf(r)) # {} BY <2>1 DEF CheckRootForCmla
    <3>3. TakenForRoot(PlaceOf(r)) = RootFile(PlaceOf(r)) BY <3>1, <3>2, WholeSigning
    <3> QED BY <1>1, <2>1, <3>3 DEF CheckRootForCmla
  <2>5. path'.root = r /\ path' \in Places BY <2>1, <1>1
  <2> QED BY <1>3, <2>1, <2>2, <2>3, <2>4, <2>5, <2>6 DEF Fits, CheckRootForCmla, StorageTypeOK
<1>6. DownUnselected'
  BY DEF DownUnselected, SelectAt, CannotLoadKey, PanicsForCmla, CannotCheckForCmla, CheckRootForCmla
<1>7. KeyFitsPath'
  <2> SUFFICES ASSUME key' # None PROVE (key = [root |-> path.root, pair |-> FileAt(path, KeyFile)])'
    BY DEF KeyFitsPath
  <2>1. path' = PlaceOf(r) /\ LoadKey(PlaceOf(r)) BY DEF SelectAt, CannotLoadKey
  <2>2. FileAt(PlaceOf(r), KeyFile) = FileAt(path, KeyFile)'
    BY <2>1 DEF FileAt, storageDisk
  <2> QED BY <1>1, <2>1, <2>2 DEF LoadKey
<1> QED BY <1>3, <1>4, <1>5, <1>6, <1>7

LEMMA StartKeeps == ASSUME KeyInv, Start PROVE KeyInv'
<1>1. CASE TrustedRoots = {}
  BY <1>1 DEF Start, KeyInv, StorageTypeOK, WholeUnlessCut, Whole, SelectionFits, DownUnselected, KeyFitsPath,
     storageDisk, selection, Fits, PlaceOf, TrustedRoots, Imported, FileAt
<1>2. CASE TrustedRoots # {}
  BY <1>2, DefaultIsPlace, SelectKeeps DEF Start, KeyInv
<1> QED BY <1>1, <1>2

LEMMA SelectActionsKeep ==
  ASSUME KeyInv, SelectDefaultRoot \/ \E r \in Roots : SelectTrustedRoot(r) PROVE KeyInv'
<1>1. CASE SelectDefaultRoot BY <1>1, DefaultIsPlace, SelectKeeps DEF SelectDefaultRoot, KeyInv
<1>2. CASE \E r \in Roots : SelectTrustedRoot(r) BY <1>2, SelectKeeps DEF SelectTrustedRoot
<1> QED BY <1>1, <1>2

\* The steps that only disturb a selection, or end the process.
LEMMA SignKeeps == ASSUME KeyInv, SignWithoutKey PROVE KeyInv'
BY DEF SignWithoutKey, KeyInv, StorageTypeOK, WholeUnlessCut, Whole, SelectionFits, DownUnselected, KeyFitsPath,
   storageDisk, selection, Fits, Keys, PlaceOf, FileAt, Places

LEMMA ListingKeeps == ASSUME KeyInv, NEW p \in Places, RootCertificatesStopAt(p) PROVE KeyInv'
BY DEF RootCertificatesStopAt, KeyInv, StorageTypeOK, WholeUnlessCut, Whole, SelectionFits, DownUnselected, KeyFitsPath, storageDisk

LEMMA SerialKeeps == ASSUME KeyInv, GetRdbSerialNumber \/ CannotGenerateSerial PROVE KeyInv'
<1>1. StorageTypeOK'
  BY DEF GetRdbSerialNumber, CannotGenerateSerial, SerialGeneratedAs, KeyInv, StorageTypeOK, selection
<1>2. UNCHANGED <<folder, chain, held, cut, process, selection>>
  BY DEF GetRdbSerialNumber, CannotGenerateSerial
<1> QED BY <1>1, <1>2 DEF KeyInv, WholeUnlessCut, Whole, SelectionFits, DownUnselected, KeyFitsPath,
      selection, Fits, PlaceOf, TrustedRoots, Imported, FileAt

\* What an import leaves behind is a folder, and is whole if it has finished.
LEMMA WrittenType ==
  ASSUME NEW r \in Roots, NEW pair \in Pairs, NEW n \in Nat, NEW created \in BOOLEAN
  PROVE  Written(r, pair, n, created) \in [KeyFiles -> Content]
BY DEF Written, Content

LEMMA WrittenWhole ==
  ASSUME NEW r \in Roots, NEW pair \in Pairs, NEW signing \in 0..Signing, ~LeftOpen(r)
  PROVE  Written(r, pair, LastFile(signing), FALSE) = ImportedFolder(pair, signing)
BY DEF Written, LeftOpen, ImportedFolder

LEMMA ImportKeeps ==
  ASSUME KeyInv, NEW r \in Roots, NEW pair \in Pairs, NEW signing \in Chains,
         ImportData(r, pair, signing)
  PROVE  KeyInv'
<1> USE DEF KeyInv
<1>0. signing \in 0..Signing OBVIOUS
<1>1. chain' \in [Roots -> 0..Signing] /\ chain'[r] = signing
      /\ \A q \in Roots : q # r => chain'[q] = chain[q]
  BY <1>0 DEF ImportData, StorageTypeOK
<1>2. CASE ImportDone(r, pair, signing)
  <2>0. LastFile(signing) \in Nat BY <1>0, FileNames
  <2>1. StorageTypeOK'
    <3>1. Written(r, pair, LastFile(signing), FALSE) \in [KeyFiles -> Content]
      BY <2>0, WrittenType
    <3>2. folder' \in [Roots -> [KeyFiles -> Content] \cup {None}]
      BY <1>2, <3>1 DEF ImportDone, StorageTypeOK
    <3>3. cut' \subseteq Roots BY <1>2 DEF ImportDone, CutUnlessWhole, StorageTypeOK
    <3>4. path' \in Places BY DEF ImportData, Places
    <3> QED BY <1>1, <1>2, <3>2, <3>3, <3>4 DEF ImportDone, ImportData, StorageTypeOK
  <2>2. WholeUnlessCut'
    <3> SUFFICES ASSUME NEW q \in Roots, q \notin cut' PROVE Whole(q)'
      BY DEF WholeUnlessCut
    <3>1. CASE q = r
      <4>1. ~LeftOpen(r) BY <1>2, <3>1 DEF ImportDone, CutUnlessWhole
      <4>2. folder'[r] = ImportedFolder(pair, signing)
        BY <1>0, <1>2, <4>1, WrittenWhole DEF ImportDone, StorageTypeOK
      <4> QED BY <1>1, <1>2, <3>1, <4>1, <4>2 DEF Whole, LeftOpen, ImportDone, ImportedFolder
    <3>2. CASE q # r
      <4>1. folder'[q] = folder[q] /\ q \notin cut /\ held' = held
        BY <1>2, <3>2 DEF ImportDone, CutUnlessWhole, StorageTypeOK
      <4>2. Whole(q) BY <4>1 DEF WholeUnlessCut
      <4> QED BY <1>1, <3>2, <4>1, <4>2 DEF Whole, ImportedFolder
    <3> QED BY <3>1, <3>2
  <2>3. process' = "up" /\ disturbed' = "moved" BY <1>2 DEF ImportData, ImportDone
  <2> QED BY <2>1, <2>2, <2>3 DEF SelectionFits, DownUnselected, KeyFitsPath
<1>3. CASE \E n \in 0..signing + 1, created \in BOOLEAN : KeyImportLeaves(r, pair, n, created)
  <2> PICK n \in 0..signing + 1, created \in BOOLEAN : KeyImportLeaves(r, pair, n, created)
    BY <1>3
  <2>0. n \in Nat /\ n + 1 \in KeyFiles BY <1>0 DEF KeyFiles, LastFile
  <2>1. StorageTypeOK'
    <3>1. held' \subseteq Roots \X KeyFiles BY <2>0 DEF KeyImportLeaves, StorageTypeOK
    <3>2. folder' \in [Roots -> [KeyFiles -> Content] \cup {None}]
      BY <2>0, WrittenType DEF KeyImportLeaves, StorageTypeOK
    <3> QED BY <1>1, <3>1, <3>2 DEF ImportData, KeyImportLeaves, StorageTypeOK, Places
  <2>2. WholeUnlessCut'
    <3> SUFFICES ASSUME NEW q \in Roots, q \notin cut' PROVE Whole(q)'
      BY DEF WholeUnlessCut
    <3>1. q # r /\ q \notin cut /\ cut' = cut \cup {r} BY DEF KeyImportLeaves
    <3>2. folder'[q] = folder[q] /\ chain'[q] = chain[q]
      BY <1>1, <3>1 DEF KeyImportLeaves, StorageTypeOK
    <3>3. \A f \in KeyFiles : <<q, f>> \in held' => <<q, f>> \in held BY <3>1 DEF KeyImportLeaves
    <3> QED BY <3>1, <3>2, <3>3 DEF WholeUnlessCut, Whole, ImportedFolder
  <2> QED BY <2>1, <2>2 DEF ImportData, SelectionFits, DownUnselected, KeyFitsPath, KeyImportLeaves
<1> QED BY <1>2, <1>3 DEF ImportData

\* The end of the process clears what was selected, and closes every file.
LEMMA EndsKeeps ==
  ASSUME KeyInv, Ends, NEW r \in Roots,
         \A q \in Roots : \/ (folder'[q] = folder[q] /\ chain'[q] = chain[q])
                         \/ (q = r /\ q \in cut'),
         chain' \in [Roots -> 0..Signing],
         folder' \in [Roots -> [KeyFiles -> Content] \cup {None}],
         cut' \subseteq Roots, cut \subseteq cut', serial' \in Serials \cup {None, Empty}
  PROVE  KeyInv'
<1>1. StorageTypeOK'
  <2>1. folder' \in [Roots -> [KeyFiles -> Content] \cup {None}] OBVIOUS
  <2>2. cut' \subseteq Roots /\ serial' \in Serials \cup {None, Empty} OBVIOUS
  <2>3. /\ held' \subseteq Roots \X KeyFiles /\ serialHeld' \in BOOLEAN
        /\ process' \in {"up", "down", "panicked"}
        /\ path' \in Places \cup {None} /\ key' \in Keys \cup {None}
        /\ rootSelected' \in BOOLEAN /\ rootIsCmla' \in BOOLEAN
        /\ disturbed' \in {"no", "failed", "moved"}
    BY DEF Ends
  <2>4. given' \in Serials \cup {None, Empty} BY DEF Ends, StorageTypeOK, KeyInv
  <2> QED BY <2>1, <2>2, <2>3, <2>4 DEF StorageTypeOK
<1>2. WholeUnlessCut'
  <2> SUFFICES ASSUME NEW q \in Roots, q \notin cut' PROVE Whole(q)' BY DEF WholeUnlessCut
  <2>1. folder'[q] = folder[q] /\ chain'[q] = chain[q] /\ held' = {} BY DEF Ends
  <2>2. Whole(q) BY <2>1 DEF WholeUnlessCut, KeyInv
  <2> QED BY <2>1, <2>2 DEF Whole, ImportedFolder
<1> QED BY <1>1, <1>2 DEF Ends, KeyInv, SelectionFits, DownUnselected, KeyFitsPath

LEMMA StopKeeps == ASSUME KeyInv, Stop PROVE KeyInv'
<1>1. StorageTypeOK' BY DEF Stop, Ends, StorageTypeOK, KeyInv, storageDisk
<1>2. WholeUnlessCut' BY DEF Stop, Ends, WholeUnlessCut, Whole, KeyInv, storageDisk
<1> QED BY <1>1, <1>2 DEF Stop, Ends, KeyInv, SelectionFits, DownUnselected, KeyFitsPath

LEMMA PowerLostKeeps == ASSUME KeyInv, StoragePowerLost PROVE KeyInv'
<1> USE DEF KeyInv
<1>1. CASE \E r \in Roots : CutWhileDeleting(r)
  <2> PICK r \in Roots : CutWhileDeleting(r) BY <1>1
  <2> PICK left \in SUBSET {f \in KeyFiles : folder[r][f] # None} :
         folder' = [folder EXCEPT ![r] = [f \in KeyFiles |-> IF f \in left THEN @[f] ELSE None]]
    BY DEF CutWhileDeleting
  <2>1. folder[r] \in [KeyFiles -> Content] BY DEF CutWhileDeleting, StorageTypeOK
  <2>2. [f \in KeyFiles |-> IF f \in left THEN folder[r][f] ELSE None] \in [KeyFiles -> Content]
    BY <2>1 DEF Content
  <2>3. \A q \in Roots : q # r => folder'[q] = folder[q] /\ chain'[q] = chain[q]
    BY DEF CutWhileDeleting
  <2>4. folder' \in [Roots -> [KeyFiles -> Content] \cup {None}]
    BY <2>2 DEF StorageTypeOK
  <2>5. Ends /\ cut' = cut \cup {r} /\ serial' = serial /\ chain' \in [Roots -> 0..Signing]
    BY DEF CutWhileDeleting, StorageTypeOK
  <2>6. cut' \subseteq Roots /\ cut \subseteq cut' /\ r \in cut' /\ serial' \in Serials \cup {None, Empty}
    BY <2>5 DEF StorageTypeOK
  <2> QED BY <2>3, <2>4, <2>5, <2>6, EndsKeeps
<1>2. CASE \E r \in Roots, pair \in Pairs, signing \in Chains, created \in BOOLEAN :
             \E n \in 0..signing + 1 : CutWhileWriting(r, pair, signing, n, created)
  <2> PICK r \in Roots, pair \in Pairs, signing \in Chains, created \in BOOLEAN :
             \E n \in 0..signing + 1 : CutWhileWriting(r, pair, signing, n, created)
    BY <1>2
  <2> PICK n \in 0..signing + 1 : CutWhileWriting(r, pair, signing, n, created)
    OBVIOUS
  <2>0. signing \in 0..Signing /\ n \in Nat OBVIOUS
  <2>1. Written(r, pair, n, created) \in [KeyFiles -> Content] BY <2>0, WrittenType
  <2>2. \A q \in Roots : q # r => folder'[q] = folder[q] /\ chain'[q] = chain[q]
    BY DEF CutWhileWriting, StorageTypeOK
  <2>3. folder' \in [Roots -> [KeyFiles -> Content] \cup {None}]
    BY <2>1 DEF StorageTypeOK, CutWhileWriting
  <2>4. Ends /\ cut' = cut \cup {r} /\ serial' = serial /\ chain' \in [Roots -> 0..Signing]
    BY <2>0 DEF CutWhileWriting, StorageTypeOK
  <2>5. cut' \subseteq Roots /\ cut \subseteq cut' /\ r \in cut' /\ serial' \in Serials \cup {None, Empty}
    BY <2>4 DEF StorageTypeOK
  <2> QED BY <2>2, <2>3, <2>4, <2>5, EndsKeeps
<1>3. CASE CutWhileGenerating
  <2>1. StorageTypeOK' BY <1>3 DEF CutWhileGenerating, Ends, StorageTypeOK
  <2>2. WholeUnlessCut' BY <1>3 DEF CutWhileGenerating, Ends, WholeUnlessCut, Whole
  <2> QED BY <1>3, <2>1, <2>2 DEF CutWhileGenerating, Ends, SelectionFits, DownUnselected, KeyFitsPath
<1> QED BY <1>1, <1>2, <1>3 DEF StoragePowerLost

LEMMA StutterKeeps == ASSUME KeyInv, UNCHANGED storageVars PROVE KeyInv'
BY DEF storageVars, storageDisk, selection, KeyInv, StorageTypeOK, WholeUnlessCut, Whole, SelectionFits, DownUnselected, KeyFitsPath,
   Fits, PlaceOf, TrustedRoots, Imported, FileAt

\* The invariant holds in every state.
THEOREM KeysInductive == StorageSpec => []KeyInv
<1>1. StorageInit => KeyInv
  <2> SUFFICES ASSUME StorageInit PROVE KeyInv
    OBVIOUS
  <2>1. StorageTypeOK
    <3>1. Signing \in 0..Signing OBVIOUS
    <3>2. folder \in [Roots -> [KeyFiles -> Content] \cup {None}] BY DEF StorageInit
    <3>3. chain \in [Roots -> 0..Signing] BY <3>1 DEF StorageInit
    <3> QED BY <3>2, <3>3 DEF StorageInit, StorageTypeOK
  <2>2. WholeUnlessCut BY DEF StorageInit, WholeUnlessCut, Whole
  <2>3. SelectionFits /\ DownUnselected /\ KeyFitsPath
    BY DEF StorageInit, SelectionFits, DownUnselected, KeyFitsPath
  <2> QED BY <2>1, <2>2, <2>3 DEF KeyInv
<1>2. KeyInv /\ [StorageNext]_storageVars => KeyInv'
  BY StartKeeps, SelectActionsKeep, SignKeeps, ListingKeeps, SerialKeeps, ImportKeeps,
     StopKeeps, PowerLostKeeps, StutterKeeps DEF StorageNext
<1> QED BY <1>1, <1>2, PTL DEF StorageSpec

-----------------------------------------------------------------------------
(* What follows.                                                           *)

\* GetCertificateChainL returns the certificates of the key that RsaSignL uses.
THEOREM ChainOfTheKey == StorageSpec => []ChainFitsKey
<1>1. KeyInv => ChainFitsKey
  <2> SUFFICES ASSUME KeyInv, rootSelected, disturbed = "no", key.root \notin cut
               PROVE  /\ path = PlaceOf(key.root)
                      /\ CanReadChain
                      /\ \A f \in 1..RootFile(path) : FileAt(path, f) = key.pair
                      /\ rootIsCmla = (key.root \in CmlaRoots)
    BY DEF ChainFitsKey
  <2>1. process = "up" /\ Fits(path) BY DEF KeyInv, SelectionFits
  <2>2. key.root = path.root /\ key.pair = FileAt(path, KeyFile) BY <2>1 DEF Fits
  <2>3. path.root \in TrustedRoots /\ path = PlaceOf(path.root) /\ path \in Places BY <2>1 DEF Fits
  <2>4. Whole(path.root) BY <2>2, <2>3 DEF KeyInv, WholeUnlessCut, Places
  <2>5. \A f \in 1..RootFile(path) : FileAt(path, f) = key.pair /\ Readable(path, f)
    BY <2>2, <2>3, <2>4, WholePlace DEF KeyInv
  <2>6. CanReadChain
    <3>1. SigningFound(path) \subseteq 1..RootFile(path)
      BY <2>3, <2>4, WholeSigning DEF KeyInv
    <3>2. CertFile \in 1..RootFile(path)
      BY <2>3, RootFileOf, FileNames DEF KeyInv
    <3> QED BY <2>1, <2>5, <3>1, <3>2 DEF CanReadChain
  <2>7. rootIsCmla = (path.root \in CmlaRoots) BY <2>1, <2>2 DEF Fits
  <2> QED BY <2>2, <2>3, <2>5, <2>6, <2>7
<1> QED BY <1>1, KeysInductive, PTL

\* Every root can be selected unless its import was cut short, or brought its
\* certificate alone.
SelectableUnlessCut ==
  \A r \in TrustedRoots : r \in cut \/ CertificateAlone(r) \/ Selectable(r)

LEMMA WholeIsSelectable == KeyInv => SelectableUnlessCut
<1> SUFFICES ASSUME KeyInv, NEW r \in TrustedRoots, r \notin cut, ~CertificateAlone(r)
             PROVE Selectable(r)
  BY DEF SelectableUnlessCut
<1>1. r \in Roots BY DEF TrustedRoots, Imported, KeyInv, StorageTypeOK
<1>2. Whole(r) BY <1>1 DEF KeyInv, WholeUnlessCut
<1> QED BY <1>2, WholeSelectable DEF KeyInv

\* A root that can be selected stays so unless its own import is cut short or
\* brings its certificate alone.
THEOREM RootsStay == StorageSpec => RootsNeverLost
<1>1. ASSUME KeyInv, SelectableUnlessCut', [StorageNext]_storageVars, NEW r \in Roots,
             Selectable(r), r \notin cut', ~CertificateAlone(r)'
      PROVE  Selectable(r)'
  <2>1. (r \in TrustedRoots)'
    <3>1. r \in TrustedRoots BY <1>1 DEF Selectable
    <3>2. folder'[r] # None \/ folder'[r] = folder[r]
      <4>1. CASE UNCHANGED folder BY <4>1
      <4>2. CASE \E q \in Roots, pair \in Pairs, signing \in Chains : ImportData(q, pair, signing)
        <5> PICK q \in Roots, pair \in Pairs, signing \in Chains : ImportData(q, pair, signing)
          BY <4>2
        <5>1. ASSUME NEW n \in Nat, NEW created \in BOOLEAN PROVE Written(q, pair, n, created) # None
          <6>1. Written(q, pair, n, created) \in [KeyFiles -> Content] BY WrittenType
          <6> QED BY <6>1
        <5>2. LastFile(signing) \in Nat /\ 0..signing + 1 \subseteq Nat BY DEF LastFile
        <5> QED BY <1>1, <5>1, <5>2 DEF ImportData, ImportDone, KeyImportLeaves, KeyInv, StorageTypeOK
      <4>3. CASE StoragePowerLost
        BY <1>1, <4>3 DEF StoragePowerLost, CutWhileDeleting, CutWhileWriting, CutWhileGenerating, KeyInv, StorageTypeOK
      <4> QED BY <1>1, <4>1, <4>2, <4>3 DEF StorageNext, storageVars, storageDisk, Start, Stop, SelectDefaultRoot,
             SelectTrustedRoot, SignWithoutKey, RootCertificatesStopAt, GetRdbSerialNumber, CannotGenerateSerial
    <3> QED BY <3>1, <3>2 DEF TrustedRoots, Imported
  <2> QED BY <1>1, <2>1 DEF SelectableUnlessCut
<1>2. KeyInv /\ SelectableUnlessCut' /\ [StorageNext]_storageVars =>
        [\A r \in Roots : Selectable(r) => Selectable(r)' \/ r \in cut' \/ CertificateAlone(r)']_storageVars
  BY <1>1
<1> QED BY <1>2, WholeIsSelectable, KeysInductive, PTL DEF StorageSpec, RootsNeverLost

\* A selection that fails leaves no key, or the key of the folder it has moved to.
THEOREM KeyOfPath == StorageSpec => []KeyFitsPath
BY KeysInductive, PTL DEF KeyInv

\* The serial number once given is the one that is always given.
SerialKept == given # None => serial = given

THEOREM SerialStays == StorageSpec => SerialNeverChanges
<1>1. StorageInit => SerialKept BY DEF StorageInit, SerialKept
<1>2. KeyInv /\ SerialKept /\ [StorageNext]_storageVars => SerialKept' /\ (given # None => given' = given)
  <2> SUFFICES ASSUME SerialKept, [StorageNext]_storageVars PROVE SerialKept' /\ (given # None => given' = given)
    OBVIOUS
  <2>1. CASE UNCHANGED <<serial, given>> BY <2>1 DEF SerialKept
  <2>2. CASE GetRdbSerialNumber BY <2>2 DEF GetRdbSerialNumber, SerialGeneratedAs, SerialKept
  <2>3. CASE CannotGenerateSerial BY <2>3 DEF CannotGenerateSerial, SerialKept
  <2>4. CASE StoragePowerLost
    BY <2>4 DEF StoragePowerLost, CutWhileDeleting, CutWhileWriting, CutWhileGenerating, Ends, SerialKept
  <2> QED BY <2>1, <2>2, <2>3, <2>4 DEF StorageNext, storageVars, storageDisk, Start, Stop, Ends, SelectDefaultRoot,
        SelectTrustedRoot, SignWithoutKey, RootCertificatesStopAt, ImportData
<1> QED BY <1>1, <1>2, KeysInductive, PTL DEF StorageSpec, SerialNeverChanges
=============================================================================
