----------------------------- MODULE RightsServer -----------------------------
(***************************************************************************)
(* The DRM rights server (CDRMRightsServer): how its process starts, tries  *)
(* again, imports the rights objects that lie in two directories, releases   *)
(* the client that waits for it, and what the running server keeps for      *)
(* backups and for its sessions.                                            *)
(*                                                                         *)
(* The database, the notifier, ROAP and clock threads, and the sessions are *)
(* not in the source: they are what the server calls, and any call may fail. *)
(***************************************************************************)
EXTENDS DrmCommon, Integers, FiniteSets

CONSTANTS
  Files,          \* names of rights objects in the import directories
  DiskFiles,      \* those in the user's directory; the others in the internal one
  Undeletable,    \* those that cannot be deleted: open elsewhere, or on a read-only card
  Contents,       \* what rights are for
  Sessions,       \* sessions of the running server
  KMaxStartTries,
  MaxHandlers     \* bound: backup handlers that exist at once

ASSUME FilesAssumption == DiskFiles \subseteq Files /\ Undeletable \subseteq Files
ASSUME SessionsAssumption == IsFiniteSet(Sessions)
ASSUME BoundsAssumption == KMaxStartTries \in Nat /\ MaxHandlers \in Nat
ASSUME NoneAssumption ==
  None \notin Files \cup Contents \cup {"bad", "empty", "listing"}

Threads == {"notifier", "roap", "clock"}
Directories == {"internal", "disk"}
DirectoryOf(f) == IF f \in DiskFiles THEN "disk" ELSE "internal"
NotRights == {"bad", "empty"}   \* cannot be read or parsed; holds no rights
Handlers == 1..MaxHandlers

VARIABLES
  phase,       \* where the process is in its start
  count,       \* the tries begun
  error,       \* how the last try ended: None, "AlreadyExists" or "Other"
  threads,     \* the threads of this process that run
  client,      \* a client: "idle", "waiting" at the semaphore, "released"
  \* the import
  file,        \* per name, None or what the file holds
  rights,      \* the contents the database has rights for
  todo,        \* the files of the directory that are still to be imported
  added,       \* a file whose rights were just added and that is not yet deleted
  \* the running server
  handler,     \* iBackupHandler, or None
  backup,      \* the handler iActiveBackupClient was made with, or None
  handlers,    \* the handlers that exist
  counting,    \* iActiveCountConstraints
  urls,        \* iActiveUrls, with their reference counters
  armed,       \* iArmed: changes to the database from outside are acted on
  \* history
  granted,     \* per file, how often its rights were added (bounded by 2)
  cutShort,    \* the files added and not deleted when the power was lost
  stopped,     \* per directory, what ended its last import early, or None
  playing,     \* the sessions that use a content under a count constraint
  accessing    \* the sessions that access an URL

disk == <<file, rights, granted, cutShort>>
import == <<disk, todo, added, stopped>>
others == <<count, error, threads, client>>
start == <<phase, others>>
backups == <<handler, backup, handlers>>
users == <<counting, urls, armed, playing, accessing>>
vars == <<start, import, backups, users>>

Phases ==
  Threads \cup Directories \cup {"down", "opening", "joining", "naming", "up", "failed", "ended"}

TypeOK ==
  /\ phase \in Phases /\ count \in 0..(KMaxStartTries + 1)
  /\ error \in {None, "AlreadyExists", "Other"}
  /\ threads \subseteq Threads
  /\ client \in {"idle", "waiting", "released"}
  /\ file \in [Files -> Contents \cup NotRights \cup {None}]
  /\ rights \subseteq Contents /\ todo \subseteq Files /\ added \in Files \cup {None}
  /\ handlers \subseteq Handlers /\ {handler, backup} \subseteq Handlers \cup {None}
  /\ counting \subseteq Contents /\ urls \in [Contents -> Nat] /\ armed \in BOOLEAN
  /\ granted \in [Files -> 0..2] /\ cutShort \subseteq Files
  /\ stopped \in [Directories -> Files \cup {None, "listing"}]
  /\ {playing, accessing} \subseteq [Contents -> SUBSET Sessions]

NoBackup == handler' = None /\ backup' = None /\ handlers' = {}
NoUsers ==
  /\ counting' = {} /\ urls' = [c \in Contents |-> 0] /\ armed' = FALSE
  /\ playing' = [c \in Contents |-> {}] /\ accessing' = playing'

Init ==
  /\ phase = "down" /\ count = 0 /\ error = None /\ threads = {}
  /\ client = "idle"
  /\ file = [f \in Files |-> None] /\ rights = {} /\ todo = {} /\ added = None
  /\ granted = [f \in Files |-> 0] /\ cutShort = {}
  /\ stopped = [d \in Directories |-> None]
  /\ handler = None /\ backup = None /\ handlers = {}
  /\ counting = {} /\ urls = [c \in Contents |-> 0] /\ armed = FALSE
  /\ playing = [c \in Contents |-> {}] /\ accessing = playing

-----------------------------------------------------------------------------
(* StartDBServer: tries until the server is there, 31 times at most.       *)

\* A client starts the process and waits at the semaphore.
ClientStarts ==
  /\ phase = "down" /\ client = "idle"
  /\ client' = "waiting"
  /\ phase' = "opening" /\ count' = 1 /\ error' = None
  /\ UNCHANGED <<threads, import, backups, users>>

\* A try leaves: what it made is deleted, the threads it started run on.
TryLeaves(e) ==
  /\ error' = e /\ phase' = "failed"
  /\ UNCHANGED <<count, threads, client, disk, todo, added, stopped, backups, users>>

TryAgain ==
  /\ phase = "failed" /\ count <= KMaxStartTries
  /\ count' = count + 1 /\ phase' = "opening"
  /\ UNCHANGED <<error, threads, client, import, backups, users>>

SignalClient == client' = IF client = "waiting" THEN "released" ELSE client
SignalNobody == UNCHANGED client  \* mutant: a failed start does not signal
FailureSignal == SignalClient

\* Startup: the client is released, the process and its threads end.
GivesUp ==
  /\ phase = "failed" /\ count > KMaxStartTries
  /\ FailureSignal
  /\ phase' = "ended" /\ threads' = {}
  /\ UNCHANGED <<count, error, import, backups, users>>

-----------------------------------------------------------------------------
(* ConstructL, one step for each stretch that something may fail in.        *)

GoesOnTo(p) == phase' = p /\ UNCHANGED <<others, import, backups, users>>

\* The file server, the database key, IMEI and IMSI, the database, the semaphore.
Opens ==
  /\ phase = "opening"
  /\ GoesOnTo("notifier") \/ TryLeaves("Other")

\* A thread left by an earlier try has the name: RThread::Create fails.
StartThreadL ==
  /\ phase \in Threads
  /\ \/ phase \in threads /\ TryLeaves("AlreadyExists")
     \/ TryLeaves("Other")
     \/ /\ phase \notin threads
        /\ threads' = threads \cup {phase}
        /\ phase' = CASE phase = "notifier" -> "roap" [] phase = "roap" -> "clock"
                      [] OTHER -> "joining"
        /\ UNCHANGED <<count, error, client, import, backups, users>>

\* GetDir: the import of a directory that cannot be listed leaves.
Lists(d) ==
  \/ /\ todo' = {f \in Files : DirectoryOf(f) = d /\ file[f] # None}
     /\ stopped' = [stopped EXCEPT ![d] = None]
  \/ todo' = {} /\ stopped' = [stopped EXCEPT ![d] = "listing"]

\* The notifier, the replay cache, metering, the clock and the backup observer.
Joins ==
  /\ phase = "joining"
  /\ \/ /\ phase' = "internal" /\ Lists("internal")
        /\ UNCHANGED <<others, disk, added, backups, users>>
     \/ TryLeaves("Other")

-----------------------------------------------------------------------------
(* ImportRightsObjectsL: the files of one directory, in no order.          *)

\* A leave goes to the TRAP around the directory: its other files stay too.
ImportLeaves(f) ==
  /\ file[f] = "bad" \/ file[f] \in Contents
  /\ todo' = {} /\ stopped' = [stopped EXCEPT ![DirectoryOf(f)] = f]
  /\ UNCHANGED <<start, disk, added, backups, users>>

\* The rights are added unless a key is found; a lookup that fails finds none.
AddRights(f) ==
  /\ file[f] \in Contents
  /\ \/ /\ rights' = rights \cup {file[f]}
        /\ granted' = [granted EXCEPT ![f] = IF @ < 2 THEN @ + 1 ELSE @]
     \/ file[f] \in rights /\ UNCHANGED <<rights, granted>>
  /\ added' = f
  /\ UNCHANGED <<start, file, todo, cutShort, stopped, backups, users>>

NoRights(f) ==
  /\ file[f] = "empty"
  /\ added' = f
  /\ UNCHANGED <<start, disk, todo, stopped, backups, users>>

ImportFile(f) ==
  /\ phase \in Directories /\ added = None /\ f \in todo
  /\ ImportLeaves(f) \/ AddRights(f) \/ NoRights(f)

\* Its result is ignored: a file that cannot be deleted stays.
Delete(f) == file' = IF f \in Undeletable THEN file ELSE [file EXCEPT ![f] = None]
DeleteOnlyEmpty(f) ==  \* mutant: a file whose rights were added stays
  file' = IF f \in Undeletable \/ file[f] # "empty" THEN file ELSE [file EXCEPT ![f] = None]
DeleteImported(f) == Delete(f)

FileDone ==
  /\ added # None
  /\ DeleteImported(added)
  /\ todo' = todo \ {added} /\ added' = None
  /\ UNCHANGED <<start, rights, granted, cutShort, stopped, backups, users>>

\* Each directory has a TRAP of its own.
NextDirectory ==
  /\ phase' = "disk" /\ Lists("disk")
  /\ UNCHANGED <<others, disk, added, backups, users>>
NextUnlessStopped ==  \* mutant: one TRAP around both
  IF stopped["internal"] = None THEN NextDirectory ELSE GoesOnTo("naming")
AfterInternal == NextDirectory

DirectoryDone ==
  /\ phase \in Directories /\ todo = {} /\ added = None
  /\ \/ phase = "internal" /\ AfterInternal
     \/ phase = "disk" /\ GoesOnTo("naming")

\* StartL and the two watchers; another process may have the server's name.
Named ==
  /\ phase = "naming"
  /\ \/ /\ phase' = "up" /\ SignalClient /\ armed' = TRUE
        /\ UNCHANGED <<count, error, threads, import, backups, counting, urls, playing, accessing>>
     \/ TryLeaves("AlreadyExists")
     \/ TryLeaves("Other")

-----------------------------------------------------------------------------
(* Backup and restore: HandleBackupEventL while the server runs.           *)

\* Unset, or back to normal.
BackupOver ==
  /\ handlers' = handlers \ {handler}
  /\ handler' = None /\ backup' = None

\* A full or partial backup or restore makes a new handler and then a new
\* client, and deletes neither of the old ones; the client may not be made.
BackupBegins ==
  \E h \in Handlers \ handlers :
    /\ handlers' = handlers \cup {h} /\ handler' = h
    /\ backup' \in {h, backup}

\* mutant: the old handler is deleted when it is replaced
BackupReplaces ==
  \E h \in Handlers \ handlers :
    /\ handlers' = (handlers \ {handler}) \cup {h} /\ handler' = h
    /\ backup' \in {h, backup}

\* A partial one that does not affect the database.
NotAffected == UNCHANGED handlers /\ handler' = None /\ backup' = None

BeginBackup == BackupBegins

HandleBackupEvent ==
  /\ phase = "up"
  /\ \/ BackupOver
     \/ BeginBackup
     \/ Handlers \ handlers # {} /\ NotAffected
  /\ UNCHANGED <<start, import, users>>

-----------------------------------------------------------------------------
(* What the sessions tell the server about the contents they use.          *)

AddActiveCountConstraint(s, c) ==
  /\ s \notin playing[c]
  /\ counting' = counting \cup {c}
  /\ playing' = [playing EXCEPT ![c] = @ \cup {s}]
  /\ UNCHANGED <<urls, accessing>>

\* The list knows no counts: the first session to end takes the content out.
RemoveActiveCountConstraint(s, c) ==
  /\ s \in playing[c]
  /\ counting' = counting \ {c}
  /\ playing' = [playing EXCEPT ![c] = @ \ {s}]
  /\ UNCHANGED <<urls, accessing>>

AddAccessingUrl(s, c) ==
  /\ s \notin accessing[c]
  /\ urls' = [urls EXCEPT ![c] = @ + 1]
  /\ accessing' = [accessing EXCEPT ![c] = @ \cup {s}]
  /\ UNCHANGED <<counting, playing>>

OneLess(n) == IF n <= 1 THEN 0 ELSE n - 1
LessOne(n) == OneLess(n)

RemoveAccessingUrl(s, c) ==
  /\ s \in accessing[c]
  /\ urls' = [urls EXCEPT ![c] = LessOne(@)]
  /\ accessing' = [accessing EXCEPT ![c] = @ \ {s}]
  /\ UNCHANGED <<counting, playing>>

SessionCalls ==
  /\ phase = "up"
  /\ \E s \in Sessions, c \in Contents :
       \/ AddActiveCountConstraint(s, c) \/ RemoveActiveCountConstraint(s, c)
       \/ AddAccessingUrl(s, c) \/ RemoveAccessingUrl(s, c)
  /\ UNCHANGED <<start, import, backups, armed>>

StopWatching ==
  /\ phase = "up" /\ armed
  /\ armed' = FALSE
  /\ UNCHANGED <<start, import, backups, counting, urls, playing, accessing>>

\* Rights are used up, expire or are deleted.
RightsGone ==
  /\ phase = "up"
  /\ \E c \in rights : rights' = rights \ {c}
  /\ UNCHANGED <<start, file, todo, added, granted, cutShort, stopped, backups, users>>

-----------------------------------------------------------------------------
(* The end of the process and of the power, and what others do.            *)

\* The scheduler stops and StartDBServer deletes the server.
Dies ==
  /\ phase = "up"
  /\ phase' = "ended" /\ threads' = {} /\ NoBackup /\ NoUsers
  /\ UNCHANGED <<count, error, client, import>>

\* The process is gone, and the next client may start one.
Gone ==
  /\ phase = "ended" /\ client # "waiting"
  /\ phase' = "down" /\ client' = "idle" /\ count' = 0 /\ error' = None
  /\ stopped' = [d \in Directories |-> None]
  /\ UNCHANGED <<threads, disk, todo, added, backups, users>>

Off ==
  /\ phase' = "down" /\ client' = "idle" /\ count' = 0 /\ error' = None
  /\ threads' = {} /\ todo' = {} /\ added' = None /\ NoBackup /\ NoUsers
  /\ cutShort' = IF added = None THEN cutShort ELSE cutShort \cup {added}
  /\ stopped' = [d \in Directories |-> None]
  /\ UNCHANGED <<file, granted>>

PowerLost == phase # "down" /\ Off /\ UNCHANGED rights

\* The directory of the database changed while the server was not updating
\* it, or the helper process ended: the server resets the device, and the
\* next start deletes a database that was marked.
WatchedObjectChanged ==
  /\ phase = "up" /\ armed
  /\ Off
  /\ rights' \in {rights, {}}

\* A user or an installation puts a file there.
PutFile ==
  /\ phase = "down"
  /\ \E f \in Files : \E k \in Contents \cup NotRights :
       /\ file[f] = None
       /\ file' = [file EXCEPT ![f] = k]
       /\ granted' = [granted EXCEPT ![f] = 0]
       /\ cutShort' = cutShort \ {f}
  /\ UNCHANGED <<start, rights, todo, added, stopped, backups, users>>

Construct ==
  \/ Opens \/ StartThreadL \/ Joins
  \/ \E f \in todo : ImportFile(f)
  \/ FileDone \/ DirectoryDone \/ Named

StartDBServer == ClientStarts \/ TryAgain \/ GivesUp \/ Construct

Environment == PowerLost \/ WatchedObjectChanged \/ PutFile \/ RightsGone

Next ==
  \/ StartDBServer \/ HandleBackupEvent \/ SessionCalls \/ StopWatching
  \/ Dies \/ Gone \/ Environment

Spec == Init /\ [][Next]_vars

\* A thread that can run runs: the process of the server waits for nothing
\* but the threads it starts, and for two seconds between two tries.
FairSpec == Spec /\ WF_vars(TryAgain) /\ WF_vars(GivesUp) /\ WF_vars(Construct)

-----------------------------------------------------------------------------
(* Properties.                                                             *)

\* The rights of a file are added to the database at most once, however often
\* the server starts and whatever became of the rights since: unless the file
\* cannot be deleted, or the power was lost before it was.
GrantedOnce == \A f \in Files : granted[f] <= 1 \/ f \in Undeletable \/ f \in cutShort

\* A server that is up has left a file in a directory only because something
\* in that same directory stopped its import, or it cannot be deleted.
LeftOnlyWhereStopped ==
  phase = "up" =>
    \A f \in Files : file[f] # None => f \in Undeletable \/ stopped[DirectoryOf(f)] # None

\* What a client waits for comes to an end: a server, or the end of the tries;
\* or the device is switched off.
ClientReleased == client = "waiting" ~> client # "waiting"

\* The handler that the backup client calls exists, though events come in any
\* order and the making of a handler or a client may fail.
BackupHasHandler == backup \in handlers \cup {None}

\* An URL that a session accesses is known as accessed until the last session
\* is done with it; a content that nobody plays is not held by its count.
UsersKnown ==
  \A c \in Contents : /\ urls[c] = Cardinality(accessing[c])
                      /\ c \in counting => playing[c] # {}
=============================================================================
