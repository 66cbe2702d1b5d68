---------------------------- MODULE DrmKeyStorage ----------------------------
(***************************************************************************)
(* CDrmStdKeyStorage: the device keys of DRM and their certificates.  Each  *)
(* trusted root has a folder named by the hash of its key, in ROM (Z:) or  *)
(* imported (C:); the one on C: hides the one in ROM.  A folder holds the   *)
(* device's private key, its certificate and the signing certificates, the  *)
(* last of which is the root's own.                                         *)
(*                                                                         *)
(* What is selected is spread over four members: the session path of iFs    *)
(* says where certificates are read, iKey is the key that signs,            *)
(* iRootIsCmla is what the root's name said, iRootSelected allows reading.  *)
(* Each of them is set at its own moment, and any step between may leave,    *)
(* panic, or lose the power.                                                *)
(***************************************************************************)
EXTENDS DrmCommon, Integers, FiniteSetsExt

CONSTANTS
  RootCount,    \* roots are numbered in the order of their folders' names
  RomRoots,     \* the roots with a folder in ROM
  CmlaRoots,    \* the roots whose name holds "CMLA"
  Signing,      \* the most signing certificates of a chain, and the number in ROM
  Chains,       \* the numbers of signing certificates of the chains that are imported
  Pairs,        \* key pairs that may be imported
  RomPair,      \* the key pair of the folders in ROM
  Serials,      \* the random serial numbers
  Empty         \* a file that was created and not written

Roots == 1..RootCount

ASSUME RootAssumption == /\ RootCount \in Nat /\ Signing \in Nat \ {0}
                         /\ Chains \subseteq 0..Signing
                         /\ RomRoots \subseteq Roots /\ CmlaRoots \subseteq Roots
\* The files of a folder, in the order in which an import writes them.
KeyFile == 1
CertFile == 2
LastFile(signing) == signing + 2
KeyFiles == 1..LastFile(Signing)
SigningFiles == 3..LastFile(Signing)

Content == Pairs \cup {RomPair, None, Empty}
Places == [drive : {"c", "z"}, root : Roots]
Keys == [root : Roots, pair : Pairs \cup {RomPair}]

\* None and Empty are none of the values they stand beside.
ASSUME ValueAssumption == /\ {None, Empty} \cap (Pairs \cup {RomPair} \cup Serials) = {}
                          /\ RomPair \notin Pairs /\ None # Empty
                          /\ None \notin Keys /\ None \notin [KeyFiles -> Content]

VARIABLES
  folder,        \* per root, None or the files of its folder on C:
  chain,         \* per root, how many signing certificates were imported last
  held,          \* the files of C: that a failed WriteFileL has left open
  serial,        \* the file of the serial number
  serialHeld,    \* it was left open by a failed WriteFileL
  process,       \* "up", "down", or "panicked": the process with the storage
  path,          \* the session path of iFs
  key,           \* iKey
  rootSelected,  \* iRootSelected
  rootIsCmla,    \* iRootIsCmla
  \* history
  cut,           \* the roots whose folder is not what one finished import has written
  disturbed,     \* "failed": the last selection did; "moved": an import or a failed
                 \* listing has set the session path since; "no": neither
  given          \* the serial number last given to a caller

storageDisk == <<folder, chain, serial, cut>>
selection == <<path, key, rootSelected, rootIsCmla, disturbed>>
storageVars == <<folder, chain, held, serial, serialHeld, process, selection, cut, given>>

StorageTypeOK ==
  /\ folder \in [Roots -> [KeyFiles -> Content] \cup {None}]
  /\ chain \in [Roots -> 0..Signing]
  /\ held \subseteq Roots \X KeyFiles
  /\ serial \in Serials \cup {None, Empty}
  /\ serialHeld \in BOOLEAN
  /\ process \in {"up", "down", "panicked"}
  /\ path \in Places \cup {None}
  /\ key \in Keys \cup {None}
  /\ rootSelected \in BOOLEAN /\ rootIsCmla \in BOOLEAN
  /\ disturbed \in {"no", "failed", "moved"}
  /\ cut \subseteq Roots
  /\ given \in Serials \cup {None, Empty}

\* A device as it is first started: what the product has in ROM and no more.
StorageInit ==
  /\ folder = [r \in Roots |-> None] /\ chain = [r \in Roots |-> Signing] /\ held = {}
  /\ serial = None /\ serialHeld = FALSE
  /\ process = "down"
  /\ path = None /\ key = None /\ rootSelected = FALSE /\ rootIsCmla = FALSE
  /\ cut = {} /\ disturbed = "no" /\ given = None

-----------------------------------------------------------------------------
(* Roots and their files.                                                  *)

Imported == {r \in Roots : folder[r] # None}

\* Where a root is looked for: on C:, and in ROM only when it has no folder there.
PlaceOf(r) == [drive |-> IF folder[r] # None THEN "c" ELSE "z", root |-> r]

\* The roots there are: the folders of C: and those of ROM.
TrustedRoots == Imported \cup RomRoots

FileAt(p, f) == IF p.drive = "z" THEN RomPair ELSE folder[p.root][f]

\* ReadFileL opens the file: it must exist, and must not be open for writing.
Readable(p, f) == FileAt(p, f) # None /\ ~(p.drive = "c" /\ <<p.root, f>> \in held)

\* The signing certificates in the folder; the last name is taken for the root's.
SigningFound(p) == {f \in SigningFiles : FileAt(p, f) # None}
TakenForRootFirst(p) == Min(SigningFound(p))  \* mutant: the first is taken
TakenForRoot(p) == Max(SigningFound(p))

\* The file that holds the root's own certificate.
RootFile(p) == LastFile(IF p.drive = "z" THEN Signing ELSE chain[p.root])

-----------------------------------------------------------------------------
(* Selecting a root.                                                       *)

\* The key file can be read and is whole.
KeyLoads(p) == Readable(p, KeyFile) /\ FileAt(p, KeyFile) # Empty

\* Mutant: the old key is deleted only when the new one has been read.
CannotLoadKeyAndKeepsOld(p) ==
  /\ disturbed' = "failed"
  /\ process' = "up" /\ UNCHANGED <<key, rootSelected, rootIsCmla>>

\* InitializeKeyL has deleted the old key before it reads the new one.  It may
\* leave on a whole file too: there is a decoding, and memory, at every line.
CannotLoadKey(p) ==
  /\ key' = None /\ disturbed' = "failed"
  /\ process' = "up" /\ UNCHANGED <<rootSelected, rootIsCmla>>

LoadKey(p) ==
  /\ KeyLoads(p)
  /\ key' = [root |-> p.root, pair |-> FileAt(p, KeyFile)]

\* CheckRootForCmlaL takes the last of the signing certificates.  There is an
\* index below zero, and a panic, when there is none, and a null list when the
\* directory could not be read, which nobody asks.
PanicsForCmla(p) ==
  /\ process' = "panicked" /\ disturbed' = "failed"
  /\ UNCHANGED <<rootSelected, rootIsCmla>>

\* The certificate cannot be read, or cannot be decoded, or there is no memory.
CannotCheckForCmla(p) ==
  /\ SigningFound(p) # {}
  /\ disturbed' = "failed"
  /\ process' = "up" /\ UNCHANGED <<rootSelected, rootIsCmla>>

\* Of a chain only the root's certificate has the root's name.
CheckRootForCmla(p) ==
  /\ SigningFound(p) # {}
  /\ Readable(p, TakenForRoot(p)) /\ FileAt(p, TakenForRoot(p)) # Empty
  /\ rootIsCmla' = (TakenForRoot(p) = RootFile(p) /\ p.root \in CmlaRoots)
  /\ rootSelected' = TRUE /\ disturbed' = "no"
  /\ process' = "up"

SelectAt(p) ==
  /\ path' = p
  /\ \/ CannotLoadKey(p)
     \/ /\ LoadKey(p)
        /\ \/ PanicsForCmla(p)
           \/ CannotCheckForCmla(p)
           \/ CheckRootForCmla(p)

\* SelectTrustedRootL: a hash that has no folder leaves before anything is changed.
SelectTrustedRoot(r) ==
  /\ process = "up" /\ r \in TrustedRoots
  /\ SelectAt(PlaceOf(r))
  /\ UNCHANGED <<storageDisk, held, serialHeld, given>>

\* The first folder of C:, and of ROM only if C: has none.
First(r, S) == r \in S /\ \A q \in S : r <= q
IsDefault(p) ==
  IF Imported # {} THEN p.drive = "c" /\ First(p.root, Imported)
                   ELSE p.drive = "z" /\ First(p.root, RomRoots)

SelectDefaultRoot ==
  /\ process = "up"
  /\ \E p \in Places : IsDefault(p) /\ SelectAt(p)
  /\ UNCHANGED <<storageDisk, held, serialHeld, given>>

-----------------------------------------------------------------------------
(* Reading and signing.                                                    *)

\* GetCertificateChainL reads from the session path, whatever it is by now.
CanReadChain ==
  /\ process = "up" /\ rootSelected
  /\ Readable(path, CertFile)
  /\ \A f \in SigningFound(path) : Readable(path, f)

\* RsaSignL and RsaDecryptL use iKey without asking whether there is one.
SignWithoutKey ==
  /\ process = "up" /\ key = None
  /\ process' = "panicked"
  /\ UNCHANGED <<storageDisk, held, serialHeld, selection, given>>

\* GetRootCertificatesL walks through every folder with the session path and
\* puts it back at the end, which it does not reach if a folder stops it: one it
\* cannot read, or any other that comes no later, for want of memory.
Walk == [drive : {"c"}, root : Imported] \cup [drive : {"z"}, root : RomRoots]
Blocks(p) == SigningFound(p) = {} \/ ~Readable(p, TakenForRoot(p))
Before(p, q) == \/ p.drive = "c" /\ q.drive = "z"
                \/ p.drive = q.drive /\ p.root < q.root

RootCertificatesStopAt(p) ==
  /\ process = "up" /\ p \in Walk
  /\ \A q \in Walk : Blocks(q) /\ q # p => Before(p, q)
  /\ path' = p /\ disturbed' = "moved"
  /\ process' \in {"up"} \cup (IF SigningFound(p) = {} THEN {"panicked"} ELSE {})
  /\ UNCHANGED <<storageDisk, held, serialHeld, key, rootSelected, rootIsCmla, given>>

-----------------------------------------------------------------------------
(* Importing a key and its chain.                                          *)

\* The folder after n files were written; the next one may have been created.
\* A file that is still open can be neither deleted nor replaced.
Written(r, pair, n, created) ==
  [f \in KeyFiles |->
     IF <<r, f>> \in held THEN Empty
     ELSE IF f <= n THEN pair
     ELSE IF f = n + 1 /\ created THEN Empty ELSE None]

\* The files that can be written: up to the first that is still open.
CanWrite(r, n) == \A f \in 1..n : <<r, f>> \notin held

\* A file that an earlier import has left open stays beside the new ones.
LeftOpen(r) == \E f \in KeyFiles : <<r, f>> \in held
CutUnlessWhole(r) == IF LeftOpen(r) THEN cut \cup {r} ELSE cut \ {r}

\* Mutant: the storage's folder is deleted and not the root's.
ImportDoneAlone(r, pair, signing) ==
  /\ CanWrite(r, LastFile(signing))
  /\ folder' = [q \in Roots |-> IF q = r THEN Written(r, pair, LastFile(signing), FALSE) ELSE None]
  /\ cut' = CutUnlessWhole(r)
  /\ UNCHANGED <<held, process>>

\* ImportDataL: the old folder is deleted, the new one is made the session
\* path, and the files are written one after the other.
ImportDone(r, pair, signing) ==
  /\ CanWrite(r, LastFile(signing))
  /\ folder' = [folder EXCEPT ![r] = Written(r, pair, LastFile(signing), FALSE)]
  /\ cut' = CutUnlessWhole(r)
  /\ UNCHANGED <<held, process>>

\* A write fails and leaves: a file that was replaced stays open, since nothing
\* closes it.  The whole of a folder that cannot even be made leaves as well.
KeyImportLeaves(r, pair, n, created) ==
  /\ CanWrite(r, n) /\ (created => CanWrite(r, n + 1))
  /\ folder' = [folder EXCEPT ![r] = Written(r, pair, n, created)]
  /\ held' = IF created THEN held \cup {<<r, n + 1>>} ELSE held
  /\ cut' = cut \cup {r}
  /\ UNCHANGED process

\* A chain may be the root's certificate alone: nothing asks for a signing one.
ImportData(r, pair, signing) ==
  /\ process = "up"
  /\ \/ ImportDone(r, pair, signing)
     \/ \E n \in 0..signing + 1, created \in BOOLEAN : KeyImportLeaves(r, pair, n, created)
  /\ chain' = [chain EXCEPT ![r] = signing]
  /\ path' = [drive |-> "c", root |-> r] /\ disturbed' = "moved"
  /\ UNCHANGED <<serial, serialHeld, key, rootSelected, rootIsCmla, given>>

-----------------------------------------------------------------------------
(* The serial number.                                                      *)

\* GenerateNewRdbSerialNumberL, when there is no file; its write may fail.
SerialGeneratedAs(s) == IF serial = None THEN s ELSE serial

CannotGenerateSerial ==
  /\ process = "up" /\ serial = None
  /\ serial' = Empty /\ serialHeld' = TRUE
  /\ UNCHANGED <<folder, chain, cut, held, process, selection, given>>

GetRdbSerialNumber ==
  /\ process = "up" /\ ~serialHeld
  /\ \E s \in Serials : serial' = SerialGeneratedAs(s)
  /\ given' = serial'
  /\ UNCHANGED <<folder, chain, cut, held, serialHeld, process, selection>>

-----------------------------------------------------------------------------
(* The process.                                                            *)

\* ConstructL, in a new process: TRAP_IGNORE around the default selection
\* stops a leave, not a panic.
Start ==
  /\ process = "down"
  /\ IF TrustedRoots = {} THEN process' = "up" /\ UNCHANGED selection
                          ELSE \E p \in Places : IsDefault(p) /\ SelectAt(p)
  /\ UNCHANGED <<storageDisk, held, serialHeld, given>>

\* What ends with the process: its members, and the files it held open.
Ends ==
  /\ process' = "down"
  /\ held' = {} /\ serialHeld' = FALSE
  /\ path' = None /\ key' = None
  /\ rootSelected' = FALSE /\ rootIsCmla' = FALSE /\ disturbed' = "no"
  /\ UNCHANGED given

Stop == process # "down" /\ Ends /\ UNCHANGED storageDisk

\* The power is lost while the old folder is deleted, ...
CutWhileDeleting(r) ==
  /\ process = "up" /\ folder[r] # None
  /\ \E left \in SUBSET {f \in KeyFiles : folder[r][f] # None} :
       folder' = [folder EXCEPT ![r] = [f \in KeyFiles |-> IF f \in left THEN @[f] ELSE None]]
  /\ cut' = cut \cup {r}
  /\ Ends /\ UNCHANGED <<chain, serial>>

\* ... while the new one is written, ...
CutWhileWriting(r, pair, signing, n, created) ==
  /\ process = "up" /\ CanWrite(r, n) /\ (created => CanWrite(r, n + 1))
  /\ folder' = [folder EXCEPT ![r] = Written(r, pair, n, created)]
  /\ chain' = [chain EXCEPT ![r] = signing]
  /\ cut' = cut \cup {r}
  /\ Ends /\ UNCHANGED serial

\* ... or between creating and writing the file of the serial number.
CutWhileGenerating ==
  /\ process = "up" /\ serial = None /\ serial' = Empty
  /\ Ends /\ UNCHANGED <<folder, chain, cut>>

StoragePowerLost ==
  \/ \E r \in Roots : CutWhileDeleting(r)
  \/ \E r \in Roots, pair \in Pairs, signing \in Chains, created \in BOOLEAN :
       \E n \in 0..signing + 1 : CutWhileWriting(r, pair, signing, n, created)
  \/ CutWhileGenerating

-----------------------------------------------------------------------------
StorageNext ==
  \/ Start \/ Stop \/ StoragePowerLost
  \/ SelectDefaultRoot
  \/ \E r \in Roots : SelectTrustedRoot(r)
  \/ SignWithoutKey
  \/ \E p \in Places : RootCertificatesStopAt(p)
  \/ \E r \in Roots, pair \in Pairs, signing \in Chains : ImportData(r, pair, signing)
  \/ GetRdbSerialNumber \/ CannotGenerateSerial

StorageSpec == StorageInit /\ [][StorageNext]_storageVars

-----------------------------------------------------------------------------
(* What should hold.                                                       *)

\* A root whose selection would succeed.
Selectable(r) ==
  LET p == PlaceOf(r) IN
    /\ r \in TrustedRoots
    /\ KeyLoads(p) /\ SigningFound(p) # {}
    /\ Readable(p, TakenForRoot(p)) /\ FileAt(p, TakenForRoot(p)) # Empty

\* A selection that fails, wherever it leaves, never puts one root's key beside
\* another root's folder: RsaSignL has no key, or the key of the folder that
\* GetCertificateChainL reads, until an import or a failed listing moves the path.
KeyFitsPath ==
  process = "up" /\ key # None /\ disturbed # "moved" =>
    key = [root |-> path.root, pair |-> FileAt(path, KeyFile)]

\* The certificates that GetCertificateChainL reads certify the key that RsaSignL
\* signs with, and the CMLA flag is that root's, unless an import or a failed
\* operation came after the selection, or the root's own import was cut short.
ChainFitsKey ==
  rootSelected /\ disturbed = "no" /\ key.root \notin cut =>
    /\ path = PlaceOf(key.root)
    /\ CanReadChain
    /\ \A f \in 1..RootFile(path) : FileAt(path, f) = key.pair
    /\ rootIsCmla = (key.root \in CmlaRoots)

\* What was imported for a root is its certificate alone, and no selection of it
\* finds a signing certificate.
CertificateAlone(r) == folder[r] # None /\ chain[r] = 0

\* A root that can be selected stays so, whatever is imported, stopped or lost,
\* unless its own import is cut short or brings its certificate alone.
RootsNeverLost ==
  [][\A r \in Roots :
       Selectable(r) => Selectable(r)' \/ r \in cut' \/ CertificateAlone(r)']_storageVars

\* The serial number that one caller was given is the one that all are given,
\* also after the power was lost while it was made.
SerialNeverChanges == [][given # None => given' = given]_storageVars

=============================================================================
