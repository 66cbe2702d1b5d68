----------------------------- MODULE SvgDocument -----------------------------
(***************************************************************************)
(* Loading a document (CSvgDocumentImpl::Load): compressed content goes      *)
(* through temporary files in the private directory of the process, protected *)
(* content through the rights of the user, and what comes out is parsed.     *)
(* Every step may fail.  A load is one call, yet it may be asked for bytes,   *)
(* a file name, a file handle or a string, and each calls the next, with a     *)
(* file session and an error of its own.                                    *)
(*                                                                         *)
(* Content is what the steps tell apart: whether it begins like a gzip file,   *)
(* what it holds is protected, that it is shorter than the two bytes          *)
(* a header is made of, and the form of the picture inside.                 *)
(***************************************************************************)
EXTENDS SvgCommon, Integers, FiniteSets

CONSTANTS
  Contents,   \* [gzip, protected, short, form]: what a client may load
  MaxImages,  \* bound: external images of a document
  MaxFetches  \* bound: images being fetched at a time

Forms == {"text", "binary", "junk"}

ASSUME ContentsAssumption ==
  Contents \subseteq [gzip : BOOLEAN, protected : BOOLEAN, short : BOOLEAN, form : Forms]
ASSUME ImagesAssumption == MaxImages \in Nat /\ MaxFetches \in Nat
Trees == [of : Contents, whole : BOOLEAN, free : BOOLEAN]

ASSUME NoTreeAssumption == None \notin Contents /\ None \notin Trees

TempFiles == {"bytes", "copy", "unzipped"}

VARIABLES
  stage,    \* the next step of the load that is going on, or "idle"
  content,  \* what is being loaded, or was loaded last
  given,    \* "bytes", "file" or "string"
  temp,     \* the temporary files: "none", "open" or "closed"
  error,    \* the client's error object: is an error set, is it a warning
  iIsDRMProtected,
  iIsThumbNailMode,
  iDrmRightsConsumptionEnabled,
  iDrmEnable,
  iRootElement,      \* the tree: of which content, is it whole, see unpaid below
  iImageElementCnt,
  fetching,          \* images being fetched: for the tree, for earlier trees
  \* history
  decrypted,  \* what is parsed came out of protected content
  unpaid,     \* ... in thumbnail mode, where no rights are used
  consumed,   \* rights were used by this load
  left,       \* temporary files the last load left behind
  lifted,     \* since the last success, thumbnail mode was left or a load that failed
              \* had cleared the mark before
  miscounted, \* not all that were counted were asked for, or earlier ones were on their way
  imagesTold

load == <<stage, content, given, temp, error, decrypted, unpaid, consumed, left>>
modes == <<iIsThumbNailMode, iDrmRightsConsumptionEnabled, iDrmEnable>>
shown == <<iIsDRMProtected, iRootElement>>
images == <<iImageElementCnt, fetching, miscounted, imagesTold>>
documentVars == <<load, modes, shown, images, lifted>>

NoTemp == [f \in TempFiles |-> "none"]

DocumentInit ==
  /\ stage = "idle" /\ content = None /\ given = "file"
  /\ temp = NoTemp /\ error = [set |-> FALSE, warning |-> FALSE]
  /\ iIsDRMProtected = FALSE /\ iIsThumbNailMode = FALSE
  /\ iDrmRightsConsumptionEnabled = TRUE /\ iDrmEnable = TRUE
  /\ iRootElement = None
  /\ iImageElementCnt = 0 /\ fetching = [tree |-> 0, earlier |-> 0]
  /\ decrypted = FALSE /\ unpaid = FALSE /\ consumed = FALSE /\ left = {}
  /\ lifted = FALSE /\ miscounted = FALSE /\ imagesTold = FALSE

-----------------------------------------------------------------------------
(* The end of a load                                                        *)

\* Mutant: the error becomes no more than the warning there was.
PrepareErrorKeepsWarning == [error EXCEPT !.set = TRUE]

PrepareError == [set |-> TRUE, warning |-> FALSE]

\* The file server does not delete an open file.
Delete(files, f) == IF files[f] = "open" THEN files ELSE [files EXCEPT ![f] = "none"]

(* The session is closed, and with it the files that are open; the file made  *)
(* of the bytes is deleted by the outermost call, which leaves the others.    *)
Returns(files) ==
  /\ stage' = "idle" /\ temp' = NoTemp
  /\ left' = {f \in TempFiles \ {"bytes"} : files[f] # "none"}

Fails(files) ==
  /\ error' = PrepareError
  /\ lifted' = (lifted \/ stage \notin {"write", "open"})
  /\ Returns(files)
  /\ UNCHANGED <<content, given, decrypted, unpaid, consumed>>

Continues(to) ==
  /\ stage' = to
  /\ UNCHANGED <<content, given, decrypted, unpaid, consumed, left, lifted>>

-----------------------------------------------------------------------------
(* What the client asks for                                                 *)

Begin(c, how, to) ==
  /\ stage = "idle"
  /\ stage' = to /\ content' = c /\ given' = how
  /\ error' = [error EXCEPT !.set = FALSE]
  /\ decrypted' = FALSE /\ unpaid' = FALSE /\ consumed' = FALSE /\ left' = {}

Compressed(c) == c.gzip
LooksProtected(c) == iDrmEnable /\ c.protected /\ ~c.gzip

LoadBytes(c) ==
  /\ IF Compressed(c) \/ LooksProtected(c)
     THEN Begin(c, "bytes", "write") /\ UNCHANGED iIsDRMProtected
     ELSE Begin(c, "bytes", "parse") /\ iIsDRMProtected' = FALSE
  /\ UNCHANGED <<temp, modes, iRootElement, images, lifted>>

LoadFile(c) ==
  /\ Begin(c, "file", "open")
  /\ UNCHANGED <<temp, modes, shown, images, lifted>>

Load16BitString(c) ==
  /\ Begin(c, "string", "parse") /\ iIsDRMProtected' = FALSE
  /\ UNCHANGED <<temp, modes, iRootElement, images, lifted>>

-----------------------------------------------------------------------------
(* The steps of a load                                                      *)

WriteBytes ==
  /\ stage = "write"
  /\ \/ Fails(temp)
     \/ /\ temp' = [temp EXCEPT !["bytes"] = "closed"]
        /\ error' = [error EXCEPT !.set = FALSE]
        /\ Continues("open")
  /\ UNCHANGED <<modes, shown, images>>

(* A session is connected, a file opened by its name, another session connected.*)
OpenFile ==
  /\ stage = "open"
  /\ \/ Fails(temp)
     \/ Continues("look") /\ UNCHANGED <<temp, error>>
  /\ UNCHANGED <<modes, shown, images>>

(* A header that cannot be read is none; of a file shorter than a header the  *)
(* code looks at what the stack held.                                       *)
MayLook(is) == {FALSE, is} \cup (IF content.short THEN BOOLEAN ELSE {})

Look ==
  /\ stage = "look"
  /\ iIsDRMProtected' = FALSE
  /\ \E gzip \in MayLook(Compressed(content)) :
       Continues(IF gzip THEN "copy" ELSE "look inside")
  /\ UNCHANGED <<temp, error, modes, iRootElement, images>>

(* The copy whose size cannot be learnt is deleted before it is closed.      *)
CopyFile ==
  /\ stage = "copy"
  /\ \/ Fails(temp)
     \/ Fails(Delete([temp EXCEPT !["copy"] = "open"], "copy"))
     \/ /\ temp' = [temp EXCEPT !["copy"] = "closed"]
        /\ Continues("unzip") /\ UNCHANGED error
  /\ UNCHANGED <<modes, shown, images>>

(* The unzipped file is deleted if anything fails, the copy in any case.     *)
Unzip ==
  /\ stage = "unzip"
  /\ LET gone == Delete(temp, "copy") IN
     \/ Fails(gone)
     \/ /\ Compressed(content)
        /\ temp' = [gone EXCEPT !["unzipped"] = "closed"]
        /\ Continues("reopen") /\ UNCHANGED error
  /\ UNCHANGED <<modes, shown, images>>

OpenUnzipped ==
  /\ stage = "reopen"
  /\ \/ Fails(Delete(temp, "unzipped"))
     \/ /\ temp' = [temp EXCEPT !["unzipped"] = "open"]
        /\ Continues("look inside") /\ UNCHANGED error
  /\ UNCHANGED <<modes, shown, images>>

Unzipped == temp["unzipped"] # "none"

LookInside ==
  /\ stage = "look inside"
  /\ \E protected \in MayLook(content.protected /\ (Compressed(content) => Unzipped)) :
       Continues(IF iDrmEnable /\ protected THEN "decrypt" ELSE "read")
  /\ UNCHANGED <<temp, error, modes, shown, images>>

-----------------------------------------------------------------------------
(* Protected content                                                        *)

\* Mutant: protection is for thumbnails that have none.
ProtectsUnlessThumbnail == ~iIsThumbNailMode

Protects == TRUE

(* Rights that cannot be used are passed over: the error that is prepared is   *)
(* the one of reading, and there is none.                                   *)
UsesRights ==
  IF iIsThumbNailMode \/ ~iDrmRightsConsumptionEnabled
  THEN consumed' = FALSE /\ UNCHANGED error
  ELSE \/ consumed' = TRUE /\ UNCHANGED error
       \/ consumed' = FALSE /\ error' = [error EXCEPT !.warning = TRUE]

\* Nothing is deleted: an unzipped file stays.
ProcessDRMError == Fails(temp)

Decrypt ==
  /\ stage = "decrypt"
  /\ \/ ProcessDRMError /\ UNCHANGED iIsDRMProtected
     \/ /\ content.protected /\ UsesRights
        /\ iIsDRMProtected' = Protects
        /\ decrypted' = TRUE /\ unpaid' = iIsThumbNailMode
        /\ stage' = "parse" /\ UNCHANGED <<content, given, temp, left, lifted>>
  /\ UNCHANGED <<modes, iRootElement, images>>

(* The unzipped file is open, and stays when it cannot be read.              *)
Read ==
  /\ stage = "read"
  /\ \/ Fails(Delete(temp, "unzipped"))
     \/ Continues("parse") /\ UNCHANGED <<temp, error>>
  /\ UNCHANGED <<modes, shown, images>>

-----------------------------------------------------------------------------
(* Parsing                                                                  *)

(* What is still compressed or protected is junk to both parsers.            *)
FormParsed ==
  IF \/ Compressed(content) /\ ~Unzipped
     \/ content.protected /\ ~decrypted
     \/ content.short
  THEN "junk" ELSE content.form

Tree(whole) == [of |-> content, whole |-> whole, free |-> unpaid]

(* A decoder that leaves has put its first element into the document, unless  *)
(* the document had a tree already.  A stream without elements is no error.   *)
BinaryResult ==
  \/ /\ iRootElement' \in {Tree(TRUE), None}
     /\ error' \in {error, [set |-> TRUE, warning |-> TRUE]}
  \/ /\ iRootElement' \in {iRootElement}
                            \cup (IF iRootElement = None THEN {Tree(FALSE)} ELSE {})
     /\ error' = PrepareError

(* The handler of text, which is external, says what was wrong with a text     *)
(* of which it returns a part or nothing; making the handler may fail.        *)
TextResult(form) ==
  \/ /\ form = "text" /\ iRootElement' = Tree(TRUE)
     /\ error' \in {error, [set |-> TRUE, warning |-> TRUE]}
  \/ iRootElement' \in {None, Tree(FALSE)} /\ error' = [set |-> TRUE, warning |-> FALSE]
  \/ iRootElement' = iRootElement /\ error' = PrepareError

Decoded == FormParsed = "binary" /\ given # "string"

ProcessSvgContent == IF Decoded THEN BinaryResult ELSE TextResult(FormParsed)

\* Mutant: the unzipped file is deleted before it is closed.
NotClosed(files) == files

Closed(files) ==
  IF files["unzipped"] = "open" THEN [files EXCEPT !["unzipped"] = "closed"] ELSE files

ParseFails == error'.set /\ ~error'.warning

(* What was parsed from a file ends with the file's deletion.                *)
EndOfParse ==
  IF ParseFails
  THEN Returns(Delete(temp, "unzipped")) /\ lifted' = TRUE
  ELSE Returns(Delete(Closed(temp), "unzipped")) /\ lifted' = FALSE

\* Mutant: the images of every tree so far are counted.
CountsAll(n) == iImageElementCnt + n

Counts(n) == n

(* The decoder counts the images of the elements it has made and asks for one  *)
(* after the other, which may fail.  Those of the tree before, which nobody     *)
(* deletes, are still on their way.                                         *)
AsksForImages(n) ==
  \E asked \in 0 .. n :
    LET earlier == fetching.tree + fetching.earlier IN
    /\ earlier + n <= MaxFetches
    /\ ParseFails \/ asked = n
    /\ ~ParseFails /\ iRootElement' = None => n = 0
    /\ iImageElementCnt' = Counts(n)
    /\ fetching' = [tree |-> asked, earlier |-> earlier]
    /\ miscounted' = (earlier > 0 \/ asked < n)
    /\ imagesTold' = FALSE

Parse ==
  /\ stage = "parse"
  /\ ProcessSvgContent
  /\ EndOfParse
  /\ \/ Decoded /\ \E n \in 0 .. MaxImages : AsksForImages(n)
     \/ (Decoded => ParseFails) /\ UNCHANGED images
  /\ UNCHANGED <<content, given, decrypted, unpaid, consumed, iIsDRMProtected, modes>>

-----------------------------------------------------------------------------
(* Between loads                                                            *)

ImageLoadingCompleted ==
  /\ stage = "idle"
  /\ \E whose \in {"tree", "earlier"} :
       /\ fetching[whose] > 0
       /\ fetching' = [fetching EXCEPT ![whose] = @ - 1]
  /\ iImageElementCnt' = iImageElementCnt - 1
  /\ imagesTold' = (imagesTold \/ iImageElementCnt = 1)
  /\ UNCHANGED <<load, modes, shown, miscounted, lifted>>

SetThumbNailMode(on) ==
  /\ stage = "idle"
  /\ iIsThumbNailMode' = on /\ lifted' = (lifted \/ ~on)
  /\ UNCHANGED <<load, iDrmRightsConsumptionEnabled, iDrmEnable, shown, images>>

SetDRMRights(on) ==
  /\ stage = "idle"
  /\ iDrmRightsConsumptionEnabled' = on
  /\ UNCHANGED <<load, iIsThumbNailMode, iDrmEnable, shown, images, lifted>>

SetDRMMode(on) ==
  /\ stage = "idle"
  /\ iDrmEnable' = on
  /\ UNCHANGED <<load, iIsThumbNailMode, iDrmRightsConsumptionEnabled, shown, images,
                 lifted>>

IsThumbNailOnly == iIsThumbNailMode /\ iIsDRMProtected

Steps ==
  \/ WriteBytes \/ OpenFile \/ Look \/ CopyFile \/ Unzip \/ OpenUnzipped \/ LookInside
  \/ Decrypt \/ Read \/ Parse

DocumentNext ==
  \/ \E c \in Contents : LoadBytes(c) \/ LoadFile(c) \/ Load16BitString(c)
  \/ Steps
  \/ ImageLoadingCompleted
  \/ \E on \in BOOLEAN : SetThumbNailMode(on) \/ SetDRMRights(on) \/ SetDRMMode(on)

DocumentSpec == DocumentInit /\ [][DocumentNext]_documentVars

-----------------------------------------------------------------------------
Loaded == stage = "idle" /\ content # None
Succeeded == Loaded /\ (error.set => error.warning)

(* What was shown before, or a part of what was asked for, is never shown as   *)
(* the result of a load that reports no error, or no more than a warning.  Only  *)
(* a binary stream may succeed and show nothing.                            *)
SuccessShowsContent ==
  Succeeded =>
    IF iRootElement = None
    THEN content.form = "binary"
    ELSE iRootElement.of = content /\ iRootElement.whole

(* A load that succeeds leaves no temporary file in the private directory, and *)
(* one that fails no more than one.                                         *)
LeftOnlyByFailure == left # {} => ~Succeeded /\ Cardinality(left) = 1

(* A tree that came out of protected content without using rights, for a        *)
(* thumbnail, is in the document only while that is marked as thumbnail only,   *)
(* until the client leaves thumbnail mode, or a load clears the mark and then     *)
(* fails.  A load that fails before it has looked into the file is no excuse.    *)
FreeIsMarked ==
  Loaded /\ iRootElement # None /\ ~lifted => (iRootElement.free => IsThumbNailOnly)

(* As long as no image of an earlier tree was on its way when the last tree was   *)
(* made, and all that were counted were asked for, the count is what is on its     *)
(* way, and the client was told that the images are loaded only if none is.      *)
ImagesToldWhenLoaded ==
  ~miscounted => iImageElementCnt = fetching.tree /\ (imagesTold => fetching.tree = 0)

=============================================================================
