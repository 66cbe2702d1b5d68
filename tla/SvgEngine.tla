------------------------------ MODULE SvgEngine ------------------------------
(***************************************************************************)
(* What the SVG engine (CSvgEngineImpl) keeps between the calls of its        *)
(* client: the document, the link under the pointer, the link that was asked   *)
(* for, the buffer it draws into and the graphics context of that buffer's      *)
(* size.  The client is called back while the engine tells it of a link and     *)
(* while it draws a file, and may call the engine again before that call has   *)
(* ended.                                                                  *)
(***************************************************************************)
EXTENDS SvgCommon, Integers, Sequences, SequencesExt

CONSTANTS
  Documents,
  ThumbnailOnly,  \* those that are protected and were opened as thumbnails
  Links,          \* the <a> elements
  DocumentOf,     \* the document of a link, "file" if it is one of a file's
  Unnamed,        \* links without an id
  Uris,           \* what a link may point to
  Internal,       \* those that begin with #
  Buffers,
  SizeOf,         \* of a buffer: the length of its sides, which are equal here
  Sizes,          \* the sizes a client may pass with a buffer
  MaxDepth        \* bound: calls that tell, and files, inside each other

ASSUME DocumentsAssumption ==
  /\ ThumbnailOnly \subseteq Documents
  /\ DocumentOf \in [Links -> Documents \cup {"file"}]
  /\ Unnamed \subseteq Links /\ Internal \subseteq Uris
ASSUME SizesAssumption ==
  SizeOf \in [Buffers -> Nat \ {0}] /\ Sizes \subseteq Nat
ASSUME DepthAssumption == MaxDepth \in Nat
ASSUME NoLinkAssumption ==
  None \notin Documents \cup Links \cup Uris \cup Buffers \cup Nat

VARIABLES
  iSvgDocument,
  iMouseoverElement,  \* the link the pointer is over
  listening,          \* someone listens to links
  calls,              \* what the calls that are telling the client do when it returns
  iLinkUri,           \* the link that was asked for
  iFrameBuffer,
  iFrameBufferSize,   \* the size the client passed, 0 if it passed none
  iGfxContext,        \* the size of the graphics context, None if there is none
  rendering,              \* the files that are being rendered, with what was there before
  crashed,
  \* history
  entered,     \* the links told as entered and not told as left, by the name used
  by,          \* the name by which the link under the pointer was told
  disturbed,   \* see ListenersKnowHover
  replaced,    \* see HoverInDocument
  followed,    \* how often the link that was asked for last has been told
  lost,        \* that link was forgotten and there was somebody to tell it to
  nested       \* an event came while the client was told of a link

hovering == <<iMouseoverElement, entered, by, disturbed, replaced>>
linking == <<iLinkUri, followed, lost, nested>>
drawing == <<iFrameBuffer, iFrameBufferSize, iGfxContext>>
filing == <<rendering, crashed>>
engineVars == <<iSvgDocument, listening, calls, hovering, linking, drawing, filing>>

(* The engine is made with a buffer, whose size it keeps, or without.        *)
EngineInit ==
  /\ iSvgDocument = None /\ iMouseoverElement = None /\ listening = FALSE
  /\ calls = <<>> /\ iLinkUri = None
  /\ iFrameBuffer \in Buffers \cup {None}
  /\ iFrameBufferSize = IF iFrameBuffer = None THEN 0 ELSE SizeOf[iFrameBuffer]
  /\ iGfxContext = iFrameBufferSize
  /\ rendering = <<>> /\ crashed = FALSE
  /\ entered = {} /\ by = "href" /\ disturbed = FALSE /\ replaced = FALSE
  /\ followed = 0 /\ lost = FALSE /\ nested = FALSE

Nestable == Len(calls) + Len(rendering) < MaxDepth
CallBack(op, link, name) ==
  calls' = Append(calls, [op |-> op, link |-> link, name |-> name])
Inside(ops) == \E i \in DOMAIN calls : calls[i].op \in ops
Hovers == {"cross", "arrive"}
Returning(op) ==
  /\ calls # <<>> /\ Last(calls).op = op
  /\ rendering # <<>> => Len(calls) > Last(rendering).depth

-----------------------------------------------------------------------------
(* Documents                                                                *)

SetDocument(d) ==
  /\ iSvgDocument' = d
  /\ replaced' =
       \/ replaced
       \/ rendering = <<>> /\ d # iSvgDocument /\ (iMouseoverElement # None \/ Inside(Hovers))
  /\ UNCHANGED <<listening, calls, iMouseoverElement, entered, by, disturbed, linking,
                 drawing, filing>>

\* Mutant: the link under the pointer is kept.
KeepsHover == iMouseoverElement

Forgets == None

(* Drawing from the start forgets the link under the pointer and tells nobody. *)
ForgetHover ==
  /\ iMouseoverElement' = Forgets
  /\ disturbed' = (disturbed \/ iMouseoverElement # None \/ Inside(Hovers))
  /\ replaced' = (replaced /\ Inside(Hovers))
  /\ UNCHANGED <<iSvgDocument, listening, calls, entered, by, linking, drawing, filing>>

StartEngine == iFrameBuffer # None /\ iSvgDocument # None /\ ForgetHover
RenderFrame == iFrameBuffer # None /\ iSvgDocument # None /\ ForgetHover

-----------------------------------------------------------------------------
(* The link under the pointer.  It is told as left and the next as entered    *)
(* before the engine remembers which it is.                                 *)

Listen(on) ==
  /\ listening' = on
  /\ disturbed' = (disturbed \/ iMouseoverElement # None \/ calls # <<>>)
  /\ UNCHANGED <<iSvgDocument, calls, iMouseoverElement, entered, by, replaced, linking,
                 drawing, filing>>

Enters(name, link) ==
  entered' = IF listening THEN entered \cup {<<name, link>>} ELSE entered
Exits(name, link) ==
  entered' = IF listening THEN entered \ {<<name, link>>} ELSE entered

Disturbs(condition) == disturbed' = (disturbed \/ Inside(Hovers) \/ condition)

\* Mutant: the link that is left is not told.
CrossesSilently(link) ==
  /\ IF link = None THEN Exits("href", iMouseoverElement) ELSE Enters("href", link)
  /\ CallBack("arrive", link, "href")
  /\ Disturbs(by # "href")

Crosses(link) ==
  /\ Exits("href", iMouseoverElement)
  /\ CallBack(IF link = None THEN "arrive" ELSE "cross", link, "href")
  /\ Disturbs(by # "href")

(* The link at the pointer, None where there is no link: nothing happens as    *)
(* long as it is the same.                                                  *)
CheckForHyperlinkMouseover(link) ==
  /\ Nestable /\ listening /\ iSvgDocument # None
  /\ link # None => DocumentOf[link] = iSvgDocument
  /\ link # iMouseoverElement
  /\ IF iMouseoverElement = None
     THEN Enters("href", link) /\ CallBack("arrive", link, "href") /\ Disturbs(FALSE)
     ELSE Crosses(link)
  /\ UNCHANGED <<iSvgDocument, listening, iMouseoverElement, by, replaced, linking,
                 drawing, filing>>

LeftTold ==
  /\ Returning("cross")
  /\ Enters("href", Last(calls).link)
  /\ calls' = Append(Front(calls), [Last(calls) EXCEPT !.op = "arrive"])
  /\ UNCHANGED <<iSvgDocument, listening, iMouseoverElement, by, disturbed, replaced,
                 linking, drawing, filing>>

AllTold ==
  /\ Returning("arrive")
  /\ iMouseoverElement' = Last(calls).link /\ by' = Last(calls).name
  /\ replaced' = (replaced \/ (rendering # <<>> /\ Last(calls).link # None))
  /\ calls' = Front(calls)
  /\ UNCHANGED <<iSvgDocument, listening, entered, disturbed, linking, drawing, filing>>

(* An element that gets or loses the focus is told by its id, if it has one.   *)
NotifyElementActivatedLinkEntered(link) ==
  /\ Nestable /\ DocumentOf[link] = iSvgDocument /\ iMouseoverElement = None
  /\ IF link \in Unnamed THEN UNCHANGED entered ELSE Enters("id", link)
  /\ CallBack("arrive", link, "id") /\ Disturbs(~listening)
  /\ UNCHANGED <<iSvgDocument, listening, iMouseoverElement, by, replaced, linking,
                 drawing, filing>>

NotifyElementActivatedLinkExited(link) ==
  /\ Nestable /\ iMouseoverElement = link
  /\ IF link \in Unnamed THEN UNCHANGED entered ELSE Exits("id", link)
  /\ CallBack("arrive", None, "id") /\ Disturbs(by # "id" \/ ~listening)
  /\ UNCHANGED <<iSvgDocument, listening, iMouseoverElement, by, replaced, linking,
                 drawing, filing>>

-----------------------------------------------------------------------------
(* Links that are followed                                                  *)

PassesThumbNailRestriction ==
  ~(iSvgDocument \in ThumbnailOnly /\ iFrameBuffer # None /\ SizeOf[iFrameBuffer] > 80)

\* Mutant: the link stays as it was asked for.
Keeps(uri) == uri

Resets(uri) == None

(* An element that handles an event asks for a link, in place of any that was    *)
(* asked for before.                                                       *)
LinkRequest(uri) ==
  /\ iLinkUri' = uri /\ followed' = 0
  /\ nested' = (nested \/ Inside({"follow"}))
  /\ UNCHANGED <<iSvgDocument, listening, calls, hovering, lost, drawing, filing>>

IsHeard(uri) == uri \notin Internal /\ iSvgDocument # None /\ listening

Follows(uri) ==
  \* what is started in the document leaves, and the link stays
  \/ /\ uri \in Internal /\ iSvgDocument # None
     /\ UNCHANGED <<iLinkUri, followed, calls>>
  \* a target in the document, no document, or nobody who listens
  \/ ~IsHeard(uri) /\ iLinkUri' = Resets(uri) /\ followed' = 0 /\ UNCHANGED calls
  \* the client is told
  \/ /\ IsHeard(uri)
     /\ followed' = followed + 1 /\ CallBack("follow", None, "href") /\ UNCHANGED iLinkUri

(* After an event of the user, for whatever document, the link that was asked   *)
(* for is followed.                                                        *)
ProcessEvent ==
  /\ Nestable /\ PassesThumbNailRestriction /\ iLinkUri # None /\ Follows(iLinkUri)
  /\ nested' = (nested \/ Inside({"follow"}))
  /\ UNCHANGED <<iSvgDocument, listening, hovering, lost, drawing, filing>>

LinkTold ==
  /\ Returning("follow")
  /\ iLinkUri' = Resets(iLinkUri)
  /\ lost' = (lost \/ (iLinkUri # None /\ followed = 0))
  /\ followed' = IF iLinkUri' = None THEN 0 ELSE followed
  /\ calls' = Front(calls)
  /\ UNCHANGED <<iSvgDocument, listening, hovering, nested, drawing, filing>>

-----------------------------------------------------------------------------
(* The buffer and the graphics context                                      *)

Side(buffer) == IF buffer = None THEN 0 ELSE SizeOf[buffer]

(* A context that cannot be resized, or made, is left as it was.  Without a    *)
(* buffer none is made.                                                     *)
MayResize(size) ==
  iGfxContext' \in {iGfxContext}
                     \cup (IF iGfxContext = None /\ size = 0 THEN {} ELSE {size})

SetGdiContext(buffer) ==
  /\ iFrameBuffer' = buffer /\ MayResize(Side(buffer))
  /\ UNCHANGED <<iSvgDocument, listening, calls, hovering, linking, iFrameBufferSize,
                 filing>>

SetGdiContextWithSize(buffer, size) ==
  /\ iFrameBuffer' = buffer /\ iFrameBufferSize' = size
  /\ IF size = 0 /\ iGfxContext # None
     THEN iGfxContext' \in {iGfxContext, 1}
     ELSE MayResize(size)
  /\ UNCHANGED <<iSvgDocument, listening, calls, hovering, linking, filing>>

CustomOption ==
  /\ iGfxContext' \in {None, iFrameBufferSize}
  /\ UNCHANGED <<iSvgDocument, listening, calls, hovering, linking, iFrameBuffer,
                 iFrameBufferSize, filing>>

(* A document of the call's own is loaded and drawn into the given buffer,     *)
(* until something fails: the context first, then the document.  Once it is set, *)
(* the client is called back to update its presentation and its screen.        *)
RenderFile(buffer) ==
  /\ Nestable /\ iGfxContext # None
  /\ iFrameBuffer' = buffer
  /\ \E drawn \in BOOLEAN :
       /\ rendering' = Append(rendering, [document |-> iSvgDocument, buffer |-> iFrameBuffer,
                                         depth |-> Len(calls), drawn |-> drawn])
       /\ IF drawn
          THEN iGfxContext' = Side(buffer) /\ iSvgDocument' = "file"
          ELSE iGfxContext' \in {iGfxContext, Side(buffer)} /\ UNCHANGED iSvgDocument
  /\ UNCHANGED <<listening, calls, hovering, linking, iFrameBufferSize, crashed>>

IsCalled == rendering # <<>> => Last(rendering).drawn
FileEnds == rendering # <<>> /\ Len(calls) = Last(rendering).depth

\* Mutant: the document is not put back.
DocumentOfFile == iSvgDocument

DocumentAfterFile == Last(rendering).document

(* Whatever failed, the document and the buffer are put back.                *)
PutBack ==
  /\ FileEnds /\ Last(rendering).document # None
  /\ iSvgDocument' = DocumentAfterFile
  /\ iFrameBuffer' = Last(rendering).buffer
  /\ MayResize(Side(Last(rendering).buffer))
  /\ rendering' = Front(rendering)
  /\ UNCHANGED <<listening, calls, hovering, linking, iFrameBufferSize, crashed>>

(* If there was no document, what is put back is told of its engine all the      *)
(* same; and if the client took the document away when it was told to update     *)
(* its screen, drawing goes on to ask it whether its events are sorted.         *)
FollowsNull ==
  /\ FileEnds
  /\ Last(rendering).document = None \/ (Last(rendering).drawn /\ iSvgDocument = None)
  /\ crashed' = TRUE
  /\ UNCHANGED <<iSvgDocument, listening, calls, hovering, linking, drawing, rendering>>

-----------------------------------------------------------------------------
ClientCalls ==
  \/ \E d \in Documents \cup {None} : SetDocument(d)
  \/ StartEngine \/ RenderFrame
  \/ \E on \in BOOLEAN : Listen(on)
  \/ \E link \in Links \cup {None} : CheckForHyperlinkMouseover(link)
  \/ \E link \in Links :
       \/ NotifyElementActivatedLinkEntered(link)
       \/ NotifyElementActivatedLinkExited(link)
  \/ \E uri \in Uris : LinkRequest(uri)
  \/ ProcessEvent
  \/ \E buffer \in Buffers \cup {None} :
       \/ SetGdiContext(buffer)
       \/ \E size \in Sizes : SetGdiContextWithSize(buffer, size)
  \/ CustomOption
  \/ \E buffer \in Buffers : RenderFile(buffer)

CallsReturn == LeftTold \/ AllTold \/ LinkTold

EngineNext ==
  /\ ~crashed
  /\ \/ IsCalled /\ ClientCalls
     \/ CallsReturn
     \/ PutBack \/ FollowsNull

EngineSpec == EngineInit /\ [][EngineNext]_engineVars

-----------------------------------------------------------------------------
(* The client is told of a link as left if it was told as entered, before it    *)
(* is told of another one, and by the same name: unless it draws from the      *)
(* start or changes who listens while the pointer is over a link, calls the     *)
(* engine from within, or lets both the pointer and the focus move.          *)
ListenersKnowHover ==
  calls = <<>> /\ ~disturbed =>
    entered = IF \/ iMouseoverElement = None
                 \/ by = "id" /\ iMouseoverElement \in Unnamed
              THEN {} ELSE {<<by, iMouseoverElement>>}

(* The link under the pointer is one of the current document, which is there,  *)
(* unless the document was replaced, or a link entered while a file was rendered, *)
(* and nothing drawn from the start since.                                  *)
HoverInDocument ==
  rendering = <<>> /\ iMouseoverElement # None /\ ~replaced =>
    DocumentOf[iMouseoverElement] = iSvgDocument

(* The link that was asked for last is told once, and not forgotten untold while *)
(* there is a document and somebody who listens: unless the client passes an     *)
(* event on from within.  Links that were asked for before it are dropped for it. *)
EachLinkFollowedOnce == ~nested => followed <= 1 /\ ~lost

(* A file that was rendered leaves the document and the buffer that were there   *)
(* before, whatever failed and whatever the client called while it was drawn, and  *)
(* the context with the size of that buffer or, where it cannot be resized, as it  *)
(* is.  Only without a document, before or because the client took it away while   *)
(* the file was drawn, is nothing put back: a null pointer is followed.         *)
FileLeavesEngineAsItWas ==
  [][/\ Len(rendering') < Len(rendering) =>
          /\ iSvgDocument' = Last(rendering).document /\ iFrameBuffer' = Last(rendering).buffer
          /\ iGfxContext' \in {Side(Last(rendering).buffer), iGfxContext}
     /\ crashed' => Last(rendering).document = None \/ iSvgDocument = None]_engineVars
=============================================================================
