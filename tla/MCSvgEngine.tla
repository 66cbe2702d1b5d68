----------------------------- MODULE MCSvgEngine -----------------------------
(***************************************************************************)
(* Two documents, one with two links and one a thumbnail, and a link of a file; *)
(* two buffers, one of them too large for thumbnails.                        *)
(***************************************************************************)
EXTENDS SvgEngine, TLC

CONSTANTS d1, d2, a1, a2, f1, small, large

MCDocumentOf == a1 :> d1 @@ a2 :> d1 @@ f1 :> "file"
MCSizeOf == small :> 2 @@ large :> 81

(* The pointer is explored with a context of the buffer's size, outside of files  *)
(* the buffer the engine was made with, one buffer or none, and no link that was   *)
(* asked for; so are links that were asked for, with the pointer over none; and    *)
(* other buffers and contexts with neither.                                 *)
AsMade ==
  /\ iGfxContext = Side(iFrameBuffer)
  /\ iFrameBufferSize = Side(IF rendering = <<>> THEN iFrameBuffer ELSE rendering[1].buffer)
OneBuffer == iFrameBuffer \in {None, small}
NoHover == iMouseoverElement = None /\ entered = {} /\ by = "href" /\ ~Inside(Hovers)
NoLink == iLinkUri = None /\ ~nested
OneQuestion ==
  \/ AsMade /\ (NoHover \/ (OneBuffer /\ NoLink))
  \/ NoHover /\ NoLink /\ ~disturbed
=============================================================================
