------------------------------ MODULE SvgCommon ------------------------------
(***************************************************************************)
(* None is a null pointer of the SVG engine: no list is being told, a document *)
(* has no tree, the engine has no document, link, buffer or context.         *)
(***************************************************************************)
CONSTANT None
=============================================================================
