---------------------------- MODULE MCSvgDocument ----------------------------
(***************************************************************************)
(* What a client loads in SvgDocument.cfg: pictures, plain, compressed and     *)
(* protected, and a file too short for a header.                            *)
(***************************************************************************)
EXTENDS SvgDocument

MCContents ==
  {[gzip |-> FALSE, protected |-> FALSE, short |-> FALSE, form |-> "binary"],
   [gzip |-> FALSE, protected |-> TRUE, short |-> FALSE, form |-> "binary"],
   [gzip |-> TRUE, protected |-> FALSE, short |-> FALSE, form |-> "text"],
   [gzip |-> TRUE, protected |-> TRUE, short |-> FALSE, form |-> "text"],
   [gzip |-> FALSE, protected |-> FALSE, short |-> TRUE, form |-> "junk"]}
=============================================================================
