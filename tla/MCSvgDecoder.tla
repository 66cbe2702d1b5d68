---------------------------- MODULE MCSvgDecoder ----------------------------
(***************************************************************************)
(* Files of a root and three elements, of twelve sorts: with and without tests   *)
(* that pass or fail, in and around switches, and of every look; and files of    *)
(* a root and four elements of five sorts, for switches inside switches.  A root  *)
(* whose tests fail has one element below it.                                *)
(***************************************************************************)
EXTENDS SvgDecoder, TLC

Plain(kind) ==
  [kind |-> kind, look |-> "plain", forward |-> FALSE, lacks |-> FALSE, embedded |-> FALSE,
   extensions |-> {}, features |-> {}, languages |-> {}]
OfLook(kind, look) == [Plain(kind) EXCEPT !.look = look]

WithoutTests == {Plain("svg"), OfLook("svg", "empty")}
MCRootShapes == WithoutTests \cup {[Plain("svg") EXCEPT !.features = {"Scripting"}]}
MCShapes ==
  { Plain("switch"), [Plain("switch") EXCEPT !.extensions = {"other"}],
    Plain("shape"), [Plain("g") EXCEPT !.languages = {"fr"}],
    [Plain("use") EXCEPT !.forward = TRUE, !.languages = {"en", "fr"}],
    [Plain("motion") EXCEPT !.forward = TRUE, !.lacks = TRUE, !.features = {"Scripting"}],
    Plain("mpath"), [Plain("image") EXCEPT !.embedded = TRUE, !.look = "invisible"],
    [Plain("image") EXCEPT !.features = {"Image"}],
    OfLook("g", "translucent"), OfLook("g", "bare"), OfLook("media", "closed") }

Simple ==
  { Plain("svg"), Plain("switch"), Plain("shape"), [Plain("g") EXCEPT !.languages = {"fr"}],
    [Plain("use") EXCEPT !.forward = TRUE, !.languages = {"en", "fr"}] }
LongFilesAreSimple ==
  \/ Len(element) <= 2
  \/ Len(element) <= 4 /\ element[1] \in WithoutTests
  \/ ToSet(element) \subseteq Simple
=============================================================================
