----------------------------- MODULE MCKeySound -----------------------------
(***************************************************************************)
(* Instances of KeySoundServer.  A session is a model value; sessions are  *)
(* interchangeable.                                                        *)
(***************************************************************************)
EXTENDS KeySoundServer

Symmetry == Permutations(Sessions)

(* Sounds and the context touch each other only where a session closes.    *)
(* The instance looks at sounds with two clients, no sound maps and nobody *)
(* in the foreground, and at maps and the lock with three clients and no   *)
(* sounds.                                                                 *)
SoundsAlone == /\ iCurrentSoundStack = None /\ soundMaps = {}
               /\ Cardinality(Open) <= 2
ContextAlone == iSidList = <<>> /\ \A s \in Sessions : iClientUid[s] \in {0, 1}
SoundsOrContext == SoundsAlone \/ ContextAlone
=============================================================================
