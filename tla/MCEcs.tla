------------------------------- MODULE MCEcs -------------------------------
(***************************************************************************)
(* An instance of EcsDetector: the service number is 13.  E is 3 on a      *)
(* qwerty and 1 on a half qwerty keyboard, where U is 3.                   *)
(***************************************************************************)
EXTENDS EcsDetector

TypedKeys == {"E", "U", "1"}
OneThree == <<"1", "3">>
ApplicationBuffers == {<<>>, <<"1", "3">>, <<"1", "3", "1", "3">>, <<"1">>}
=============================================================================
