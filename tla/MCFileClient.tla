---------------------------- MODULE MCFileClient ----------------------------
(* FileClient with its statuses interchangeable. *)
EXTENDS FileClient, TLC

StatusSymmetry == Permutations(Statuses)
=============================================================================
