------------------------ MODULE MCCollabPersistence ------------------------
(***************************************************************************)
(* Instances of CollabPersistence for TLC.                                 *)
(***************************************************************************)
EXTENDS CollabPersistence, TLC

EditSymmetry == Permutations(Edits)

=============================================================================
