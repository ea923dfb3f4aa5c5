----------------------------- MODULE MCMarkWrites -----------------------------
(***************************************************************************)
(* Instances of MarkWrites for TLC.                                        *)
(***************************************************************************)
EXTENDS MarkWrites, TLC

Alike == Permutations(Calls)

=============================================================================
