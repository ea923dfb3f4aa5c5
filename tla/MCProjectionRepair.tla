-------------------------- MODULE MCProjectionRepair --------------------------
(***************************************************************************)
(* Instances of ProjectionRepair for TLC.                                  *)
(***************************************************************************)
EXTENDS ProjectionRepair

=============================================================================
