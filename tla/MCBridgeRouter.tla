--------------------------- MODULE MCBridgeRouter ---------------------------
(***************************************************************************)
(* Instances of BridgeRouter for TLC.                                      *)
(***************************************************************************)
EXTENDS BridgeRouter

=============================================================================
