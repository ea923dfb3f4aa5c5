-------------------------- MODULE MCHostedDocument --------------------------
(***************************************************************************)
(* Instances of HostedDocument for TLC.                                    *)
(***************************************************************************)
EXTENDS HostedDocument

=============================================================================
