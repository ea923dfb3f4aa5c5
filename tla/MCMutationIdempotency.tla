----------------------- MODULE MCMutationIdempotency -----------------------
(***************************************************************************)
(* Instances of MutationIdempotency for TLC: a reserved key and a key of   *)
(* POST /documents/:slug/ops.                                              *)
(***************************************************************************)
EXTENDS MutationIdempotency, TLC

\* Attempts are alike, and so are bodies. For runs of safety properties only.
RequestSymmetry == Permutations(Requests) \cup Permutations(Hashes)

=============================================================================
