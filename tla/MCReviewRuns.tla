---------------------------- MODULE MCReviewRuns ----------------------------
(***************************************************************************)
(* Instances of ReviewRuns for TLC.                                        *)
(***************************************************************************)
EXTENDS ReviewRuns, TLC

\* Handlers are alike, and so are credentials.
Alike == Permutations(Slots) \cup Permutations(Creds)

=============================================================================
