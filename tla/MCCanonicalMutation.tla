------------------------ MODULE MCCanonicalMutation ------------------------
(***************************************************************************)
(* Instances of CanonicalMutation for TLC.                                 *)
(***************************************************************************)
EXTENDS CanonicalMutation, TLC

CONSTANTS t1, u1, a1, r1, e1

\* The kind of each call an instance may have.
Kinds == (t1 :> "token") @@ (u1 :> "updatedAt") @@ (a1 :> "accept") @@ (r1 :> "rewrite")

MCKind == [m \in Mutations |-> Kinds[m]]

=============================================================================
