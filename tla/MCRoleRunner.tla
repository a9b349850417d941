----------------------------- MODULE MCRoleRunner -----------------------------
(* Small instances of RoleRunner for TLC. *)
EXTENDS RoleRunner, TLC

\* Failure names are only ever compared for equality.
FailureSymmetry == Permutations(Failures)
=============================================================================
