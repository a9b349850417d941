---------------------------- MODULE MCSessionLife -----------------------------
(* Requests are interchangeable: the role is chosen when one arrives. *)
EXTENDS SessionLife, TLC

Interchangeable == Permutations(Requests)
=============================================================================
