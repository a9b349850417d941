-------------------------- MODULE MCGenerationQuota ---------------------------
(* Two platforms of one account and two requests, in any order of either. *)
EXTENDS GenerationQuota, TLC

Interchangeable == Permutations(Platforms) \cup Permutations(Requests)
=============================================================================
