---------------------------- MODULE MCWorkerSlots -----------------------------
(* A small box for TLC: the smoke and three users. *)
EXTENDS WorkerSlots

CONSTANTS s1, a1, a2, a3, b1, c1, c2

MCTenantOf ==
  [j \in Jobs |-> CASE j = s1 -> "smoke" [] j \in {a1, a2, a3} -> "A"
                    [] j = b1 -> "B" [] j \in {c1, c2} -> "C"]
=============================================================================
