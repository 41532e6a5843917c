----------------------------- MODULE MCTenantCost -----------------------------
(***************************************************************************)
(* An instance of TenantCost for TLC: a job of an installation and one     *)
(* outside any.                                                            *)
(***************************************************************************)
EXTENDS TenantCost, TLC

CONSTANTS i1, j1, j2, w1, w2, c1, c2, c3

MCInstOf == (j1 :> i1) @@ (j2 :> None)

MCProvider == "gpt-4o" :> "openai"
MCCatalog  == (<<"openai", "gpt-4o">> :> 2) @@ (<<"ollama", "*">> :> 0)

Once == [h \in Happenings |-> IF h = "any" THEN 2 ELSE 1]

Alike == Permutations({w1, w2}) \cup Permutations({c1, c2, c3})
=============================================================================
