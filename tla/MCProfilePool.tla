---------------------------- MODULE MCProfilePool ----------------------------
(* The two workers of the tier1 queue that docker-compose.tier-workers.yml *)
(* deploys.                                                                *)
EXTENDS ProfilePool, TLC

CONSTANTS w1, w2

MCWorkers2 == {w1, w2}
Symmetric  == Permutations(MCWorkers2)
=============================================================================
