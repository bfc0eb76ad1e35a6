--------------------------- MODULE PolicyServerMC ---------------------------
(* Small instances of PolicyServer: two agents in different buckets; p      *)
(* selects every agent, q (of higher priority) only a2.                     *)
EXTENDS PolicyServer

CONSTANTS a1, a2, p, q, r1, r2

TwoPolicies == [x \in Policies \X Agents |-> x[1] = p \/ x[2] = a2]
HigherQ == [x \in Policies |-> IF x = p THEN 1 ELSE 2]
Buckets == [x \in Rollouts \X Agents |->
              IF (x[1] = r1) <=> (x[2] = a1) THEN 20 ELSE 70]
=============================================================================
