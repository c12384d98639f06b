---------------------------- MODULE MCChainstate ----------------------------
(***************************************************************************)
(*          r0 -- a1 -- a2 -- a3                                            *)
(*                  \-- c2                                                  *)
(* with one unit of work for every block.                                   *)
(***************************************************************************)
EXTENDS Chainstate

CONSTANTS r0, a1, a2, a3, c2

Children == {<<a1, r0>>, <<a2, a1>>, <<a3, a2>>, <<c2, a1>>}
Parents ==
  [b \in Blocks \ {r0} |-> CHOOSE p \in Blocks : <<b, p>> \in Children]
Ancestors ==
  LET up[b \in Blocks] == IF b = r0 THEN {b} ELSE {b} \cup up[Parents[b]]
  IN [b \in Blocks |-> up[b]]
Heights == [b \in Blocks |-> Cardinality(Ancestors[b]) - 1]
Addresses ==
  [b \in Blocks |-> CASE b = r0 -> 0 [] b = a1 -> 1 [] b = a2 -> 2
                      [] b = a3 -> 3 [] b = c2 -> 4]
=============================================================================
