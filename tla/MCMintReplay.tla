---------------------------- MODULE MCMintReplay ----------------------------
(* Two branches that mint the same NEVM transactions; a3 repeats the mint of a2. *)
EXTENDS MintReplay

CONSTANTS r0, a1, a2, a3, b1, b2, b3, nt1, nt2

Children == {<<a1, r0>>, <<a2, a1>>, <<a3, a2>>, <<b1, r0>>, <<b2, b1>>, <<b3, b2>>}
Parents ==
  [b \in Blocks \ {r0} |-> CHOOSE p \in Blocks : <<b, p>> \in Children]
Heights ==
  [b \in Blocks |-> CASE b = r0 -> 0
                      [] b \in {a1, b1} -> 1
                      [] b \in {a2, b2} -> 2
                      [] OTHER -> 3]
Ancestors ==
  LET up[b \in Blocks] == IF b = r0 THEN {b} ELSE {b} \cup up[Parents[b]]
  IN up

Minted ==
  [b \in Blocks |-> CASE b \in {a1, b3} -> nt2
                      [] b \in {a2, a3, b1} -> nt1
                      [] OTHER -> None]
=============================================================================
