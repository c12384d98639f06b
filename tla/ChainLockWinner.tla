--------------------------- MODULE ChainLockWinner ---------------------------
(***************************************************************************)
(* What CChainLocksHandler (src/src/llmq/quorums_chainlocks.cpp) promises   *)
(* the rest of the node: one winner that only ever moves to a descendant,   *)
(* and that is dropped only when enforcement is switched on again.          *)
(***************************************************************************)
EXTENDS BlockTree

VARIABLES winner,   \* the chain-locked block, or None
          enforced  \* whether it is enforced

Init == winner = None /\ enforced = FALSE

Lock(b) ==
  /\ winner = None \/ winner \in Anc[b] \ {b}
  /\ winner' = b
  /\ UNCHANGED enforced

Activate ==
  /\ ~enforced
  /\ enforced' = TRUE
  /\ winner' = None

Deactivate ==
  /\ enforced
  /\ enforced' = FALSE
  /\ UNCHANGED winner

Next ==
  \/ \E b \in Blocks : Lock(b)
  \/ Activate
  \/ Deactivate

Spec == Init /\ [][Next]_<<winner, enforced>>
=============================================================================
