---------------------------- MODULE MCChainLocks ----------------------------
(***************************************************************************)
(* Instances of ChainLocks: a tree whose two branches part above r2, two or *)
(* three signing quorums, and CLSIGs of both branches.                      *)
(*                                                                         *)
(*          r2 -- a3 -- a4                                                  *)
(*            \-- b3 -- b4 -- b5                                            *)
(***************************************************************************)
EXTENDS ChainLocks, TLC

CONSTANTS r2, a3, a4, b3, b4, b5, q1, q2, q3

Parents == [b \in Blocks \ {Root} |->
              CASE b = a3 -> r2 [] b = a4 -> a3 [] b = b3 -> r2 [] b = b4 -> b3 [] b = b5 -> b4]
Ancestors == [b \in Blocks |->
                CASE b = r2 -> {r2} [] b = a3 -> {r2, a3} [] b = a4 -> {r2, a3, a4}
                  [] b = b3 -> {r2, b3} [] b = b4 -> {r2, b3, b4} [] b = b5 -> {r2, b3, b4, b5}]
Heights == [b \in Blocks |-> Cardinality(Ancestors[b]) + 1]

Share(b, i, q) == [block |-> b, signers |-> {i}, sig |-> {q}]
Aggregated(b, is, qs) == [block |-> b, signers |-> is, sig |-> qs]

\* The quorums' base heights; q1 is the newest.
Bases == [q \in Quorums |-> CASE q = q1 -> 2 [] q = q2 -> 0 [] q = q3 -> -2]
\* All are mined at or below r2.
AllMinedBelow == [q \in Quorums |-> r2]

\* The quorums sign a3 and, on the other branch, b4.
BothBranches == [q \in Quorums |-> {a3, b4}]
BothAggregates == {Aggregated(a3, {1, 2}, {q1, q2}), Aggregated(b4, {1, 2}, {q1, q2})}

\* The quorums sign b3, the node starts on the other branch.
OnlyB == [q \in Quorums |-> {b3}]
PreviousQuorum == {Share(b3, 2, q2)}
ShareOfThird == {Share(b3, 3, q3)}
=============================================================================
