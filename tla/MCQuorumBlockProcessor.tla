----------------------- MODULE MCQuorumBlockProcessor -----------------------
(***************************************************************************)
(* Small instances of QuorumBlockProcessor.  Sessions of three blocks with a *)
(* mining window of two (phases 1 and 2).  The a branch mines c1 in the first *)
(* block of the window, and a2 wrongly carries a second commitment; the b     *)
(* branch has a null commitment first, then the better c2, and goes on to     *)
(* mine d1 in the next session; y2 mines c1 there and fails late.             *)
(***************************************************************************)
EXTENDS QuorumBlockProcessor

CONSTANTS r0, a1, a2, b1, b2, b3, b4, y2

Parents ==
  [b \in Blocks \ {Root} |->
     CASE b \in {a1, b1} -> r0 [] b = a2 -> a1 [] b \in {b2, y2} -> b1
       [] b = b3 -> b2 [] b = b4 -> b3]

Heights ==
  [b \in Blocks |->
     CASE b = r0 -> 0 [] b \in {a1, b1} -> 1 [] b \in {a2, b2, y2} -> 2
       [] b = b3 -> 3 [] b = b4 -> 4]

Ancestors ==
  [b \in Blocks |->
     CASE b = r0 -> {r0} [] b = a1 -> {r0, a1} [] b = a2 -> {r0, a1, a2}
       [] b = b1 -> {r0, b1} [] b = b2 -> {r0, b1, b2} [] b = y2 -> {r0, b1, y2}
       [] b = b3 -> {r0, b1, b2, b3} [] b = b4 -> {r0, b1, b2, b3, b4}]

QC(q, n, ok, i) == [quorumHash |-> q, signers |-> n, valid |-> ok, id |-> i]
c1 == QC(r0, 2, TRUE, 1)
c2 == QC(r0, 3, TRUE, 2)
forged == QC(r0, 4, FALSE, 3)
null0 == QC(r0, 0, FALSE, 0)
d1 == QC(b3, 2, TRUE, 4)

TheCommitments ==
  {c1, c2, forged, null0} \cup (IF b3 \in Blocks THEN {d1} ELSE {})

Payloads ==
  [b \in Blocks |-> CASE b \in {a1, y2} -> c1 [] b = a2 -> c2 [] b = b1 -> null0
                      [] b = b2 -> c2 [] b = b4 -> d1 [] OTHER -> None]
=============================================================================
