---------------------------- MODULE MCDKGSession ----------------------------
(***************************************************************************)
(* A quorum with the sizes of llmq_test (three members, two needed), one   *)
(* of them faulty, connected fully or with one bad connection.  The        *)
(* faulty one may commit a second time, to the two honest members.         *)
(***************************************************************************)
EXTENDS DKGSession, TLC

CONSTANTS m1, m2, f

MCTopologies ==
    {[m \in Members |-> {}], [m \in Members |-> IF m = m1 THEN {f} ELSE {}]}

=============================================================================
