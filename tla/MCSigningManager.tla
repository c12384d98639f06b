-------------------------- MODULE MCSigningManager --------------------------
(***************************************************************************)
(* SigningManager on a small instance: a genuine signature, a forged one   *)
(* of the same request id, and the worker against one or two callers.      *)
(***************************************************************************)
EXTENDS SigningManager, TLC

CONSTANTS r1, x1, i1

MCIdOf == (r1 :> i1) @@ (x1 :> i1)

=============================================================================
