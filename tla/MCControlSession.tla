-------------------------- MODULE MCControlSession --------------------------
(***************************************************************************)
(* Instances of ControlSession for TLC: the first envelope is effective at *)
(* once and expires within the clock's range, the second becomes effective *)
(* later and outlives it.                                                  *)
(***************************************************************************)
EXTENDS ControlSession, TLC

CONSTANTS p1, p2

MCEffective == (p1 :> 0) @@ (p2 :> 1)
MCExpires == (p1 :> 2) @@ (p2 :> 3)
AnyApprovals == Permutations(Approvals)
=============================================================================
