------------------------- MODULE MCSupervisoryCycle -------------------------
(***************************************************************************)
(* Instances of SupervisoryCycle for TLC: two flexible workloads of 3 W,   *)
(* whose higher floor is once the declared and once the policy's, and a    *)
(* critical one; one envelope that expires within the clock's range.       *)
(***************************************************************************)
EXTENDS SupervisoryCycle, TLC

CONSTANTS p1, batch, train, serve

MCEffective == p1 :> 0
MCExpires == p1 :> 1
MCNominal == [w \in Workloads |-> 3]
MCDeclaredFloor == (batch :> 1) @@ (train :> 2) @@ (serve :> 2)
MCPolicyFloor == (batch :> 2) @@ (train :> 1) @@ (serve :> 1)

AnyNames == Permutations(Executions) \cup Permutations(Epochs)
=============================================================================
