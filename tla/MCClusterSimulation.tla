------------------------- MODULE MCClusterSimulation -------------------------
(***************************************************************************)
(* Instances of ClusterSimulation for TLC: a critical workload that may or *)
(* may not declare a floor, one of normal and one of opportunistic         *)
(* priority that may be capped, and one that may only be deferred.         *)
(***************************************************************************)
EXTENDS ClusterSimulation

CONSTANTS batch, query, serve, train

MCNames == <<batch, query, serve, train>>
MCPriority == (batch :> "opportunistic") @@ (query :> "opportunistic")
                  @@ (serve :> "critical") @@ (train :> "normal")
MCGpus == (batch :> 2) @@ (query :> 1) @@ (serve :> 1) @@ (train :> 1)
MCNominal == (batch :> 4) @@ (query :> 2) @@ (serve :> 2) @@ (train :> 4)
MCWork == (batch :> Endless) @@ (query :> 4) @@ (serve :> 4) @@ (train :> 8)
MCFloor == (batch :> 1) @@ (query :> NoFloor) @@ (serve :> NoFloor) @@ (train :> 2)
MCFloors == {MCFloor, [MCFloor EXCEPT ![serve] = 1]}

\* The condition under which an excess is accounted for.
ASSUME RoundingIsCovered == ReserveCoversRounding
=============================================================================
