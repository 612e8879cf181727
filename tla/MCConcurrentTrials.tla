------------------------- MODULE MCConcurrentTrials -------------------------
(***************************************************************************)
(* Three launches over two run directories, two approvals, two caps: among *)
(* them the same settings twice, the same directory with two approvals,    *)
(* one approval replayed into another directory, and two unrelated trials. *)
(***************************************************************************)
EXTENDS ConcurrentTrials, TLC

CONSTANTS n1, n2

MCTarget == (n1 :> 1) @@ (n2 :> 2)

AnyNames == Permutations(Launches) \cup Permutations(Directories)
=============================================================================
