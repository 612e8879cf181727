------------------------- MODULE MCSupervisedTrial -------------------------
(***************************************************************************)
(* Instances of SupervisedTrial for TLC: 300.0 W, a 200.0 W cap, and       *)
(* 299.7 W, a reading within the tolerance that is not the original.       *)
(***************************************************************************)
EXTENDS SupervisedTrial

MCWatts == {2000, 2997, 3000}
MCExactWatts == {2000, 3000}
=============================================================================
