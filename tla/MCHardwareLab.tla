--------------------------- MODULE MCHardwareLab ----------------------------
(***************************************************************************)
(* A limit of 175 W or 150 W found at the start, a cap of 125 W, and a     *)
(* device that settles up to half a watt lower.                            *)
(***************************************************************************)
EXTENDS HardwareLab

LabWatts == {1245, 1250, 1500, 1745, 1750}

\* The condition under which the trial keeps RestorationContract.
ASSUME LimitsStandApart == TargetStandsApart
=============================================================================
