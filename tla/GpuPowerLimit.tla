--------------------------- MODULE GpuPowerLimit ---------------------------
(***************************************************************************)
(* The power limit of one GPU, as the `nvidia-smi -pl` commands of         *)
(* gridgpu.power_adapter and gridgpu.rental_supervisor meet it.  The       *)
(* driver is not part of the repository: this module is what the code in   *)
(* src/ must assume of it.  A command may fail and still have written, may *)
(* succeed without having written, may settle on a nearby value, and may   *)
(* outlive its own timeout ("state is uncertain", power_adapter.py:74) and *)
(* land later.                                                             *)
(***************************************************************************)
EXTENDS Integers, FiniteSets

CONSTANTS
  Original,   \* the intended restoration limit, RecoveryIntent.original_watts
  Target,     \* the authorized cap, RecoveryIntent.target_watts
  Watts,      \* every value the limit can take, in tenths of a watt
  Tolerance,  \* 0.5 W, the readback tolerance of the adapter and of the trial
  MaxDrift,   \* bound: changes of the limit by somebody else
  MayHang     \* TRUE when a command may outlive its timeout

ASSUME LimitAssumption ==
  /\ Watts \subseteq Nat
  /\ {Original, Target} \subseteq Watts
  /\ Target < Original
  /\ Tolerance \in Nat
  /\ MaxDrift \in Nat
  /\ MayHang \in BOOLEAN

VARIABLES
  limit,    \* the limit in force
  writer,   \* who put it there: "outside", "cap" or "restore"
  inflight, \* the values of timed out, unreaped write commands
  late,     \* TRUE once such a command has landed
  drifts    \* number of outside changes so far

limitVars == <<limit, writer, inflight, late, drifts>>

Writers == {"outside", "cap", "restore"}
DriftCounts == 0..MaxDrift

LimitTypeOK ==
  /\ limit \in Watts
  /\ writer \in Writers
  /\ inflight \subseteq {Original, Target}
  /\ late \in BOOLEAN
  /\ drifts \in DriftCounts

\* The limit found at the start need not be the one the operator expects.
LimitInit ==
  /\ limit \in Watts
  /\ writer = "outside"
  /\ inflight = {}
  /\ late = FALSE
  /\ drifts = 0

\* abs(observed - watts) <= 0.5
Near(a, b) == a - b <= Tolerance /\ b - a <= Tolerance

Settled(w) == {x \in Watts : Near(x, w)}

WriterOf(w) == IF w = Target THEN "cap" ELSE "restore"

\* The driver takes the command: the limit settles near w.
Takes(w) ==
  /\ limit' \in Settled(w)
  /\ writer' = WriterOf(w)

(***************************************************************************)
(* One `-pl w` command runs to its end, whatever its return code.          *)
(***************************************************************************)
CommandEnds(w) ==
  /\ \/ Takes(w)
     \/ UNCHANGED <<limit, writer>>
  /\ UNCHANGED <<inflight, late, drifts>>

(***************************************************************************)
(* One `-pl w` command times out and cannot be reaped.                     *)
(***************************************************************************)
CommandHangs(w) ==
  /\ MayHang
  /\ inflight' = inflight \cup {w}
  /\ UNCHANGED <<limit, writer, late, drifts>>

\* A hung command ends: it still writes, or it dies without writing.
HungCommandEnds ==
  \E w \in inflight :
    /\ inflight' = inflight \ {w}
    /\ \/ Takes(w) /\ late' = TRUE
       \/ UNCHANGED <<limit, writer, late>>
    /\ UNCHANGED drifts

\* An administrator or another tool changes the limit.
Drift ==
  /\ drifts < MaxDrift
  /\ limit' \in Watts \ {limit}
  /\ writer' = "outside"
  /\ drifts' = drifts + 1
  /\ UNCHANGED <<inflight, late>>

\* The host loses power: its commands vanish, the driver starts afresh.
LimitPowerLoss ==
  /\ limit' \in Watts
  /\ writer' = "outside"
  /\ inflight' = {}
  /\ UNCHANGED <<late, drifts>>
=============================================================================
