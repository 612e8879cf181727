---------------------------- MODULE HardwareLab -----------------------------
(***************************************************************************)
(* hardware_lab.py, run_hardware_trial: the older trial of a power cap,    *)
(* kept as a test seam.  It borrows two settings of the GPU, the power     *)
(* limit and the persistence mode, in one process, without a journal, a    *)
(* lock or a supervisor: what it owes is undone in a finally clause and    *)
(* told in the audit log.                                                  *)
(*                                                                         *)
(* A command runs under sudo; subprocess.run kills sudo when the command   *)
(* times out, and the command itself may go on and land later.  Here       *)
(* Original of GpuPowerLimit is only one of the limits the trial may find. *)
(***************************************************************************)
EXTENDS GpuPowerLimit

VARIABLES
  persistence, \* the persistence mode in force
  modes,       \* the values of timed out persistence commands
  stage,       \* where run_hardware_trial stands; "dead" when it was killed
  initial,     \* the state observed first
  enabling,    \* persistence_attempted
  troubled,    \* trial_error is set
  unrestored,  \* restore_error is set
  restored,    \* what the last observation said
  log,         \* the last record of the audit log
  outcome      \* how the call ended

labVars == <<persistence, modes, stage, initial, enabling, troubled,
             unrestored, restored, log, outcome>>

hardwareVars == <<limitVars, labVars>>

LabInit ==
  /\ LimitInit
  /\ persistence \in BOOLEAN /\ modes = {}
  /\ stage = "observe" /\ initial = [limit |-> limit, persistence |-> persistence]
  /\ enabling = FALSE /\ troubled = FALSE
  /\ unrestored = FALSE /\ restored = FALSE
  /\ log = "empty" /\ outcome = "none"

Alive == stage \notin {"done", "dead"}

End(how) == stage' = "done" /\ outcome' = how

\* A command raises or not, whatever it did; one that hangs always raises.
SetLimit(watts, raised) ==
  /\ CommandEnds(watts) \/ (CommandHangs(watts) /\ raised)
  /\ UNCHANGED <<persistence, modes>>

SetPersistence(mode, raised) ==
  /\ \/ persistence' \in {persistence, mode} /\ UNCHANGED modes
     \/ MayHang /\ raised /\ modes' = modes \cup {mode} /\ UNCHANGED persistence
  /\ UNCHANGED limitVars

\* The first observation, its checks, and the baseline of the meter.
Observe ==
  /\ stage = "observe"
  /\ \/ /\ Target < limit
        /\ initial' = [limit |-> limit, persistence |-> persistence]
        /\ stage' = "intent" /\ UNCHANGED outcome
     \/ End("refused") /\ UNCHANGED initial
  /\ UNCHANGED <<limitVars, persistence, modes, enabling, troubled,
                 unrestored, restored, log>>

\* Mutant: an intent that cannot be written is no reason to stop.
IntentBestEffort ==
  /\ stage = "intent"
  /\ log' \in {log, "intent"}
  /\ stage' = IF initial.persistence THEN "cap" ELSE "enable"
  /\ UNCHANGED <<limitVars, persistence, modes, initial, enabling,
                 troubled, unrestored, restored, outcome>>

\* The intent must be in the log and verified before anything is changed; an
\* append that raises may have written.
Intent ==
  /\ stage = "intent"
  /\ \/ /\ log' = "intent"
        /\ stage' = IF initial.persistence THEN "cap" ELSE "enable"
        /\ UNCHANGED outcome
     \/ log' \in {log, "intent"} /\ End("refused")
  /\ UNCHANGED <<limitVars, persistence, modes, initial, enabling,
                 troubled, unrestored, restored>>

Enable ==
  /\ stage = "enable"
  /\ enabling' = TRUE
  /\ \E raised \in BOOLEAN :
       /\ SetPersistence(TRUE, raised)
       /\ troubled' = raised
       /\ stage' = IF raised THEN "disable" ELSE "cap"
  /\ UNCHANGED <<initial, unrestored, restored, log, outcome>>

SetCap ==
  /\ stage = "cap"
  /\ \E raised \in BOOLEAN :
       /\ SetLimit(Target, raised)
       /\ troubled' = raised
       /\ stage' = IF raised THEN "restore" ELSE "measure"
  /\ UNCHANGED <<initial, enabling, unrestored, restored, log, outcome>>

\* Settling, the observation under the cap, and the second meter reading.
Measure ==
  /\ stage = "measure"
  /\ troubled' \in BOOLEAN
  /\ Near(limit, Target) \/ troubled'
  /\ stage' = "restore"
  /\ UNCHANGED <<limitVars, persistence, modes, initial, enabling,
                 unrestored, restored, log, outcome>>

\* The finally clause: the limit, once a cap was then the mode.
Restore ==
  /\ stage = "restore"
  /\ \E raised \in BOOLEAN : SetLimit(initial.limit, raised) /\ unrestored' = raised
  /\ stage' = IF enabling THEN "disable" ELSE "verify"
  /\ UNCHANGED <<initial, enabling, troubled, restored, log, outcome>>

Disable ==
  /\ stage = "disable"
  /\ \E raised \in BOOLEAN :
       SetPersistence(FALSE, raised) /\ unrestored' = (unrestored \/ raised)
  /\ stage' = "verify"
  /\ UNCHANGED <<initial, enabling, troubled, restored, log, outcome>>

\* An observation that fails proves nothing.
Verify ==
  /\ stage = "verify"
  /\ restored' \in {FALSE, Near(limit, initial.limit) /\ persistence = initial.persistence}
  /\ stage' = "close"
  /\ UNCHANGED <<limitVars, persistence, modes, initial, enabling,
                 troubled, unrestored, log, outcome>>

Unproven == [record |-> "restore_failed", outcome |-> "critical"]
FailedSafe == [record |-> "failed_safe", outcome |-> "failed"]
Completed == [record |-> "completed", outcome |-> "returned"]

\* Mutant: the trial's own error is told first.
ClosingWithTrouble ==
  IF troubled THEN FailedSafe
  ELSE IF unrestored \/ ~restored THEN Unproven ELSE Completed

Closing ==
  IF unrestored \/ ~restored THEN Unproven
  ELSE IF troubled THEN FailedSafe ELSE Completed

\* Only the append of restore_failed is best effort: any other raises.
Close ==
  /\ stage = "close"
  /\ \/ log' = Closing.record /\ End(Closing.outcome)
     \/ /\ log' \in {log, Closing.record}
        /\ End(IF Closing.outcome = "critical" THEN "critical" ELSE "failed")
  /\ UNCHANGED <<limitVars, persistence, modes, initial, enabling,
                 troubled, unrestored, restored>>

Kill ==
  /\ Alive /\ stage' = "dead"
  /\ UNCHANGED <<limitVars, persistence, modes, initial, enabling,
                 troubled, unrestored, restored, log, outcome>>

HungModeEnds ==
  /\ \E mode \in modes :
       /\ modes' = modes \ {mode}
       /\ \/ persistence' = mode /\ late' = TRUE
          \/ UNCHANGED <<persistence, late>>
  /\ UNCHANGED <<limit, writer, inflight, drifts, stage, initial, enabling,
                 troubled, unrestored, restored, log, outcome>>

LabNext ==
  \/ Observe \/ Intent \/ Enable \/ SetCap \/ Measure
  \/ Restore \/ Disable \/ Verify \/ Close \/ Kill
  \/ (HungCommandEnds \/ Drift) /\ UNCHANGED labVars
  \/ HungModeEnds

LabSpec == LabInit /\ [][LabNext]_hardwareVars
-----------------------------------------------------------------------------
(* Properties. *)

States == [limit : Watts, persistence : BOOLEAN]
Stages == {"observe", "intent", "enable", "cap", "measure", "restore",
           "disable", "verify", "close", "done", "dead"}
Records == {"empty", "intent", "restore_failed", "failed_safe", "completed"}
Outcomes == {"none", "refused", "critical", "failed", "returned"}

LabTypeOK ==
  /\ limit \in Watts /\ writer \in Writers /\ inflight \subseteq Watts
  /\ late \in BOOLEAN /\ drifts \in DriftCounts
  /\ persistence \in BOOLEAN /\ modes \subseteq BOOLEAN
  /\ stage \in Stages /\ initial \in States /\ enabling \in BOOLEAN
  /\ troubled \in BOOLEAN /\ unrestored \in BOOLEAN /\ restored \in BOOLEAN
  /\ log \in Records /\ outcome \in Outcomes

Undisturbed == ~late /\ drifts = 0

\* Unless a hung command landed or somebody interfered, and whichever command
\* failed, hung or did nothing: a record that says the GPU was restored, of a
\* trial that completed or one that failed safely, tells the truth about both
\* settings, and a trial that ended by itself over a changed GPU ended with
\* the CRITICAL error, whatever the last thing was that went wrong.
VerdictIsTrue ==
  /\ Undisturbed
  /\ \/ log \in {"failed_safe", "completed"}
     \/ stage = "done" /\ outcome # "critical"
  =>
    Near(limit, initial.limit) /\ persistence = initial.persistence

Contract ==
  INSTANCE RestorationContract WITH
    record  <- CASE log = "empty" -> "none"
                 [] log \in {"intent", "restore_failed"} -> "open"
                 [] OTHER -> "closed",
    capped  <- writer = "cap",
    pending <- Target \in inflight,
    landed  <- late,
    verdict <- "none"

\* What the code does not check: a cap so close to the limit it replaces that
\* one readback passes for both would be taken for restored.
TargetStandsApart == \A w \in Watts : Target < w => Target + 2 * Tolerance < w

\* The log does for this trial what the recovery journal does for the
\* attended one: no cap without a record of the original limit, no closed
\* record over a cap in force.
LabImplementsContract == Contract!Spec
=============================================================================
