------------------------------- MODULE GateB -------------------------------
(***************************************************************************)
(* gates.py: what Gate B demands of each scenario, and its verdict on a    *)
(* list of results.  Metrics are left to their one rule per fault: exactly *)
(* one fault, and none of what that scenario forbids.                      *)
(*                                                                         *)
(* The three scenarios run on the simulated cluster (module                *)
(* ClusterSimulation) are left out here; stale_meter stands for the        *)
(* standard family.                                                        *)
(***************************************************************************)
EXTENDS Naturals, Sequences, FiniteSets

RequiredInvariants == [
  stale_meter |->
    {"new_actuation_inhibited", "safe_hold_entered", "operator_reason_recorded"},
  meter_loss |->
    {"new_actuation_inhibited", "safe_hold_entered", "operator_alert_recorded"},
  meter_stale |->
    {"new_actuation_inhibited", "safe_hold_entered", "operator_reason_recorded"},
  meter_duplicate |->
    {"duplicate_rejected", "cursor_not_advanced", "new_actuation_inhibited"},
  meter_reorder |->
    {"regression_rejected", "cursor_not_advanced", "new_actuation_inhibited"},
  clock_jump |->
    {"clock_fault_rejected", "new_actuation_inhibited", "operator_reason_recorded"},
  optimizer_timeout |->
    {"no_partial_plan_executed", "approved_fallback_selected", "timeout_audited"},
  optimizer_invalid_output |->
    {"invalid_plan_rejected", "approved_fallback_selected", "validation_reason_audited"},
  scheduler_unavailable |->
    {"workload_mutation_inhibited", "protected_workloads_unchanged", "outage_audited"},
  scheduler_rejection |->
    {"workload_mutation_inhibited", "rejection_not_assumed_success", "failure_audited"},
  adapter_unavailable |->
    {"command_not_assumed_applied", "no_mutation", "failure_audited"},
  adapter_rejection |->
    {"command_not_assumed_applied", "no_mutation", "failure_audited"},
  audit_failure |->
    {"mutation_prevented", "no_mutation", "failure_surfaced"},
  controller_restart |->
    {"state_reconstructed_from_evidence", "expired_commands_not_replayed",
     "operator_resume_required"},
  split_brain |->
    {"single_writer_enforced", "stale_writer_fenced", "conflict_audited"},
  manual_conflict |->
    {"manual_control_wins", "automatic_event_cancelled", "conflict_audited"},
  interrupted_recovery |->
    {"recovery_increase_inhibited", "recovery_hold_entered", "interruption_audited"},
  protected_mislabel_attempt |->
    {"protected_workload_rejected", "protected_workloads_unchanged",
     "validation_reason_audited"}]

RequiredScenarios == DOMAIN RequiredInvariants

(***************************************************************************)
(* A result of a scenario: whether it claims to have passed, the metrics   *)
(* `faults' and `forbidden', the invariants its producer and its verifier  *)
(* hold to be true, and the digests the evidence and the verifier name.    *)
(***************************************************************************)
Proves(result) ==
  LET demanded == RequiredInvariants[result.scenario]
  IN  demanded \subseteq result.invariants /\ demanded \subseteq result.verified

MetricsHold(result) == result.faults = 1 /\ result.forbidden = 0

Acceptable(result) ==
  /\ result.passed /\ result.findings = 0
  /\ result.digest = result.verifiedDigest
  /\ result.scenario \in RequiredScenarios => Proves(result) /\ MetricsHold(result)

\* evaluate_gate_b: no reason against, every scenario there exactly once.
Go(results) ==
  /\ \A i \in 1..Len(results) : Acceptable(results[i])
  /\ \A i, j \in 1..Len(results) :
       results[i].scenario = results[j].scenario => i = j
  /\ RequiredScenarios \subseteq {results[i].scenario : i \in 1..Len(results)}
=============================================================================
