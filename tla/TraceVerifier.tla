--------------------------- MODULE TraceVerifier ---------------------------
(***************************************************************************)
(* trace_verifier.py: what a retained packet proves, derived from its rows *)
(* and ledgers alone.  A malformed or contradictory packet is refused (the *)
(* code raises); any other yields the set of invariants it proves.         *)
(***************************************************************************)
EXTENDS GateB, TLC

Held(evidence) == <<"safe_hold", "entered", evidence>>
Meter == <<"meter", "accepted", {"authoritative_meter_reconciled"}>>
Primed == <<"meter", "primed", {"authoritative_sequence_accepted"}>>
Approved == <<"authorization", "approved", {"explicit_operator_approval_verified"}>>
Fallback == <<"planner", "fallback", {"optimizer_deadline_exceeded"}>>
Planned == <<"planner", "complete", {"deterministic_plan_created"}>>
Validated == <<"validation", "accepted", {"independent_policy_guard_passed"}>>
Intended == <<"audit", "intent_durable", {"flex"}>>
Observed == <<"outcome", "observed", {"mutation_observed"}>>

UpToIntent == <<Meter, Approved, Planned, Validated, Intended>>

\* _FAULT_TRACE_SIGNATURES
Signature == [
  meter_loss |-> <<Held({"authoritative_meter_missing"})>>,
  meter_stale |-> <<Held({"meter sample is stale"})>>,
  meter_duplicate |-> <<Primed, Held({"duplicate sequence"})>>,
  meter_reorder |-> <<Primed, Held({"sequence regression"})>>,
  clock_jump |-> <<Held({"meter clock is not synchronized"})>>,
  scheduler_unavailable |-> Append(UpToIntent, Held({"scheduler unavailable"})),
  scheduler_rejection |-> Append(UpToIntent, Held({"scheduler rejected request"})),
  adapter_unavailable |-> Append(UpToIntent, Held({"adapter unavailable"})),
  adapter_rejection |-> Append(UpToIntent, Held({"adapter rejected request"})),
  audit_failure |->
    <<Meter, Approved, Planned, Validated,
      Held({"audit_intent_failed", "injected audit failure"})>>,
  controller_restart |-> <<<<"restart", "safe_hold", {"operator_resume_required"}>>>>,
  split_brain |-> <<Held({"stale_controller_fenced"})>>,
  manual_conflict |->
    <<Held({"stricter_manual_or_optimizer_limit_selected", "1100"})>>,
  optimizer_timeout |->
    <<Meter, Approved, Fallback, Planned, Validated, Intended, Observed>>,
  optimizer_invalid_output |-> <<Meter, Approved, Held({"optimizer_output_invalid"})>>,
  interrupted_recovery |->
    <<Held({"initial_hold"}), Held({"recovery_interrupted"})>>,
  protected_mislabel_attempt |->
    <<Meter, Approved, Planned,
      Held({"validation_rejected", "controller attempted to modify protected workload"})>>]

FaultScenarioIds == DOMAIN Signature

\* _contiguous
Contiguous(rows) == \A i \in 1..Len(rows) : rows[i].sequence = i - 1

Signed(p) ==
  [i \in 1..Len(p.trace) |->
     <<p.trace[i].row.phase, p.trace[i].row.outcome, p.trace[i].row.evidence>>]

MutationsAllowed(scenario) == IF scenario = "optimizer_timeout" THEN 1 ELSE 0

EndsHeld(p) ==
  /\ p.trace # <<>>
  /\ LET last == p.trace[Len(p.trace)].row
     IN  last.phase \in {"safe_hold", "restart"} /\ last.outcome \in {"entered", "safe_hold"}

\* Faulty variant of WellFormed: rows are compared and never counted.
WellFormedLoosely(p) ==
  /\ Signed(p) = Signature[p.scenario]
  /\ Len(p.mutations) = MutationsAllowed(p.scenario)

\* _verify_fault raises otherwise.
WellFormed(p) ==
  /\ p.trace # <<>> /\ Contiguous(p.trace)
  /\ Contiguous(p.injections) /\ Contiguous(p.mutations) /\ Contiguous(p.events)
  /\ Signed(p) = Signature[p.scenario]
  /\ Len(p.injections) = 1 /\ p.injections[1].row = p.scenario
  /\ p.declared = 1 /\ p.pending = 0
  /\ p.rowCount = Len(p.trace) /\ p.mutationCount = Len(p.mutations)
  /\ Len(p.mutations) = MutationsAllowed(p.scenario)
  /\ p.expected = IF p.scenario = "optimizer_timeout" THEN "supervised" ELSE "safe_hold"
  /\ p.observed = IF EndsHeld(p) THEN "safe_hold" ELSE "supervised"

Says(p, phrase) == \E i \in 1..Len(p.trace) : phrase \in p.trace[i].row.evidence
Emits(p, event) == \E i \in 1..Len(p.events) : p.events[i].row = event
Unchanged(p) == p.after = p.before
NoMutation(p) == p.mutations = <<>> /\ Unchanged(p)
SafelyHeld(p) == EndsHeld(p) /\ NoMutation(p)

\* Each invariant a scenario may claim, proved from its own packet.
MeterProof(p) == [
  new_actuation_inhibited |-> SafelyHeld(p),
  safe_hold_entered |-> EndsHeld(p),
  operator_alert_recorded |->
    Says(p, "authoritative_meter_missing") /\ ~p.meter.present,
  operator_reason_recorded |->
    IF p.scenario = "meter_stale"
    THEN Says(p, "meter sample is stale") /\ p.meter.age > 5000
    ELSE Says(p, "meter clock is not synchronized"),
  duplicate_rejected |-> Says(p, "duplicate sequence") /\ p.meter.sequence = p.primedAt,
  regression_rejected |-> Says(p, "sequence regression") /\ p.meter.sequence < p.primedAt,
  cursor_not_advanced |-> p.cursor = p.primedAt,
  clock_fault_rejected |->
    Says(p, "meter clock is not synchronized") /\ ~p.meter.synced]

FellBack(p) == \E i \in 1..Len(p.trace) : Signed(p)[i] = Fallback

PlannerProof(p) == [
  no_partial_plan_executed |->
    FellBack(p) /\ Len(p.mutations) = 1 /\ p.mutations[1].row.reason = "power_envelope",
  approved_fallback_selected |->
    IF p.scenario = "optimizer_timeout"
    THEN FellBack(p) /\ Says(p, "deterministic_plan_created")
    ELSE SafelyHeld(p),
  timeout_audited |-> FellBack(p),
  invalid_plan_rejected |-> SafelyHeld(p) /\ Says(p, "optimizer_output_invalid"),
  protected_workload_rejected |->
    /\ SafelyHeld(p) /\ p.critical
    /\ Says(p, "controller attempted to modify protected workload"),
  protected_workloads_unchanged |-> Unchanged(p),
  validation_reason_audited |->
    Says(p, IF p.scenario = "optimizer_invalid_output"
            THEN "optimizer_output_invalid" ELSE "validation_rejected")]

BoundaryMarker == [
  scheduler_unavailable |-> "scheduler unavailable",
  scheduler_rejection |-> "scheduler rejected request",
  adapter_unavailable |-> "adapter unavailable",
  adapter_rejection |-> "adapter rejected request"]

BoundaryProof(p) ==
  LET marked == Says(p, BoundaryMarker[p.scenario])
  IN  [workload_mutation_inhibited |-> SafelyHeld(p),
       protected_workloads_unchanged |-> Unchanged(p),
       outage_audited |-> marked,
       rejection_not_assumed_success |-> marked,
       failure_audited |-> marked,
       command_not_assumed_applied |-> SafelyHeld(p) /\ marked,
       no_mutation |-> NoMutation(p)]

SessionProof(p) == [
  mutation_prevented |-> SafelyHeld(p) /\ Says(p, "audit_intent_failed"),
  no_mutation |-> NoMutation(p),
  failure_surfaced |-> Says(p, "audit_intent_failed"),
  state_reconstructed_from_evidence |-> Emits(p, "session_reconstructed"),
  expired_commands_not_replayed |-> Emits(p, "session_reconstructed") /\ p.expired,
  operator_resume_required |-> EndsHeld(p) /\ Emits(p, "session_reconstructed"),
  single_writer_enforced |-> SafelyHeld(p) /\ p.controllers = 2,
  stale_writer_fenced |-> Says(p, "stale_controller_fenced"),
  manual_control_wins |->
    SafelyHeld(p) /\ p.manual < p.automatic /\ Says(p, ToString(p.manual)),
  automatic_event_cancelled |-> EndsHeld(p),
  conflict_audited |->
    \/ Says(p, "stale_controller_fenced")
    \/ Says(p, "stricter_manual_or_optimizer_limit_selected"),
  recovery_increase_inhibited |-> NoMutation(p) /\ Emits(p, "recovery_started"),
  recovery_hold_entered |-> EndsHeld(p) /\ Emits(p, "recovery_started"),
  interruption_audited |-> Says(p, "recovery_interrupted")]

\* _fault_facts
ProofOf(p) ==
  CASE p.scenario \in {"meter_loss", "meter_stale", "meter_duplicate",
                       "meter_reorder", "clock_jump"} -> MeterProof(p)
    [] p.scenario \in {"optimizer_timeout", "optimizer_invalid_output",
                       "protected_mislabel_attempt"} -> PlannerProof(p)
    [] p.scenario \in DOMAIN BoundaryMarker -> BoundaryProof(p)
    [] OTHER -> SessionProof(p)

\* _verify_stale
StaleWellFormed(p) ==
  /\ p.mutations = <<>>
  /\ Len(p.trace) = 2
  /\ p.trace[1].type = "meter_observation" /\ p.trace[2].type = "eligibility_decision"

StaleProof(p) ==
  LET age == p.trace[1].age
      decision == p.trace[2]
  IN  [new_actuation_inhibited |->
         age > p.maxAge /\ ~decision.eligible /\ decision.actuations = 0,
       safe_hold_entered |-> decision.next = "SAFE_HOLD" /\ p.ineligible = "SAFE_HOLD",
       operator_reason_recorded |->
         p.requiredReason \in decision.reasons /\ age = p.claimedAge]

-----------------------------------------------------------------------------
(***************************************************************************)
(* verify_primary_trace of a packet kept for a scenario.                   *)
(***************************************************************************)
Refused(p, scenario) ==
  \/ p.scenario # scenario
  \/ IF scenario = "stale_meter" THEN ~StaleWellFormed(p) ELSE ~WellFormed(p)

\* The required invariants that hold of the packet.
Facts(p) ==
  LET proof == IF p.scenario = "stale_meter" THEN StaleProof(p) ELSE ProofOf(p)
  IN  {i \in RequiredInvariants[p.scenario] : proof[i]}

AllFacts(p) == Facts(p) = RequiredInvariants[p.scenario]
=============================================================================
