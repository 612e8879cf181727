--------------------------- MODULE FaultScenarios ---------------------------
(***************************************************************************)
(* integrated_faults.py: one SupervisoryHarness per Gate B fault, driven   *)
(* deterministically to the packet it retains.  Every operator maps a      *)
(* harness to the harness after the call: its trace, its mutations, the    *)
(* events of its session, the meter cursor, the fault injector.            *)
(*                                                                         *)
(* The evidence of a trace row is the set of phrases its text is put       *)
(* together from.                                                          *)
(***************************************************************************)
EXTENDS MeterEligibility, Sequences

SchedulerFaults == {"scheduler_unavailable", "scheduler_rejection"}
AdapterFaults == {"adapter_unavailable", "adapter_rejection"}
PlannerFaults == {"optimizer_timeout", "optimizer_invalid_output"}

\* Declared in the harness's own injector and triggered where they bite; the
\* others are consumed from an injector of their own before the run.
HarnessFaults == SchedulerFaults \cup AdapterFaults \cup PlannerFaults

FaultKinds == HarnessFaults \cup
  {"meter_loss", "meter_stale", "meter_duplicate", "meter_reorder", "clock_jump",
   "audit_failure", "controller_restart", "split_brain", "manual_conflict",
   "interrupted_recovery", "protected_mislabel_attempt"}

NoCursor == -1

\* A workload without a power cap.
NoCap == 0

Row(phase, outcome, evidence) ==
  [phase |-> phase, outcome |-> outcome, evidence |-> evidence]

\* _build: a running flexible workload, a proposal, its approval.
Built(kind) == [
  trace |-> <<>>, mutations |-> <<>>,
  events |-> <<"envelope_proposed", "envelope_approved">>,
  state |-> "supervised", cursor |-> NoCursor,
  pending |-> {kind} \cap HarnessFaults,
  consumed |-> IF kind \in HarnessFaults THEN <<>> ELSE <<kind>>,
  cap |-> NoCap, critical |-> kind = "protected_mislabel_attempt"]

Traced(h, phase, outcome, evidence) ==
  [h EXCEPT !.trace = Append(@, Row(phase, outcome, evidence))]

Emitted(h, event) == [h EXCEPT !.events = Append(@, event)]

\* _hold: the session first, then the trace.
Hold(h, why) ==
  Traced([Emitted(h, "safe_hold_entered") EXCEPT !.state = "safe_hold"],
         "safe_hold", "entered", why)

\* prime_meter
Primed(h, m) ==
  Traced([h EXCEPT !.cursor = m.sequence],
         "meter", "primed", {"authoritative_sequence_accepted"})

\* FaultInjector.trigger pops a pending fault, once.
Injected(h, kind) == kind \in h.pending
Triggered(h, kind) ==
  [h EXCEPT !.pending = @ \ {kind}, !.consumed = Append(@, kind)]

\* SourceSequenceReconciler.assess, within the one epoch of a scenario.
SequenceReasons(h, m) ==
  Because(m.sequence = h.cursor, "duplicate sequence")
    \cup Because(m.sequence < h.cursor, "sequence regression")

-----------------------------------------------------------------------------
(***************************************************************************)
(* run_cycle, from its last stage to its first.                            *)
(***************************************************************************)
\* What a probed boundary raises; the scheduler is probed first.
BoundaryFault == [
  scheduler_unavailable |-> "scheduler unavailable",
  scheduler_rejection |-> "scheduler rejected request",
  adapter_unavailable |-> "adapter unavailable",
  adapter_rejection |-> "adapter rejected request"]

Carried(h, action) ==
  Traced([h EXCEPT !.cap = action.value,
                   !.mutations = Append(@, [reason |-> action.reason, observed |-> TRUE])],
         "outcome", "observed", {"mutation_observed"})

Executed(h, action) ==
  LET raised == h.pending \cap (SchedulerFaults \cup AdapterFaults)
  IN  IF raised = {} THEN Carried(h, action)
      ELSE LET kind == CHOOSE k \in raised : TRUE
           IN  Hold(Triggered(h, kind), {BoundaryFault[kind]})

\* The intent must be durable before the boundaries are asked.
Acted(h, action, auditFails) ==
  IF auditFails THEN Hold(h, {"audit_intent_failed", "injected audit failure"})
  ELSE Executed(Traced(h, "audit", "intent_durable", {"flex"}), action)

\* HeuristicController.validate: the flexibility of a critical workload is
\* not believed.
Checked(h, action, auditFails) ==
  IF h.critical
  THEN Hold(h, {"validation_rejected",
                "controller attempted to modify protected workload"})
  ELSE Acted(Traced(h, "validation", "accepted", {"independent_policy_guard_passed"}),
             action, auditFails)

Complete(h, action, auditFails) ==
  Checked(Traced(h, "planner", "complete", {"deterministic_plan_created"}),
          action, auditFails)

\* 100 W above the envelope, taken from the one flexible workload of 300 W.
Recommended == [value |-> 200, reason |-> "power_envelope"]

Planned(h, action, auditFails) ==
  IF Injected(h, "optimizer_timeout")
  THEN Complete(Traced(Triggered(h, "optimizer_timeout"),
                       "planner", "fallback", {"optimizer_deadline_exceeded"}),
                Recommended, auditFails)
  ELSE IF Injected(h, "optimizer_invalid_output")
  THEN Hold(Triggered(h, "optimizer_invalid_output"), {"optimizer_output_invalid"})
  ELSE Complete(h, action, auditFails)

\* The proposal is approved and unexpired in every scenario.
Authorized(h) ==
  Traced(Emitted(h, "execution_authorized"),
         "authorization", "approved", {"explicit_operator_approval_verified"})

\* Faulty variant of RunCycle: the sample is consumed before it is assessed.
RunCycleConsumingFirst(h, m, action, auditFails) ==
  IF ~m.present THEN Hold(h, {"authoritative_meter_missing"})
  ELSE IF SequenceReasons(h, m) # {}
  THEN Hold([h EXCEPT !.cursor = m.sequence], SequenceReasons(h, m))
  ELSE IF MeterReasons(m) # {} THEN Hold(h, MeterReasons(m))
  ELSE Planned(Authorized(Traced([h EXCEPT !.cursor = m.sequence], "meter", "accepted",
                                 {"authoritative_meter_reconciled"})),
               action, auditFails)

RunCycle(h, m, action, auditFails) ==
  IF ~m.present THEN Hold(h, {"authoritative_meter_missing"})
  ELSE IF SequenceReasons(h, m) # {} THEN Hold(h, SequenceReasons(h, m))
  ELSE IF MeterReasons(m) # {} THEN Hold(h, MeterReasons(m))
  ELSE Planned(Authorized(Traced([h EXCEPT !.cursor = m.sequence], "meter", "accepted",
                                 {"authoritative_meter_reconciled"})),
               action, auditFails)

-----------------------------------------------------------------------------
(***************************************************************************)
(* run_primary_trace: the input of each scenario and its run.              *)
(***************************************************************************)
\* faults.LeaseFence: a writer needs the holder's name and its epoch.
Fenced(holder, epoch, writer, held) == writer # holder \/ held # epoch

\* manual_precedence
Stricter(manual, automatic) == IF manual <= automatic THEN manual ELSE automatic

ProposalLifetime == 5
RestartAfter == 6

\* reconstruct_for_operator_resume, after the approval has expired.
Restarted(h) ==
  Traced([Emitted(h, "session_reconstructed") EXCEPT !.state = "safe_hold"],
         "restart", "safe_hold", {"operator_resume_required"})

Sequence == [GoodReading EXCEPT !.sequence = 10]

Input(kind) ==
  CASE kind = "meter_loss" -> NoReading
    [] kind = "meter_stale" -> [GoodReading EXCEPT !.age = 6000]
    [] kind = "meter_duplicate" -> Sequence
    [] kind = "meter_reorder" -> [Sequence EXCEPT !.sequence = 9]
    [] kind = "clock_jump" -> [GoodReading EXCEPT !.synced = FALSE]
    [] OTHER -> GoodReading

\* The action the mislabelled workload invites.
Mislabelled == [value |-> 150, reason |-> "mislabelled"]

Ran(kind) ==
  LET h == Built(kind)
  IN  CASE kind \in {"meter_duplicate", "meter_reorder"} ->
             RunCycle(Primed(h, Sequence), Input(kind), Recommended, FALSE)
        [] kind = "controller_restart" -> Restarted(Emitted(h, "execution_authorized"))
        [] kind = "split_brain" ->
             Hold(h, {IF Fenced("b", 2, "a", 1) THEN "stale_controller_fenced"
                      ELSE "active_lease_verified"})
        [] kind = "manual_conflict" ->
             Hold(h, {"stricter_manual_or_optimizer_limit_selected",
                      IF Stricter(1100, 1200) = 1100 THEN "1100" ELSE "1200"})
        [] kind = "interrupted_recovery" ->
             Hold(Emitted(Hold(h, {"initial_hold"}), "recovery_started"),
                  {"recovery_interrupted"})
        [] kind = "protected_mislabel_attempt" -> RunCycle(h, Input(kind), Mislabelled, FALSE)
        [] OTHER -> RunCycle(h, Input(kind), Recommended, kind = "audit_failure")

Numbered(rows) == [i \in 1..Len(rows) |-> [sequence |-> i - 1, row |-> rows[i]]]

\* _final: the packet, with counts taken from the injector it was given.
Packet(kind) ==
  LET h == Ran(kind)
  IN  [scenario |-> kind,
       expected |-> IF kind = "optimizer_timeout" THEN "supervised" ELSE "safe_hold",
       observed |-> h.state,
       trace |-> Numbered(h.trace),
       injections |-> Numbered(h.consumed),
       declared |-> Len(h.consumed) + (IF h.pending = {} THEN 0 ELSE 1),
       pending |-> IF h.pending = {} THEN 0 ELSE 1,
       rowCount |-> Len(h.trace),
       mutations |-> Numbered(h.mutations),
       mutationCount |-> Len(h.mutations),
       events |-> Numbered(h.events),
       expired |-> RestartAfter >= ProposalLifetime,
       before |-> NoCap, after |-> h.cap,
       cursor |-> h.cursor,
       meter |-> Input(kind), primedAt |-> Sequence.sequence,
       controllers |-> IF kind = "split_brain" THEN 2 ELSE 1,
       manual |-> 1100, automatic |-> 1200,
       critical |-> h.critical]

\* standard_traces._stale_meter_trace: one observation and one decision.
StaleMeterPacket ==
  LET m == [GoodReading EXCEPT !.age = 5001, !.latency = 50]
      eligible == MeterReasons(m) = {}
  IN  [scenario |-> "stale_meter",
       trace |-> <<[type |-> "meter_observation", age |-> m.age],
                   [type |-> "eligibility_decision", eligible |-> eligible,
                    reasons |-> MeterReasons(m),
                    next |-> IF eligible THEN "AUTOMATIC" ELSE "SAFE_HOLD",
                    actuations |-> IF eligible THEN 1 ELSE 0]>>,
       mutations |-> <<>>,
       claimedAge |-> 5001, maxAge |-> FreshnessPolicy.maxAge,
       requiredReason |-> "meter sample is stale", ineligible |-> "SAFE_HOLD"]

\* run_all_standard_primary_traces + run_all_primary_traces, without normal.
Produced == [s \in FaultKinds \cup {"stale_meter"} |->
               IF s = "stale_meter" THEN StaleMeterPacket ELSE Packet(s)]
=============================================================================
