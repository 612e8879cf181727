------------------------- MODULE ClusterSimulation -------------------------
(***************************************************************************)
(* Simulator of simulator.py driving HeuristicController of controller.py: *)
(* every second the loop admits queued workloads in order of priority and, *)
(* every Interval seconds, lowers or restores power caps to follow the     *)
(* facility's envelope.  Each change is announced in the audit log before  *)
(* it is made and confirmed after; writing any row may fail, which ends    *)
(* the run.                                                                *)
(*                                                                         *)
(* Envelopes and arrivals are any schedule: each second has a new envelope *)
(* and new arrivals.  Watts are integers, of a unit as fine as one likes;  *)
(* the one division of the controller rounds to it (LoweredBy), as         *)
(* floating point does to its own.                                         *)
(***************************************************************************)
EXTENDS SequencesExt

CONSTANTS Names,         \* workload_ids in alphabetical order
          Priority,      \* "critical", "normal" or "opportunistic"
          Gpus,          \* requested_gpus
          Nominal,       \* watts_per_gpu
          Work,          \* work_units times watts_per_gpu, or Endless
          Endless,       \* more work than the run has seconds for
          MayDefer,      \* the workloads with Flexibility.may_defer
          Floors,        \* the declarations of min_power_watts_per_gpu to try
          NoFloor,       \* no minimum: the workload may not be capped
          Uncapped,      \* current_cap_watts is None
          Envelopes, Overhead, Reserve, RecoveryStep, Interval,
          Cooling,       \* cooling_ratio, in per cent
          NoChange

Workloads == Range(Names)

ASSUME ClusterAssumption ==
    /\ Names \in Seq(Workloads) /\ IsInjective(Names)
    /\ Priority \in [Workloads -> {"critical", "normal", "opportunistic"}]
    /\ Gpus \in [Workloads -> Nat \ {0}] /\ Nominal \in [Workloads -> Nat \ {0}]
    /\ Work \in [Workloads -> (Nat \ {0}) \cup {Endless}]
    /\ Floors \subseteq [Workloads -> Nat \cup {NoFloor}]
    /\ {Overhead, Reserve, RecoveryStep, Cooling} \cup Envelopes \subseteq Nat
    /\ Interval \in Nat \ {0}
    /\ {NoFloor, Uncapped, Endless} \cap Nat = {}

VARIABLES floor,      \* the workloads' min_power_watts_per_gpu
          state, cap, progress,
          arrived,    \* workloads whose arrival_second is reached
          envelope,   \* envelope_at(second)
          tick,       \* second % control_interval_seconds
          pc,         \* where run() is in this second
          todo,       \* what is left of the loop over workloads or actions
          priorCap,   \* prior_cap, of the action being applied
          reason,     \* the reason of the last decision's actions
          memory,     \* self.audit, as the state of the cluster it tells
          durable     \* audit_log, likewise

cluster == <<state, cap, progress>>
environment == <<floor, arrived, envelope, tick>>
logs == <<memory, durable>>
vars == <<cluster, environment, pc, todo, priorCap, reason, logs>>

-----------------------------------------------------------------------------
(* Workloads and power.                                                    *)

Protected(w) == Priority[w] = "critical" \/ ~(w \in MayDefer \/ floor[w] # NoFloor)
Draw(w) == IF cap[w] = Uncapped THEN Nominal[w] ELSE cap[w]
Running == {w \in Workloads : state[w] = "running"}

\* sum(): a running total over the workloads.
Total(watts) ==
    LET sum[k \in 0 .. Len(Names)] == IF k = 0 THEN 0 ELSE sum[k - 1] + watts[Names[k]]
    IN  sum[Len(Names)]

\* The power of the facility is counted in hundredths, for the cooling's sake.
Hundredths(watts) == 100 * watts
Facility(it) == Hundredths(Overhead) + it * (100 + Cooling)
FacilityPower ==
    Facility(Total([w \in Workloads |-> IF w \in Running THEN Gpus[w] * Draw(w) ELSE 0]))
Target == Hundredths(envelope - Reserve)

\* Workload.__post_init__: only a workload with a floor has a cap.
LegalCaps(c) == \A w \in Workloads : c[w] # Uncapped =>
    floor[w] # NoFloor /\ c[w] \in floor[w] .. Nominal[w]

OfPriority(S, P) ==
    LET chosen[k \in 0 .. Len(Names)] ==
          IF k = 0 THEN <<>>
          ELSE IF Names[k] \in S /\ Priority[Names[k]] \in P THEN Append(chosen[k - 1], Names[k])
          ELSE chosen[k - 1]
    IN  chosen[Len(Names)]
AdmissionOrder == OfPriority(Workloads, {"critical"}) \o OfPriority(Workloads, {"normal"})
                      \o OfPriority(Workloads, {"opportunistic"})
OpportunisticFirst(S) == OfPriority(S, {"opportunistic"}) \o OfPriority(S, {"critical", "normal"})

OpportunisticLast(S) == OfPriority(S, {"critical", "normal"}) \o OfPriority(S, {"opportunistic"})

-----------------------------------------------------------------------------
(* HeuristicController.  plan.watts is what is left of the excess or of    *)
(* the headroom, in hundredths.                                            *)

CapTo(w, value) == [workload |-> w, value |-> value]

\* The cap that takes the hundredths `cut' off all GPUs of w together.
LoweredBy(w, cut) == Draw(w) - cut \div Hundredths(Gpus[w])

Reduce(plan, w) ==
    LET cut == Min({plan.watts, Hundredths((Draw(w) - floor[w]) * Gpus[w])})
    IN  IF cut <= 0 THEN plan
        ELSE [watts |-> plan.watts - cut,
              actions |-> Append(plan.actions, CapTo(w, LoweredBy(w, cut)))]

\* Faulty variant of Recover: every cap is raised, whatever the headroom.
RecoverBlindly(plan, w) ==
    LET increase == Min({RecoveryStep, Nominal[w] - Draw(w)})
        new == Draw(w) + increase
    IN  IF increase <= 0 THEN plan
        ELSE [plan EXCEPT !.actions =
                  Append(@, CapTo(w, IF new >= Nominal[w] THEN Uncapped ELSE new))]

\* Faulty variant of Recover: the last step lifts the cap only above nominal.
RecoverNeverLifts(plan, w) ==
    LET increase == Min({RecoveryStep, Nominal[w] - Draw(w)})
        total == Hundredths(increase * Gpus[w])
        new == Draw(w) + increase
    IN  IF increase <= 0 \/ total > plan.watts THEN plan
        ELSE [watts |-> plan.watts - total,
              actions |-> Append(plan.actions,
                                 CapTo(w, IF new > Nominal[w] THEN Uncapped ELSE new))]

Recover(plan, w) ==
    LET increase == Min({RecoveryStep, Nominal[w] - Draw(w)})
        total == Hundredths(increase * Gpus[w])
        new == Draw(w) + increase
    IN  IF increase <= 0 \/ total > plan.watts THEN plan
        ELSE [watts |-> plan.watts - total,
              actions |-> Append(plan.actions,
                                 CapTo(w, IF new >= Nominal[w] THEN Uncapped ELSE new))]

Excess == Max({0, FacilityPower - Target})
Cappable == {w \in Running : floor[w] # NoFloor}
Restorable == {w \in Running : cap[w] \notin {Uncapped, 0}}  \* 0 W is falsy

\* The controller's loop over the candidates.
PlanAlong(candidates, watts) ==
    LET plan[k \in 0 .. Len(candidates)] ==
          IF k = 0 THEN [watts |-> watts, actions |-> <<>>]
          ELSE IF Excess > 0 THEN Reduce(plan[k - 1], candidates[k])
          ELSE Recover(plan[k - 1], candidates[k])
    IN  plan[Len(candidates)].actions

Recommendation ==
    IF Excess > 0 THEN PlanAlong(OpportunisticFirst(Cappable), Excess)
    ELSE PlanAlong(OpportunisticLast(Restorable), Target - FacilityPower)

\* The actions set_power_cap.
PowerCaps == [workload : Workloads, value : Nat \cup {Uncapped}]

\* validate(): what makes it not raise SafetyViolation.
Validated(plan) ==
    /\ plan \in Seq(PowerCaps)
    /\ \A i, j \in DOMAIN plan : plan[i].workload = plan[j].workload => i = j
    /\ \A i \in DOMAIN plan : LET w == plan[i].workload IN
          /\ ~Protected(w)
          /\ IF plan[i].value = Uncapped THEN cap[w] # Uncapped
             ELSE floor[w] # NoFloor /\ plan[i].value \in floor[w] .. Nominal[w]

-----------------------------------------------------------------------------
(* The audit logs.  Only the last announced change matters of the intents, *)
(* and of the outcomes the state they add up to.                           *)

Admission(w) == [kind |-> "admission", workload |-> w, value |-> Uncapped]
Action(a) == [kind |-> "cap", workload |-> a.workload, value |-> a.value]

Announced(log, change) == [log EXCEPT !.intent = change]
Confirmed(log) ==
    LET change == log.intent
        admits == change.kind = "admission"
    IN  [admitted |-> IF admits THEN log.admitted \cup {change.workload} ELSE log.admitted,
         caps |-> IF admits THEN log.caps
                  ELSE [log.caps EXCEPT ![change.workload] = change.value],
         intent |-> NoChange]

\* _record: durable evidence first, then memory.
Record(log) == durable' = log /\ memory' = log

\* _record raises, with or without the row in the durable log, and so does run().
RecordFails(log) == durable' \in {durable, log} /\ pc' = "aborted" /\ UNCHANGED memory

-----------------------------------------------------------------------------
(* One second of run().                                                    *)

Init ==
    /\ floor \in Floors
    /\ state = [w \in Workloads |-> "queued"]
    /\ cap = [w \in Workloads |-> Uncapped]
    /\ progress = [w \in Workloads |-> 0]
    /\ arrived = {}
    /\ envelope \in Envelopes
    /\ tick = 0
    /\ pc = "second"
    /\ todo = <<>>
    /\ priorCap = Uncapped
    /\ reason = "none"
    /\ memory = [admitted |-> {}, caps |-> cap, intent |-> NoChange]
    /\ durable = memory

BeginSecond(e, arriving) ==
    /\ pc = "second"
    /\ envelope' = e
    /\ arrived' = arrived \cup arriving
    /\ todo' = AdmissionOrder
    /\ pc' = "admit"
    /\ UNCHANGED <<cluster, floor, tick, priorCap, reason, logs>>

\* _admit: protected workloads always, others into what the reserve leaves.
Admissible(w) ==
    /\ w \in arrived /\ state[w] = "queued"
    /\ Protected(w) \/ FacilityPower + Gpus[w] * Nominal[w] * (100 + Cooling) <= Target

\* Not queued, not here yet, or not fitting: the loop goes on.
PassOver ==
    /\ pc = "admit" /\ todo # <<>> /\ ~Admissible(Head(todo))
    /\ todo' = Tail(todo)
    /\ UNCHANGED <<cluster, environment, pc, priorCap, reason, logs>>

Admit ==
    /\ pc = "admit" /\ todo # <<>> /\ Admissible(Head(todo))
    /\ Record(Announced(memory, Admission(Head(todo))))
    /\ state' = [state EXCEPT ![Head(todo)] = "running"]
    /\ pc' = "admitting"
    /\ UNCHANGED <<cap, progress, environment, todo, priorCap, reason>>

AdmissionOutcome ==
    /\ pc = "admitting"
    /\ Record(Confirmed(memory))
    /\ pc' = "admit"
    /\ todo' = Tail(todo)
    /\ UNCHANGED <<cluster, environment, priorCap, reason>>

AdmissionRolledBack ==
    /\ pc = "admitting"
    /\ RecordFails(Confirmed(memory))
    /\ state' = [state EXCEPT ![Head(todo)] = "queued"]
    /\ UNCHANGED <<cap, progress, environment, todo, priorCap, reason>>

ControlDue == pc = "admit" /\ todo = <<>> /\ tick = 0

Decide ==
    /\ ControlDue
    /\ \E plan \in {Recommendation} :
          /\ Validated(plan)
          /\ todo' = plan
          /\ reason' = IF plan = <<>> THEN "none"
                       ELSE IF Excess > 0 THEN "power_envelope" ELSE "rate_limited_recovery"
    /\ pc' = "control"
    /\ UNCHANGED <<cluster, environment, priorCap, logs>>

PlanRefused ==
    /\ ControlDue
    /\ \E plan \in {Recommendation} : ~Validated(plan)
    /\ pc' = "aborted"
    /\ UNCHANGED <<cluster, environment, todo, priorCap, reason, logs>>

Apply ==
    /\ pc = "control" /\ todo # <<>>
    /\ LET action == Head(todo) IN
          /\ Record(Announced(memory, Action(action)))
          /\ priorCap' = cap[action.workload]
          /\ cap' = [cap EXCEPT ![action.workload] = action.value]
    /\ pc' = "applying"
    /\ UNCHANGED <<state, progress, environment, todo, reason>>

ActionOutcome ==
    /\ pc = "applying"
    /\ Record(Confirmed(memory))
    /\ pc' = "control"
    /\ todo' = Tail(todo)
    /\ UNCHANGED <<cluster, environment, priorCap, reason>>

\* Faulty variant of ActionRolledBack: the cap stays.
ActionKept ==
    /\ pc = "applying"
    /\ RecordFails(Confirmed(memory))
    /\ UNCHANGED <<cluster, environment, todo, priorCap, reason>>

ActionRolledBack ==
    /\ pc = "applying"
    /\ RecordFails(Confirmed(memory))
    /\ cap' = [cap EXCEPT ![Head(todo).workload] = priorCap]
    /\ UNCHANGED <<state, progress, environment, todo, priorCap, reason>>

\* The rows on a shortfall are written; `sampling' is after a control step.
ControlDone ==
    /\ pc = "control" /\ todo = <<>>
    /\ pc' = "sampling"
    /\ UNCHANGED <<cluster, environment, todo, priorCap, reason, logs>>

SampleDue == pc = "sampling" \/ (pc = "admit" /\ todo = <<>> /\ tick # 0)

Advanced(w) ==
    IF state[w] = "running" /\ Work[w] # Endless THEN progress[w] + Gpus[w] * Draw(w)
    ELSE progress[w]

\* The sample, advance() of every workload, and the next second or the end.
Advance ==
    /\ SampleDue
    /\ progress' = [w \in Workloads |-> Advanced(w)]
    /\ state' = [w \in Workloads |->
                    IF state[w] = "running" /\ Work[w] # Endless /\ Advanced(w) >= Work[w]
                    THEN "completed" ELSE state[w]]
    /\ tick' = (tick + 1) % Interval
    /\ pc' \in {"second", "finished"}
    /\ UNCHANGED <<cap, floor, arrived, envelope, todo, priorCap, reason, logs>>

\* A row fails to be written while no change is waiting for its outcome.
RowFails ==
    /\ \/ pc = "admit" /\ todo # <<>> /\ Admissible(Head(todo))
             /\ RecordFails(Announced(memory, Admission(Head(todo))))
       \/ pc = "control" /\ todo # <<>>
             /\ RecordFails(Announced(memory, Action(Head(todo))))
       \/ (ControlDue \/ SampleDue \/ (pc = "control" /\ todo = <<>>))
             /\ RecordFails(memory)
    /\ UNCHANGED <<cluster, environment, todo, priorCap, reason>>

Begin == \E e \in Envelopes, arriving \in SUBSET (Workloads \ arrived) : BeginSecond(e, arriving)

\* The loop's own progress, without a failing log.
Loop ==
    \/ Begin
    \/ PassOver \/ Admit \/ AdmissionOutcome
    \/ Decide \/ PlanRefused \/ Apply \/ ActionOutcome \/ ControlDone
    \/ Advance

Next == Loop \/ AdmissionRolledBack \/ ActionRolledBack \/ RowFails

\* A for loop that nothing blocks.
Spec == Init /\ [][Next]_vars /\ WF_vars(Loop)

-----------------------------------------------------------------------------
(* Properties.                                                             *)

Stages == {"second", "admit", "admitting", "control", "applying", "sampling", "finished", "aborted"}
Changes == {NoChange} \cup [kind : {"admission", "cap"}, workload : Workloads, value : Nat \cup {Uncapped}]
Logs == [admitted : SUBSET Workloads, caps : [Workloads -> Nat \cup {Uncapped}], intent : Changes]

\* The types of the simulation; every cap is one the workload authorized, and
\* no workload that stays below its work is completed (domain.py).
ClusterTypeOK ==
    /\ state \in [Workloads -> {"queued", "running", "completed"}]
    /\ cap \in [Workloads -> Nat \cup {Uncapped}] /\ LegalCaps(cap)
    /\ progress \in [Workloads -> Nat]
    /\ \A w \in Workloads : state[w] = "completed" <=> (Work[w] # Endless /\ progress[w] >= Work[w])
    /\ floor \in Floors /\ arrived \subseteq Workloads
    /\ envelope \in Envelopes /\ tick \in 0 .. Interval - 1
    /\ pc \in Stages
    /\ priorCap \in Nat \cup {Uncapped}
    /\ reason \in {"none", "power_envelope", "rate_limited_recovery"}
    /\ memory \in Logs /\ durable \in Logs

\* A protected workload is never capped nor its cap touched, whatever the
\* controller recommends (controller.py:14, :101; ADR-0001).
ProtectedUntouched == [][\A w \in Workloads : Protected(w) => cap'[w] = cap[w]]_vars

\* What the last step of a recovery can at most have given w back.
Regained(w) == IF w \in Cappable /\ Draw(w) > floor[w]
               THEN Gpus[w] * Min({RecoveryStep, Draw(w) - floor[w]}) ELSE 0

\* After a control step power is above the envelope for one of two reasons.
\* Either every running workload that may be capped is at its floor: the plan,
\* made of one snapshot and carried out action by action, uses all flexibility
\* before a shortfall is reported as unavoidable (simulator.py:186-191).  Or
\* the step was a recovery, which leaves out the cooling of what it restores
\* (controller.py:69); by no more than that it passes the target.
ExcessIsAccountedFor ==
    pc = "sampling" =>
        IF reason = "rate_limited_recovery"
        THEN FacilityPower - Target <= Cooling * Total([w \in Workloads |-> Regained(w)])
        ELSE FacilityPower > Hundredths(envelope) => \A w \in Cappable : Draw(w) <= floor[w]

\* The reserve is more than what the rounding of one cap can leave.
ReserveCoversRounding == \A w \in Workloads : Gpus[w] <= Reserve

\* Apart from a change between its two rows, the log in memory tells the
\* cluster's caps and admissions; a change whose outcome could not be recorded
\* is undone (simulator.py:114-116, :169-171).
LogExplainsCluster ==
    LET told == IF pc \in {"admitting", "applying"} THEN Confirmed(memory) ELSE memory
    IN  told.caps = cap /\ told.admitted = {w \in Workloads : state[w] # "queued"}

\* No cap or admission is changed unless the durable log announced just this
\* change, and an undone one was announced too (simulator.py:73-76).
ChangesAreAnnounced ==
    [][\A w \in Workloads :
          /\ cap'[w] # cap[w] => \/ durable'.intent = [kind |-> "cap", workload |-> w, value |-> cap'[w]]
                                 \/ memory.intent = [kind |-> "cap", workload |-> w, value |-> cap[w]]
          /\ (state[w] = "queued" /\ state'[w] # "queued") => durable'.intent = Admission(w)]_vars

\* The envelopes that admit every workload at its nominal power.
Ample == {e \in Envelopes :
            Hundredths(e - Reserve) >= Facility(Total([w \in Workloads |-> Gpus[w] * Nominal[w]]))}

\* When the envelope has relaxed for good, every cap on running work is lifted
\* for good, unless the run ends first (controller.py:58-73; README.md:15).
CapsAreLifted ==
    <>[](envelope \in Ample) => (<>[](\A w \in Running : cap[w] = Uncapped) \/ <>(pc \in {"finished", "aborted"}))

=============================================================================
