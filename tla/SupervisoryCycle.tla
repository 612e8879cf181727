-------------------------- MODULE SupervisoryCycle --------------------------
(***************************************************************************)
(* SupervisoryHarness of supervisor.py: one control cycle takes a meter    *)
(* sample, an authorization of the session, a plan of power caps that two  *)
(* validators must accept, and carries the plan out action by action with  *)
(* an audit record before and after each change.  Between cycles planners  *)
(* and operators use the session; a caller may retry a cycle under the     *)
(* same execution_id; the controller may crash between any two steps.      *)
(*                                                                         *)
(* The session (ControlSession) and the reconciler (MeterSequence) are the *)
(* harness's own objects.  A cycle evaluates everything at the `now' it is *)
(* called with, so the clock moves between cycles only.                    *)
(***************************************************************************)
EXTENDS ControlSession, MeterSequence

CONSTANTS Workloads,
          Protected,      \* workloads of critical priority
          Nominal,        \* watts_per_gpu of each workload
          DeclaredFloor,  \* its own minimum, NoFloor when it may not be capped
          PolicyFloor,    \* the scoped policy's, NoFloor without one
          NoFloor,
          Caps,           \* the cap values planners propose
          Uncapped,       \* None: no cap
          MaxActions,     \* maximum_actions_per_event
          MaxPlan         \* bound on the length of a plan

ASSUME WattsAssumption ==
    /\ Nominal \in [Workloads -> Nat]
    /\ DeclaredFloor \in [Workloads -> Nat \cup {NoFloor}]
    /\ PolicyFloor \in [Workloads -> Nat \cup {NoFloor}]
    /\ NoFloor \notin Nat /\ Uncapped \notin Nat
    /\ Caps \subseteq Nat

VARIABLES phase,      \* where run_cycle is; "idle" between cycles
          cycle,      \* its proposal_id and execution_id
          todo,       \* the actions of the plan still to carry out
          caps,       \* current_cap_watts of each workload
          mutated,    \* how many changes were made (MutationRecords)
          audit,      \* how many records of the actions the audit sink holds
          failing,    \* fail_event_type: the kind the sink cannot write
          recovering  \* recovery, of the harness's AuthorizationContext

configuration == <<failing, recovering>>
harnessVars == <<phase, cycle, todo, caps, mutated, audit, configuration>>
vars == <<sessionVars, sequenceVars, harnessVars>>

NoCycle == [proposal |-> NoOne, execution |-> NoOne]
RecordKinds == {"action_intent", "observed", "rejected"}

\* Both kinds of outcome are written as action_outcome; a record that there
\* was nothing to do is not counted.
Writable(kind) ==
    failing # (IF kind \in {"observed", "rejected"} THEN "action_outcome" ELSE kind)

\* Workload.__post_init__: only a workload that may be capped has a cap.
LegalCaps(c) == \A w \in Workloads : c[w] # Uncapped =>
    DeclaredFloor[w] # NoFloor /\ DeclaredFloor[w] <= c[w] /\ c[w] <= Nominal[w]

Init ==
    /\ SessionInit
    /\ SequenceInit
    /\ phase = "idle"
    /\ cycle = NoCycle
    /\ todo = <<>>
    /\ caps \in {c \in [Workloads -> Caps \cup {Uncapped}] : LegalCaps(c)}
    /\ mutated = 0
    /\ audit = [k \in RecordKinds |-> 0]
    /\ failing \in {"nothing", "action_intent", "action_outcome"}
    /\ recovering \in BOOLEAN

-----------------------------------------------------------------------------
(* The two validators.  An action is a workload and its new cap.           *)

Actions == [workload : Workloads, value : Caps \cup {Uncapped}]
Plans == UNION {[1 .. n -> Actions] : n \in 0 .. MaxPlan}

Draw(w) == IF caps[w] = Uncapped THEN Nominal[w] ELSE caps[w]

\* Faulty variant of ControllerAccepts: several actions for one workload pass.
ControllerAcceptsRepeats(plan) ==
    \A i \in DOMAIN plan :
        LET w == plan[i].workload
            value == plan[i].value IN
        /\ w \notin Protected /\ DeclaredFloor[w] # NoFloor
        /\ IF value = Uncapped THEN caps[w] # Uncapped
           ELSE DeclaredFloor[w] <= value /\ value <= Nominal[w]

\* HeuristicController.validate: at most one action for a workload, none for
\* a protected one; protected is also what may not be capped.
ControllerAccepts(plan) ==
    /\ \A i, j \in DOMAIN plan : plan[i].workload = plan[j].workload => i = j
    /\ \A i \in DOMAIN plan :
        LET w == plan[i].workload
            value == plan[i].value IN
        /\ w \notin Protected /\ DeclaredFloor[w] # NoFloor
        /\ IF value = Uncapped THEN caps[w] # Uncapped
           ELSE DeclaredFloor[w] <= value /\ value <= Nominal[w]

\* FlexibilityPolicyGuard: a policy for the workload, room in the action
\* budget, and a change in the direction the context allows.
AboveFloors(w, value) == value >= DeclaredFloor[w] /\ value >= PolicyFloor[w]

PolicyAccepts(plan) ==
    \A i \in DOMAIN plan :
        LET w == plan[i].workload
            value == plan[i].value IN
        /\ PolicyFloor[w] # NoFloor /\ DeclaredFloor[w] # NoFloor
        /\ i <= MaxActions
        /\ IF recovering
           THEN /\ caps[w] # Uncapped
                /\ value # Uncapped =>
                    /\ Draw(w) <= value /\ value <= Nominal[w]
                    /\ AboveFloors(w, value)
           ELSE value # Uncapped /\ AboveFloors(w, value) /\ value < Draw(w)

Validated(plan) == ControllerAccepts(plan) /\ PolicyAccepts(plan)

-----------------------------------------------------------------------------
(* run_cycle.                                                              *)

CycleEnds == phase' = "idle" /\ cycle' = NoCycle /\ todo' = <<>>

\* _hold, after which run_cycle returns.
Holds == SafeHold /\ CycleEnds

\* The sample is missing, out of sequence, or not eligible: the reconciler
\* has not moved when the session is held.  Nothing has looked at `now' yet
\* but the assessment of the sample: with a naive one the hold raises.
MeterUnusable ==
    /\ phase = "idle"
    /\ Holds \/ (SafeHoldRaises /\ CycleEnds)
    /\ UNCHANGED <<sequenceVars, caps, mutated, audit, configuration>>

MeterAssessed(x, p, e) ==
    /\ phase = "idle" /\ Running
    /\ Acceptable(x)
    /\ phase' = "metered"
    /\ cycle' = [proposal |-> p, execution |-> e]
    /\ UNCHANGED <<sessionVars, sequenceVars, todo, caps, mutated, audit, configuration>>

MeterAccepted(x, p, e) ==
    /\ phase = "idle" /\ Running
    /\ Accept(x)
    /\ phase' = "metered"
    /\ cycle' = [proposal |-> p, execution |-> e]
    /\ UNCHANGED <<sessionVars, todo, caps, mutated, audit, configuration>>

Authorized ==
    /\ phase = "metered"
    /\ \/ AuthorizeExecution(cycle.proposal, cycle.execution)
       \/ /\ AlreadyAuthorized(cycle.proposal, cycle.execution)
          /\ UNCHANGED sessionVars
    /\ phase' = "authorized"
    /\ UNCHANGED <<sequenceVars, cycle, todo, caps, mutated, audit, configuration>>

\* authorize_execution raises: after a hold when the proposal has expired,
\* otherwise with no effect on the session.
AuthorizationExpired ==
    /\ phase = "metered"
    /\ AuthorizeTooLate(cycle.proposal, cycle.execution)
    /\ CycleEnds
    /\ UNCHANGED <<sequenceVars, caps, mutated, audit, configuration>>

AuthorizationRefused ==
    /\ phase = "metered"
    /\ \/ executions[cycle.execution] \notin {NoOne, cycle.proposal}
       \/ executions[cycle.execution] = NoOne /\ ~Approved(cycle.proposal)
    /\ CycleEnds
    /\ UNCHANGED <<sessionVars, sequenceVars, caps, mutated, audit, configuration>>

\* The optimizer timed out into the heuristic, or answered: any plan at all.
PlanAccepted(plan) ==
    /\ phase = "authorized"
    /\ plan # <<>> /\ Validated(plan)
    /\ phase' = "acting"
    /\ todo' = plan
    /\ UNCHANGED <<sessionVars, sequenceVars, cycle, caps, mutated, audit, configuration>>

\* Faulty variant of PlanRejected: the state is set behind the session's back.
PlanRejectedUnrecorded ==
    /\ phase = "authorized"
    /\ sState' = "safe_hold"
    /\ CycleEnds
    /\ UNCHANGED <<proposal, approval, proposals, approvals, executions, events, now,
                   crashes, sequenceVars, caps, mutated, audit, configuration>>

\* Its answer was malformed or a validator refused it.
PlanRejected ==
    /\ phase = "authorized"
    /\ Holds
    /\ UNCHANGED <<sequenceVars, caps, mutated, audit, configuration>>

Writes(kind) ==
    /\ Writable(kind)
    /\ audit' = [audit EXCEPT ![kind] = @ + 1]

\* An audit failure that run_cycle does not catch: the exception leaves it.
AuditRaises(kind) ==
    /\ ~Writable(kind)
    /\ CycleEnds
    /\ UNCHANGED <<sessionVars, sequenceVars, caps, mutated, audit, configuration>>

\* An empty plan; whether its record is written, or that raises, or the planner
\* did before, run_cycle ends with the same state.
NothingToDo ==
    /\ phase = "authorized"
    /\ CycleEnds
    /\ UNCHANGED <<sessionVars, sequenceVars, caps, mutated, audit, configuration>>

\* Faulty variant of IntentDurable: the record is left for later.
IntentDeferred ==
    /\ phase = "acting"
    /\ phase' = "intended"
    /\ UNCHANGED <<sessionVars, sequenceVars, cycle, todo, caps, mutated, audit,
                   configuration>>

IntentDurable ==
    /\ phase = "acting"
    /\ Writes("action_intent")
    /\ phase' = "intended"
    /\ UNCHANGED <<sessionVars, sequenceVars, cycle, todo, caps, mutated, configuration>>

IntentFails ==
    /\ phase = "acting"
    /\ ~Writable("action_intent")
    /\ Holds
    /\ UNCHANGED <<sequenceVars, caps, mutated, audit, configuration>>

\* The scheduler or the adapter refuses or is unavailable: a rejected outcome
\* is written and the session held; the actions already done stay done.
BoundaryFault ==
    /\ phase = "intended"
    /\ \/ /\ Writes("rejected")
          /\ Holds
          /\ UNCHANGED <<sequenceVars, caps, mutated, configuration>>
       \/ AuditRaises("rejected")

Mutate ==
    /\ phase = "intended"
    /\ caps' = [caps EXCEPT ![Head(todo).workload] = Head(todo).value]
    /\ mutated' = mutated + 1
    /\ phase' = "mutated"
    /\ UNCHANGED <<sessionVars, sequenceVars, cycle, todo, audit, configuration>>

OutcomeDurable ==
    /\ phase = "mutated"
    /\ Writes("observed")
    /\ IF Len(todo) = 1 THEN CycleEnds
       ELSE phase' = "acting" /\ todo' = Tail(todo) /\ UNCHANGED cycle
    /\ UNCHANGED <<sessionVars, sequenceVars, caps, mutated, configuration>>

OutcomeFails == phase = "mutated" /\ AuditRaises("observed")

-----------------------------------------------------------------------------

BetweenCycles ==
    /\ phase = "idle"
    /\ OperatorStep \/ Tick
    /\ UNCHANGED <<sequenceVars, harnessVars>>

\* prime_meter, and the operator's notice of a restarted meter.
PrimeMeter(x) ==
    /\ phase = "idle" /\ Running
    /\ Accept(x)
    /\ UNCHANGED <<sessionVars, harnessVars>>

MeterRestarts(s, e) ==
    /\ phase = "idle" /\ Running
    /\ DeclareRestart(s, e)
    /\ UNCHANGED <<sessionVars, harnessVars>>

\* The process dies in the middle of anything.  The successor has a new
\* harness with a new reconciler, and the session it could rebuild.
ControllerCrash ==
    /\ Crash
    /\ CycleEnds
    /\ UNCHANGED <<sequenceVars, caps, mutated, audit, configuration>>

ControllerRestart ==
    /\ Reconstruct
    /\ cursor' = [s \in Sources |-> Unseen]
    /\ pending' = [s \in Sources |-> NoEpoch]
    /\ retired' = [s \in Sources |-> {}]
    /\ uses' = [x \in Samples |-> 0]
    /\ UNCHANGED harnessVars

RunCycle ==
    \/ MeterUnusable
    \/ \E x \in Samples, p \in Proposals, e \in Executions : MeterAccepted(x, p, e)
    \/ Authorized \/ AuthorizationExpired \/ AuthorizationRefused
    \/ \E plan \in Plans : PlanAccepted(plan)
    \/ PlanRejected \/ NothingToDo
    \/ IntentDurable \/ IntentFails
    \/ BoundaryFault \/ Mutate
    \/ OutcomeDurable \/ OutcomeFails

Next ==
    \/ RunCycle
    \/ BetweenCycles
    \/ \E x \in Samples : PrimeMeter(x)
    \/ \E s \in Sources, e \in Epochs : MeterRestarts(s, e)
    \/ ControllerCrash \/ ControllerRestart

Spec == Init /\ [][Next]_vars

-----------------------------------------------------------------------------

Phases == {"idle", "metered", "authorized", "acting", "intended", "mutated"}

CycleTypeOK ==
    /\ SessionTypeOK /\ SequenceTypeOK
    /\ phase \in Phases
    /\ cycle \in [proposal : Proposals, execution : Executions] \cup {NoCycle}
    /\ todo \in Seq(Actions)
    /\ caps \in [Workloads -> Caps \cup {Uncapped}]
    /\ mutated \in Nat
    /\ audit \in [RecordKinds -> Nat]
    /\ recovering \in BOOLEAN

\* The authorizations of the present controller, not of one it succeeded.
OwnAuthorizations ==
    {k \in Of(events, "execution_authorized") :
        \A l \in k .. Len(events) : ~EventIs(l, "session_reconstructed")}

\* The samples the present controller's reconciler accepted.
SamplesUsed == {x \in Samples : uses[x] > 0}

(***************************************************************************)
(* Every authorization of a controller was bought with a meter sample of   *)
(* its own: there are never more of them than samples it accepted, and it  *)
(* accepts a sample once, whatever is replayed to it.                      *)
(***************************************************************************)
SampleBehindEveryAuthorization ==
    /\ NeverReplayed
    /\ Cardinality(OwnAuthorizations) <= Cardinality(SamplesUsed)

(***************************************************************************)
(* From the authorization to the last change, the cycle's execution_id is  *)
(* on record as authorized for the cycle's proposal by this controller: a  *)
(* restarted one never replays a command of its predecessor.               *)
(***************************************************************************)
ActsOnRecordedAuthorization ==
    phase \in Phases \ {"idle", "metered"} =>
        \E k \in OwnAuthorizations :
            /\ events[k].execution = cycle.execution
            /\ events[k].proposal = cycle.proposal

(***************************************************************************)
(* The audit log accounts for the changes: none is made before its intent  *)
(* is durable, and with a working sink every intent has its outcome except *)
(* the one being carried out and those a crash cut off, one per crash.     *)
(***************************************************************************)
AuditAccountsForChanges ==
    LET intents == audit["action_intent"]
        outcomes == audit["observed"] + audit["rejected"] IN
    /\ mutated <= intents
    /\ audit["observed"] <= mutated
    /\ failing # "action_outcome" =>
        intents <= outcomes + crashes + (IF phase \in {"intended", "mutated"} THEN 1 ELSE 0)

(***************************************************************************)
(* What a change does to a workload, although the plan was validated as a  *)
(* whole before its first action: it never touches a protected or unknown  *)
(* workload, stays above both floors, and moves the power in the one       *)
(* direction the authorization is for.                                     *)
(***************************************************************************)
ChangesStayInPolicy ==
    [][\A w \in Workloads : caps'[w] # caps[w] =>
        /\ w \notin Protected /\ PolicyFloor[w] # NoFloor
        /\ caps'[w] # Uncapped => AboveFloors(w, caps'[w]) /\ caps'[w] <= Nominal[w]
        /\ IF recovering THEN Draw(w)' >= Draw(w) ELSE Draw(w)' < Draw(w)]_vars

(***************************************************************************)
(* "SAFE_HOLD: stop issuing new workload changes"                          *)
(* (docs/council-power-controls.md).                                       *)
(***************************************************************************)
NoChangeInSafeHold == [][mutated' # mutated => sState # "safe_hold"]_vars
=============================================================================
