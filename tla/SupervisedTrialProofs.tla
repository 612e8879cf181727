----------------------- MODULE SupervisedTrialProofs -----------------------
(***************************************************************************)
(* Proofs about SupervisedTrial for every set of limits, every tolerance   *)
(* and any number of drifts, sessions and power losses.                    *)
(***************************************************************************)
EXTENDS SupervisedTrial, TLAPS

(***************************************************************************)
(* The counters of the environment, kept apart: they are the only          *)
(* arithmetic a type needs.                                                *)
(***************************************************************************)
LEMMA Counters ==
  /\ 0 \in DriftCounts /\ 0 \in SessionNumbers /\ 0 \in OutageCounts
  /\ \A n \in DriftCounts : n < MaxDrift => n + 1 \in DriftCounts
  /\ \A n \in SessionNumbers : n < MaxSessions => n + 1 \in SessionNumbers
  /\ \A n \in OutageCounts : n < MaxOutages => n + 1 \in OutageCounts
BY LimitAssumption, SupervisionAssumption
   DEF DriftCounts, SessionNumbers, OutageCounts

(***************************************************************************)
(* A step that leaves a group of variables alone keeps that group's type.  *)
(***************************************************************************)
LEMMA Frames ==
  ASSUME TypeOK
  PROVE  /\ UNCHANGED limitVars => LimitTypeOK'
         /\ UNCHANGED journalVars => JournalTypeOK'
         /\ UNCHANGED <<pc, flow>> => FlowTypeOK'
         /\ UNCHANGED control => ControlTypeOK'
         /\ UNCHANGED world => WorldTypeOK'
         /\ UNCHANGED superVars => SupervisorTypeOK'
<1>1. UNCHANGED limitVars => LimitTypeOK'
  BY DEF TypeOK, LimitTypeOK, limitVars
<1>2. UNCHANGED journalVars => JournalTypeOK'
  BY DEF TypeOK, JournalTypeOK, journalVars
<1>3. UNCHANGED <<pc, flow>> => FlowTypeOK'
  BY DEF TypeOK, TrialTypeOK, FlowTypeOK, flow
<1>4. UNCHANGED control => ControlTypeOK'
  BY DEF TypeOK, TrialTypeOK, ControlTypeOK, control
<1>5. UNCHANGED world => WorldTypeOK'
  BY DEF TypeOK, TrialTypeOK, WorldTypeOK, world
<1>6. UNCHANGED superVars => SupervisorTypeOK'
  BY DEF TypeOK, SupervisorTypeOK, superVars
<1>7. QED
  BY <1>1, <1>2, <1>3, <1>4, <1>5, <1>6

(***************************************************************************)
(* Every way the controller moves on keeps the type of its control flow.   *)
(***************************************************************************)
LEMMA Jumps ==
  ASSUME FlowTypeOK
  PROVE  /\ \A label \in Labels : Goto(label) => FlowTypeOK'
         /\ TrialFails => FlowTypeOK'
         /\ RestoreFails => FlowTypeOK'
         /\ RestoreReturns => FlowTypeOK'
         /\ Leaves => FlowTypeOK'
<1>1. \A label \in Labels : Goto(label) => FlowTypeOK'
  BY DEF FlowTypeOK, Goto, flow
<1>2. {"restore_gate", "verify_restored", "restore_observe", "cleanup"} \subseteq Labels
  BY DEF Labels, RestoreCall, Verdict
<1>3. TrialFails => FlowTypeOK'
  BY <1>2 DEF FlowTypeOK, TrialFails
<1>4. RestoreFails => FlowTypeOK'
  BY <1>2, <1>3 DEF FlowTypeOK, RestoreFails
<1>5. RestoreReturns => FlowTypeOK'
  BY <1>1, <1>2 DEF RestoreReturns
<1>6. Leaves => FlowTypeOK'
  BY <1>1, <1>2 DEF Leaves
<1>7. QED
  BY <1>1, <1>3, <1>4, <1>5, <1>6

(***************************************************************************)
(* A power command, however it ends, keeps the type of the limit.          *)
(***************************************************************************)
LEMMA Commands ==
  ASSUME LimitTypeOK, NEW w \in {Original, Target},
         CommandEnds(w) \/ CommandHangs(w)
  PROVE  LimitTypeOK'
BY DEF LimitTypeOK, CommandEnds, CommandHangs, Takes, Settled, WriterOf, Writers

(***************************************************************************)
(* Every step of the controller keeps the types.                           *)
(***************************************************************************)
LEMMA SetupTypes ==
  ASSUME TypeOK, SetupStep, UNCHANGED superVars
  PROVE  TypeOK'
<1> USE Frames, Jumps DEF TypeOK, TrialTypeOK
<1>0. {"authorize", "confirm", "lock", "preflight", "match",
       "observe_original", "audit_intent", "baseline"} \subseteq Labels
  BY DEF Labels, Setup
<1>1. CASE Qualify
  BY <1>1, <1>0 DEF Qualify, Leaves, WorldTypeOK, Instances
<1>2. CASE Authorize
  BY <1>2, <1>0 DEF Authorize, Leaves, WorldTypeOK, Instances
<1>3. CASE Confirm
  BY <1>3, <1>0 DEF Confirm, Leaves, WorldTypeOK, Instances
<1>4. CASE AcquireLock
  BY <1>4, <1>0 DEF AcquireLock, Leaves, WorldTypeOK, Instances
<1>5. CASE Preflight
  BY <1>5, <1>0 DEF Preflight, control, ControlTypeOK, LimitTypeOK, Leaves,
       WorldTypeOK, Instances
<1>6. CASE Match
  BY <1>6, <1>0 DEF Match, Leaves, WorldTypeOK, Instances
<1>7. CASE ObserveOriginal
  BY <1>7, <1>0 DEF ObserveOriginal, control, ControlTypeOK, LimitTypeOK,
       Leaves, WorldTypeOK, Instances
<1>8. CASE AuditIntent
  BY <1>8, <1>0 DEF AuditIntent, Leaves, WorldTypeOK, Instances, AuditKinds
<1>9. QED
  BY <1>1, <1>2, <1>3, <1>4, <1>5, <1>6, <1>7, <1>8 DEF SetupStep

LEMMA WorkTypes ==
  ASSUME TypeOK, WorkStarts \/ WorkEnds, UNCHANGED superVars
  PROVE  TypeOK'
<1> USE Frames, Jumps DEF TypeOK, TrialTypeOK
<1>0. {"recheck", "restore_gate"} \subseteq Labels
  BY DEF Labels, RestoreCall
<1>1. CASE WorkStarts
  BY <1>1, <1>0 DEF WorkStarts, WorldTypeOK
<1>2. CASE WorkEnds
  BY <1>2, <1>0 DEF WorkEnds, FlowTypeOK, NextAfterWork, WorldTypeOK
<1>3. QED
  BY <1>1, <1>2

LEMMA CapTypes ==
  ASSUME TypeOK, CapStep, UNCHANGED superVars
  PROVE  TypeOK'
<1> USE Frames, Jumps DEF TypeOK, TrialTypeOK
<1>0. CapCall \cup {"cap_observe", "capped"} \subseteq Labels
  BY DEF Labels
<1>1. CASE Recheck
  BY <1>1, <1>0 DEF Recheck, CapCall, FlowTypeOK
<1>2. CASE CapGate
  BY <1>2, <1>0 DEF CapGate, CapCall
<1>3. CASE JournalCreate
  BY <1>3, <1>0 DEF JournalCreate, OpenExclusive, JournalTypeOK, Contents,
       CapCall
<1>4. CASE JournalWrite
  BY <1>4, <1>0 DEF JournalWrite, WriteIntent, JournalTypeOK, Contents,
       CapCall
<1>5. CASE JournalSync
  BY <1>5, <1>0 DEF JournalSync, SyncDirectory, JournalTypeOK, CapCall,
       control, ControlTypeOK
<1>6. CASE Screen
  BY <1>6, <1>0 DEF Screen, CapCall, control, ControlTypeOK
<1>7. CASE CapWrite
  BY <1>7, Commands, <1>0 DEF CapWrite, CapCall
<1>8. CASE CapReadback
  BY <1>8, <1>0 DEF CapReadback, CapCall
<1>9. QED
  BY <1>1, <1>2, <1>3, <1>4, <1>5, <1>6, <1>7, <1>8 DEF CapStep

LEMMA RestoreTypes ==
  ASSUME TypeOK, RestoreStep, UNCHANGED superVars
  PROVE  TypeOK'
<1> USE Frames, Jumps DEF TypeOK, TrialTypeOK
<1>0. RestoreCall \cup {"restored"} \subseteq Labels
  BY DEF Labels
<1>1. CASE RestoreGate
  BY <1>1, <1>0 DEF RestoreGate, RestoreCall
<1>2. CASE PassiveCheck
  BY <1>2, <1>0 DEF PassiveCheck
<1>3. CASE UntriedCheck
  BY <1>3, <1>0 DEF UntriedCheck, RestoreCall
<1>4. CASE RestoreWrite
  BY <1>4, Commands, <1>0 DEF RestoreWrite, RestoreCall
<1>5. CASE RestoreReadback
  BY <1>5, <1>0 DEF RestoreReadback, RestoreCall
<1>6. CASE RestoreExact
  BY <1>6, <1>0 DEF RestoreExact, RestoreCall
<1>7. CASE CloseAppend
  BY <1>7, <1>0 DEF CloseAppend, AppendClosure, AppendClosureFails,
       JournalTypeOK, Contents, Instances, RestoreCall
<1>8. CASE CloseSync
  BY <1>8, <1>0 DEF CloseSync, SyncClosure, JournalTypeOK, Instances,
       control, ControlTypeOK
<1>9. CASE RestoreObserve
  BY <1>9, <1>0 DEF RestoreObserve
<1>10. QED
  BY <1>1, <1>2, <1>3, <1>4, <1>5, <1>6, <1>7, <1>8, <1>9 DEF RestoreStep

LEMMA EndTypes ==
  ASSUME TypeOK, VerifyRestored \/ AuditVerdict \/ Cleanup, UNCHANGED superVars
  PROVE  TypeOK'
<1> USE Frames, Jumps DEF TypeOK, TrialTypeOK
<1>0. Verdict \cup {"exited"} \subseteq Labels
  BY DEF Labels, Gone
<1>1. CASE VerifyRestored
  BY <1>1, <1>0 DEF VerifyRestored, Verdict
<1>2. CASE AuditVerdict
  BY <1>2, <1>0 DEF AuditVerdict, Leaves, WorldTypeOK, Instances, AuditKinds
<1>3. CASE Cleanup
  BY <1>3, <1>0 DEF Cleanup, WorldTypeOK
<1>4. QED
  BY <1>1, <1>2, <1>3

(***************************************************************************)
(* Every step of the supervisor keeps the types.                           *)
(***************************************************************************)
LEMMA SupervisorMoves ==
  ASSUME TypeOK
  PROVE  /\ \A label \in Working \cup Ended : SupGoto(label) => SupervisorTypeOK'
         /\ \A label \in Working \cup Ended : SupEnds(label) =>
              SupervisorTypeOK' /\ lock' \in Instances \cup {"free"}
         /\ UNCHANGED controllerOnly => FlowTypeOK' /\ ControlTypeOK'
<1>1. \A label \in Working \cup Ended : SupGoto(label) => SupervisorTypeOK'
  BY DEF TypeOK, SupervisorTypeOK, SupGoto
<1>2. \A label \in Working \cup Ended : SupEnds(label) =>
        SupervisorTypeOK' /\ lock' \in Instances \cup {"free"}
  BY <1>1 DEF SupEnds, TypeOK, TrialTypeOK, WorldTypeOK
<1>3. UNCHANGED controllerOnly => FlowTypeOK' /\ ControlTypeOK'
  BY Frames DEF controllerOnly
<1>4. QED
  BY <1>1, <1>2, <1>3

LEMMA SupervisorTypes ==
  ASSUME TypeOK, Supervisor
  PROVE  TypeOK'
<1> USE Frames, SupervisorMoves DEF TypeOK, TrialTypeOK
<1>0. {"wait", "reap", "read", "lock", "approve", "observe", "broker",
       "reobserve", "close_append", "close_sync", "final", "failed", "ok",
       "reconciled"} \subseteq Working \cup Ended
  BY DEF Working, Ended, Reconciling
<1>1. CASE Launch
  BY <1>0, <1>1 DEF Launch, FlowTypeOK, flow, Labels, Setup
<1>2. CASE LaunchRefused
  BY <1>0, <1>2 DEF LaunchRefused, controllerOnly, WorldTypeOK
<1>3. CASE ControllerEnds
  BY <1>0, <1>3 DEF ControllerEnds, trialVars
<1>4. CASE Watchdog
  BY <1>0, <1>4, Jumps DEF Watchdog, Dies, Labels, Gone, WorldTypeOK
<1>5. CASE Reap
  BY <1>0, <1>5 DEF Reap, controllerOnly, WorldTypeOK, Instances
<1>6. CASE ReapFails
  BY <1>0, <1>6 DEF ReapFails, controllerOnly, WorldTypeOK, Instances
<1>7. CASE FinalCheck
  BY <1>0, <1>7 DEF FinalCheck, controllerOnly, WorldTypeOK, Instances
<1>8. CASE ReadJournal
  BY <1>0, <1>8 DEF ReadJournal, controllerOnly, WorldTypeOK, Instances
<1>9. CASE ReconcileLock
  BY <1>0, <1>9 DEF ReconcileLock, controllerOnly, WorldTypeOK, Instances
<1>10. CASE Approve
  BY <1>0, <1>10 DEF Approve, controllerOnly, WorldTypeOK, Instances
<1>11. CASE Observe
  BY <1>0, <1>11 DEF Observe, controllerOnly, WorldTypeOK, Instances
<1>12. CASE Reobserve
  BY <1>0, <1>12 DEF Reobserve, controllerOnly, WorldTypeOK, Instances
<1>13. CASE Broker
  BY <1>0, <1>13, Commands DEF Broker, CommandEnds, LimitTypeOK, Takes,
       Settled, WriterOf, Writers, controllerOnly, WorldTypeOK, Instances
<1>14. CASE ReconcileAppend
  BY <1>0, <1>14 DEF ReconcileAppend, AppendClosure, AppendClosureFails,
       JournalTypeOK, Contents, Instances, controllerOnly, WorldTypeOK
<1>15. CASE ReconcileSync
  BY <1>0, <1>15 DEF ReconcileSync, SyncClosure, JournalTypeOK, Instances,
       controllerOnly, WorldTypeOK
<1>16. QED
  BY <1>1, <1>2, <1>3, <1>4, <1>5, <1>6, <1>7, <1>8, <1>9, <1>10, <1>11, <1>12, <1>13, <1>14, <1>15
     DEF Supervisor, Reconcile

(***************************************************************************)
(* Every step of the environment, and every failure, keeps the types.      *)
(***************************************************************************)
LEMMA EnvironmentTypes ==
  ASSUME TypeOK, Environment
  PROVE  TypeOK'
<1> USE Frames DEF TypeOK, TrialTypeOK, trialVars
<1>1. CASE HungCommandEnds /\ UNCHANGED <<journalVars, trialVars, superVars>>
  BY <1>1 DEF HungCommandEnds, LimitTypeOK, Takes, Settled, WriterOf,
       Writers
<1>2. CASE Drift /\ UNCHANGED <<journalVars, trialVars, superVars>>
  BY <1>2, Counters DEF Drift, LimitTypeOK, Writers
<1>3. CASE Expire /\ UNCHANGED superVars
  BY <1>3 DEF Expire, WorldTypeOK
<1>4. CASE OrphanDies /\ UNCHANGED superVars
  BY <1>4 DEF OrphanDies, WorldTypeOK
<1>5. QED
  BY <1>1, <1>2, <1>3, <1>4 DEF Environment

LEMMA FailureTypes ==
  ASSUME TypeOK, Failure
  PROVE  TypeOK'
<1> USE Frames, SupervisorMoves DEF TypeOK, TrialTypeOK
<1>0. {"read", "failed", "dead"} \subseteq Working \cup Ended
  BY DEF Working, Ended
<1>1. CASE SupervisorFails
  BY <1>0, <1>1 DEF SupervisorFails, controllerOnly, WorldTypeOK, Instances
<1>2. CASE SupervisorDies
  BY <1>0, <1>2 DEF SupervisorDies, FlowTypeOK, flow, Labels, Gone,
       WorldTypeOK
<1>3. CASE ControllerDies
  BY <1>0, <1>3, Jumps DEF ControllerDies, Dies, Labels, Gone, WorldTypeOK
<1>4. CASE ApprovalLapses
  BY <1>0, <1>4 DEF ApprovalLapses, trialVars, SupervisorTypeOK
<1>5. CASE PowerLoss
  BY <1>0, <1>5, Counters DEF PowerLoss, LimitPowerLoss, LimitTypeOK,
       Writers, JournalPowerLoss, JournalTypeOK, FlowTypeOK, flow, Labels,
       Gone, WorldTypeOK, SupervisorTypeOK, Ended
<1>6. CASE AttendedSession
  BY <1>0, <1>6, Counters DEF AttendedSession, FreshInstance, JournalTypeOK,
       Instances, trialVars, SupervisorTypeOK
<1>7. QED
  BY <1>1, <1>2, <1>3, <1>4, <1>5, <1>6 DEF Failure

(***************************************************************************)
(* Type correctness of every state of the trial and its supervisor.        *)
(***************************************************************************)
THEOREM TypeCorrect == Spec => []TypeOK
<1>1. Init => TypeOK
  <2> SUFFICES ASSUME Init PROVE TypeOK
    OBVIOUS
  <2>1. LimitTypeOK
    BY Counters DEF Init, LimitInit, LimitTypeOK, Writers
  <2>2. JournalTypeOK
    BY DEF Init, JournalInit, JournalTypeOK, Contents
  <2>3. TrialTypeOK
    BY DEF Init, TrialInit, TrialTypeOK, FlowTypeOK, ControlTypeOK,
           WorldTypeOK, Labels, Gone
  <2>4. SupervisorTypeOK
    BY Counters DEF Init, SupervisorTypeOK, Working
  <2>5. QED
    BY <2>1, <2>2, <2>3, <2>4 DEF TypeOK
<1>2. TypeOK /\ [Next]_vars => TypeOK'
  <2> SUFFICES ASSUME TypeOK, [Next]_vars
               PROVE  TypeOK'
    OBVIOUS
  <2>1. CASE Controller
    BY <2>1, SetupTypes, WorkTypes, CapTypes, RestoreTypes, EndTypes
       DEF Controller, ControllerStep
  <2>2. CASE Supervisor
    BY <2>2, SupervisorTypes
  <2>3. CASE Environment
    BY <2>3, EnvironmentTypes
  <2>4. CASE Failure
    BY <2>4, FailureTypes
  <2>5. CASE UNCHANGED vars
    BY <2>5, Frames DEF vars, trialVars, TypeOK, TrialTypeOK
  <2>6. QED
    BY <2>1, <2>2, <2>3, <2>4, <2>5 DEF Next
<1>3. QED
  BY <1>1, <1>2, PTL DEF Spec

-----------------------------------------------------------------------------
(***************************************************************************)
(* The inductive invariant.  Supervision confines a live controller to the *)
(* supervisor's wait, so nobody else touches the journal under it;         *)
(* WriteAhead carries the intent from the directory fsync to the command   *)
(* and to whatever of it is still in flight; Drained carries the drain of  *)
(* the worker, and of the whole process group, to the commands it must     *)
(* precede and to the final verdict.                                       *)
(***************************************************************************)
Supervision == pc \notin Gone => sup = "wait"

Committed == {"screen", "cap_write", "cap_readback", "cap_observe", "capped"}

\* The journal is never behind what the controller believes of it.
RecordKept ==
  /\ file \in durable
  /\ capStarted => durable \subseteq HasIntent

\* Every trace of a cap command follows the adapter's attempt.
AttemptKept ==
  /\ attempted => capStarted
  /\ writer = "cap" \/ Target \in inflight => attempted

\* What each label of the cap call says of the record and the attempt.
CapCallKept ==
  /\ pc = "journal_sync" => file = "open"
  /\ pc \in Committed => capStarted
  /\ pc = "cap_write" => attempted

WriteAhead == RecordKept /\ AttemptKept /\ CapCallKept

BeforeCommand == {"journal_create", "journal_write", "journal_sync",
                  "screen", "cap_write", "restore_write"}

WorkerDrained == pc \in BeforeCommand => worker = "idle"

\* Past its reap, a supervisor has nothing of the controller left to fear.
GroupDrained ==
  /\ sup \in Reconciling \cup {"final"} => GroupGone
  /\ sup = "read" /\ session = 0 => GroupGone

VerdictHolds ==
  sup = "ok" => (limit = Original \/ writer = "outside") /\ inflight = {}

Drained == WorkerDrained /\ GroupDrained /\ VerdictHolds

SafetyInv == TypeOK /\ Supervision /\ WriteAhead /\ Drained

(***************************************************************************)
(* Where the ways out of a call lead.                                      *)
(***************************************************************************)
LEMMA JumpTargets ==
  /\ \A label : Goto(label) => pc' = label
  /\ TrialFails => pc' \in {"restore_gate", "verify_restored"}
  /\ RestoreFails => pc' \in {"restore_gate", "verify_restored"}
  /\ RestoreReturns => pc' \in {"restore_observe", "verify_restored"}
  /\ Leaves => pc' = "cleanup"
BY DEF Goto, TrialFails, RestoreFails, RestoreReturns, Leaves

(***************************************************************************)
(* A controller that takes a step is alive.                                *)
(***************************************************************************)
LEMMA ControllerAlive == ControllerStep => pc \notin Gone
<1>1. SetupStep => pc \notin Gone
  BY DEF SetupStep, Qualify, Authorize, Confirm, AcquireLock, Preflight,
         Match, ObserveOriginal, AuditIntent, Gone
<1>2. WorkStarts \/ WorkEnds => pc \notin Gone
  BY DEF WorkStarts, WorkEnds, Gone
<1>3. CapStep => pc \notin Gone
  BY DEF CapStep, Recheck, CapGate, JournalCreate, JournalWrite, JournalSync,
         Screen, CapWrite, CapReadback, Gone
<1>4. RestoreStep => pc \notin Gone
  BY DEF RestoreStep, RestoreGate, PassiveCheck, UntriedCheck, RestoreWrite,
         RestoreReadback, RestoreExact, CloseAppend, CloseSync,
         RestoreObserve, Gone
<1>5. VerifyRestored \/ AuditVerdict \/ Cleanup => pc \notin Gone
  BY DEF VerifyRestored, AuditVerdict, Cleanup, Gone
<1>6. QED
  BY <1>1, <1>2, <1>3, <1>4, <1>5 DEF ControllerStep

(***************************************************************************)
(* A live controller always has its supervisor waiting for it.             *)
(***************************************************************************)
LEMMA SupervisionStep ==
  ASSUME Supervision, [Next]_vars
  PROVE  Supervision'
<1> USE DEF Supervision
<1>1. CASE Controller
  BY <1>1, ControllerAlive DEF Controller, superVars
<1>2. CASE Supervisor
  <2>1. CASE Launch
    BY <2>1 DEF Launch, SupGoto
  <2>2. CASE LaunchRefused
    BY <2>2 DEF LaunchRefused, controllerOnly, Gone
  <2>3. CASE ControllerEnds
    BY <2>3 DEF ControllerEnds, trialVars, Gone
  <2>4. CASE Watchdog
    BY <2>4 DEF Watchdog, Dies, Goto, Gone
  <2>5. CASE Reap
    BY <2>5 DEF Reap, controllerOnly
  <2>6. CASE ReapFails
    BY <2>6 DEF ReapFails, controllerOnly
  <2>7. CASE ReadJournal
    BY <2>7 DEF ReadJournal, controllerOnly
  <2>8. CASE ReconcileLock
    BY <2>8 DEF ReconcileLock, controllerOnly
  <2>9. CASE Approve
    BY <2>9 DEF Approve, controllerOnly
  <2>10. CASE Observe
    BY <2>10 DEF Observe, controllerOnly
  <2>11. CASE Broker
    BY <2>11 DEF Broker, controllerOnly
  <2>12. CASE Reobserve
    BY <2>12 DEF Reobserve, controllerOnly
  <2>13. CASE ReconcileAppend
    BY <2>13 DEF ReconcileAppend, controllerOnly
  <2>14. CASE ReconcileSync
    BY <2>14 DEF ReconcileSync, controllerOnly
  <2>15. CASE FinalCheck
    BY <2>15 DEF FinalCheck, controllerOnly
  <2>16. QED
    BY <1>2, <2>1, <2>2, <2>3, <2>4, <2>5, <2>6, <2>7, <2>8, <2>9, <2>10,
       <2>11, <2>12, <2>13, <2>14, <2>15 DEF Supervisor, Reconcile
<1>3. CASE Environment
  BY <1>3 DEF Environment, Expire, OrphanDies, trialVars, superVars
<1>4. CASE Failure
  <2>1. CASE SupervisorFails
    BY <2>1 DEF SupervisorFails, controllerOnly
  <2>2. CASE SupervisorDies
    BY <2>2 DEF SupervisorDies, Gone
  <2>3. CASE ControllerDies
    BY <2>3 DEF ControllerDies, Dies, Goto, Gone
  <2>4. CASE ApprovalLapses
    BY <2>4 DEF ApprovalLapses, trialVars
  <2>5. CASE PowerLoss
    BY <2>5 DEF PowerLoss, Gone
  <2>6. CASE AttendedSession
    BY <2>6 DEF AttendedSession, trialVars
  <2>7. QED
    BY <1>4, <2>1, <2>2, <2>3, <2>4, <2>5, <2>6 DEF Failure
<1>5. CASE UNCHANGED vars
  BY <1>5 DEF vars, trialVars, superVars
<1>6. QED
  BY <1>1, <1>2, <1>3, <1>4, <1>5 DEF Next

(***************************************************************************)
(* The cap and the original are different values: no command is both.      *)
(***************************************************************************)
LEMMA CapIsNotOriginal == Original # Target
<1>1. Original \in Nat /\ Target \in Nat /\ Target < Original
  BY LimitAssumption
<1>2. QED
  BY <1>1

(***************************************************************************)
(* What leaves the parts of WriteAhead alone.                              *)
(***************************************************************************)
LEMMA WriteAheadFrames ==
  ASSUME WriteAhead
  PROVE  /\ UNCHANGED <<journalVars, capStarted>> => RecordKept'
         /\ UNCHANGED <<limitVars, attempted, capStarted>> => AttemptKept'
         /\ UNCHANGED <<pc, journalVars, attempted, capStarted>> => CapCallKept'
         /\ pc' \notin Committed \cup {"journal_sync"} => CapCallKept'
<1>1. UNCHANGED <<journalVars, capStarted>> => RecordKept'
  BY DEF WriteAhead, RecordKept, journalVars
<1>2. UNCHANGED <<limitVars, attempted, capStarted>> => AttemptKept'
  BY DEF WriteAhead, AttemptKept, limitVars
<1>3. UNCHANGED <<pc, journalVars, attempted, capStarted>> => CapCallKept'
  BY DEF WriteAhead, CapCallKept, journalVars
<1>4. pc' \notin Committed \cup {"journal_sync"} => CapCallKept'
  BY DEF CapCallKept, Committed
<1>5. QED
  BY <1>1, <1>2, <1>3, <1>4

\* A command to the original leaves every trace of the cap explained.
LEMMA RestoringCommands ==
  ASSUME AttemptKept, UNCHANGED <<attempted, capStarted>>,
         CommandEnds(Original) \/ CommandHangs(Original)
  PROVE  AttemptKept'
BY CapIsNotOriginal DEF AttemptKept, CommandEnds, CommandHangs, Takes, WriterOf

\* So does every step of a hung command.
LEMMA HungCommands ==
  ASSUME AttemptKept, UNCHANGED <<attempted, capStarted>>, HungCommandEnds
  PROVE  AttemptKept'
BY CapIsNotOriginal DEF AttemptKept, HungCommandEnds, Takes, WriterOf

\* A closure is appended to an open record only.
LEMMA ClosingKeepsRecord ==
  ASSUME RecordKept, UNCHANGED capStarted, NEW i \in Instances,
         AppendClosure(i) \/ AppendClosureFails(i) \/ SyncClosure(i)
  PROVE  RecordKept'
BY DEF RecordKept, AppendClosure, AppendClosureFails, SyncClosure, HasIntent

(***************************************************************************)
(* Before the trial's try block nothing of the record or the limit moves.  *)
(***************************************************************************)
LEMMA SetupKeeps ==
  ASSUME WriteAhead, SetupStep
  PROVE  WriteAhead'
<1> USE WriteAheadFrames, JumpTargets DEF WriteAhead
<1>1. CASE Qualify
  BY <1>1 DEF Qualify, control, Committed
<1>2. CASE Authorize
  BY <1>2 DEF Authorize, control, Committed
<1>3. CASE Confirm
  BY <1>3 DEF Confirm, control, Committed
<1>4. CASE AcquireLock
  BY <1>4 DEF AcquireLock, control, Committed
<1>5. CASE Preflight
  BY <1>5 DEF Preflight, control, Committed
<1>6. CASE Match
  BY <1>6 DEF Match, control, Committed
<1>7. CASE ObserveOriginal
  BY <1>7 DEF ObserveOriginal, control, Committed
<1>8. CASE AuditIntent
  BY <1>8 DEF AuditIntent, control, Committed
<1>9. QED
  BY <1>1, <1>2, <1>3, <1>4, <1>5, <1>6, <1>7, <1>8 DEF SetupStep

(***************************************************************************)
(* Nor in the measured phases.                                             *)
(***************************************************************************)
LEMMA WorkKeeps ==
  ASSUME WriteAhead, WorkStarts \/ WorkEnds
  PROVE  WriteAhead'
<1> USE WriteAheadFrames, JumpTargets DEF WriteAhead
<1>1. CASE WorkStarts
  BY <1>1 DEF WorkStarts, control
<1>2. CASE WorkEnds
  BY <1>2 DEF WorkEnds, control, NextAfterWork, Committed
<1>3. QED
  BY <1>1, <1>2

(***************************************************************************)
(* The cap call: the directory fsync comes before capStarted, capStarted   *)
(* before the attempt, and the attempt before the command.                 *)
(***************************************************************************)
LEMMA CapKeeps ==
  ASSUME WriteAhead, CapStep
  PROVE  WriteAhead'
<1> USE WriteAheadFrames, JumpTargets DEF WriteAhead
<1>1. CASE Recheck
  BY <1>1 DEF Recheck, control, Committed
<1>2. CASE CapGate
  BY <1>2 DEF CapGate, control, Committed
<1>3. CASE JournalCreate
  BY <1>3 DEF JournalCreate, control, OpenExclusive, RecordKept, HasIntent,
       journalVars, Committed
<1>4. CASE JournalWrite
  BY <1>4 DEF JournalWrite, control, WriteIntent, RecordKept, HasIntent,
       journalVars, CapCallKept, Committed
<1>5. CASE JournalSync
  BY <1>5 DEF JournalSync, SyncDirectory, RecordKept, CapCallKept,
       HasIntent, AttemptKept, limitVars, Committed
<1>6. CASE Screen
  BY <1>6 DEF Screen, AttemptKept, CapCallKept, Committed, limitVars
<1>7. CASE CapWrite
  BY <1>7 DEF CapWrite, control, CapCallKept, AttemptKept, Committed
<1>8. CASE CapReadback
  BY <1>8 DEF CapReadback, control, CapCallKept, Committed
<1>9. QED
  BY <1>1, <1>2, <1>3, <1>4, <1>5, <1>6, <1>7, <1>8 DEF CapStep

(***************************************************************************)
(* The restore call sends the original only, and closes an open record.    *)
(***************************************************************************)
LEMMA RestoreKeeps ==
  ASSUME WriteAhead, RestoreStep
  PROVE  WriteAhead'
<1> USE WriteAheadFrames, JumpTargets DEF WriteAhead
<1>1. CASE RestoreGate
  BY <1>1 DEF RestoreGate, control, Committed
<1>2. CASE PassiveCheck
  BY <1>2 DEF PassiveCheck, control, Committed
<1>3. CASE UntriedCheck
  BY <1>3 DEF UntriedCheck, control, Committed
<1>4. CASE RestoreWrite
  BY <1>4, RestoringCommands DEF RestoreWrite, control, Committed
<1>5. CASE RestoreReadback
  BY <1>5 DEF RestoreReadback, control, Committed
<1>6. CASE RestoreExact
  BY <1>6 DEF RestoreExact, control, Committed
<1>7. CASE CloseAppend
  BY <1>7, ClosingKeepsRecord DEF CloseAppend, control, Instances, Committed
<1>8. CASE CloseSync
  BY <1>8, ClosingKeepsRecord DEF CloseSync, Instances, Committed
<1>9. CASE RestoreObserve
  BY <1>9 DEF RestoreObserve, control, Committed
<1>10. QED
  BY <1>1, <1>2, <1>3, <1>4, <1>5, <1>6, <1>7, <1>8, <1>9 DEF RestoreStep

(***************************************************************************)
(* The verdict touches neither.                                            *)
(***************************************************************************)
LEMMA EndKeeps ==
  ASSUME WriteAhead, VerifyRestored \/ AuditVerdict \/ Cleanup
  PROVE  WriteAhead'
<1> USE WriteAheadFrames, JumpTargets DEF WriteAhead
<1>1. CASE VerifyRestored
  BY <1>1 DEF VerifyRestored, control, Committed
<1>2. CASE AuditVerdict
  BY <1>2 DEF AuditVerdict, control, Committed
<1>3. CASE Cleanup
  BY <1>3 DEF Cleanup, control, Committed
<1>4. QED
  BY <1>1, <1>2, <1>3

(***************************************************************************)
(* The supervisor touches the record only once the controller is gone.     *)
(***************************************************************************)
LEMMA SupervisorKeeps ==
  ASSUME WriteAhead, Supervision, Supervisor
  PROVE  WriteAhead'
<1> USE WriteAheadFrames, JumpTargets DEF WriteAhead
<1>0. sup \in {"close_append", "close_sync"} => pc \in Gone
  BY DEF Supervision
<1>1. CASE Launch
  BY <1>1 DEF Launch, control, Committed
<1>2. CASE LaunchRefused
  BY <1>2 DEF LaunchRefused, controllerOnly, control
<1>3. CASE ControllerEnds
  BY <1>3 DEF ControllerEnds, trialVars, control
<1>4. CASE Watchdog
  BY <1>4 DEF Watchdog, Dies, control, Committed
<1>5. CASE Reap
  BY <1>5 DEF Reap, controllerOnly, control
<1>6. CASE ReapFails
  BY <1>6 DEF ReapFails, controllerOnly, control
<1>7. CASE ReadJournal
  BY <1>7 DEF ReadJournal, controllerOnly, control
<1>8. CASE ReconcileLock
  BY <1>8 DEF ReconcileLock, controllerOnly, control
<1>9. CASE Approve
  BY <1>9 DEF Approve, controllerOnly, control
<1>10. CASE Observe
  BY <1>10 DEF Observe, controllerOnly, control
<1>11. CASE Broker
  BY <1>11, RestoringCommands DEF Broker, controllerOnly, control,
       CommandEnds, Takes
<1>12. CASE Reobserve
  BY <1>12 DEF Reobserve, controllerOnly, control
<1>13. CASE ReconcileAppend
  BY <1>13, ClosingKeepsRecord, <1>0 DEF ReconcileAppend, controllerOnly,
       control, Instances, Committed, Gone
<1>14. CASE ReconcileSync
  BY <1>14, ClosingKeepsRecord, <1>0 DEF ReconcileSync, controllerOnly,
       control, Instances, Committed, Gone
<1>15. CASE FinalCheck
  BY <1>15 DEF FinalCheck, controllerOnly, control
<1>16. QED
  BY <1>1, <1>2, <1>3, <1>4, <1>5, <1>6, <1>7, <1>8, <1>9, <1>10, <1>11, <1>12, <1>13, <1>14, <1>15
     DEF Supervisor, Reconcile

(***************************************************************************)
(* An outside change is no cap of ours; a hung one was attempted.          *)
(***************************************************************************)
LEMMA EnvironmentKeeps ==
  ASSUME WriteAhead, Environment
  PROVE  WriteAhead'
<1> USE WriteAheadFrames, JumpTargets DEF WriteAhead
<1>1. CASE HungCommandEnds /\ UNCHANGED <<journalVars, trialVars, superVars>>
  BY <1>1, HungCommands DEF trialVars, control
<1>2. CASE Drift /\ UNCHANGED <<journalVars, trialVars, superVars>>
  BY <1>2 DEF Drift, AttemptKept, trialVars, control
<1>3. CASE Expire
  BY <1>3 DEF Expire, control
<1>4. CASE OrphanDies
  BY <1>4 DEF OrphanDies, control
<1>5. QED
  BY <1>1, <1>2, <1>3, <1>4 DEF Environment

(***************************************************************************)
(* A power loss leaves one of the contents that were durable.              *)
(***************************************************************************)
LEMMA FailureKeeps ==
  ASSUME WriteAhead, Failure
  PROVE  WriteAhead'
<1> USE WriteAheadFrames, JumpTargets DEF WriteAhead
<1>1. CASE SupervisorFails
  BY <1>1 DEF SupervisorFails, controllerOnly, control
<1>2. CASE SupervisorDies
  BY <1>2 DEF SupervisorDies, control, Committed
<1>3. CASE ControllerDies
  BY <1>3 DEF ControllerDies, Dies, control, Committed
<1>4. CASE ApprovalLapses
  BY <1>4 DEF ApprovalLapses, trialVars, control
<1>5. CASE PowerLoss
  BY <1>5 DEF PowerLoss, JournalPowerLoss, RecordKept, control,
       LimitPowerLoss, AttemptKept, Committed, Gone
<1>6. CASE AttendedSession
  BY <1>6 DEF AttendedSession, FreshInstance, RecordKept, trialVars,
       control, CapCallKept
<1>7. QED
  BY <1>1, <1>2, <1>3, <1>4, <1>5, <1>6 DEF Failure

LEMMA WriteAheadStep ==
  ASSUME Supervision, WriteAhead, [Next]_vars
  PROVE  WriteAhead'
<1>1. CASE Controller
  BY <1>1, SetupKeeps, WorkKeeps, CapKeeps, RestoreKeeps, EndKeeps
     DEF Controller, ControllerStep
<1>2. CASE Supervisor
  BY <1>2, SupervisorKeeps
<1>3. CASE Environment
  BY <1>3, EnvironmentKeeps
<1>4. CASE Failure
  BY <1>4, FailureKeeps
<1>5. CASE UNCHANGED vars
  BY <1>5, WriteAheadFrames DEF WriteAhead, vars, trialVars, control
<1>6. QED
  BY <1>1, <1>2, <1>3, <1>4, <1>5 DEF Next

-----------------------------------------------------------------------------
(***************************************************************************)
(* The worker is idle from the gate of a power command to the command.     *)
(***************************************************************************)
LEMMA WorkerStep ==
  ASSUME WorkerDrained, ControllerStep
  PROVE  WorkerDrained'
<1> USE JumpTargets DEF WorkerDrained, BeforeCommand
<1>1. CASE SetupStep
  BY <1>1 DEF SetupStep, Qualify, Authorize, Confirm, AcquireLock, Preflight,
         Match, ObserveOriginal, AuditIntent
<1>2. CASE WorkStarts \/ WorkEnds
  BY <1>2 DEF WorkStarts, WorkEnds, NextAfterWork
<1>3. CASE CapStep
  <2> USE DEF world
  <2>1. CASE Recheck
    BY <2>1 DEF Recheck
  <2>2. CASE CapGate
    BY <2>2 DEF CapGate
  <2>3. CASE JournalCreate
    BY <2>3 DEF JournalCreate
  <2>4. CASE JournalWrite
    BY <2>4 DEF JournalWrite
  <2>5. CASE JournalSync
    BY <2>5 DEF JournalSync
  <2>6. CASE Screen
    BY <2>6 DEF Screen
  <2>7. CASE CapWrite
    BY <2>7 DEF CapWrite
  <2>8. CASE CapReadback
    BY <2>8 DEF CapReadback
  <2>9. QED
    BY <1>3, <2>1, <2>2, <2>3, <2>4, <2>5, <2>6, <2>7, <2>8 DEF CapStep
<1>4. CASE RestoreStep
  <2> USE DEF world
  <2>1. CASE RestoreGate
    BY <2>1 DEF RestoreGate
  <2>2. CASE PassiveCheck
    BY <2>2 DEF PassiveCheck
  <2>3. CASE UntriedCheck
    BY <2>3 DEF UntriedCheck
  <2>4. CASE RestoreWrite
    BY <2>4 DEF RestoreWrite
  <2>5. CASE RestoreReadback
    BY <2>5 DEF RestoreReadback
  <2>6. CASE RestoreExact
    BY <2>6 DEF RestoreExact
  <2>7. CASE CloseAppend
    BY <2>7 DEF CloseAppend
  <2>8. CASE CloseSync
    BY <2>8 DEF CloseSync
  <2>9. CASE RestoreObserve
    BY <2>9 DEF RestoreObserve
  <2>10. QED
    BY <1>4, <2>1, <2>2, <2>3, <2>4, <2>5, <2>6, <2>7, <2>8, <2>9 DEF RestoreStep
<1>5. CASE VerifyRestored \/ AuditVerdict \/ Cleanup
  BY <1>5 DEF VerifyRestored, AuditVerdict, Cleanup
<1>6. QED
  BY <1>1, <1>2, <1>3, <1>4, <1>5 DEF ControllerStep

(***************************************************************************)
(* While the controller runs its supervisor waits, so only the worker's    *)
(* part of the invariant is at stake.                                      *)
(***************************************************************************)
LEMMA ControllerDrains ==
  ASSUME Supervision, Drained, Controller
  PROVE  Drained'
<1>1. WorkerDrained'
  BY WorkerStep DEF Drained, Controller
<1>2. sup' = "wait"
  BY ControllerAlive DEF Supervision, Controller, superVars
<1>3. QED
  BY <1>1, <1>2 DEF Drained, GroupDrained, VerdictHolds, Reconciling

LEMMA SupervisorDrains ==
  ASSUME Supervision, Drained, Supervisor
  PROVE  Drained'
<1> USE DEF Drained, WorkerDrained, GroupDrained, VerdictHolds, Supervision,
            SupGoto, SupEnds, Reconciling, GroupGone, BeforeCommand
<1>1. CASE Launch
  BY <1>1 DEF Launch, limitVars, world
<1>2. CASE LaunchRefused
  BY <1>2 DEF LaunchRefused, controllerOnly, limitVars, Gone
<1>3. CASE ControllerEnds
  BY <1>3 DEF ControllerEnds, limitVars, trialVars, world, Gone
<1>4. CASE Watchdog
  BY <1>4 DEF Watchdog, Dies, Goto, limitVars, Gone
<1>5. CASE Reap
  BY <1>5 DEF Reap, controllerOnly, limitVars, Gone
<1>6. CASE ReapFails
  BY <1>6 DEF ReapFails, controllerOnly, limitVars, Gone
<1>7. CASE ReadJournal
  BY <1>7 DEF ReadJournal, controllerOnly, limitVars, Gone
<1>8. CASE ReconcileLock
  BY <1>8 DEF ReconcileLock, controllerOnly, limitVars, Gone
<1>9. CASE Approve
  BY <1>9 DEF Approve, controllerOnly, limitVars, Gone
<1>10. CASE Observe
  BY <1>10 DEF Observe, controllerOnly, limitVars, Gone
<1>11. CASE Broker
  BY <1>11 DEF Broker, controllerOnly, limitVars, CommandEnds, Takes
<1>12. CASE Reobserve
  BY <1>12 DEF Reobserve, controllerOnly, limitVars, Gone
<1>13. CASE ReconcileAppend
  BY <1>13 DEF ReconcileAppend, controllerOnly, limitVars, Gone
<1>14. CASE ReconcileSync
  BY <1>14 DEF ReconcileSync, controllerOnly, limitVars, Gone
<1>15. CASE FinalCheck
  BY <1>15 DEF FinalCheck, controllerOnly, limitVars, Gone
<1>16. QED
  BY <1>1, <1>2, <1>3, <1>4, <1>5, <1>6, <1>7, <1>8, <1>9, <1>10, <1>11, <1>12, <1>13, <1>14, <1>15
     DEF Supervisor, Reconcile

(***************************************************************************)
(* A hung command is part of the group: after the drain there is none.     *)
(***************************************************************************)
LEMMA EnvironmentDrains ==
  ASSUME Drained, Environment
  PROVE  Drained'
<1> USE DEF Drained, WorkerDrained, GroupDrained, VerdictHolds, GroupGone,
            trialVars, world, superVars
<1>1. CASE HungCommandEnds /\ UNCHANGED <<journalVars, trialVars, superVars>>
  BY <1>1 DEF HungCommandEnds
<1>2. CASE Drift /\ UNCHANGED <<journalVars, trialVars, superVars>>
  BY <1>2 DEF Drift
<1>3. CASE Expire /\ UNCHANGED superVars
  BY <1>3 DEF Expire, limitVars
<1>4. CASE OrphanDies /\ UNCHANGED superVars
  BY <1>4 DEF OrphanDies, limitVars
<1>5. QED
  BY <1>1, <1>2, <1>3, <1>4 DEF Environment

\* A later attended session has a number of its own, never 0.
LEMMA LaterSession == TypeOK => session + 1 # 0
<1>1. MaxSessions \in Nat
  BY SupervisionAssumption
<1>2. QED
  BY <1>1 DEF TypeOK, SupervisorTypeOK, SessionNumbers

LEMMA FailureDrains ==
  ASSUME TypeOK, Supervision, Drained, Failure
  PROVE  Drained'
<1> USE DEF Drained, WorkerDrained, GroupDrained, VerdictHolds, Supervision,
            SupGoto, SupEnds, Reconciling, GroupGone, BeforeCommand
<1>1. CASE SupervisorFails
  BY <1>1 DEF SupervisorFails, controllerOnly, limitVars
<1>2. CASE SupervisorDies
  BY <1>2 DEF SupervisorDies, limitVars, Gone
<1>3. CASE ControllerDies
  BY <1>3 DEF ControllerDies, Dies, Goto, limitVars, superVars, Gone
<1>4. CASE ApprovalLapses
  BY <1>4 DEF ApprovalLapses, trialVars, world, limitVars
<1>5. CASE PowerLoss
  BY <1>5 DEF PowerLoss, LimitPowerLoss
<1>6. CASE AttendedSession
  BY <1>6, LaterSession DEF AttendedSession, trialVars, world, limitVars
<1>7. QED
  BY <1>1, <1>2, <1>3, <1>4, <1>5, <1>6 DEF Failure

LEMMA DrainedStep ==
  ASSUME TypeOK, Supervision, Drained, [Next]_vars
  PROVE  Drained'
<1>1. CASE UNCHANGED vars
  BY <1>1 DEF vars, limitVars, trialVars, world, superVars, Drained,
         WorkerDrained, GroupDrained, VerdictHolds, GroupGone
<1>2. QED
  BY <1>1, ControllerDrains, SupervisorDrains, EnvironmentDrains,
     FailureDrains DEF Next

-----------------------------------------------------------------------------
LEMMA SafetyHolds == Spec => []SafetyInv
<1>1. Init => Supervision /\ WriteAhead /\ Drained
  BY DEF Init, LimitInit, JournalInit, TrialInit, Supervision, WriteAhead,
         RecordKept, AttemptKept, CapCallKept, Drained, WorkerDrained,
         GroupDrained, VerdictHolds, Gone, Committed, BeforeCommand,
         Reconciling
<1>2. TypeOK /\ (Supervision /\ WriteAhead /\ Drained) /\ [Next]_vars
        => (Supervision /\ WriteAhead /\ Drained)'
  BY SupervisionStep, WriteAheadStep, DrainedStep
<1>3. QED
  BY <1>1, <1>2, TypeCorrect, PTL DEF Spec, SafetyInv

(***************************************************************************)
(* Write-ahead, at any tolerance and through any number of power losses:   *)
(* no cap, in force or in flight, without a durable intent.                *)
(***************************************************************************)
THEOREM CapIsRecorded == Spec => []IntentDurableBeforeCap
<1>1. SafetyInv => IntentDurableBeforeCap
  BY DEF SafetyInv, WriteAhead, RecordKept, AttemptKept, IntentDurableBeforeCap
<1>2. QED
  BY <1>1, SafetyHolds, PTL

(***************************************************************************)
(* Drain before control: power commands never overlap a worker, and the    *)
(* broker's never anything of the controller.                              *)
(***************************************************************************)
THEOREM CommandsAreDrained == Spec => []DrainedBeforeCommand
<1>1. SafetyInv => DrainedBeforeCommand
  BY DEF SafetyInv, Drained, WorkerDrained, GroupDrained, BeforeCommand,
         Reconciling, DrainedBeforeCommand
<1>2. QED
  BY <1>1, SafetyHolds, PTL

(***************************************************************************)
(* A supervisor that ends without error leaves the original limit, unless  *)
(* somebody else has changed it, and nothing that could still change it.   *)
(***************************************************************************)
THEOREM SuccessIsTrue == Spec => []SuccessMeansRestored
<1>1. SafetyInv => SuccessMeansRestored
  BY DEF SafetyInv, Drained, VerdictHolds, SuccessMeansRestored
<1>2. QED
  BY <1>1, SafetyHolds, PTL
-----------------------------------------------------------------------------
(***************************************************************************)
(* What a closure says of the limit, and the contract.  Both need more     *)
(* than write-ahead: that a closure is written only where the limit has    *)
(* just been read to be the original, that nothing of the program writes   *)
(* the limit after its closure, and that the controller's own belief in    *)
(* its closure (`closed') is what an fsync made durable.                   *)
(***************************************************************************)
Closing == {"close_append", "close_sync"}
Restoring == {"untried_check", "restore_write", "restore_readback", "restore_exact"}
               \cup Closing

\* The original limit, or not this program's doing.
Restored == limit = Original \/ writer = "outside" \/ late

ControllerCloses ==
  /\ pc \in Closing => Restored
  /\ pc = "close_sync" => file = "closed"
  /\ pc \in Committed => file = "open"
  /\ pc \in Restoring => capStarted /\ ~closed
  /\ pc = "passive_check" => ~capStarted \/ closed

SupervisorCloses ==
  /\ sup \in Closing => Restored
  /\ sup = "close_sync" => file = "closed"
  /\ sup = "launch" => pc = "off"

ClosedKept ==
  /\ closed => capStarted /\ durable = {"closed"}
  /\ pc \notin Gone /\ durable = {"closed"} => closed
  /\ "torn" \in durable => "absent" \in durable \/ durable = {"torn"}
  /\ durable = {"torn"} => pc \in Gone

\* A verdict that says restored, from the end of the finally clause on.
GoodVerdicts == {"failed_safe", "completed"}

VerdictKept ==
  /\ pc \in CapCall \/ attempted => changed
  /\ pc = "verify_restored" /\ ~restoreError /\ attempted => durable = {"closed"}
  /\ pc \in {"audit_failed_safe", "audit_completed"} /\ attempted => durable = {"closed"}
  /\ audit \cap GoodVerdicts # {} => pc \in {"cleanup", "exited", "dead"}
  /\ AuditAgreesWithJournal

ClosureInv ==
  /\ ControllerCloses /\ SupervisorCloses
  /\ ClosedKept
  /\ ClosedMeansRestored
  /\ VerdictKept

-----------------------------------------------------------------------------
(***************************************************************************)
(* What any step does to the limit and to the journal.                     *)
(***************************************************************************)
JournalMoves ==
  \/ pc = "journal_create" /\ OpenExclusive
  \/ pc = "journal_write" /\ WriteIntent
  \/ pc = "journal_sync" /\ SyncDirectory
  \/ pc = "close_append" /\ (AppendClosure("controller") \/ AppendClosureFails("controller"))
  \/ pc = "close_sync" /\ SyncClosure("controller") /\ closed'
  \/ sup = "close_append" /\ (AppendClosure("supervisor") \/ AppendClosureFails("supervisor"))
  \/ sup = "close_sync" /\ SyncClosure("supervisor")

LimitMoves ==
  \/ pc = "cap_write" /\ (CommandEnds(Target) \/ CommandHangs(Target))
  \/ pc = "restore_write" /\ (CommandEnds(Original) \/ CommandHangs(Original))
  \/ sup = "broker" /\ file = "open" /\ (CommandEnds(Original) \/ CommandHangs(Original))
  \/ HungCommandEnds
  \/ Drift

\* The verdict of the whole run changes only to and by itself.
VerdictStays == sup' = "ok" <=> sup = "ok"

Effect ==
  \/ UNCHANGED <<limitVars, file, durable>> /\ (VerdictStays \/ FinalCheck)
  \/ UNCHANGED limitVars /\ JournalMoves /\ VerdictStays
  \/ UNCHANGED <<file, durable>> /\ LimitMoves /\ VerdictStays
  \/ PowerLoss

LEMMA ControllerEffect ==
  ASSUME Supervision, Controller
  PROVE  Effect
<1> USE DEF Effect, journalVars
<1>0. VerdictStays
  BY DEF Controller, superVars, VerdictStays
<1>1. CASE SetupStep
  BY <1>0, <1>1 DEF SetupStep, Qualify, Authorize, Confirm, AcquireLock, Preflight, Match,
       ObserveOriginal, AuditIntent
<1>2. CASE WorkStarts \/ WorkEnds
  BY <1>0, <1>2 DEF WorkStarts, WorkEnds
<1>3. CASE CapStep
  <2>1. CASE Recheck \/ CapGate \/ Screen \/ CapReadback
    BY <1>0, <2>1 DEF Recheck, CapGate, Screen, CapReadback
  <2>2. CASE JournalCreate
    BY <1>0, <2>2 DEF JournalCreate, JournalMoves
  <2>3. CASE JournalWrite
    BY <1>0, <2>3 DEF JournalWrite, JournalMoves
  <2>4. CASE JournalSync
    BY <1>0, <2>4 DEF JournalSync, JournalMoves
  <2>5. CASE CapWrite
    BY <1>0, <2>5 DEF CapWrite, LimitMoves
  <2>6. QED
    BY <1>3, <2>1, <2>2, <2>3, <2>4, <2>5 DEF CapStep
<1>4. CASE RestoreStep
  <2>1. CASE RestoreGate \/ PassiveCheck \/ UntriedCheck \/ RestoreReadback \/ RestoreExact
             \/ RestoreObserve
    BY <1>0, <2>1 DEF RestoreGate, PassiveCheck, UntriedCheck, RestoreReadback, RestoreExact,
         RestoreObserve
  <2>2. CASE RestoreWrite
    BY <1>0, <2>2 DEF RestoreWrite, LimitMoves
  <2>3. CASE CloseAppend
    BY <1>0, <2>3 DEF CloseAppend, JournalMoves
  <2>4. CASE CloseSync
    BY <1>0, <2>4 DEF CloseSync, JournalMoves
  <2>5. QED
    BY <1>4, <2>1, <2>2, <2>3, <2>4 DEF RestoreStep
<1>5. CASE VerifyRestored \/ AuditVerdict \/ Cleanup
  BY <1>0, <1>5 DEF VerifyRestored, AuditVerdict, Cleanup
<1>6. QED
  BY <1>1, <1>2, <1>3, <1>4, <1>5 DEF Controller, ControllerStep

LEMMA SupervisorEffect ==
  ASSUME Supervisor
  PROVE  Effect
<1> USE DEF Effect, journalVars, SupGoto, SupEnds, VerdictStays
<1>1. CASE Launch \/ LaunchRefused \/ ControllerEnds \/ Watchdog \/ Reap \/ ReapFails
  BY <1>1 DEF Launch, LaunchRefused, ControllerEnds, Watchdog, Reap, ReapFails
<1>2. CASE ReadJournal \/ ReconcileLock \/ Approve \/ Observe \/ Reobserve
  BY <1>2 DEF ReadJournal, ReconcileLock, Approve, Observe, Reobserve
<1>3. CASE Broker
  <2>1. sup' # "ok" /\ sup # "ok" /\ UNCHANGED journalVars
    BY <1>3 DEF Broker
  <2>2. CASE UNCHANGED limitVars
    BY <2>1, <2>2
  <2>3. CASE ~UNCHANGED limitVars
    <3>1. sup = "broker" /\ file = "open" /\ (CommandEnds(Original) \/ CommandHangs(Original))
      BY <1>3, <2>3 DEF Broker, CommandEnds
    <3>2. QED BY <2>1, <3>1 DEF LimitMoves
  <2>4. QED BY <2>2, <2>3
<1>4. CASE ReconcileAppend
  BY <1>4 DEF ReconcileAppend, JournalMoves
<1>5. CASE ReconcileSync
  BY <1>5 DEF ReconcileSync, JournalMoves
<1>6. CASE FinalCheck
  BY <1>6 DEF FinalCheck
<1>7. QED
  BY <1>1, <1>2, <1>3, <1>4, <1>5, <1>6 DEF Supervisor, Reconcile

LEMMA EffectOfStep ==
  ASSUME Supervision, [Next]_vars
  PROVE  Effect
<1>1. CASE Environment
  BY <1>1 DEF Environment, Expire, OrphanDies, superVars, journalVars, Effect, VerdictStays,
       LimitMoves
<1>2. CASE Failure
  <2> USE DEF Effect, journalVars, VerdictStays
  <2>1. CASE SupervisorFails \/ SupervisorDies
    BY <2>1 DEF SupervisorFails, SupervisorDies, SupGoto, SupEnds, Working, Reconciling
  <2>2. CASE ControllerDies \/ ApprovalLapses \/ AttendedSession
    BY <2>2 DEF ControllerDies, ApprovalLapses, AttendedSession, FreshInstance, superVars
  <2>3. CASE PowerLoss
    BY <2>3
  <2>4. QED
    BY <1>2, <2>1, <2>2, <2>3 DEF Failure
<1>3. CASE UNCHANGED vars
  BY <1>3 DEF vars, superVars, journalVars, Effect, VerdictStays
<1>4. QED
  BY <1>1, <1>2, <1>3, ControllerEffect, SupervisorEffect DEF Next
(***************************************************************************)
(* What anybody but the controller does to the controller: nothing, unless *)
(* it is killed or launched.                                               *)
(***************************************************************************)
Alone ==
  /\ UNCHANGED <<flow, control, audit>>
  /\ \/ pc' = pc
     \/ pc' = "dead"
     \/ sup = "launch" /\ pc' = "qualify" /\ file = "absent" /\ UNCHANGED <<file, durable>>

LEMMA OthersLeaveAlone ==
  ASSUME [Next]_vars, ~Controller
  PROVE  Alone
<1> USE DEF Alone
<1>1. CASE Supervisor
  <2> USE DEF controllerOnly
  <2>1. CASE Launch
    BY <2>1 DEF Launch, world, journalVars
  <2>2. CASE LaunchRefused \/ ReapFails \/ FinalCheck \/ Reap
    BY <2>2 DEF LaunchRefused, ReapFails, FinalCheck, Reap
  <2>3. CASE ControllerEnds
    BY <2>3 DEF ControllerEnds, trialVars, world
  <2>4. CASE Watchdog
    BY <2>4 DEF Watchdog, Dies, Goto
  <2>5. CASE Reconcile
    BY <2>5 DEF Reconcile, ReadJournal, ReconcileLock, Approve, Observe, Broker, Reobserve,
         ReconcileAppend, ReconcileSync
  <2>6. QED
    BY <1>1, <2>1, <2>2, <2>3, <2>4, <2>5 DEF Supervisor
<1>2. CASE Environment
  BY <1>2 DEF Environment, Expire, OrphanDies, trialVars, world
<1>3. CASE Failure
  <2>1. CASE SupervisorFails
    BY <2>1 DEF SupervisorFails, controllerOnly
  <2>2. CASE SupervisorDies \/ PowerLoss
    BY <2>2 DEF SupervisorDies, PowerLoss
  <2>3. CASE ControllerDies
    BY <2>3 DEF ControllerDies, Dies, Goto
  <2>4. CASE ApprovalLapses \/ AttendedSession
    BY <2>4 DEF ApprovalLapses, AttendedSession, trialVars, world
  <2>5. QED
    BY <1>3, <2>1, <2>2, <2>3, <2>4 DEF Failure
<1>4. CASE UNCHANGED vars
  BY <1>4 DEF vars, trialVars, world
<1>5. QED
  BY <1>1, <1>2, <1>3, <1>4 DEF Next

(***************************************************************************)
(* Only a command of the program can end what Restored says.               *)
(***************************************************************************)
LEMMA RestoredStays ==
  ASSUME Restored, Effect, pc \notin {"cap_write", "restore_write"}, sup # "broker"
  PROVE  Restored'
<1>1. CASE UNCHANGED limitVars
  BY <1>1 DEF Restored, limitVars
<1>2. CASE LimitMoves
  BY <1>2 DEF LimitMoves, Restored, HungCommandEnds, Drift
<1>3. CASE PowerLoss
  BY <1>3 DEF PowerLoss, LimitPowerLoss, Restored
<1>4. QED
  BY <1>1, <1>2, <1>3 DEF Effect

\* A durable closure stays, and so does the closure that is read.
LEMMA ClosureStays ==
  ASSUME RecordKept, CapCallKept, ControllerCloses, SupervisorCloses, Effect,
         durable = {"closed"}
  PROVE  durable' = {"closed"}
<1>1. file = "closed"
  BY DEF RecordKept
<1>2. ASSUME JournalMoves PROVE durable' = {"closed"}
  BY <1>1, <1>2 DEF JournalMoves, CapCallKept, OpenExclusive, WriteIntent, AppendClosure,
       AppendClosureFails, SyncClosure
<1>3. CASE PowerLoss
  BY <1>3 DEF PowerLoss, JournalPowerLoss
<1>4. QED
  BY <1>2, <1>3 DEF Effect

-----------------------------------------------------------------------------
(***************************************************************************)
(* The controller's own steps up to its closure.                           *)
(***************************************************************************)
LEMMA ControllerClosesFrames ==
  ASSUME ControllerCloses
  PROVE  /\ UNCHANGED <<pc, limitVars, journalVars, control>> => ControllerCloses'
         /\ pc' \notin Committed \cup Restoring \cup {"passive_check"} => ControllerCloses'
         /\ UNCHANGED <<limitVars, journalVars, control>> /\ pc \in Committed /\ pc' \in Committed
              => ControllerCloses'
         /\ UNCHANGED <<limitVars, journalVars, control>> /\ pc \in Restoring
              /\ pc' \in Restoring \ Closing => ControllerCloses'
<1>1. UNCHANGED <<pc, limitVars, journalVars, control>> => ControllerCloses'
  BY DEF ControllerCloses, Restored, limitVars, journalVars, control
<1>2. pc' \notin Committed \cup Restoring \cup {"passive_check"} => ControllerCloses'
  BY DEF ControllerCloses, Restoring, Closing
<1>3. UNCHANGED <<limitVars, journalVars, control>> /\ pc \in Committed /\ pc' \in Committed
        => ControllerCloses'
  BY DEF ControllerCloses, Committed, Restoring, Closing, journalVars
<1>4. UNCHANGED <<limitVars, journalVars, control>> /\ pc \in Restoring /\ pc' \in Restoring \ Closing
        => ControllerCloses'
  BY DEF ControllerCloses, Committed, Restoring, Closing, control
<1>5. QED
  BY <1>1, <1>2, <1>3, <1>4

LEMMA ControllerClosesStep ==
  ASSUME ControllerCloses, CapCallKept, ControllerStep
  PROVE  ControllerCloses'
<1> USE ControllerClosesFrames, JumpTargets
<1>1. CASE SetupStep
  <2>1. pc' \notin Committed \cup Restoring \cup {"passive_check"}
    BY <1>1 DEF SetupStep, Qualify, Authorize, Confirm, AcquireLock, Preflight, Match,
         ObserveOriginal, AuditIntent, Committed, Restoring, Closing
  <2>2. QED BY <2>1
<1>2. CASE WorkStarts
  BY <1>2 DEF WorkStarts
<1>3. CASE WorkEnds
  <2>1. pc' \notin Committed \cup Restoring \cup {"passive_check"}
    BY <1>3 DEF WorkEnds, NextAfterWork, Committed, Restoring, Closing
  <2>2. QED BY <2>1
<1>4. CASE Recheck \/ CapGate \/ JournalCreate \/ JournalWrite
  <2>1. pc' \notin Committed \cup Restoring \cup {"passive_check"}
    BY <1>4 DEF Recheck, CapGate, JournalCreate, JournalWrite, Committed, Restoring, Closing
  <2>2. QED BY <2>1
<1>5. CASE JournalSync
  <2>1. CASE pc' = "screen"
    BY <1>5, <2>1 DEF JournalSync, SyncDirectory, CapCallKept, TrialFails, ControllerCloses,
         Committed, Restoring, Closing
  <2>2. CASE pc' # "screen"
    <3>1. pc' \notin Committed \cup Restoring \cup {"passive_check"}
      BY <1>5, <2>2 DEF JournalSync, Committed, Restoring, Closing
    <3>2. QED BY <3>1
  <2>3. QED BY <2>1, <2>2
<1>6. CASE Screen
  <2>1. CASE pc' = "cap_write"
    BY <1>6, <2>1 DEF Screen, ControllerCloses, Committed, Restoring, Closing, journalVars
  <2>2. CASE pc' # "cap_write"
    <3>1. pc' \notin Committed \cup Restoring \cup {"passive_check"}
      BY <1>6, <2>2 DEF Screen, Committed, Restoring, Closing
    <3>2. QED BY <3>1
  <2>3. QED BY <2>1, <2>2
<1>7. CASE CapWrite
  BY <1>7 DEF CapWrite, ControllerCloses, Committed, Restoring, Closing, journalVars
<1>8. CASE CapReadback
  <2>1. pc \in Committed /\ UNCHANGED <<limitVars, journalVars, control>>
    BY <1>8 DEF CapReadback, Committed
  <2>2. pc' \in Committed \/ pc' \notin Committed \cup Restoring \cup {"passive_check"}
    BY <1>8 DEF CapReadback, Committed, Restoring, Closing
  <2>3. QED BY <2>1, <2>2
<1>9. CASE RestoreGate
  BY <1>9 DEF RestoreGate, ControllerCloses, Committed, Restoring, Closing, control
<1>10. CASE PassiveCheck \/ RestoreObserve
  <2>1. pc' \notin Committed \cup Restoring \cup {"passive_check"}
    BY <1>10 DEF PassiveCheck, RestoreObserve, Committed, Restoring, Closing
  <2>2. QED BY <2>1
<1>11. CASE UntriedCheck \/ RestoreReadback
  <2>1. pc \in Restoring /\ UNCHANGED <<limitVars, journalVars, control>>
    BY <1>11 DEF UntriedCheck, RestoreReadback, Restoring
  <2>2. pc' \in Restoring \ Closing \/ pc' \notin Committed \cup Restoring \cup {"passive_check"}
    BY <1>11 DEF UntriedCheck, RestoreReadback, Committed, Restoring, Closing
  <2>3. QED BY <2>1, <2>2
<1>12. CASE RestoreWrite
  BY <1>12 DEF RestoreWrite, ControllerCloses, Committed, Restoring, Closing, control
<1>13. CASE RestoreExact
  BY <1>13 DEF RestoreExact, ControllerCloses, Committed, Restoring, Closing, Restored,
       limitVars, control
<1>14. CASE CloseAppend
  BY <1>14 DEF CloseAppend, AppendClosure, ControllerCloses, Committed, Restoring, Closing,
       Restored, limitVars, control
<1>15. CASE CloseSync
  <2>1. pc' \notin Committed \cup Restoring \cup {"passive_check"}
    BY <1>15 DEF CloseSync, Committed, Restoring, Closing
  <2>2. QED BY <2>1
<1>16. CASE VerifyRestored \/ AuditVerdict \/ Cleanup
  <2>1. pc' \notin Committed \cup Restoring \cup {"passive_check"}
    BY <1>16 DEF VerifyRestored, AuditVerdict, Cleanup, Committed, Restoring, Closing
  <2>2. QED BY <2>1
<1>17. QED
  BY <1>1, <1>2, <1>3, <1>4, <1>5, <1>6, <1>7, <1>8, <1>9, <1>10, <1>11, <1>12, <1>13, <1>14,
     <1>15, <1>16 DEF ControllerStep, CapStep, RestoreStep

\* What the others do cannot spoil it: a live controller has the journal to
\* itself, and only it writes the limit.
LEMMA ControllerClosesAlone ==
  ASSUME ControllerCloses, Supervision, Effect, Alone, pc \in Gone => pc' \in Gone \cup {"qualify"}
  PROVE  ControllerCloses'
<1>1. CASE pc' # pc \/ pc \in Gone
  BY <1>1 DEF Alone, ControllerCloses, Committed, Restoring, Closing, Gone
<1>2. CASE pc' = pc /\ pc \notin Gone
  <2>1. UNCHANGED control /\ sup = "wait"
    BY <1>2 DEF Alone, Supervision
  <2>2. pc \in Closing => Restored'
    BY <2>1, RestoredStays DEF ControllerCloses, Closing
  <2>3. pc = "close_sync" \/ pc \in Committed => file' = file
    <3>1. ASSUME JournalMoves, pc = "close_sync" \/ pc \in Committed
          PROVE  file' = file
      BY <2>1, <3>1 DEF JournalMoves, SyncClosure, Committed
    <3>2. CASE PowerLoss
      BY <1>2, <3>2 DEF PowerLoss, Gone
    <3>3. QED BY <3>1, <3>2 DEF Effect
  <2>4. QED
    BY <1>2, <2>1, <2>2, <2>3 DEF ControllerCloses, control
<1>3. QED
  BY <1>1, <1>2

-----------------------------------------------------------------------------
(***************************************************************************)
(* The supervisor's way to its closure: it appends only what it has just   *)
(* read, and from the reading on nobody else of the program writes.        *)
(***************************************************************************)
LEMMA SupervisorClosesStep ==
  ASSUME Supervision, SupervisorCloses, Effect, [Next]_vars
  PROVE  SupervisorCloses'
<1>1. ASSUME sup' \notin Closing \cup {"launch"}
      PROVE  SupervisorCloses'
  BY <1>1 DEF SupervisorCloses, Closing
<1>2. ASSUME sup' = sup, pc' = pc, file' = file
      PROVE  SupervisorCloses'
  <2>1. sup \in Closing => pc \notin {"cap_write", "restore_write"} /\ sup # "broker"
    BY DEF Supervision, Closing, Gone
  <2>2. sup \in Closing => Restored'
    BY <2>1, RestoredStays DEF SupervisorCloses
  <2>3. QED
    BY <1>2, <2>2 DEF SupervisorCloses
<1>3. CASE Controller
  BY <1>1, <1>3, ControllerAlive DEF Controller, Supervision, superVars, Closing
<1>4. CASE Supervisor
  <2> USE DEF SupGoto, SupEnds, Closing
  <2>1. CASE Launch \/ LaunchRefused \/ ControllerEnds \/ Watchdog \/ Reap \/ ReapFails
    BY <1>1, <2>1 DEF Launch, LaunchRefused, ControllerEnds, Watchdog, Reap, ReapFails
  <2>2. CASE ReadJournal \/ ReconcileLock \/ Approve \/ Broker \/ ReconcileSync \/ FinalCheck
    BY <1>1, <2>2 DEF ReadJournal, ReconcileLock, Approve, Broker, ReconcileSync, FinalCheck
  <2>3. CASE Observe \/ Reobserve
    <3>1. CASE sup' = "close_append"
      BY <2>3, <3>1 DEF Observe, Reobserve, SupervisorCloses, Restored, limitVars
    <3>2. CASE sup' # "close_append"
      BY <1>1, <2>3, <3>2 DEF Observe, Reobserve
    <3>3. QED BY <3>1, <3>2
  <2>4. CASE ReconcileAppend
    <3>1. CASE sup' = "close_sync"
      BY <2>4, <3>1 DEF ReconcileAppend, AppendClosure, SupervisorCloses, Restored, limitVars
    <3>2. CASE sup' # "close_sync"
      BY <1>1, <2>4, <3>2 DEF ReconcileAppend
    <3>3. QED BY <3>1, <3>2
  <2>5. QED
    BY <1>4, <2>1, <2>2, <2>3, <2>4 DEF Supervisor, Reconcile
<1>5. CASE Environment
  BY <1>2, <1>5 DEF Environment, Expire, OrphanDies, trialVars, superVars, journalVars
<1>6. CASE Failure
  <2>1. CASE SupervisorFails \/ SupervisorDies \/ PowerLoss \/ AttendedSession
    BY <1>1, <2>1 DEF SupervisorFails, SupervisorDies, PowerLoss, AttendedSession, SupGoto,
         SupEnds, Closing
  <2>2. CASE ControllerDies
    BY <2>2 DEF ControllerDies, Dies, Supervision, superVars, SupervisorCloses, Closing
  <2>3. CASE ApprovalLapses
    BY <1>2, <2>3 DEF ApprovalLapses, trialVars, journalVars
  <2>4. QED
    BY <1>6, <2>1, <2>2, <2>3 DEF Failure
<1>7. CASE UNCHANGED vars
  BY <1>2, <1>7 DEF vars, trialVars, superVars, journalVars
<1>8. QED
  BY <1>3, <1>4, <1>5, <1>6, <1>7 DEF Next

-----------------------------------------------------------------------------
(***************************************************************************)
(* The controller's beliefs only grow, and it believes in a closure only   *)
(* once it has synced it.                                                  *)
(***************************************************************************)
LEMMA BeliefMoves ==
  ASSUME [Next]_vars
  PROVE  /\ capStarted => capStarted'
         /\ closed => closed'
         /\ closed' => closed \/ (pc = "close_sync" /\ SyncClosure("controller"))
         /\ pc \in Gone => pc' \in Gone \/ (file = "absent" /\ UNCHANGED <<file, durable>>)
<1> USE DEF control
<1>1. CASE Controller
  <2>1. pc \notin Gone
    BY <1>1, ControllerAlive DEF Controller
  <2>2. CASE SetupStep
    <3>1. UNCHANGED <<capStarted, closed>>
      BY <2>2 DEF SetupStep, Qualify, Authorize, Confirm, AcquireLock, Preflight, Match,
           ObserveOriginal, AuditIntent
    <3>2. QED BY <2>1, <3>1
  <2>5. CASE WorkStarts \/ WorkEnds
    BY <2>1, <2>5 DEF WorkStarts, WorkEnds
  <2>6. CASE VerifyRestored \/ AuditVerdict \/ Cleanup
    BY <2>1, <2>6 DEF VerifyRestored, AuditVerdict, Cleanup
  <2>3. CASE CapStep
    BY <2>1, <2>3 DEF CapStep, Recheck, CapGate, JournalCreate, JournalWrite, JournalSync,
         Screen, CapWrite, CapReadback
  <2>4. CASE RestoreStep
    BY <2>1, <2>4 DEF RestoreStep, RestoreGate, PassiveCheck, UntriedCheck, RestoreWrite,
         RestoreReadback, RestoreExact, CloseAppend, CloseSync, RestoreObserve
  <2>7. QED
    BY <1>1, <2>2, <2>3, <2>4, <2>5, <2>6 DEF Controller, ControllerStep
<1>2. CASE ~Controller
  BY <1>2, OthersLeaveAlone DEF Alone, Gone
<1>3. QED
  BY <1>1, <1>2

LEMMA ClosedKeptStep ==
  ASSUME Supervision, WriteAhead, ControllerCloses, SupervisorCloses, ClosedKept,
         Effect, [Next]_vars
  PROVE  ClosedKept'
<1>1. closed' => capStarted' /\ durable' = {"closed"}
  <2>1. CASE closed
    BY <2>1, BeliefMoves, ClosureStays DEF ClosedKept, WriteAhead
  <2>2. CASE ~closed
    <3>1. ASSUME closed' PROVE file = "closed" /\ capStarted /\ SyncClosure("controller")
      BY <2>2, <3>1, BeliefMoves DEF ControllerCloses, Restoring, Closing
    <3>2. QED
      BY <3>1, BeliefMoves DEF SyncClosure, WriteAhead, RecordKept, HasIntent
  <2>3. QED BY <2>1, <2>2
<1>2. ASSUME pc' \notin Gone, durable' = {"closed"}
      PROVE  closed'
  <2>1. CASE pc \in Gone
    BY <1>2, <2>1, BeliefMoves DEF WriteAhead, RecordKept
  <2>2. CASE pc \notin Gone
    <3>1. ASSUME JournalMoves PROVE closed'
      BY <1>2, <2>2, <3>1 DEF JournalMoves, Supervision, WriteAhead, CapCallKept, OpenExclusive,
           WriteIntent, SyncDirectory, AppendClosure, AppendClosureFails
    <3>2. CASE durable' = durable
      BY <1>2, <2>2, <3>2, BeliefMoves DEF ClosedKept
    <3>3. CASE PowerLoss
      BY <1>2, <3>3 DEF PowerLoss, Gone
    <3>4. QED BY <3>1, <3>2, <3>3 DEF Effect
  <2>3. QED BY <2>1, <2>2
<1>3. /\ "torn" \in durable' => "absent" \in durable' \/ durable' = {"torn"}
      /\ durable' = {"torn"} => pc' \in Gone
  <2>1. ASSUME JournalMoves
        PROVE  durable' # {"torn"} /\ ("torn" \in durable' => "absent" \in durable')
    BY <2>1 DEF JournalMoves, ClosedKept, WriteAhead, RecordKept, CapCallKept, ControllerCloses,
         SupervisorCloses, OpenExclusive, WriteIntent, SyncDirectory, AppendClosure,
         AppendClosureFails, SyncClosure, Gone
  <2>2. CASE UNCHANGED <<file, durable>>
    <3>1. ASSUME durable = {"torn"}, pc \in Gone PROVE pc' \in Gone
      BY <3>1, BeliefMoves DEF WriteAhead, RecordKept
    <3>2. QED BY <2>2, <3>1 DEF ClosedKept
  <2>3. CASE PowerLoss
    BY <2>3 DEF PowerLoss, JournalPowerLoss, Gone
  <2>4. QED BY <2>1, <2>2, <2>3 DEF Effect
<1>4. QED
  BY <1>1, <1>2, <1>3 DEF ClosedKept

-----------------------------------------------------------------------------
(***************************************************************************)
(* A closure goes on telling the truth.                                    *)
(***************************************************************************)
LEMMA OriginalIsNear == Near(Original, Original)
<1>1. Original \in Nat /\ Tolerance \in Nat
  BY LimitAssumption
<1>2. QED
  BY <1>1 DEF Near

LEMMA TruthFrames ==
  ASSUME ClosedMeansRestored
  PROVE  /\ UNCHANGED <<limit, writer, late, file, durable>> => ClosedMeansRestored'
         /\ UNCHANGED <<limit, writer, late>> /\ Restored => ClosedMeansRestored'
         /\ writer' = "outside" \/ late' => ClosedMeansRestored'
         /\ file' \notin {"torn_close", "closed"} /\ file' \in durable' => ClosedMeansRestored'
         /\ Near(limit', Original) /\ durable' # {"closed"} => ClosedMeansRestored'
<1>1. UNCHANGED <<limit, writer, late, file, durable>> => ClosedMeansRestored'
  BY DEF ClosedMeansRestored
<1>2. UNCHANGED <<limit, writer, late>> /\ Restored => ClosedMeansRestored'
  BY OriginalIsNear DEF ClosedMeansRestored, Restored
<1>3. writer' = "outside" \/ late' => ClosedMeansRestored'
  BY DEF ClosedMeansRestored
<1>4. file' \notin {"torn_close", "closed"} /\ file' \in durable' => ClosedMeansRestored'
  BY DEF ClosedMeansRestored
<1>5. Near(limit', Original) /\ durable' # {"closed"} => ClosedMeansRestored'
  BY DEF ClosedMeansRestored
<1>6. QED
  BY <1>1, <1>2, <1>3, <1>4, <1>5

LEMMA TruthStep ==
  ASSUME Supervision, WriteAhead, WriteAhead', ControllerCloses, SupervisorCloses, ClosedKept,
         ClosedMeansRestored, Effect
  PROVE  ClosedMeansRestored'
<1> USE TruthFrames
<1>1. ASSUME UNCHANGED limitVars, JournalMoves
      PROVE  ClosedMeansRestored'
  <2>1. UNCHANGED <<limit, writer, late>> /\ file' \in durable'
    BY <1>1 DEF limitVars, WriteAhead, RecordKept
  <2>2. CASE pc \in Closing \/ sup \in Closing
    BY <2>1, <2>2 DEF ControllerCloses, SupervisorCloses
  <2>3. CASE pc \notin Closing /\ sup \notin Closing
    <3>1. file' \in {"torn", "open"}
      BY <1>1, <2>3 DEF JournalMoves, Closing, OpenExclusive, WriteIntent, SyncDirectory,
           WriteAhead, CapCallKept
    <3>2. QED BY <2>1, <3>1
  <2>4. QED BY <2>2, <2>3
<1>2. ASSUME UNCHANGED <<file, durable>>, LimitMoves
      PROVE  ClosedMeansRestored'
  <2>1. CASE pc = "cap_write" \/ (sup = "broker" /\ file = "open")
    BY <1>2, <2>1 DEF ControllerCloses, Committed, WriteAhead, RecordKept
  <2>2. CASE pc = "restore_write" /\ (CommandEnds(Original) \/ CommandHangs(Original))
    <3>1. durable' # {"closed"}
      BY <1>2, <2>2 DEF ControllerCloses, Restoring, ClosedKept, Gone
    <3>2. Near(limit', Original) \/ UNCHANGED <<limit, writer, late>>
      BY <2>2 DEF CommandEnds, CommandHangs, Takes, Settled
    <3>3. QED BY <1>2, <3>1, <3>2
  <2>3. CASE HungCommandEnds
    BY <1>2, <2>3 DEF HungCommandEnds
  <2>4. CASE Drift
    BY <2>4 DEF Drift
  <2>5. QED BY <1>2, <2>1, <2>2, <2>3, <2>4 DEF LimitMoves
<1>3. CASE PowerLoss
  BY <1>3 DEF PowerLoss, LimitPowerLoss
<1>4. QED
  BY <1>1, <1>2, <1>3 DEF Effect, limitVars

-----------------------------------------------------------------------------
(***************************************************************************)
(* The verdict of the trial's own audit log.                               *)
(***************************************************************************)
GoodEnds == {"verify_restored", "audit_failed_safe", "audit_completed"}
Finished == {"cleanup", "exited", "dead"}

LEMMA VerdictFrames ==
  ASSUME VerdictKept, durable = {"closed"} => durable' = {"closed"},
         UNCHANGED <<attempted, audit>>
  PROVE  /\ UNCHANGED <<pc, changed, restoreError>> => VerdictKept'
         /\ pc' \in Finished /\ UNCHANGED changed => VerdictKept'
         /\ pc \notin Finished /\ UNCHANGED changed /\ pc' \notin GoodEnds
              /\ (pc' \in CapCall => pc \in CapCall) => VerdictKept'
         /\ pc \notin Finished /\ TrialFails => VerdictKept'
         /\ pc \notin Finished /\ RestoreFails => VerdictKept'
<1> USE DEF VerdictKept, AuditAgreesWithJournal, GoodEnds, Finished
<1>1. UNCHANGED <<pc, changed, restoreError>> => VerdictKept'
  OBVIOUS
<1>2. pc' \in Finished /\ UNCHANGED changed => VerdictKept'
  BY DEF CapCall
<1>3. pc \notin Finished /\ UNCHANGED changed /\ pc' \notin GoodEnds
        /\ (pc' \in CapCall => pc \in CapCall) => VerdictKept'
  OBVIOUS
<1>4. pc \notin Finished /\ TrialFails => VerdictKept'
  BY DEF TrialFails, CapCall
<1>5. pc \notin Finished /\ RestoreFails => VerdictKept'
  <2>1. ASSUME pc \notin Finished, restoreError' = TRUE, pc' = "verify_restored", UNCHANGED changed
        PROVE  VerdictKept'
    BY <2>1 DEF CapCall
  <2>2. QED BY <1>4, <2>1 DEF RestoreFails
<1>6. QED
  BY <1>1, <1>2, <1>3, <1>4, <1>5

LEMMA VerdictAlone ==
  ASSUME VerdictKept, SupervisorCloses, durable = {"closed"} => durable' = {"closed"}, Alone
  PROVE  VerdictKept'
<1>0. UNCHANGED <<attempted, audit, changed, restoreError>>
  BY DEF Alone, flow, control
<1>1. CASE pc' = pc \/ pc' = "dead"
  BY <1>0, <1>1, VerdictFrames DEF Finished
<1>2. CASE sup = "launch" /\ pc' = "qualify"
  BY <1>0, <1>2, VerdictFrames DEF SupervisorCloses, Finished, GoodEnds, CapCall
<1>3. QED
  BY <1>1, <1>2 DEF Alone

LEMMA VerdictController ==
  ASSUME VerdictKept, AttemptKept, ControllerCloses, ClosedKept, ClosedKept',
         durable = {"closed"} => durable' = {"closed"}, ControllerStep
  PROVE  VerdictKept'
<1> USE JumpTargets
<1>1. CASE SetupStep
  <2>1. pc \notin Finished /\ pc' \notin GoodEnds \cup CapCall /\ UNCHANGED <<attempted, changed>>
    BY <1>1 DEF SetupStep, Qualify, Authorize, Confirm, AcquireLock, Preflight, Match,
         ObserveOriginal, AuditIntent, Finished, GoodEnds, CapCall, Goto, Leaves, flow, control
  <2>2. audit' \cap GoodVerdicts = audit \cap GoodVerdicts
    BY <1>1 DEF SetupStep, Qualify, Authorize, Confirm, AcquireLock, Preflight, Match,
         ObserveOriginal, AuditIntent, GoodVerdicts
  <2>3. QED
    BY <2>1, <2>2 DEF VerdictKept, AuditAgreesWithJournal, GoodVerdicts, GoodEnds, Finished
<1>2. CASE WorkStarts \/ WorkEnds
  BY <1>2, VerdictFrames DEF WorkStarts, WorkEnds, NextAfterWork, Finished, GoodEnds, CapCall,
       flow, control
<1>3. CASE Recheck
  <2>1. pc \notin Finished /\ UNCHANGED <<attempted, audit>>
    BY <1>3 DEF Recheck, Finished, control, world
  <2>2. CASE TrialFails
    BY <2>1, <2>2, VerdictFrames
  <2>3. CASE changed' = TRUE /\ pc' = "cap_gate"
    BY <2>1, <2>3 DEF VerdictKept, AuditAgreesWithJournal, Finished
  <2>4. QED BY <1>3, <2>2, <2>3 DEF Recheck
<1>4. CASE Screen
  <2>1. pc \in CapCall /\ pc \notin Finished /\ UNCHANGED audit
    BY <1>4 DEF Screen, CapCall, Finished, world
  <2>2. CASE UNCHANGED attempted /\ TrialFails
    BY <2>1, <2>2, VerdictFrames
  <2>3. CASE Goto("cap_write")
    <3>1. changed' /\ pc' = "cap_write"
      BY <2>1, <2>3 DEF VerdictKept, Goto, flow
    <3>2. audit' \cap GoodVerdicts = {}
      BY <2>1 DEF VerdictKept, Finished
    <3>3. QED
      BY <3>1, <3>2 DEF VerdictKept, AuditAgreesWithJournal, GoodVerdicts
  <2>4. QED BY <1>4, <2>2, <2>3 DEF Screen
<1>5. CASE CapGate \/ JournalCreate \/ JournalWrite \/ JournalSync \/ CapWrite \/ CapReadback
  <2>1. pc \notin Finished /\ UNCHANGED <<attempted, audit>>
    BY <1>5 DEF CapGate, JournalCreate, JournalWrite, JournalSync, CapWrite, CapReadback,
         Finished, control, world
  <2>2. CASE TrialFails
    BY <2>1, <2>2, VerdictFrames
  <2>3. CASE ~TrialFails
    <3>1. UNCHANGED changed /\ pc' \notin GoodEnds /\ (pc' \in CapCall => pc \in CapCall)
      BY <1>5, <2>3 DEF CapGate, JournalCreate, JournalWrite, JournalSync, CapWrite, CapReadback,
           GoodEnds, CapCall, Goto, flow
    <3>2. QED BY <2>1, <3>1, VerdictFrames
  <2>4. QED BY <2>2, <2>3
<1>6. CASE RestoreGate \/ UntriedCheck \/ RestoreWrite \/ RestoreReadback \/ RestoreExact
             \/ CloseAppend \/ RestoreObserve
  <2>1. pc \notin Finished /\ UNCHANGED <<attempted, audit>>
    BY <1>6 DEF RestoreGate, UntriedCheck, RestoreWrite, RestoreReadback, RestoreExact,
         CloseAppend, RestoreObserve, Finished, control, world
  <2>2. CASE TrialFails \/ RestoreFails
    BY <2>1, <2>2, VerdictFrames
  <2>3. CASE ~(TrialFails \/ RestoreFails)
    <3>1. UNCHANGED changed /\ pc' \notin GoodEnds \cup CapCall
      BY <1>6, <2>3 DEF RestoreGate, UntriedCheck, RestoreWrite, RestoreReadback, RestoreExact,
           CloseAppend, RestoreObserve, GoodEnds, CapCall, Goto, flow
    <3>2. QED BY <2>1, <3>1, VerdictFrames
  <2>4. QED BY <2>2, <2>3
<1>7. CASE PassiveCheck \/ CloseSync
  <2>1. pc \notin Finished /\ UNCHANGED <<attempted, audit>>
    BY <1>7 DEF PassiveCheck, CloseSync, Finished, control, world
  <2>2. CASE RestoreFails
    BY <2>1, <2>2, VerdictFrames
  <2>3. CASE RestoreReturns /\ ~RestoreFails
    <3>1. attempted => durable' = {"closed"}
      <4>1. CASE PassiveCheck
        BY <4>1 DEF PassiveCheck, ControllerCloses, ClosedKept, AttemptKept
      <4>2. CASE CloseSync
        BY <2>3, <4>2 DEF CloseSync, ClosedKept
      <4>3. QED BY <1>7, <4>1, <4>2
    <3>2. UNCHANGED changed /\ pc' \in {"restore_observe", "verify_restored"}
      BY <2>3 DEF RestoreReturns, Goto, flow
    <3>3. QED
      BY <2>1, <3>1, <3>2 DEF VerdictKept, AuditAgreesWithJournal, CapCall, Finished
  <2>4. QED BY <1>7, <2>2, <2>3 DEF PassiveCheck, CloseSync
<1>8. CASE VerifyRestored
  <2>1. pc = "verify_restored" /\ UNCHANGED <<attempted, audit, changed, durable>>
    BY <1>8 DEF VerifyRestored, Goto, flow, control, world, journalVars
  <2>2. pc' = "audit_critical" \/ (~restoreError /\ pc' \in {"audit_failed_safe", "audit_completed"})
    BY <1>8 DEF VerifyRestored
  <2>3. QED
    BY <2>1, <2>2 DEF VerdictKept, AuditAgreesWithJournal, CapCall
<1>9. CASE AuditVerdict
  <2>1. pc' = "cleanup" /\ UNCHANGED <<attempted, changed, durable>>
    BY <1>9 DEF AuditVerdict, Leaves, Goto, flow, control, journalVars
  <2>2. \/ audit' \cap GoodVerdicts = audit \cap GoodVerdicts
        \/ pc \in {"audit_failed_safe", "audit_completed"}
    BY <1>9 DEF AuditVerdict, GoodVerdicts
  <2>3. QED
    BY <2>1, <2>2 DEF VerdictKept, AuditAgreesWithJournal, GoodVerdicts, CapCall
<1>10. CASE Cleanup
  BY <1>10, VerdictFrames DEF Cleanup, Goto, Finished, flow, control
<1>11. QED
  BY <1>1, <1>2, <1>3, <1>4, <1>5, <1>6, <1>7, <1>8, <1>9, <1>10
     DEF ControllerStep, CapStep, RestoreStep

-----------------------------------------------------------------------------
LEMMA ClosureHolds == Spec => []ClosureInv
<1>1. Init => ClosureInv
  <2>1. Init => ControllerCloses /\ SupervisorCloses /\ ClosedKept
    BY DEF Init, LimitInit, JournalInit, TrialInit, ControllerCloses, SupervisorCloses,
           ClosedKept, Closing, Restoring, Committed, Gone
  <2>2. Init => ClosedMeansRestored /\ VerdictKept
    BY DEF Init, LimitInit, JournalInit, TrialInit, ClosedMeansRestored, VerdictKept,
           AuditAgreesWithJournal, GoodVerdicts, CapCall
  <2>3. QED BY <2>1, <2>2 DEF ClosureInv
<1>2. ASSUME SafetyInv, SafetyInv', ClosureInv, [Next]_vars
      PROVE  ClosureInv'
  <2> USE DEF SafetyInv, ClosureInv
  <2>1. Effect
    BY <1>2, EffectOfStep
  <2>2. durable = {"closed"} => durable' = {"closed"}
    BY <1>2, <2>1, ClosureStays DEF WriteAhead
  <2>3. CASE Controller
    <3>1. ControllerCloses'
      BY <1>2, <2>3, ControllerClosesStep DEF WriteAhead, Controller
    <3>2. SupervisorCloses' /\ ClosedKept' /\ ClosedMeansRestored'
      BY <1>2, <2>1, SupervisorClosesStep, ClosedKeptStep, TruthStep
    <3>3. VerdictKept'
      BY <1>2, <2>2, <2>3, <3>2, VerdictController DEF WriteAhead, Controller
    <3>4. QED BY <3>1, <3>2, <3>3
  <2>4. CASE ~Controller
    <3>1. Alone
      BY <1>2, <2>4, OthersLeaveAlone
    <3>2. ControllerCloses'
      BY <1>2, <2>1, <3>1, ControllerClosesAlone DEF Alone, Gone
    <3>3. SupervisorCloses' /\ ClosedKept' /\ ClosedMeansRestored'
      BY <1>2, <2>1, SupervisorClosesStep, ClosedKeptStep, TruthStep
    <3>4. VerdictKept'
      BY <1>2, <2>2, <3>1, VerdictAlone
    <3>5. QED BY <3>2, <3>3, <3>4
  <2>5. QED BY <2>3, <2>4
<1>3. SafetyInv /\ ClosureInv /\ [Next]_vars /\ SafetyInv' => ClosureInv'
  BY <1>2
<1>4. QED
  BY <1>1, <1>3, SafetyHolds, PTL DEF Spec

(***************************************************************************)
(* A closure in the journal tells the truth about the limit, whoever wrote *)
(* it and through any number of crashes, hung commands and outside writes. *)
(***************************************************************************)
THEOREM ClosuresTellTheTruth == Spec => []ClosedMeansRestored
<1>1. ClosureInv => ClosedMeansRestored
  BY DEF ClosureInv
<1>2. QED
  BY <1>1, ClosureHolds, PTL

(***************************************************************************)
(* The audit log never says restored over an open or uncertain recovery    *)
(* journal.                                                                *)
(***************************************************************************)
THEOREM AuditIsTrue == Spec => []AuditAgreesWithJournal
<1>1. ClosureInv => AuditAgreesWithJournal
  BY DEF ClosureInv, VerdictKept
<1>2. QED
  BY <1>1, ClosureHolds, PTL

-----------------------------------------------------------------------------
(***************************************************************************)
(* The contract.  Its variables are functions of the limit, the durable    *)
(* journal and the supervisor's verdict, so each kind of Effect is one of  *)
(* its actions or a stutter.                                               *)
(***************************************************************************)
RecordState == IF durable = {"closed"} THEN "closed"
               ELSE IF durable \subseteq HasIntent THEN "open" ELSE "none"

LEMMA QuietStep ==
  ASSUME Drained, UNCHANGED <<limitVars, file, durable>>, VerdictStays \/ FinalCheck
  PROVE  [Contract!Next]_(Contract!contractVars)
<1>1. UNCHANGED <<limit, writer, inflight, late, durable>>
  BY DEF limitVars
<1>2. CASE VerdictStays
  BY <1>1, <1>2 DEF VerdictStays, Contract!contractVars
<1>3. CASE FinalCheck /\ sup' = "ok"
  <2>1. limit = Original /\ inflight = {}
    BY <1>3 DEF FinalCheck, SupEnds, SupGoto, Drained, GroupDrained, GroupGone
  <2>2. Contract!Settle
    BY <1>1, <1>3, <2>1 DEF Contract!Settle
  <2>3. QED BY <2>2 DEF Contract!Next
<1>4. CASE FinalCheck /\ sup' # "ok"
  BY <1>1, <1>4 DEF FinalCheck, Contract!contractVars
<1>5. QED
  BY <1>2, <1>3, <1>4

LEMMA JournalStep ==
  ASSUME SafetyInv, ClosureInv, UNCHANGED limitVars, JournalMoves, VerdictStays
  PROVE  [Contract!Next]_(Contract!contractVars)
<1>1. UNCHANGED <<limit, writer, inflight, late>> /\ (sup' = "ok" <=> sup = "ok")
  BY DEF limitVars, VerdictStays
<1>2. CASE RecordState' = RecordState
  BY <1>1, <1>2 DEF RecordState, Contract!contractVars
<1>3. CASE RecordState' = "open" /\ RecordState = "none"
  <2>1. Contract!OpenRecord
    BY <1>1, <1>3 DEF RecordState, Contract!OpenRecord
  <2>2. QED BY <2>1 DEF Contract!Next
<1>4. CASE RecordState' = "closed" /\ RecordState = "open" /\ Restored
  <2>1. Contract!CloseRecord
    BY <1>1, <1>4 DEF RecordState, Restored, Contract!CloseRecord
  <2>2. QED BY <2>1 DEF Contract!Next
<1>5. file \in durable
  BY DEF SafetyInv, WriteAhead, RecordKept
<1>6. CASE pc = "journal_create" /\ OpenExclusive
  BY <1>2, <1>5, <1>6 DEF OpenExclusive, RecordState, HasIntent
<1>7. CASE pc = "journal_write" /\ WriteIntent
  BY <1>2, <1>5, <1>7 DEF WriteIntent, RecordState, HasIntent
<1>8. CASE pc = "journal_sync" /\ SyncDirectory
  <2>1. file = "open"
    BY <1>8 DEF SafetyInv, WriteAhead, CapCallKept
  <2>2. RecordState' = "open" /\ RecordState \in {"open", "none"}
    BY <1>5, <1>8, <2>1 DEF SyncDirectory, RecordState, HasIntent
  <2>3. QED BY <1>2, <1>3, <2>2
<1>9. ASSUME NEW i \in Instances, AppendClosure(i) \/ AppendClosureFails(i)
      PROVE  RecordState' = RecordState
  BY <1>5, <1>9 DEF AppendClosure, AppendClosureFails, RecordState, HasIntent
<1>10. ASSUME NEW i \in Instances, SyncClosure(i), file = "closed"
       PROVE  \/ RecordState' = RecordState
              \/ RecordState' = "closed" /\ RecordState = "open"
  <2>1. CASE "absent" \in durable
    BY <1>10, <2>1 DEF SyncClosure, RecordState, HasIntent
  <2>2. CASE "absent" \notin durable
    <3>1. durable \subseteq HasIntent
      BY <1>5, <1>10, <2>2 DEF SafetyInv, TypeOK, JournalTypeOK, Contents, HasIntent, ClosureInv,
           ClosedKept
    <3>2. durable' = {"closed"}
      BY <1>10, <2>2 DEF SyncClosure
    <3>3. QED BY <3>1, <3>2 DEF RecordState
  <2>3. QED BY <2>1, <2>2
<1>11. CASE \/ pc = "close_sync" /\ SyncClosure("controller")
            \/ sup = "close_sync" /\ SyncClosure("supervisor")
  <2>1. file = "closed" /\ Restored
    BY <1>11 DEF ClosureInv, ControllerCloses, SupervisorCloses, Closing
  <2>2. QED BY <1>2, <1>4, <1>10, <1>11, <2>1 DEF Instances
<1>12. CASE \/ AppendClosure("controller") \/ AppendClosureFails("controller")
            \/ AppendClosure("supervisor") \/ AppendClosureFails("supervisor")
  <2>1. "controller" \in Instances /\ "supervisor" \in Instances
    BY DEF Instances
  <2>2. RecordState' = RecordState
    BY <1>9, <1>12, <2>1
  <2>3. QED BY <1>2, <2>2
<1>13. QED
  BY <1>6, <1>7, <1>8, <1>11, <1>12 DEF JournalMoves

LEMMA LimitStep ==
  ASSUME SafetyInv, ClosureInv, UNCHANGED <<file, durable>>, LimitMoves, VerdictStays
  PROVE  [Contract!Next]_(Contract!contractVars)
<1>1. UNCHANGED durable /\ (sup' = "ok" <=> sup = "ok")
  BY DEF VerdictStays
<1>2. CASE pc = "cap_write" /\ (CommandEnds(Target) \/ CommandHangs(Target))
  <2>1. durable # {"closed"} /\ durable \subseteq HasIntent /\ sup # "ok"
    BY <1>2 DEF SafetyInv, Supervision, WriteAhead, RecordKept, CapCallKept, ClosureInv,
         ControllerCloses, Committed, Gone
  <2>2. Contract!Cap
    BY <1>1, <1>2, <2>1 DEF CommandEnds, CommandHangs, Contract!Cap
  <2>3. QED BY <2>2 DEF Contract!Next
<1>3. CASE CommandEnds(Original) \/ CommandHangs(Original)
  <2>1. \/ UNCHANGED <<limit, writer, late>> /\ inflight' \in {inflight, inflight \cup {Original}}
        \/ writer' = "restore" /\ UNCHANGED <<inflight, late>>
    BY <1>3, CapIsNotOriginal DEF CommandEnds, CommandHangs, Takes, WriterOf
  <2>2. CASE UNCHANGED <<limit, writer, late>> /\ inflight' \in {inflight, inflight \cup {Original}}
    BY <1>1, <2>2, CapIsNotOriginal DEF Contract!contractVars
  <2>3. CASE writer' = "restore" /\ UNCHANGED <<inflight, late>>
    BY <1>1, <2>3 DEF Contract!Next, Contract!Replace
  <2>4. QED BY <2>1, <2>2, <2>3
<1>4. CASE HungCommandEnds
  <2>0. PICK w \in {Original, Target} :
          /\ inflight' = inflight \ {w} /\ w \in inflight
          /\ (Takes(w) /\ late' = TRUE) \/ UNCHANGED <<limit, writer, late>>
    BY <1>4 DEF SafetyInv, TypeOK, LimitTypeOK, HungCommandEnds
  <2>1. late' \in {late, TRUE}
    BY <2>0
  <2>2. /\ UNCHANGED RecordState
        /\ UNCHANGED (IF sup = "ok" THEN "restored" ELSE "none")
    BY <1>1 DEF RecordState
  <2>3. CASE w = Target
    <3>1. Target \in inflight /\ (Target \in inflight)' = FALSE
      BY <2>0, <2>3
    <3>2. (writer = "cap" /\ limit # Original)' \in BOOLEAN
      OBVIOUS
    <3>3. QED
      BY <2>1, <2>2, <3>1, <3>2 DEF RecordState, Contract!Next, Contract!PendingEnds
  <2>4. CASE w = Original
    <3>1. UNCHANGED (Target \in inflight)
      BY <2>0, <2>4, CapIsNotOriginal
    <3>2. (writer = "cap" /\ limit # Original)' \in {writer = "cap" /\ limit # Original, FALSE}
      BY <2>0, <2>4, CapIsNotOriginal DEF Takes, WriterOf
    <3>3. QED
      BY <2>1, <2>2, <3>1, <3>2 DEF RecordState, Contract!Next, Contract!PendingEnds
  <2>5. QED BY <2>3, <2>4
<1>5. CASE Drift
  BY <1>1, <1>5 DEF Drift, Contract!Next, Contract!Replace
<1>6. QED
  BY <1>2, <1>3, <1>4, <1>5 DEF LimitMoves

LEMMA OutageStep ==
  ASSUME SafetyInv, PowerLoss
  PROVE  Contract!Outage
<1>1. writer' = "outside" /\ inflight' = {} /\ UNCHANGED late /\ sup' = "dead"
  BY DEF PowerLoss, LimitPowerLoss
<1>2. file' \in durable /\ durable' = {file'} /\ durable \subseteq Contents
  BY DEF PowerLoss, JournalPowerLoss, SafetyInv, TypeOK, JournalTypeOK
<1>3. /\ RecordState' \in {"none", "open", "closed"}
      /\ RecordState = "open" => RecordState' \in {"open", "closed"}
      /\ RecordState = "closed" => RecordState' = "closed"
  BY <1>2 DEF RecordState, HasIntent
<1>4. QED
  BY <1>1, <1>3 DEF RecordState, Contract!Outage

(***************************************************************************)
(* The detailed trial, with its two processes, their lock, the files and   *)
(* the driver, implements the contract.                                    *)
(***************************************************************************)
THEOREM TrialImplementsContract == Spec => ImplementsContract
<1>1. Init => Contract!Init
  BY DEF Init, LimitInit, JournalInit, Contract!Init, HasIntent
<1>2. SafetyInv /\ ClosureInv /\ [Next]_vars => [Contract!Next]_(Contract!contractVars)
  <2> SUFFICES ASSUME SafetyInv, ClosureInv, [Next]_vars
               PROVE  [Contract!Next]_(Contract!contractVars)
    OBVIOUS
  <2>1. Effect
    BY EffectOfStep DEF SafetyInv
  <2>2. CASE PowerLoss
    BY <2>2, OutageStep DEF Contract!Next
  <2>3. QED
    BY <2>1, <2>2, QuietStep, JournalStep, LimitStep DEF Effect, SafetyInv
<1>3. QED
  BY <1>1, <1>2, SafetyHolds, ClosureHolds, PTL DEF Spec, ImplementsContract, Contract!Spec
=============================================================================
