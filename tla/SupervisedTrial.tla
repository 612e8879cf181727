-------------------------- MODULE SupervisedTrial --------------------------
(***************************************************************************)
(* The attended trial under its supervisor: rental_execution.main,         *)
(* rental_supervisor.supervise_attended_controller with its                *)
(* PosixBoundedRunner and OriginalLimitBroker, and                         *)
(* supervised_recovery.reconcile_attended_once.  The supervisor launches   *)
(* one controller, kills its process group at a deadline, and only then    *)
(* reconciles an open recovery journal.  After a failed or lost supervisor *)
(* an operator may reconcile in a separate attended session.               *)
(***************************************************************************)
EXTENDS AttendedTrial

CONSTANTS
  Faulty,       \* TRUE when the supervisor's own steps may fail or crash
  MaxSessions,  \* bound: separate attended reconciliations
  MaxOutages    \* bound: power losses of the host

ASSUME SupervisionAssumption ==
  /\ Faulty \in BOOLEAN
  /\ MaxSessions \in Nat
  /\ MaxOutages \in Nat
  /\ Unread \notin Watts

VARIABLES
  sup,       \* where the supervising process is
  session,   \* 0 for the supervised run, then the number of the attended one
  lapsed,    \* the recovery approval of the session has expired
  outages    \* power losses so far

superVars == <<sup, session, lapsed, outages>>
vars == <<limitVars, journalVars, trialVars, superVars>>

Reconciling == {"approve", "observe", "broker", "reobserve",
                "close_append", "close_sync"}
Working == {"launch", "wait", "reap", "read", "lock"}
             \cup Reconciling \cup {"final"}
Ended == {"ok", "reconciled", "failed", "dead"}

SessionNumbers == 0..MaxSessions
OutageCounts == 0..MaxOutages

SupervisorTypeOK ==
  /\ sup \in Working \cup Ended
  /\ session \in SessionNumbers
  /\ lapsed \in BOOLEAN
  /\ outages \in OutageCounts

TypeOK == LimitTypeOK /\ JournalTypeOK /\ TrialTypeOK /\ SupervisorTypeOK

Init ==
  /\ LimitInit /\ JournalInit /\ TrialInit
  /\ sup = "launch"
  /\ session = 0
  /\ lapsed = FALSE
  /\ outages = 0

-----------------------------------------------------------------------------
(***************************************************************************)
(* _group_exists is false: the controller, its workers and its commands    *)
(* are all gone.                                                           *)
(***************************************************************************)
GroupGone == pc \in Gone /\ worker = "idle" /\ inflight = {}

SupGoto(label) == sup' = label /\ UNCHANGED <<session, lapsed, outages>>

\* The session ends; the lock it may hold is released.
SupEnds(label) ==
  /\ SupGoto(label)
  /\ lock' = IF lock = "supervisor" THEN "free" ELSE lock

\* The part of the trial state that no supervisor step touches.
controllerOnly == <<pc, flow, control, audit, nonceUsed, expired>>

Launch ==
  /\ sup = "launch"
  /\ file = "absent" /\ ~expired
  /\ pc' = "qualify"
  /\ SupGoto("wait")
  /\ UNCHANGED <<limitVars, journalVars, flow, control, world>>

\* A pre-existing journal, a stale approval, or the operator refuses.
LaunchRefused ==
  /\ sup = "launch"
  /\ SupEnds("failed")
  /\ UNCHANGED <<limitVars, journalVars, controllerOnly, worker>>

ControllerEnds ==
  /\ sup = "wait"
  /\ pc \in {"exited", "dead"}
  /\ SupGoto("reap")
  /\ UNCHANGED <<limitVars, journalVars, trialVars>>

\* Faulty variant of Watchdog: the deadline counts only during cleanup.
WatchdogAtCleanup ==
  /\ sup = "wait" /\ pc = "cleanup"
  /\ Dies
  /\ SupGoto("reap")
  /\ UNCHANGED <<limitVars, journalVars>>

\* The deadline, too much output or a signal: SIGKILL to the whole group.
Watchdog ==
  /\ sup = "wait"
  /\ Dies
  /\ SupGoto("reap")
  /\ UNCHANGED <<limitVars, journalVars>>

\* Faulty variant of Reap: the leader's exit stands for the whole group.
ReapLeaderOnly ==
  /\ sup = "reap"
  /\ pc \in Gone
  /\ SupGoto("read")
  /\ UNCHANGED <<limitVars, journalVars, trialVars>>

Reap ==
  /\ sup = "reap"
  /\ pc \in Gone /\ inflight = {}
  /\ worker' = "idle"
  /\ SupGoto("read")
  /\ UNCHANGED <<limitVars, journalVars, controllerOnly, lock>>

\* "descendant group did not disappear; require external drain"
ReapFails ==
  /\ sup = "reap"
  /\ Faulty \/ inflight # {}
  /\ SupEnds("failed")
  /\ UNCHANGED <<limitVars, journalVars, controllerOnly, worker>>

-----------------------------------------------------------------------------
\* Faulty variant of ReadJournal: an open record is reconciled only after an
\* orderly exit.
ReadJournalOrderly ==
  /\ sup = "read"
  /\ \/ file = "open" /\ pc = "exited" /\ SupGoto("lock") /\ UNCHANGED lock
     \/ (file # "open" \/ pc # "exited") /\ SupEnds("final")
  /\ UNCHANGED <<limitVars, journalVars, controllerOnly, worker>>

\* A missing or corrupt record never establishes a safe state.
ReadJournal ==
  /\ sup = "read"
  /\ \/ Readable("supervisor") /\ file = "open" /\ SupGoto("lock") /\ UNCHANGED lock
     \/ /\ Readable("supervisor") /\ file = "closed"
        /\ SupEnds(IF session = 0 THEN "final" ELSE "reconciled")
     \/ ~Readable("supervisor") /\ SupEnds("failed")
  /\ UNCHANGED <<limitVars, journalVars, controllerOnly, worker>>

\* The host/GPU lock, the second reading, and the proof of process loss.
ReconcileLock ==
  /\ sup = "lock"
  /\ \/ /\ lock = "free" /\ file = "open" /\ GroupGone
        /\ lock' = "supervisor"
        /\ SupGoto("approve")
     \/ /\ lock # "free" \/ file # "open" \/ ~GroupGone
        /\ SupEnds("failed")
  /\ UNCHANGED <<limitVars, journalVars, controllerOnly, worker>>

\* Exact unexpired approval, typed confirmation, nonce consumed.
Approve ==
  /\ sup = "approve"
  /\ \/ ~lapsed /\ SupGoto("observe") /\ UNCHANGED lock
     \/ lapsed /\ SupEnds("failed")
  /\ UNCHANGED <<limitVars, journalVars, controllerOnly, worker>>

Observe ==
  /\ sup = "observe"
  /\ \/ limit = Original /\ SupGoto("close_append") /\ UNCHANGED lock
     \/ limit # Original /\ ~lapsed /\ SupGoto("broker") /\ UNCHANGED lock
     \/ limit # Original /\ lapsed /\ SupEnds("failed")
  /\ UNCHANGED <<limitVars, journalVars, controllerOnly, worker>>

\* OriginalLimitBroker: open record, approval again, one bounded command.
Broker ==
  /\ sup = "broker"
  /\ \/ /\ Readable("supervisor") /\ file = "open" /\ ~lapsed
        /\ \/ /\ IF Faulty THEN CommandEnds(Original)
                 ELSE Takes(Original) /\ UNCHANGED <<inflight, late, drifts>>
              /\ SupGoto("reobserve") /\ UNCHANGED lock
           \/ Faulty /\ CommandEnds(Original) /\ SupEnds("failed")
           \/ Faulty /\ CommandHangs(Original) /\ SupEnds("failed")
     \/ /\ lapsed \/ ~Readable("supervisor")
        /\ SupEnds("failed") /\ UNCHANGED limitVars
  /\ UNCHANGED <<journalVars, controllerOnly, worker>>

Reobserve ==
  /\ sup = "reobserve"
  /\ \/ limit = Original /\ SupGoto("close_append") /\ UNCHANGED lock
     \/ limit # Original /\ SupEnds("failed")
  /\ UNCHANGED <<limitVars, journalVars, controllerOnly, worker>>

ReconcileAppend ==
  /\ sup = "close_append"
  /\ \/ AppendClosure("supervisor") /\ SupGoto("close_sync") /\ UNCHANGED lock
     \/ Faulty /\ AppendClosureFails("supervisor") /\ SupEnds("failed")
     \/ ~Readable("supervisor") /\ SupEnds("failed") /\ UNCHANGED journalVars
  /\ UNCHANGED <<limitVars, controllerOnly, worker>>

ReconcileSync ==
  /\ sup = "close_sync"
  /\ \/ /\ SyncClosure("supervisor")
        /\ SupEnds(IF session = 0 THEN "final" ELSE "reconciled")
     \/ Faulty /\ SupEnds("failed") /\ UNCHANGED journalVars
  /\ UNCHANGED <<limitVars, controllerOnly, worker>>

\* Faulty variant of FinalCheck: the closed journal is believed.
FinalCheckSkipped ==
  /\ sup = "final"
  /\ SupEnds("ok")
  /\ UNCHANGED <<limitVars, journalVars, controllerOnly, worker>>

\* main's own last reading of the device.
FinalCheck ==
  /\ sup = "final"
  /\ SupEnds(IF limit = Original THEN "ok" ELSE "failed")
  /\ UNCHANGED <<limitVars, journalVars, controllerOnly, worker>>

-----------------------------------------------------------------------------
(***************************************************************************)
(* Failures.                                                               *)
(***************************************************************************)
\* Any reading, deadline or confirmation after the launch may fail.
SupervisorFails ==
  /\ Faulty
  /\ sup \in Working \ {"launch", "wait"}
  /\ SupEnds("failed")
  /\ UNCHANGED <<limitVars, journalVars, controllerOnly, worker>>

\* The supervisor is lost: PR_SET_PDEATHSIG kills the controller with it.
SupervisorDies ==
  /\ Faulty
  /\ sup \in Working
  /\ SupGoto("dead")
  /\ pc' = IF pc \in Gone THEN pc ELSE "dead"
  /\ lock' = "free"
  /\ UNCHANGED <<limitVars, journalVars, flow, control, worker, audit, nonceUsed, expired>>

ControllerDies ==
  /\ Dies
  /\ UNCHANGED <<limitVars, journalVars, superVars>>

ApprovalLapses ==
  /\ Faulty
  /\ ~lapsed
  /\ lapsed' = TRUE
  /\ UNCHANGED <<limitVars, journalVars, trialVars, sup, session, outages>>

PowerLoss ==
  /\ outages < MaxOutages
  /\ outages' = outages + 1
  /\ LimitPowerLoss /\ JournalPowerLoss
  /\ pc' = IF pc = "off" THEN pc ELSE "dead"
  /\ worker' = "idle"
  /\ lock' = "free"
  /\ sup' = "dead"
  /\ UNCHANGED <<flow, control, audit, nonceUsed, expired, session, lapsed>>

\* A new attended session, with a new approval, over the same journal.
AttendedSession ==
  /\ sup \in {"failed", "dead"}
  /\ session < MaxSessions
  /\ pc # "off"
  /\ sup' = "read"
  /\ session' = session + 1
  /\ lapsed' = FALSE
  /\ FreshInstance("supervisor")
  /\ UNCHANGED <<limitVars, trialVars, outages>>

-----------------------------------------------------------------------------
Controller == ControllerStep /\ UNCHANGED superVars

Reconcile ==
  ReadJournal \/ ReconcileLock \/ Approve \/ Observe \/ Broker \/ Reobserve
    \/ ReconcileAppend \/ ReconcileSync

Supervisor ==
  Launch \/ LaunchRefused \/ ControllerEnds \/ Watchdog \/ Reap \/ ReapFails
    \/ Reconcile \/ FinalCheck

Environment ==
  \/ HungCommandEnds /\ UNCHANGED <<journalVars, trialVars, superVars>>
  \/ Drift /\ UNCHANGED <<journalVars, trialVars, superVars>>
  \/ (Expire \/ OrphanDies) /\ UNCHANGED superVars

Failure ==
  SupervisorFails \/ SupervisorDies \/ ControllerDies \/ ApprovalLapses
    \/ PowerLoss \/ AttendedSession

Next == Controller \/ Supervisor \/ Environment \/ Failure

Spec == Init /\ [][Next]_vars

(***************************************************************************)
(* PosixBoundedRunner bounds every wait by a deadline, so the supervisor   *)
(* is never stuck; nothing is asked of the controller or of the driver.    *)
(***************************************************************************)
FairSpec == Spec /\ WF_vars(Supervisor)

-----------------------------------------------------------------------------
(***************************************************************************)
(* Write-ahead: once the adapter has gone for the cap, no power loss can   *)
(* leave the host without the intent that names the original limit.        *)
(***************************************************************************)
IntentDurableBeforeCap ==
  attempted \/ writer = "cap" \/ Target \in inflight => durable \subseteq HasIntent

(***************************************************************************)
(* A closure tells the truth about the writes of this program.  Under any  *)
(* closure bytes, even torn ones, the limit is the original up to the      *)
(* adapter's tolerance, and under a synced closure exactly.  Only a hung   *)
(* command that lands afterwards breaks either.                            *)
(***************************************************************************)
ClosedMeansRestored ==
  writer # "outside" /\ ~late =>
    /\ file \in {"torn_close", "closed"} => Near(limit, Original)
    /\ durable = {"closed"} => limit = Original

(***************************************************************************)
(* The trial's audit log never says restored, in failed_safe or completed, *)
(* while the recovery journal of an attempted cap is open or uncertain.    *)
(***************************************************************************)
AuditAgreesWithJournal ==
  audit \cap {"failed_safe", "completed"} # {} /\ attempted => durable = {"closed"}

(***************************************************************************)
(* Drain before control: no process sends a power command while a worker   *)
(* runs, and the broker sends its own only when nothing of the controller, *)
(* not even a hung command, can write after it.                            *)
(***************************************************************************)
DrainedBeforeCommand ==
  /\ pc \in {"cap_write", "restore_write"} => worker = "idle"
  /\ sup \in {"broker", "reobserve"} => GroupGone

(***************************************************************************)
(* main ends without error only when the original limit is in force, or    *)
(* somebody else changed it; no command of the trial is left to land.      *)
(***************************************************************************)
SuccessMeansRestored ==
  sup = "ok" => (limit = Original \/ writer = "outside") /\ inflight = {}

(***************************************************************************)
(* The promise of the whole assembly, see RestorationContract.             *)
(***************************************************************************)
Contract == INSTANCE RestorationContract WITH
  record  <- IF durable = {"closed"} THEN "closed"
             ELSE IF durable \subseteq HasIntent THEN "open" ELSE "none",
  capped  <- writer = "cap" /\ limit # Original,
  pending <- Target \in inflight,
  landed  <- late,
  verdict <- IF sup = "ok" THEN "restored" ELSE "none"

\* Every step of the trial and its supervisor is a step of the contract.
ImplementsContract == Contract!Spec

(***************************************************************************)
(* The supervisor always ends, whatever the controller and the driver do.  *)
(***************************************************************************)
SupervisorTerminates == <>(sup \in Ended)

(***************************************************************************)
(* With a working supervisor a cap never stays: whatever the controller    *)
(* does and wherever it is killed, the original limit comes back.          *)
(***************************************************************************)
CapIsUndone == writer = "cap" ~> limit = Original
=============================================================================
