--------------------------- MODULE AttendedTrial ---------------------------
(***************************************************************************)
(* The controller process: run_rental_trial, which runs                    *)
(* run_attended_performance_trial over the control stack                   *)
(* DrainBeforeControl / JournaledPowerControl / NvidiaSingleGpuPowerControl*)
(* One step is one interaction with the device, the journal, the audit     *)
(* log, the approval directory or the workload, so that a kill, an outside *)
(* change or the landing of a hung command can fall between any two.       *)
(*                                                                         *)
(* set_limit(target) is the block of pcs "cap_gate" .. "cap_readback";     *)
(* set_limit(original) is "restore_gate" .. "close_sync", called in the    *)
(* middle of the trial (call = "mid") and from its finally clause (call =  *)
(* "final").                                                               *)
(***************************************************************************)
EXTENDS GpuPowerLimit, RecoveryJournal

VARIABLES
  pc,           \* where the controller is
  call,         \* the set_limit(original) call under way: "mid" or "final"
  changed,      \* the trial's flag: a cap was about to be attempted
  trialError,   \* an exception reached the trial's except clause
  restoreError, \* an exception reached the restoration of the finally clause
  captured,     \* NvidiaSingleGpuPowerControl._original
  original,     \* the trial's own reading of the limit
  attempted,    \* NvidiaSingleGpuPowerControl._attempted
  capStarted,   \* JournaledPowerControl._cap_started
  closed,       \* JournaledPowerControl._closed
  worker,       \* FixedCudaWorkload._process: "idle" or "active"
  lock,         \* ExclusiveTrialLock: "free" or the Instance that holds it
  audit,        \* kinds of the events in the trial's audit log
  nonceUsed,    \* the claim file of the trial's nonce exists
  expired       \* the trial authorization has expired

flow == <<call, changed, trialError, restoreError>>
control == <<captured, original, attempted, capStarted, closed>>
world == <<worker, lock, audit, nonceUsed, expired>>
trialVars == <<pc, flow, control, world>>

Unread == 0

CapCall == {"cap_gate", "journal_create", "journal_write", "journal_sync",
            "screen", "cap_write", "cap_readback"}
RestoreCall == {"restore_gate", "passive_check", "untried_check",
                "restore_write", "restore_readback", "restore_exact",
                "close_append", "close_sync"}
Verdict == {"verify_restored", "audit_critical", "audit_failed_safe",
            "audit_completed"}
Setup == {"qualify", "authorize", "confirm", "lock", "preflight",
          "match", "observe_original", "audit_intent"}
Gone == {"off", "exited", "dead"}
Labels == Setup \cup {"baseline", "recheck"} \cup CapCall
            \cup {"cap_observe", "capped"} \cup RestoreCall
            \cup {"restore_observe", "restored"} \cup Verdict
            \cup {"cleanup"} \cup Gone

AuditKinds == {"intent", "restore_failed", "failed_safe", "completed"}

FlowTypeOK ==
  /\ pc \in Labels
  /\ call \in {"mid", "final"}
  /\ changed \in BOOLEAN /\ trialError \in BOOLEAN /\ restoreError \in BOOLEAN

ControlTypeOK ==
  /\ captured \in Watts \cup {Unread}
  /\ original \in Watts \cup {Unread}
  /\ attempted \in BOOLEAN /\ capStarted \in BOOLEAN /\ closed \in BOOLEAN

WorldTypeOK ==
  /\ worker \in {"idle", "active"}
  /\ lock \in Instances \cup {"free"}
  /\ audit \subseteq AuditKinds
  /\ nonceUsed \in BOOLEAN /\ expired \in BOOLEAN

TrialTypeOK == FlowTypeOK /\ ControlTypeOK /\ WorldTypeOK

TrialInit ==
  /\ pc = "off"
  /\ call = "mid"
  /\ changed = FALSE /\ trialError = FALSE /\ restoreError = FALSE
  /\ captured = Unread /\ original = Unread
  /\ attempted = FALSE /\ capStarted = FALSE /\ closed = FALSE
  /\ worker = "idle"
  /\ lock = "free"
  /\ audit = {}
  /\ nonceUsed = FALSE /\ expired = FALSE

-----------------------------------------------------------------------------
(***************************************************************************)
(* Control flow: what a normal return, an early exit and an exception do.  *)
(***************************************************************************)
Goto(label) == pc' = label /\ UNCHANGED flow

\* The trial function returns or raises: its with statement frees the lock.
Leaves ==
  /\ Goto("cleanup")
  /\ lock' = IF lock = "controller" THEN "free" ELSE lock

\* except BaseException, then the restoration of the finally clause.
TrialFails ==
  /\ trialError' = TRUE
  /\ pc' = IF changed THEN "restore_gate" ELSE "verify_restored"
  /\ call' = "final"
  /\ UNCHANGED <<changed, restoreError>>

\* set_limit(original) returns, or raises into its caller.
RestoreReturns ==
  Goto(IF call = "mid" THEN "restore_observe" ELSE "verify_restored")

\* Faulty variant of RestoreFails: the finally clause swallows the error.
RestoreFailsSilently ==
  \/ call = "mid" /\ TrialFails
  \/ call = "final" /\ Goto("verify_restored")

RestoreFails ==
  \/ call = "mid" /\ TrialFails
  \/ /\ call = "final"
     /\ restoreError' = TRUE
     /\ pc' = "verify_restored"
     /\ UNCHANGED <<call, changed, trialError>>

(***************************************************************************)
(* Before the try block an exception leaves the function at once.          *)
(***************************************************************************)
\* recipe, consume=False signature check and qualification of the run.
Qualify ==
  /\ pc = "qualify"
  /\ \/ ~expired /\ Goto("authorize") /\ UNCHANGED lock
     \/ Leaves
  /\ UNCHANGED <<limitVars, journalVars, control, worker, audit, nonceUsed, expired>>

\* verify_authorization claims the nonce; a failing claim stays claimed.
Authorize ==
  /\ pc = "authorize"
  /\ \/ /\ ~nonceUsed /\ ~expired
        /\ nonceUsed' = TRUE
        /\ Goto("confirm") /\ UNCHANGED lock
     \/ Leaves /\ nonceUsed' \in {nonceUsed, TRUE}
  /\ UNCHANGED <<limitVars, journalVars, control, worker, audit, expired>>

Confirm ==
  /\ pc = "confirm"
  /\ \/ Goto("lock") /\ UNCHANGED lock
     \/ Leaves
  /\ UNCHANGED <<limitVars, journalVars, control, worker, audit, nonceUsed, expired>>

AcquireLock ==
  /\ pc = "lock"
  /\ \/ lock = "free" /\ lock' = "controller" /\ Goto("preflight")
     \/ lock # "free" /\ Leaves
  /\ UNCHANGED <<limitVars, journalVars, control, worker, audit, nonceUsed, expired>>

\* The adapter's own reading; the cap must lower it.
Preflight ==
  /\ pc = "preflight"
  /\ \/ /\ Target < limit
        /\ captured' = limit
        /\ Goto("match") /\ UNCHANGED lock
     \/ Leaves /\ UNCHANGED captured
  /\ UNCHANGED <<limitVars, journalVars, original, attempted, capStarted,
                 closed, worker, audit, nonceUsed, expired>>

\* The wrapper's reading must equal the intent exactly.
Match ==
  /\ pc = "match"
  /\ \/ limit = Original /\ Goto("observe_original") /\ UNCHANGED lock
     \/ Leaves
  /\ UNCHANGED <<limitVars, journalVars, control, worker, audit, nonceUsed, expired>>

\* The trial's reading is the value it will ask to restore.
ObserveOriginal ==
  /\ pc = "observe_original"
  /\ \/ /\ Target < limit
        /\ original' = limit
        /\ Goto("audit_intent") /\ UNCHANGED lock
     \/ Leaves /\ UNCHANGED original
  /\ UNCHANGED <<limitVars, journalVars, captured, attempted, capStarted,
                 closed, worker, audit, nonceUsed, expired>>

AuditIntent ==
  /\ pc = "audit_intent"
  /\ \/ audit' = audit \cup {"intent"} /\ Goto("baseline") /\ UNCHANGED lock
     \/ Leaves /\ audit' \in {audit, audit \cup {"intent"}}
  /\ UNCHANGED <<limitVars, journalVars, control, worker, nonceUsed, expired>>

-----------------------------------------------------------------------------
(***************************************************************************)
(* The measured phases.  A failing phase aborts its worker; an abort that  *)
(* cannot reap it leaves it active, and no phase can start over it.        *)
(***************************************************************************)
NextAfterWork == IF pc = "baseline" THEN "recheck" ELSE "restore_gate"

WorkStarts ==
  /\ pc \in {"baseline", "capped", "restored"}
  /\ worker = "idle"
  /\ worker' = "active"
  /\ UNCHANGED <<limitVars, journalVars, pc, flow, control, lock, audit, nonceUsed, expired>>

WorkEnds ==
  /\ pc \in {"baseline", "capped", "restored"}
  /\ worker = "active"
  /\ \/ /\ worker' = "idle"
        /\ pc' = NextAfterWork
        /\ call' = IF pc = "restored" THEN "final" ELSE call
        /\ UNCHANGED <<changed, trialError, restoreError>>
     \/ worker' \in {"idle", "active"} /\ TrialFails
  /\ UNCHANGED <<limitVars, journalVars, control, lock, audit, nonceUsed, expired>>

\* Expiry and workload digest again; from here on a restoration is owed.
Recheck ==
  /\ pc = "recheck"
  /\ \/ /\ ~expired
        /\ changed' = TRUE
        /\ pc' = "cap_gate"
        /\ UNCHANGED <<call, trialError, restoreError>>
     \/ TrialFails
  /\ UNCHANGED <<limitVars, journalVars, control, world>>

-----------------------------------------------------------------------------
(***************************************************************************)
(* set_limit(target).                                                      *)
(***************************************************************************)
\* require_idle, qualify, then the wrapper's own gates.
CapGate ==
  /\ pc = "cap_gate"
  /\ \/ /\ worker = "idle" /\ ~capStarted /\ ~closed /\ ~expired
        /\ Goto("journal_create")
     \/ TrialFails
  /\ UNCHANGED <<limitVars, journalVars, control, world>>

JournalCreate ==
  /\ pc = "journal_create"
  /\ \/ OpenExclusive /\ Goto("journal_write")
     \/ OpenExclusive /\ TrialFails
     \/ UNCHANGED journalVars /\ TrialFails
  /\ UNCHANGED <<limitVars, control, world>>

JournalWrite ==
  /\ pc = "journal_write"
  /\ \/ WriteIntent /\ Goto("journal_sync")
     \/ WriteIntent /\ TrialFails
     \/ UNCHANGED journalVars /\ TrialFails
  /\ UNCHANGED <<limitVars, control, world>>

\* Faulty variant of JournalSync: the directory is not fsynced.
JournalSyncSkipped ==
  /\ pc = "journal_sync"
  /\ capStarted' = TRUE /\ Goto("screen")
  /\ UNCHANGED <<limitVars, journalVars, captured, original, attempted, closed, world>>

\* The directory fsync ends create(); only then is the cap started.
JournalSync ==
  /\ pc = "journal_sync"
  /\ \/ SyncDirectory /\ capStarted' = TRUE /\ Goto("screen")
     \/ UNCHANGED <<journalVars, capStarted>> /\ TrialFails
  /\ UNCHANGED <<limitVars, captured, original, attempted, closed, world>>

\* The adapter's reading right before its only cap command.
Screen ==
  /\ pc = "screen"
  /\ \/ /\ ~attempted /\ limit = captured
        /\ attempted' = TRUE
        /\ Goto("cap_write")
     \/ UNCHANGED attempted /\ TrialFails
  /\ UNCHANGED <<limitVars, journalVars, captured, original, capStarted,
                 closed, world>>

CapWrite ==
  /\ pc = "cap_write"
  /\ \/ CommandEnds(Target) /\ (Goto("cap_readback") \/ TrialFails)
     \/ CommandHangs(Target) /\ TrialFails
  /\ UNCHANGED <<journalVars, control, world>>

\* A reading by the adapter and then one by the trial, both within 0.5 W.
CapReadback ==
  /\ pc \in {"cap_readback", "cap_observe"}
  /\ \/ /\ Near(limit, Target)
        /\ Goto(IF pc = "cap_readback" THEN "cap_observe" ELSE "capped")
     \/ TrialFails
  /\ UNCHANGED <<limitVars, journalVars, control, world>>

-----------------------------------------------------------------------------
(***************************************************************************)
(* set_limit(original).                                                    *)
(***************************************************************************)
\* Faulty variant of RestoreGate: the worker is not drained first.
RestoreGateUndrained ==
  /\ pc = "restore_gate"
  /\ \/ (~capStarted \/ closed) /\ Goto("passive_check")
     \/ /\ capStarted /\ ~closed
        /\ Goto(IF attempted THEN "restore_write" ELSE "untried_check")
  /\ UNCHANGED <<limitVars, journalVars, control, world>>

\* require_idle, the wrapper's choice of path, the adapter's own gate.
RestoreGate ==
  /\ pc = "restore_gate"
  /\ \/ /\ worker = "idle" /\ original = Original
        /\ \/ (~capStarted \/ closed) /\ Goto("passive_check")
           \/ /\ capStarted /\ ~closed /\ captured = Original
              /\ Goto(IF attempted THEN "restore_write" ELSE "untried_check")
     \/ RestoreFails
  /\ UNCHANGED <<limitVars, journalVars, control, world>>

\* Outside an active intent the wrapper only looks.
PassiveCheck ==
  /\ pc = "passive_check"
  /\ \/ limit = Original /\ RestoreReturns
     \/ RestoreFails
  /\ UNCHANGED <<limitVars, journalVars, control, world>>

\* Without an attempted cap the adapter only looks.
UntriedCheck ==
  /\ pc = "untried_check"
  /\ \/ limit = captured /\ Goto("restore_exact")
     \/ RestoreFails
  /\ UNCHANGED <<limitVars, journalVars, control, world>>

RestoreWrite ==
  /\ pc = "restore_write"
  /\ \/ CommandEnds(Original) /\ (Goto("restore_readback") \/ RestoreFails)
     \/ CommandHangs(Original) /\ RestoreFails
  /\ UNCHANGED <<journalVars, control, world>>

RestoreReadback ==
  /\ pc = "restore_readback"
  /\ \/ Near(limit, Original) /\ Goto("restore_exact")
     \/ RestoreFails
  /\ UNCHANGED <<limitVars, journalVars, control, world>>

\* Faulty variant of RestoreExact: the outer trial's tolerance is accepted.
RestoreExactNearly ==
  /\ pc = "restore_exact"
  /\ \/ Near(limit, Original) /\ Goto("close_append")
     \/ RestoreFails
  /\ UNCHANGED <<limitVars, journalVars, control, world>>

RestoreExact ==
  /\ pc = "restore_exact"
  /\ \/ limit = Original /\ Goto("close_append")
     \/ RestoreFails
  /\ UNCHANGED <<limitVars, journalVars, control, world>>

CloseAppend ==
  /\ pc = "close_append"
  /\ \/ AppendClosure("controller") /\ Goto("close_sync")
     \/ AppendClosureFails("controller") /\ RestoreFails
     \/ UNCHANGED journalVars /\ RestoreFails
  /\ UNCHANGED <<limitVars, control, world>>

CloseSync ==
  /\ pc = "close_sync"
  /\ \/ SyncClosure("controller") /\ closed' = TRUE /\ RestoreReturns
     \/ UNCHANGED <<journalVars, closed>> /\ RestoreFails
  /\ UNCHANGED <<limitVars, captured, original, attempted, capStarted, world>>

RestoreObserve ==
  /\ pc = "restore_observe"
  /\ \/ Near(limit, original) /\ Goto("restored")
     \/ TrialFails
  /\ UNCHANGED <<limitVars, journalVars, control, world>>

-----------------------------------------------------------------------------
(***************************************************************************)
(* The verdict, after the finally clause.                                  *)
(***************************************************************************)
VerifyRestored ==
  /\ pc = "verify_restored"
  /\ \/ /\ Near(limit, original)
        /\ Goto(IF restoreError THEN "audit_critical"
                ELSE IF trialError THEN "audit_failed_safe"
                ELSE "audit_completed")
     \/ Goto("audit_critical")
  /\ UNCHANGED <<limitVars, journalVars, control, world>>

\* The last record, written before the lock is released; it may fail.
AuditVerdict ==
  /\ \/ pc = "audit_critical" /\ audit' \in {audit, audit \cup {"restore_failed"}}
     \/ pc = "audit_failed_safe" /\ audit' \in {audit, audit \cup {"failed_safe"}}
     \/ pc = "audit_completed" /\ audit' \in {audit, audit \cup {"completed"}}
  /\ Leaves
  /\ UNCHANGED <<limitVars, journalVars, control, worker, nonceUsed, expired>>

\* run_rental_trial's finally: workload.abort and the evidence archive.
Cleanup ==
  /\ pc = "cleanup"
  /\ worker' \in {"idle", worker}
  /\ Goto("exited")
  /\ UNCHANGED <<limitVars, journalVars, control, lock, audit, nonceUsed, expired>>

-----------------------------------------------------------------------------
(***************************************************************************)
(* The environment of the process.                                         *)
(***************************************************************************)
Expire ==
  /\ ~expired
  /\ expired' = TRUE
  /\ UNCHANGED <<limitVars, journalVars, pc, flow, control, worker, lock, audit, nonceUsed>>

\* SIGKILL: nothing of the program runs any more, its lock is released.
Dies ==
  /\ pc \notin Gone
  /\ Goto("dead")
  /\ lock' = IF lock = "controller" THEN "free" ELSE lock
  /\ UNCHANGED <<control, worker, audit, nonceUsed, expired>>

\* The worker armed its own parent-death signal.
OrphanDies ==
  /\ pc \in {"exited", "dead"} /\ worker = "active"
  /\ worker' = "idle"
  /\ UNCHANGED <<limitVars, journalVars, pc, flow, control, lock, audit, nonceUsed, expired>>

SetupStep ==
  Qualify \/ Authorize \/ Confirm \/ AcquireLock \/ Preflight \/ Match
    \/ ObserveOriginal \/ AuditIntent

CapStep ==
  Recheck \/ CapGate \/ JournalCreate \/ JournalWrite \/ JournalSync
    \/ Screen \/ CapWrite \/ CapReadback

RestoreStep ==
  RestoreGate \/ PassiveCheck \/ UntriedCheck \/ RestoreWrite
    \/ RestoreReadback \/ RestoreExact \/ CloseAppend \/ CloseSync
    \/ RestoreObserve

ControllerStep ==
  SetupStep \/ WorkStarts \/ WorkEnds \/ CapStep \/ RestoreStep
    \/ VerifyRestored \/ AuditVerdict \/ Cleanup
=============================================================================
