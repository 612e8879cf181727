-------------------------- MODULE ConcurrentTrials --------------------------
(***************************************************************************)
(* Several launches of rental_execution.main on one host and one GPU: the  *)
(* same settings twice, or different settings, in the same run directory   *)
(* or in different ones.  Each launch is a supervisor and its controller.  *)
(* What they share is the GPU's limit, the approval directory (module      *)
(* ApprovalClaims) and, per run directory, the samples, the lock file and  *)
(* the recovery journal: the lock excludes launches of one directory only  *)
(* (rental_execution.py passes the run directory as lock_directory).       *)
(*                                                                         *)
(* One launch by itself, with its tolerances, hung commands, torn and      *)
(* unsynced records, is module SupervisedTrial; those are left out here.   *)
(***************************************************************************)
EXTENDS ApprovalClaims, FiniteSets

CONSTANTS
  Launches,     \* invocations of rental_execution
  Directories,  \* run directories
  Original,     \* the limit every intent names as its original
  Target        \* [Nonces -> Nat], the cap the approval of a nonce allows

ASSUME LaunchAssumption ==
  /\ Original \in Nat
  /\ Target \in [Nonces -> Nat]
  /\ \A n \in Nonces : Target[n] < Original

VARIABLES
  dir,       \* run directory of each launch, from its settings
  nonce,     \* nonce of each launch's approval, from its settings
  pc,        \* where each controller is
  sup,       \* where each supervisor is
  turn,      \* which of its restorations a controller is at
  captured,  \* the adapter's preflight reading
  limit,     \* the limit in force
  samples,   \* run directories with a `samples' directory in them
  evidence,  \* run directories with a supervisor's evidence in them
  journal,   \* recovery.jsonl of each directory
  intent     \* nonce of the intent in it

settings == <<dir, nonce>>
launchVars == <<pc, sup, turn, captured>>
contents == <<samples, evidence>>
sharedVars == <<limit, contents, journal, intent>>
vars == <<settings, launchVars, sharedVars, claimVars>>

Gone == {"off", "exited", "dead"}

\* The with statement of ExclusiveTrialLock in performance_trial.
Holding == {"locked", "matching", "ready", "journaled", "untried", "screened",
            "written", "capped", "restoring", "rewritten", "closing", "restored"}

\* A cap may have been written and is not known to be undone.
Capping == {"screened", "written", "capped", "restoring", "rewritten"}

Stages == Gone \cup {"checked", "empty", "prepared", "claiming", "claimed"} \cup Holding

\* The one of reconcile_attended_once.
Reconciling == {"locked", "restoring", "verifying", "closing"}
SupStages == {"idle", "waiting", "opened", "over"} \cup Reconciling

Watts == {Original} \cup {Target[n] : n \in Nonces}

ConcurrentTypeOK ==
  /\ ClaimTypeOK
  /\ dir \in [Launches -> Directories]
  /\ nonce \in [Launches -> Nonces]
  /\ pc \in [Launches -> Stages]
  /\ sup \in [Launches -> SupStages]
  /\ turn \in [Launches -> {"mid", "final", "barred"}]
  /\ captured \in [Launches -> Watts]
  /\ limit \in Watts
  /\ samples \subseteq Directories /\ evidence \subseteq Directories
  /\ journal \in [Directories -> {"absent", "open", "torn", "closed"}]
  /\ intent \in [Directories -> Nonces]

Init ==
  /\ ClaimInit
  /\ dir \in [Launches -> Directories]
  /\ nonce \in [Launches -> Nonces]
  /\ pc = [t \in Launches |-> "off"]
  /\ sup = [t \in Launches |-> "idle"]
  /\ turn = [t \in Launches |-> "mid"]
  /\ captured = [t \in Launches |-> Original]
  /\ limit = Original
  /\ samples = {} /\ evidence = {}
  /\ journal = [d \in Directories |-> "absent"]
  /\ intent \in [Directories -> Nonces]

\* Somebody holds the flock of directory d; a death releases it.
Locked(d) ==
  \E t \in Launches : dir[t] = d /\ (pc[t] \in Holding \/ sup[t] \in Reconciling)

Goto(t, label) == pc' = [pc EXCEPT ![t] = label]
SupGoto(t, label) == sup' = [sup EXCEPT ![t] = label]

-----------------------------------------------------------------------------
(***************************************************************************)
(* Up to the approval.                                                     *)
(***************************************************************************)
\* supervise_attended_controller: no journal yet, an authentic approval.
Launch(t) ==
  /\ sup[t] = "idle"
  /\ journal[dir[t]] = "absent" /\ Authentic
  /\ SupGoto(t, "waiting")
  /\ Goto(t, "checked")
  /\ UNCHANGED <<settings, turn, captured, sharedVars, claimVars>>

\* The run directory must be empty ...
FindEmpty(t) ==
  /\ pc[t] = "checked"
  /\ dir[t] \notin samples \cup evidence
  /\ Goto(t, "empty")
  /\ UNCHANGED <<settings, sup, turn, captured, sharedVars, claimVars>>

\* Faulty variant of Prepare: a samples directory that exists is taken over.
PrepareOver(t) ==
  /\ pc[t] = "empty"
  /\ Goto(t, "prepared")
  /\ samples' = samples \cup {dir[t]}
  /\ UNCHANGED <<settings, sup, turn, captured, limit, evidence, journal, intent, claimVars>>

\* ... and when the controller is built, whatever came into the directory since,
\* mkdir of `samples' is exclusive.
Prepare(t) ==
  /\ pc[t] = "empty"
  /\ dir[t] \notin samples
  /\ Goto(t, "prepared")
  /\ samples' = samples \cup {dir[t]}
  /\ UNCHANGED <<settings, sup, turn, captured, limit, evidence, journal, intent, claimVars>>

\* verify_authorization claims the nonce of the settings.
Claim(t) ==
  /\ pc[t] = "prepared"
  /\ ClaimCreated(nonce[t])
  /\ Goto(t, "claiming")
  /\ UNCHANGED <<settings, sup, turn, captured, sharedVars>>

Claimed(t) ==
  /\ pc[t] = "claiming"
  /\ ClaimKept(nonce[t])
  /\ Goto(t, "claimed")
  /\ UNCHANGED <<settings, sup, turn, captured, sharedVars>>

AcquireLock(t) ==
  /\ pc[t] = "claimed"
  /\ ~Locked(dir[t])
  /\ Goto(t, "locked")
  /\ UNCHANGED <<settings, sup, turn, captured, sharedVars, claimVars>>

\* The adapter's own reading ...
Preflight(t) ==
  /\ pc[t] = "locked"
  /\ Target[nonce[t]] < limit
  /\ captured' = [captured EXCEPT ![t] = limit]
  /\ Goto(t, "matching")
  /\ UNCHANGED <<settings, sup, turn, sharedVars, claimVars>>

\* ... and the wrapper's, which must be the intent's original.
Match(t) ==
  /\ pc[t] = "matching"
  /\ limit = Original
  /\ Goto(t, "ready")
  /\ UNCHANGED <<settings, sup, turn, captured, sharedVars, claimVars>>

\* Up to here, and until the journal exists, a failure or refusal leaves
\* without a power command: at most the limit is looked at once more.  A
\* claim that was begun stays behind.
Leave(t) ==
  /\ pc[t] \in {"checked", "empty", "prepared", "claiming", "claimed", "locked",
                "matching", "ready", "restored"}
  /\ Goto(t, "exited")
  /\ UNCHANGED <<settings, sup, turn, captured, sharedVars, claimVars>>

-----------------------------------------------------------------------------
(***************************************************************************)
(* The cap.                                                                *)
(***************************************************************************)
\* JournaledPowerControl: the approval once more, then create().
CreateJournal(t) ==
  /\ pc[t] = "ready"
  /\ journal[dir[t]] = "absent" /\ Authentic
  /\ journal' = [journal EXCEPT ![dir[t]] = "open"]
  /\ intent' = [intent EXCEPT ![dir[t]] = nonce[t]]
  /\ Goto(t, "journaled")
  /\ UNCHANGED <<settings, sup, turn, captured, limit, contents, claimVars>>

\* The adapter's reading right before its only cap command.
Screen(t) ==
  /\ pc[t] = "journaled"
  /\ \/ limit = captured[t] /\ Goto(t, "screened") /\ UNCHANGED turn
     \/ Goto(t, "untried") /\ turn' = [turn EXCEPT ![t] = "final"]
  /\ UNCHANGED <<settings, sup, captured, sharedVars, claimVars>>

CapWrite(t) ==
  /\ pc[t] = "screened"
  /\ limit' \in {limit, Target[nonce[t]]}
  /\ Goto(t, "written")
  /\ UNCHANGED <<settings, sup, turn, captured, contents, journal, intent, claimVars>>

\* Faulty variant of CapReadback: the limit is not read back.
CapUnread(t) ==
  /\ pc[t] = "written"
  /\ Goto(t, "capped")
  /\ UNCHANGED <<settings, sup, turn, captured, sharedVars, claimVars>>

CapReadback(t) ==
  /\ pc[t] = "written"
  /\ limit = Target[nonce[t]]
  /\ Goto(t, "capped")
  /\ UNCHANGED <<settings, sup, turn, captured, sharedVars, claimVars>>

\* The capped phase is over: the restoration of the try block.
Measured(t) ==
  /\ pc[t] = "capped"
  /\ Goto(t, "restoring")
  /\ UNCHANGED <<settings, sup, turn, captured, sharedVars, claimVars>>

-----------------------------------------------------------------------------
(***************************************************************************)
(* The restorations: one in the try block, one in its finally clause.      *)
(***************************************************************************)
RestoreFails(t, next) ==
  IF turn[t] = "mid"
  THEN Goto(t, "restoring") /\ turn' = [turn EXCEPT ![t] = next]
  ELSE Goto(t, "exited") /\ UNCHANGED turn

\* An exception from the write of the cap to the end of the capped phase.
CapFails(t) ==
  /\ pc[t] \in {"written", "capped"}
  /\ RestoreFails(t, "final")
  /\ UNCHANGED <<settings, sup, captured, sharedVars, claimVars>>

\* A cap that was never tried is not undone, only looked for.
UntriedCheck(t) ==
  /\ pc[t] = "untried"
  /\ \/ limit = captured[t] /\ limit = Original /\ Goto(t, "closing") /\ UNCHANGED turn
     \/ RestoreFails(t, "final")
  /\ UNCHANGED <<settings, sup, captured, sharedVars, claimVars>>

\* The adapter restores nothing but the value it captured.
RestoreWrite(t) ==
  /\ pc[t] = "restoring"
  /\ \/ /\ captured[t] = Original
        /\ limit' \in {limit, Original}
        /\ Goto(t, "rewritten") /\ UNCHANGED turn
     \/ RestoreFails(t, "final") /\ UNCHANGED limit
  /\ UNCHANGED <<settings, sup, captured, contents, journal, intent, claimVars>>

\* Faulty variant of RestoreExact: the command's return code is enough.
RestoreBelieved(t) ==
  /\ pc[t] = "rewritten"
  /\ Goto(t, "closing")
  /\ UNCHANGED <<settings, sup, turn, captured, sharedVars, claimVars>>

RestoreExact(t) ==
  /\ pc[t] = "rewritten"
  /\ \/ limit = Original /\ Goto(t, "closing") /\ UNCHANGED turn
     \/ RestoreFails(t, "final")
  /\ UNCHANGED <<settings, sup, captured, sharedVars, claimVars>>

\* close_restored: an instance whose closure failed once refuses the next.
Close(t) ==
  /\ pc[t] = "closing"
  /\ \/ /\ turn[t] # "barred" /\ journal[dir[t]] = "open"
        /\ journal' = [journal EXCEPT ![dir[t]] = "closed"]
        /\ Goto(t, "restored") /\ UNCHANGED turn
     \/ /\ turn[t] # "barred" /\ journal[dir[t]] = "open"
        /\ \E left \in {"open", "torn", "closed"} :
             journal' = [journal EXCEPT ![dir[t]] = left]
        /\ RestoreFails(t, "barred")
     \/ /\ turn[t] = "barred" \/ journal[dir[t]] # "open"
        /\ RestoreFails(t, "barred") /\ UNCHANGED journal
  /\ UNCHANGED <<settings, sup, captured, limit, contents, intent, claimVars>>

-----------------------------------------------------------------------------
(***************************************************************************)
(* The supervisor, once its own controller's group is gone.  The journal   *)
(* it reads is the directory's, whoever wrote it.                          *)
(***************************************************************************)
\* supervisor-evidence.json is written whatever happened, if it can be.
SupEnds(t) ==
  SupGoto(t, "over") /\ evidence' \in {evidence, evidence \cup {dir[t]}}

ReadJournal(t) ==
  /\ sup[t] = "waiting" /\ pc[t] \in Gone
  /\ \/ journal[dir[t]] = "open" /\ SupGoto(t, "opened") /\ UNCHANGED evidence
     \/ journal[dir[t]] # "open" /\ SupEnds(t)
  /\ UNCHANGED <<settings, pc, turn, captured, limit, samples, journal, intent, claimVars>>

\* The lock, the second reading and the approval of this very intent.
ReconcileLock(t) ==
  /\ sup[t] = "opened"
  /\ ~Locked(dir[t])
  /\ journal[dir[t]] = "open" /\ intent[dir[t]] = nonce[t]
  /\ SupGoto(t, "locked")
  /\ UNCHANGED <<settings, pc, turn, captured, sharedVars, claimVars>>

Observe(t) ==
  /\ sup[t] = "locked"
  /\ SupGoto(t, IF limit = Original THEN "closing" ELSE "restoring")
  /\ UNCHANGED <<settings, pc, turn, captured, sharedVars, claimVars>>

\* OriginalLimitBroker reads the record once more before its command.
Broker(t) ==
  /\ sup[t] = "restoring"
  /\ journal[dir[t]] = "open" /\ Authentic
  /\ limit' \in {limit, Original}
  /\ SupGoto(t, "verifying")
  /\ UNCHANGED <<settings, pc, turn, captured, contents, journal, intent, claimVars>>

Reobserve(t) ==
  /\ sup[t] = "verifying"
  /\ limit = Original
  /\ SupGoto(t, "closing")
  /\ UNCHANGED <<settings, pc, turn, captured, sharedVars, claimVars>>

ReconcileClose(t) ==
  /\ sup[t] = "closing"
  /\ journal[dir[t]] = "open"
  /\ \E left \in {"open", "torn", "closed"} :
       journal' = [journal EXCEPT ![dir[t]] = left]
  /\ SupEnds(t)
  /\ UNCHANGED <<settings, pc, turn, captured, limit, samples, intent, claimVars>>

\* A busy lock, a refusal, an expiry or an error at any point.
SupervisorFails(t) ==
  /\ sup[t] \in {"opened"} \cup Reconciling
  /\ SupEnds(t)
  /\ UNCHANGED <<settings, pc, turn, captured, limit, samples, journal, intent, claimVars>>

\* A separate attended session over the same journal.
AttendedSession(t) ==
  /\ sup[t] = "over" /\ pc[t] \in Gone
  /\ journal[dir[t]] = "open"
  /\ SupGoto(t, "opened")
  /\ UNCHANGED <<settings, pc, turn, captured, sharedVars, claimVars>>

-----------------------------------------------------------------------------
(***************************************************************************)
(* Failures.                                                               *)
(***************************************************************************)
\* SIGKILL, also by the watchdog.
Dies(t) ==
  /\ pc[t] \notin Gone
  /\ Goto(t, "dead")
  /\ UNCHANGED <<settings, sup, turn, captured, sharedVars, claimVars>>

\* PR_SET_PDEATHSIG takes the controller with its supervisor.
SupervisorDies(t) ==
  /\ sup[t] \notin {"idle", "over"}
  /\ SupGoto(t, "over")
  /\ Goto(t, IF pc[t] \in Gone THEN pc[t] ELSE "dead")
  /\ UNCHANGED <<settings, turn, captured, sharedVars, claimVars>>

\* Every process is gone; the driver keeps the limit or starts afresh.  No
\* fsync of the run directory precedes that of the journal's creation, so a
\* `samples' without a journal may be gone too.
PowerLoss ==
  /\ ClaimsLost
  /\ pc' = [t \in Launches |-> IF pc[t] \in Gone THEN pc[t] ELSE "dead"]
  /\ sup' = [t \in Launches |-> IF sup[t] = "idle" THEN "idle" ELSE "over"]
  /\ limit' \in {limit, Original}
  /\ \E lost \in SUBSET {d \in samples : journal[d] = "absent"} : samples' = samples \ lost
  /\ UNCHANGED <<settings, turn, captured, evidence, journal, intent>>

-----------------------------------------------------------------------------
Initialize ==
  (KeyCreated \/ KeyWritten) /\ UNCHANGED <<settings, launchVars, sharedVars>>

Controller(t) ==
  \/ FindEmpty(t) \/ Prepare(t) \/ Claim(t) \/ Claimed(t) \/ AcquireLock(t) \/ Preflight(t)
  \/ Match(t) \/ Leave(t) \/ CreateJournal(t) \/ Screen(t) \/ CapWrite(t)
  \/ CapReadback(t) \/ Measured(t) \/ CapFails(t) \/ UntriedCheck(t)
  \/ RestoreWrite(t) \/ RestoreExact(t) \/ Close(t)

Supervisor(t) ==
  \/ Launch(t) \/ ReadJournal(t) \/ ReconcileLock(t) \/ Observe(t) \/ Broker(t)
  \/ Reobserve(t) \/ ReconcileClose(t) \/ SupervisorFails(t)
  \/ AttendedSession(t)

Next ==
  \/ Initialize
  \/ \E t \in Launches :
       Controller(t) \/ Supervisor(t) \/ Dies(t) \/ SupervisorDies(t)
  \/ PowerLoss

Spec == Init /\ [][Next]_vars

-----------------------------------------------------------------------------
(***************************************************************************)
(* However launches interleave, crash and are replayed, a limit other than *)
(* the original always has an open recovery journal to be undone from.     *)
(***************************************************************************)
OwedRestoration ==
  limit # Original => \E d \in Directories : journal[d] = "open"

(***************************************************************************)
(* One approval, one trial: no race, crash or loss of power lets a nonce   *)
(* be accepted a second time.                                              *)
(***************************************************************************)
SpentOnce == \A n \in Nonces : spent[n] <= 1

(***************************************************************************)
(* "Never overwrite prior evidence": launches into one directory may all   *)
(* find it empty, yet never do two of them run a trial in it at once.      *)
(***************************************************************************)
Begun(t) == pc[t] \in {"prepared", "claiming", "claimed"} \cup Holding
OneTrialPerDirectory ==
  \A t, u \in Launches : t # u /\ dir[t] = dir[u] => ~(Begun(t) /\ Begun(u))

(***************************************************************************)
(* While a trial measures its capped phase nothing of its own directory    *)
(* moves the limit, not even the supervisor of a second launch of the same *)
(* settings, which finds an open journal and its own controller gone.      *)
(* Trials of other directories may, and only they.                         *)
(***************************************************************************)
CapKeptWithinDirectory ==
  \A t \in Launches : pc[t] = "capped" /\ limit # Target[nonce[t]] =>
    \E d \in Directories \ {dir[t]} : journal[d] # "absent"
=============================================================================
