# GridRudder: models, checks and proofs

GridRudder is a supervisory control plane that keeps a GPU cluster inside a
facility's power envelope. Its Python package `gridgpu` (`src/gridgpu`) has two
halves that matter here:

* the **attended power-cap trial**, the only code that changes a real device:
  it lowers the power limit of one GPU, measures work, and must put the original
  limit back whatever fails;
* the **supervised control session**, which turns an operator's power envelope
  into approved, guarded mutations of a simulated cluster.

Around them stand the read-only **qualification** of a host before a trial; the
**simulator** with its rule-based controller, the only full loop from an envelope
to caps in the repository; the **measurement pipeline**, which runs the trial's
work and judges what was measured; the **fault scenarios, trace verifier and
release** that turn the session into evidence for a gate; and the **audit log**
that all of this rests on.

This directory holds TLA+ modules for all of these, the TLC configurations that
check them, and TLAPS proofs of their main safety properties. What could follow
is in section 6, what is left out in section 7.

## 1. Inventory

| Component (`src/gridgpu`) | State it keeps | Operations | Talks to | What is hard | What makes it correct |
|---|---|---|---|---|---|
| `power_adapter` | captured original, `_attempted` | `preflight`, `observe_limit`, `set_limit` | `nvidia-smi` | a command may time out and still act, fail after acting, round its value | one cap attempt; restoration always available; readback within 0.5 W |
| `recovery_journal` | one append-only file, `_closure_uncertain` | `create`, `read`, `close_restored` | file system | torn tail, short write, fsync order, two processes | intent durable before the cap; at most one closure; closure only for the original |
| `supervised_recovery` | `_preflight`, `_cap_started`, `_closed` | wrapper `set_limit`, `reconcile_attended_once` | adapter, journal, lock, approvals | repeated restoration, exact equality against the outer tolerance | closes exactly once, after an exact reading |
| `performance_trial` | `changed`, `trial_error`, `restore_error`, the lock | `run_attended_performance_trial` | all of the above, audit log | every step may raise; restoration in the middle and in `finally` | verdict agrees with the device and the journal |
| `rental_execution` | per-run directory | `run_rental_trial`, `main` | supervisor, workload, archive | process boundaries; several launches on one GPU | drain before control, final reading; one trial per directory |
| `rental_supervisor` | process group, deadline | `PosixBoundedRunner`, `OriginalLimitBroker`, `supervise_attended_controller` | controller process | races of kill, reap, hung commands | reconciles only after the group is gone |
| `local_approval` | key file, nonce claim files | `initialize`, `verify_trial`, `verify_recovery` | file system | exclusive claim, its fsyncs, expiry between steps | a nonce is accepted once |
| `cuda_workload`, `cuda_workload_worker` | the worker process | `start`, `finish`, `abort`, `require_idle` | worker over a pipe | a worker that resists its abort | never two workers |
| `measurement_collection`, `live_measurement`, `workload_benchmark` | one-shot latches | collect, run a phase | workload, meter | a failed phase latches | phases in order, no sample reused |
| `session` | state, approvals, executions, audit list | `propose`, `approve`, `authorize_execution`, `enter_safe_hold`, `begin_recovery`, `complete_recovery`, `reconstruct_for_operator_resume` | supervisor, telemetry | idempotent retries, expiry, restart, calls that raise after the change | no execution without a current approval |
| `supervisor` | cursor | `run_cycle` | session, policy, controller, fault boundaries, audit | a fault between two mutations | fail closed before the mutation |
| `telemetry` | sequence cursors | reconcile, eligibility | meter | duplicates, gaps, epochs | no decision on stale readings |
| `controller`, `policy`, `domain` | none | recommend, validate, guard | session | combinatorial rules | the guard admits only in-envelope actions |
| `simulator` | workloads, two audit logs | `run`: admit, decide, apply, advance | controller, audit log | a row that fails between a change and its outcome; a plan made of one snapshot | every change announced and accounted for; protected work untouched |
| `faults`, `integrated_faults` | injector, lease, one harness per scenario | `LeaseFence`, boundaries, `run_primary_trace` | supervisor | stale leases, faults consumed twice or never | one writer; each scenario leaves the packet its verifier asks for |
| `trace_verifier`, `gates`, `standard_traces` | none | derive facts of a retained packet; verdict | release | lost, repeated, misplaced rows | nothing is proven that the rows do not show |
| `evidence`, `release`, `manifest` | the files of a packet | `run_gate_b_release`, `verify_release_packet` | file system, audit log | two calls in one directory, cut off files, a packet damaged later | what verifies as a GO is whole and proven |
| `qualification*`, `gpu_observer`, `alignment` | readings, pinned digests, the packet | collect, align, `validate_qualification_packet` | `ipmitool`, `nvidia-smi`, wall clock | executables replaced and clocks set back between steps; a packet used later | the cap rests on what is installed and on readings that are fresh, ordered and of the same rounds |
| `hardware_lab` | locals of one call | `run_hardware_trial` | `nvidia-smi` under sudo, audit log | two settings to give back, each step failing on its own | a changed GPU is never reported as safe |
| `audit` | hash chain file | `append`, `records`, `snapshot` | every component | concurrent writers, torn tail, buffered writes that fail, a directory entry nobody syncs | the chain verifies up to every record returned |
| `trial_archive`, `meter`, `nvml`, `adapters`, `reporting`, `benchmarks`, `fault_benchmarks` | little or none | parsing, one exclusive write, experiment drivers, formatting | | | left out, see section 7 |

The web site, the documents and the tools outside `gridgpu` carry no logic of
the control plane and are left aside.

## 2. Modules

```
GpuPowerLimit   RecoveryJournal          the device and the file, as the code meets them
        \        /
       AttendedTrial                     the controller process
             |
       SupervisedTrial  ----refines---->  RestorationContract
             |        \
  MCSupervisedTrial   SupervisedTrialProofs
```

* **`GpuPowerLimit`** is the driver behind `nvidia-smi -pl`. It is not part of
  the repository; what it may do is read off the code that guards against it. A
  command may end with or without effect whatever its return code
  (`CommandEnds`), settle on a value within the readback tolerance (`Settled`),
  or outlive its timeout unreaped (`CommandHangs`) and land later
  (`HungCommandEnds`). Somebody else may change the limit (`Drift`). `writer`
  remembers who put the present limit there.
* **`RecoveryJournal`** is the journal file. `file` is what a reader sees,
  `durable` the set of contents a power loss may leave; every write widens
  `durable` and an fsync narrows it. `create()` is three actions, because a kill
  or a power loss may fall between them; `close_restored()` is two. After
  `create()` the directory entry is certain; after a closure only the file was
  fsynced, which `SyncClosure` keeps track of.
* **`AttendedTrial`** is the controller. `pc` follows `run_rental_trial` and
  `run_attended_performance_trial` through the control stack
  `DrainBeforeControl` / `JournaledPowerControl` / `NvidiaSingleGpuPowerControl`;
  one action is one interaction with the device, the journal, the audit log,
  the approvals or the workload. `set_limit(original)` has two callers, the
  body of the trial and its `finally` clause: `call` says which. Exceptions are
  the operators `Leaves` (before the `try`), `TrialFails` (inside it) and
  `RestoreFails` (inside the restoration). `Dies` is a SIGKILL.
* **`SupervisedTrial`** adds the supervising process: `main`,
  `supervise_attended_controller`, `PosixBoundedRunner`, `OriginalLimitBroker`
  and `reconcile_attended_once`; power losses; and the separate attended session
  an operator may run over a journal left open (`session` counts them, 0 is the
  supervised run).
* **`RestorationContract`** is what the assembly promises about the borrowed
  GPU, without processes, locks or files. `HardwareLab` below implements it too.

| Variable | In the code |
|---|---|
| `captured`, `attempted` | `NvidiaSingleGpuPowerControl._original`, `_attempted` |
| `capStarted`, `closed` | `JournaledPowerControl._cap_started`, `_closed` |
| `uncertain[i]` | `RecoveryJournal._closure_uncertain` of process `i` |
| `changed`, `trialError`, `restoreError`, `original` | locals of `run_attended_performance_trial` |
| `worker` | `FixedCudaWorkload._process` |
| `lock` | the flock of `ExclusiveTrialLock` |
| `nonceUsed`, `expired` | claim file and expiry checked by `LocalApprovalAuthority._verify` |
| `sup` | where `main` is inside `supervise_attended_controller` |

```
ApprovalClaims                           the approval directory
     |
ConcurrentTrials                         several launches, one GPU
     |        \
MCConcurrentTrials   ConcurrentTrialsProofs

PowerAlignment                           GpuPowerLimit   RestorationContract
     |                                           \          / (implements)
Qualification                                     HardwareLab
     |        \                                  /    |
MCQualification \                               /  MCHardwareLab
                 `---- HardwareTrialProofs ----'
```

* **`ApprovalClaims`** is the directory of `LocalApprovalAuthority`: the key,
  created exclusively and then written, and a claim file per nonce, created
  exclusively and then fsynced with its directory. A file that was created and not
  synced survives its process but may go with the power. `spent` is not in the
  code: it counts the verifications that answered True.
* **`ConcurrentTrials`** is any number of launches of `rental_execution.main` over
  one GPU and one approval directory, each with a run directory and a nonce of its
  settings, which launches may share. `pc[t]` and `sup[t]` are the controller and
  the supervisor of launch `t`. That the directory is empty (`FindEmpty`) and that the
  samples directory in it is created (`Prepare`, an exclusive `mkdir`) are two steps, with
  the qualification between them, so several launches may pass the first. A power loss
  may take the samples of a directory without a journal; `create()` syncs the directory.
  The lock is the flock of the run directory
  (`lock_directory=directory` in `run_rental_trial`), so launches of different directories
  do not exclude each other. What `SupervisedTrial` knows of tolerances, hung
  commands and torn records is left out, so is the nonce of a recovery approval.
* **`PowerAlignment`** is `align_power_signals` as operators: the stable sort by
  timestamp (a reading's place is the number of those before it), the check of each
  stream's sequence, the greedy pairing as a loop over the meter readings, coverage,
  and the verdict.
* **`Qualification`** is `collect_read_only_qualification` with both observers,
  query by query, `_write_new`, and `validate_qualification_packet` at its two
  calls. Each call is three steps: the clock and the packet (`Ask`), then one inspection
  of each executable (`Inspect`). The second call lets the trial go on (`cleared`), and the
  power command (`Cap`) comes any time after it, because the verification of the approval,
  the journal with its fsyncs and a query of the GPU lie between.
  The wall clock is `real - back`: it may be set back at any step.
  `Install` replaces an executable by a build never installed before. A reading
  keeps the builds that answered its queries, which the code cannot know.
* **`HardwareLab`** is `run_hardware_trial` over the driver of `GpuPowerLimit` and a
  persistence mode of the same manners.

| Variable | In the code |
|---|---|
| `samples`, `evidence` | the run directories with a samples directory, and those with the files a launch ends with; a directory in neither is empty |
| `journal`, `intent` | the `recovery.jsonl` of a directory and the nonce in it |
| `captured`, `turn` | `_original` of each controller's adapter; which of its restorations it is at |
| `pinned` | `NvidiaPowerObserver._pinned`, `BmcPowerObserver.provenance` |
| `taking` | `collected_at` and `started` of the `collect` in progress |
| `report`, `file` | `ReadOnlyQualificationPacket.alignment`, the packet on disk |
| `trial`, `gate` | how far the gate let a trial come; the `now` and the inspections of its last call |
| `enabling`, `troubled`, `unrestored`, `restored` | `persistence_attempted`, `trial_error`, `restore_error`, `restored` of `run_hardware_trial` |

```
ControlSession   MeterSequence           the session; which meter samples count
   |    \        /
   |  SupervisoryCycle
   |       |        \
   | MCSupervisoryCycle   SupervisoryCycleProofs   (of all three modules)
   |
MCControlSession
```

* **`ControlSession`** is the session of `session.py`: one action per operation
  and outcome. A call that raises without an effect is an action that is not
  enabled. `_emit` comes last and raises on an empty actor or a timestamp without a zone,
  when the session has changed already: `Raise` is that case, of a proposal, of a hold,
  of an authorization that holds, and of a completed recovery. `begin_recovery` cannot
  raise there: its actor is one of the named approvers, and it compares `now` with the
  sample's time before it changes anything. `events` keeps the event of a raising call
  too, marked as not `recorded`, so that properties can speak of what happened and of
  what is on record. The idempotent answers (`ProposeAgain`, `ApproveAgain`,
  `AlreadyAuthorized`) are apart, because each does something else: the first
  two only add an event, the third does nothing at all. Whether the meter is
  eligible is a choice of the environment. `Crash` loses the object, and
  `Reconstruct` builds a new one from `events`, which the caller keeps in the
  audit log, or is disabled where the code raises `HistoryReplayError`.
* **`MeterEligibility`** lists the reasons for which
  `assess_meter_decision_eligibility` turns a snapshot down; `FaultScenarios` uses it.
* **`MeterSequence`** is `SourceSequenceReconciler`. The samples delivered are
  any samples in any order and any number of times. `uses` is not in the code:
  it counts acceptances.
* **`SupervisoryCycle`** is `SupervisoryHarness` over these two. `phase` follows
  `run_cycle`; a crash may fall between any two steps. The planner is any
  function, so a plan is any sequence of caps; `ControllerAccepts` and
  `PolicyAccepts` are the two validators. `failing` is the injected fault of
  `MemoryAuditSink`, the refusals of scheduler and adapter are `BoundaryFault`.
  A planner that raises leaves the cycle as `NothingToDo` does, without effect.
  `SupervisoryCycleProofs` holds the proofs of all three and reuses the invariants of
  the two parts: every step of the cycle is a step of the session, of the reconciler,
  or of neither.

| Variable | In the code |
|---|---|
| `sState`, `proposal`, `approval` | the attributes of `ControlSession`; `sState = "lost"` after a crash |
| `events` | what `_emit` was called with; those `recorded` are the session's `events` |
| `proposals`, `approvals`, `executions` | `_proposals`, `_approvals`, `_executions` |
| `cursor`, `pending`, `retired` | `_cursors`, `_pending_epochs`, `_retired_epochs` |
| `caps` | `Workload.current_cap_watts` |
| `mutated`, `audit` | the lengths of `mutations` and, by kind, of the sink's `records` |
| `recovering` | `AuthorizationContext.recovery` |

```
ClusterSimulation                        AuditLog
   |         \                              |
   |   ClusterSimulationProofs           MCAuditLog
MCClusterSimulation
```

* **`ClusterSimulation`** is `Simulator.run` with `HeuristicController`. The
  second is an unbounded counter in the code and only its remainder by the control
  interval matters (`tick`); each second brings any envelope and any arrivals.
  `pc` and `todo` follow the loops of `run`, `_admit` and the application of a
  plan; every change is three steps (intent row, change, outcome row) because the
  durable log may raise at any row (`RecordFails`), with the row written or not.
  `Reduce` and `Recover` are the bodies of the controller's two loops, which
  `PlanAlong` runs over the workloads in its sort order; `Validated` is `validate()`.
  Watts are integers of any unit; the cooling ratio is in per cent, so power is
  compared in hundredths of the unit. The one division (`LoweredBy`) rounds to the
  unit, where the code's floats round to theirs. In
  `\E plan \in {Recommendation}` the quantifier only names the recommendation.
  The two logs are kept as the state they tell, not as sequences.
* **`AuditLog`** is `AuditLog.append` step by step, for several processes over one
  file: lock, verification of the whole chain, a write into the stream's buffer,
  flush, fsync, unlock, close. A line is two pieces, so a kill or a power loss may
  tear it. The `with` statement closes the stream after `_locked_file` has
  unlocked, and closing writes what a failed flush left behind: `CloseWrites`.
  The first append creates the file, and `audit.py` never fsyncs the directory it is in:
  until the entry gets to disk by itself or by somebody else's fsync
  (`EntryReachesDisk`), a power loss may take the whole file (`FileLost`).
  `late` is not in the code: it remembers that this happened.

| Variable | In the code |
|---|---|
| `floor`, `state`, `cap`, `progress` | `Flexibility.min_power_watts_per_gpu`, and `Workload.state`, `current_cap_watts`, the watt-seconds of `completed_units` |
| `arrived`, `envelope` | `arrival_second <= second`, `envelope_at(second)` |
| `priorCap`, `reason` | `prior_cap` in `run`, `Action.reason` of the last decision |
| `memory`, `durable` | `self.audit`, and `audit_log` |
| `file`, `synced` | the log file, and how much of it the last fsync covers |
| `entry`, `lost` | the file's entry in its directory; not in the code: the returned records that went with the file |
| `buffer`, `record`, `raising` | the open stream, the `record` of `append`, an exception on its way out |

```
MeasurementPipeline        (the detail of AttendedTrial's WorkStarts, WorkEnds)
        |
MeasurementPipelineProofs
```

* **`MeasurementPipeline`** is one call after another of `BenchmarkRunner`, down
  through `CompleteFreshCollector`, `collect`, `LiveReadOnlyCollector` and
  `FixedCudaWorkload` to the worker process. `pc` is where the call stands. The
  caller is anybody: any phase and repetition in any order, and on after an
  exception, because each layer keeps a latch of its own against that. There are
  two clocks; the wall clock may jump. `Drains` is `abort()`, which may fail to reap
  the worker. `submitted` and `broken` are not in the code: how often work was
  submitted for a request, and whether any call has raised.

| Variable | In the code |
|---|---|
| `runnerDown`, `collectorDown`, `liveDown` | `BenchmarkRunner._unavailable`, `CompleteFreshCollector._unavailable`, `LiveReadOnlyCollector._failed` |
| `used` | `CompleteFreshCollector._used` |
| `lastEnd`, `measurements` | `BenchmarkRunner._last_window_end` (0 for `None`), `measurements` |
| `process`, `failed` | `FixedCudaWorkload._process is not None`, `_failed` |
| `worker` | the process itself |
| `before`, `first`, `last` | wall clock at the start of `_collect_once`, first and last meter sample |
| `elapsed`, `utc` | monotonic time since the call, wall clock |

```
MeterEligibility    GateB
        \             |
  FaultScenarios   TraceVerifier
         \          /
        ReleasePacket --- MCReleasePacket
              |
     ReleasePacketProofs
```

* **`FaultScenarios`** drives one `SupervisoryHarness` per fault as
  `run_primary_trace` does; an operator maps a harness to the harness after a call.
  Nothing is left to chance there, so it has no state of its own: its packets are
  the inputs of the release. Evidence texts are the sets of phrases they are made of.
* **`GateB`** is `gates.py` (what each scenario must prove, the verdict) and
  **`TraceVerifier`** the derivation of what a packet's rows and ledgers prove.
* **`ReleasePacket`** is the release: copying and measuring the project files, the
  manifest, the scenarios with their log records, the decision, and
  `verify_release_packet` over what lies in the directory. A call may be killed or
  meet an I/O error at any step, two calls may share a directory, and a retained
  packet may lose or mix up what it holds (`Damage`, at most `MaxDamages`).
  `FileOrder` lists the project files in the order they are discovered, and the
  scenarios go in the order of the code; `step` counts through both. A digest stands
  for what it is a digest of.

| Variable | In the code |
|---|---|
| `pc`, `step` | where a call of `run_gate_b_release` is, and at which file or scenario |
| `seen` | the digests a call measured for its manifest |
| `snapshot`, `manifest`, `raw`, `log`, `decision` | `files/`, `manifest.json`, `raw/`, `release-audit.jsonl`, `gate-b-decision.json` |

## 3. Runs

| Run | Configuration | Question |
|---|---|---|
| `trial_safety` | `TrialSafety.cfg` | are the safety properties and the refinement true under every failure the model knows? |
| `trial_restores` | `TrialRestores.cfg` | does a working supervisor always end and always undo a cap? |
| `concurrent_trials` | `ConcurrentTrials.cfg` | what do several launches, one approval used twice, and deaths of any of them leave behind? |
| `qualification` | `Qualification.cfg` | does a trial that is let through to its cap rest on readings of the inspected executables, of the same rounds, in order and fresh? |
| `hardware_lab` | `HardwareLab.cfg` | does the older trial's log tell the truth, and does it implement the same contract? |
| `session_windows` | `SessionWindows.cfg` | is there an approved, unbroken window behind each authorization, and does the record explain the session, also when calls raise halfway? |
| `cycle_safety` | `CycleSafety.cfg` | do authorizations, audit records and changes agree under faults, retries and crashes? |
| `cycle_safe_hold` | `CycleSafeHold.cfg` | does a held session stop the changes? (violated) |
| `cluster_safety` | `ClusterSafety.cfg` | when may power pass the envelope, does the log tell the caps and admissions, and are caps lifted again? |
| `audit_appends` | `AuditAppends.cfg` | does the chain hold, with every returned record durable, under failures, kills and power losses? |
| `pipeline_calls` | `PipelineCalls.cfg` | do the latches of the layers hold together, whatever is called in whatever order, and is an accepted comparison one that was really run in order? |
| `release_packet` | `ReleasePacket.cfg` | is a packet that verifies as a GO whole and proven, and does what a call leaves verify? |

`trial_safety` checks

* `IntentDurableBeforeCap`: nothing of a cap exists, not even an attempt or a
  command in flight, unless every content a power loss could leave names the
  original limit;
* `ClosedMeansRestored`: as long as nobody else changed the limit and no hung
  command landed late, closure bytes in the file mean the limit is the original
  up to 0.5 W, and a synced closure means it is exactly the original;
* `AuditAgreesWithJournal`: the audit log says `failed_safe` or `completed`
  after an attempted cap only when the journal's closure is durable;
* `DrainedBeforeCommand`: no power command while a worker runs, and no command
  of the broker while anything of the controller is left;
* `SuccessMeansRestored`: `main` ends without error only with the original limit
  in force, or somebody else's, and with no command of the trial pending;
* `ImplementsContract`: every behaviour is one of `RestorationContract`, under
  the mapping at the end of `SupervisedTrial`.

`trial_restores` checks `SupervisorTerminates` and `CapIsUndone`.

`concurrent_trials` checks

* `OwedRestoration`: a limit other than the original has an open journal, in some
  directory, from which it can be undone;
* `SpentOnce`: no race, death or loss of power lets a nonce be accepted twice;
* `OneTrialPerDirectory`: launches into one directory may all find it empty and go on,
  but never do two run a trial in it;
* `CapKeptWithinDirectory`: while a trial measures its capped phase, only trials of
  other directories can have moved the limit.

`qualification` checks

* `ReadersAreNamed`: every query behind a written packet was answered by the build
  the packet names;
* `RoundsPairUp`: an accepted packet took both streams in the order they were read,
  and unless the clock was set back it pairs each meter reading with the GPU reading
  of its own round, although alignment knows timestamps only. With the clock set back
  inside a round that is false, and with a skew of two seconds such a packet can reach
  the cap: alignment promises closeness in wall time and no more;
* `CapRestsOnQualification`: a trial that is let through to its cap was asked a second
  time, and that call found on disk the builds behind every reading and, by its clock,
  no reading too old. It is a statement about the gate's second call. How long after it
  the power command comes, and what is installed in between, the code does not bound
  (section 5).

`hardware_lab` checks

* `VerdictIsTrue`: `failed_safe` and `completed` tell the truth about limit and
  persistence mode, and a call that ended by itself over a changed GPU ended with the
  CRITICAL error;
* `LabImplementsContract`: with the log in the place of the journal it implements
  `RestorationContract` but for the verdict: a timed out command survives its sudo,
  and may put the cap back after the restoration was verified. The contract permits such
  a late landing (`landed`), so the refinement tolerates it and does not catch it.

`session_windows` checks

* `AuthorizedWithinWindow`: before every authorization in the record come a
  proposal and a recorded approval of it by an authorized approver, with no hold,
  recovery or restart since the proposal, recorded or not, and it lies in the proposal's
  lifetime. The approval and the authorization are always on record. The proposal is
  not where the call that made it raised; the first mention of it is then the approval;
* `RecordExplainsSession`: state, current proposal and current approval are at
  any moment those the last recorded events say, except for a part (state, proposal or
  approval) whose last change was made by a call that raised: the record does not tell
  that part until a later recorded change of it (section 5);
* `NothingTwice`: a proposal_id opens one window in the life of the record, an
  execution_id is authorized once between two restarts.

`cycle_safety` checks

* `SampleBehindEveryAuthorization`: never more authorizations than accepted
  samples, and no controller accepts a sample twice;
* `ActsOnRecordedAuthorization`: from authorization to last change the cycle's
  execution_id is on record as authorized for the cycle's proposal, after the
  last restart;
* `AuditAccountsForChanges`: no change without a durable intent, and with a
  working sink every intent has its outcome, save one in progress and one per crash;
* `ChangesStayInPolicy`: a change touches no protected workload, stays above both
  floors and goes in the direction the authorization is for, although the whole
  plan was validated before its first action;
* `SessionSpec`: the harness uses the session through its operations only;
* `OnlyForward`: its meters' numbers grow within an epoch, and an epoch that was left
  is not returned to, whatever is delivered and whichever restart is announced.

`cluster_safety` checks

* `ExcessIsAccountedFor`: after a control step, power above the envelope means that
  every running workload that may be capped is at its floor, or that the step was a
  recovery; that one passes the target by no more than the cooling of what it restored,
  which the controller leaves out (section 5). The instance does reach such an excess;
* `LogExplainsCluster`: the log in memory tells the caps and admissions of the
  cluster, save for the one change between its two rows;
* `CapsAreLifted`: once the envelope stays ample, caps go and stay away.

`audit_appends` checks

* `TornOnlyAtEnd`: whatever is killed or loses power, only the last line is torn;
* `ReturnedStayOnRecord`: a record whose append returned is in the verified part of
  the file from then on, unless a power loss takes the new file whole;
* `ReturnedAreDurable`: whatever a power loss could leave now has it whole, unless that
  is no file at all, which it cannot be once the file's entry is on disk.

`TornOnlyAtEnd` and `ReturnedStayOnRecord` are stated for files without a late
write (section 5); without the exception both are false. So are the last two without
the exception for a lost file.

`pipeline_calls` checks

* `IdleMeansDrained`: a workload without a process has no worker, also after aborts
  that failed, so `require_idle` tells the truth before a change of the limit;
* `SubmittedOnce`: no phase and repetition is submitted twice, and a measurement is
  of submitted work;
* `ComparisonInOrder`: a comparison that `validate_comparison` accepts was run in
  the order of its phases and repetitions, although it sees only stamps of a clock
  that may have jumped;
* `CallsReturn`: every call returns or raises, although the worker may hang.

`release_packet` checks

* `OneCallWrites`: of two calls in one directory one writes what follows the
  manifest, and every record of the log is its own;
* `FinishedReleaseVerifies`: no scenario's packet is turned down by the release's own
  verifier, a call that returns decided GO, and, left alone, its packet verifies;
* `ValidMeansProven`: what verifies as a GO holds every required scenario as it was
  run, each proving all its invariants, and the whole files;
* `IndependentlyRefused`: digests aside, the trace verifier by itself turns down a
  raw file of another scenario, and one with a row of its trace, injections or
  mutations lost, repeated or out of place.

Both of the last are stated with `Contended`, two calls that found the directory
empty. Then a call may return a GO whose packet does not verify, because the other
one writes its files too, and a file the other was still writing may be measured and
verify. Nothing in the documents promises a directory to more than one call. Of the
session's events the verifier does not miss the last: a packet without it still
proves its scenario, which is why `events` are excepted in `IndependentlyRefused`.

Type invariants are not among the runs' properties: those of ten components are
proved, with some substance (`ClusterTypeOK` that every cap is legal and work completes
when it is done, `AuditTypeOK` who holds the lock and what is in whose buffer). The
proofs also establish statements that no run repeats, because only a mutation of what
they restate could violate them: `NeverReplayed`, `FailureIsFinal` (after a call raised
nothing is submitted again), `ProtectedUntouched` (no cap of a protected workload
changes), `ChangesAreAnnounced` (no change without its intent in the durable log).

**Bounds.** Three limits: the original (300.0 W), the cap (200.0 W) and 299.7 W,
which the trial's tolerance accepts and the journal does not; the properties
compare limits only with these. `MaxDrift = 2`: one outside change before and
one after a check. One power loss and one later session: a second of either
starts from a state the first already produces. Under those bounds TLC visits
all 303 924 states. `trial_restores` fixes the limits to two exact values and
switches drift, hangs and failures of the supervisor's own steps off, because
with any of them the property is false for a good reason: an operator must act.

Launches: three, over two directories and two approvals with caps of their own: the
same settings twice, one directory with two approvals, one approval in two
directories, and two unrelated trials beside a third; power losses at any step. All 3.1
million states.
Qualification: three rounds, the fewest the code takes, an interval of one second,
queries that may take as long as the age limit of two, beyond the skew of one; five
seconds in all, so that a packet whose age limit is four expires between admission
and the gate's second call; the clock set back twice, by a second each, which is what it takes to
reverse two readings; one replacement of each executable. 2.4 million states. Lab:
limits of 175 and 150 W found at the start, a cap of 125 W, and values half a watt
lower for the device to settle on; one outside change. 16 thousand states.
Session: two envelopes whose lifetimes overlap, two approvals, eight
events (`MaxEvents`), which is a proposal, approval, authorization, crash,
reconstruction and the whole way over recovery to the second proposal; one crash,
because a record that holds a reconstruction cannot be rebuilt again; one call that
raises halfway (`MaxRaises`), any of those that can: a second one repeats the first on
another part, and the proofs have no such bound. 8.3 million states. Cycle: one
envelope, two execution_ids, four events, one source with two epochs (the first and
the one it restarts into, or returns from) of two numbers, two flexible workloads whose higher
floor is once the declared and once the policy's, a critical one, plans of up to
two actions. Symmetry is over approvals, execution_ids and epochs, which no
definition tells apart. 4.0 million states.

Cluster: a critical workload with and without a floor, a normal one that may be
capped, an opportunistic one of two GPUs with endless work, and one that may only
be deferred, so that every class of the controller's order and every reason to be
protected occurs; three envelopes that admit little, most and everything; a control
interval of two seconds, so that work completes and arrives between decisions. The
reserve is as much as the rounding of one cap can leave (`ReserveCoversRounding`,
which the instance asserts). With a recovery step of 2 W the capped
workloads come back in one step or in two, and can pass the envelope. Audit:
three processes (two could not show a third that comes between a failed flush and
its late write), three records, one power loss, before or after the file's entry is on
disk. Symmetry is over processes. 239 thousand states.

Pipeline: two phases of two repetitions and their warmups, the fewest for which both
orders matter. `Duration` and `Grace` are 1, the tolerances 0, a step takes up to
`MaxDelay = 1` more: a window can be punctual, late but in time, or too late. The
clock jumps once, to any time up to `Horizon = 3`, before which four contiguous
windows fit, so that an accepted comparison is reached.

Release: two calls, two project files, all eighteen fault scenarios that do not run on
the simulated cluster, one damage; more calls or damages repeat what two and one
show. 1.1 million states.

**Fairness.** Only `WF_vars(Supervisor)`: `PosixBoundedRunner` gives every wait
a deadline and the operator is attending. Nothing is assumed of the controller,
the worker or the driver: the watchdog's SIGKILL is always enabled while it
waits. Deadlock is not checked because a trial ends. The session, the meter and
the cycle have no fairness: nothing in the code drives them, and they may stop at
any time, so deadlock is not checked there either. The same goes for the audit log.
The simulator has `WF_vars(Loop)`: `run` is a `for` loop that nothing blocks. Rows
that fail and the choice to end the run are left unfair; an aborted or finished run
has stopped, which is why deadlock is not checked. The pipeline has
`WF_vars(Step)`: commands, sleeps, `communicate` and the stop of the worker all
have a timeout. Its caller, its worker and the clock are unfair; the caller may
stop, so deadlock is not checked. Launches, qualification, release and the lab trial
have no fairness: each is a call that ends or dies, with only safety to check.

## 4. Proofs

`SupervisedTrialProofs` proves, for every set of limits, tolerance and number of
drifts, sessions and power losses, under `LimitAssumption` and
`SupervisionAssumption` alone:

| Theorem | Property |
|---|---|
| `TypeCorrect` | `TypeOK` |
| `CapIsRecorded` | `IntentDurableBeforeCap` |
| `CommandsAreDrained` | `DrainedBeforeCommand` |
| `SuccessIsTrue` | `SuccessMeansRestored` |

None of the three safety properties is inductive. `SafetyInv` adds
`Supervision` (a live controller's supervisor is waiting, so nobody else writes
the journal under it), `WriteAhead` (the chain from the directory fsync over
`capStarted` and `attempted` to the command and whatever of it is in flight) and
`Drained` (idle worker between a gate and its command; nothing of the group left
from the reap to the verdict). It was checked with TLC on the instance of
`trial_safety` first. `TypeCorrect` is proved on its own and then assumed.

The same module then proves what the trial leaves behind and that it implements its
contract:

| Theorem | Property |
|---|---|
| `ClosuresTellTheTruth` | `ClosedMeansRestored` |
| `AuditIsTrue` | `AuditAgreesWithJournal` |
| `TrialImplementsContract` | `ImplementsContract` |

`ClosureInv` adds to `SafetyInv`: `ControllerCloses` and `SupervisorCloses` (who appends
or syncs a closure does so over an open file, and has read the original limit, which then
only an outside change or a hung command moves), `ClosedKept` (the controller's `closed`
is what an fsync made durable), `ClosedMeansRestored` itself and `VerdictKept` (from the
end of the `finally` clause on, a verdict that says restored has a durable closure
behind it). The actions are first classified by their effect (`EffectOfStep`): none, a
move of the journal, a move of the limit, a loss of power. Each kind is then, by one
lemma, a step of `RestorationContract` or a stutter.

`ConcurrentTrialsProofs` proves, for any number of launches, directories, approvals and
power losses, whichever of them share what:

| Theorem | Property |
|---|---|
| `TrialsTypes` | `ConcurrentTypeOK` |
| `RestorationIsOwed` | `OwedRestoration` |
| `ApprovalsAreSpentOnce` | `SpentOnce` |
| `DirectoriesAreExclusive` | `OneTrialPerDirectory` |
| `CapsAreKept` | `CapKeptWithinDirectory` |

`TrialsInv` says that a nonce is spent by the one claimant whose file it is (`ClaimsOK`),
that a directory is in use by the launch that created its samples, alone, whoever else
found it empty (`DirectoriesOK`), that
its flock has one holder (`LocksOK`), at which stages its journal is open (`JournalsOK`),
and that a limit other than the original has an open journal in a directory where nobody
is about to close one (`OwedOK`). `StepOf` lists what a step of one launch may do to all
this; every action is shown to be such a step first.

`AuditLogProofs` proves, for any number of processes, records and power losses:

| Theorem | Property |
|---|---|
| `AuditTypes` | `AuditTypeOK` |
| `OnlyTheEndIsTorn` | `TornOnlyAtEnd` |
| `ReturnedRemain` | `ReturnedStayOnRecord` |
| `ReturnedDurable` | `ReturnedAreDurable` |

`AuditInv` ties each process to the file: `CallsOK` (buffer, record and exception by stage
of the call), `ChainOK` (short of a late write, the file is one chain, the lock holder's
line is the next one, every returned record is in its synced part) and `DurableOK` (late
writes or not, a returned record lies whole in the synced part). The last two are of the
records `Kept`, those that did not go with the whole file; a power loss that takes the file
leaves none of them. Nothing in the code keeps it from doing so, which is why the theorems
carry that exception (section 5).

`SupervisoryCycleProofs` proves, for any session, meters, workloads, floors and plans:

| Theorem | Property |
|---|---|
| `CycleTypesCorrect` | `CycleTypeOK` |
| `ImplementsSession` | `SessionSpec` |
| `CyclesActOnTheRecord` | `ActsOnRecordedAuthorization` |
| `AuditAccounts` | `AuditAccountsForChanges` |
| `PolicyIsKept` | `ChangesStayInPolicy` |
| `MetersOnlyAdvance` | `OnlyForward` |
| `SamplesPayForAuthorizations` | `SampleBehindEveryAuthorization` |

`SessionInv` and the meter's `SequenceInv` are not proved again: every step of the cycle
is a step of the session or leaves it alone (`SessionStepOfCycle`), and the same of the
reconciler (`SequenceStepOfCycle`). `CycleInv` adds that a cycle in progress has its
identities and a live controller (`CycleOpen`), that every execution_id the session
remembers was authorized by this controller, on record (`ExecutionsRecorded`), that the
rest of a plan is still valid and names no workload twice (`PlanLeft`), and the balance of
intents, outcomes and changes by phase (`Counts`). The samples need one thing more,
`SamplesCover`: the controller's own authorizations, and one if the cycle has metered and
not yet authorized, are never more than the samples it used. It is kept because a sample
accepted in a cycle was not used before (that is where `SequenceInv` comes in), and
because a successor after a crash starts with neither.

Of the reconciler alone, for any sources, epochs and sequence numbers, the module proves

| Theorem | Property |
|---|---|
| `SamplesNeverReplayed` | `NeverReplayed` |
| `SourcesOnlyAdvance` | `OnlyForward` |

`SequenceInv` says where the used samples are: of a retired epoch, or of the
current one and not ahead of the cursor. The current and the pending epoch are
not retired; that is what makes a used sample unacceptable for good. TLC meets this
module inside the cycle.

Of the session alone it proves, for any identities and lifetimes (under
`LifetimeAssumption` and `NoOneAssumption`) and any number of events and crashes:

| Theorem | Property |
|---|---|
| `SessionTypeCorrect` | `SessionTypeOK` |
| `WindowsAreUnbroken` | `AuthorizedWithinWindow` |
| `NothingHappensTwice` | `NothingTwice` |
| `RecordIsComplete` | `RecordExplainsSession` |

The properties are about the record alone. `SessionInv` adds how the session's
state points into it: `WindowOpen` (supervised means that the current proposal's
event is followed by no interruption, and a current approval is the one
recorded after it), `ProposalsKnown` (`_proposals` covers every proposal made),
`ExecutionsKnown` (an execution_id on record is remembered, or a restart
followed), and two parts on the calls that raise halfway: `CallsRecorded` (approvals,
authorizations and the start of a recovery are always on record) and `OneWindow` (as
long as no recovery has started, one proposal at most was made, recorded or not). The two
are what a restart needs: a record that can be rebuilt shows one proposal and no recovery,
so no proposal is missing from it, and its id alone need be remembered. Each action adds at most one
event, so the proof has one lemma on what an added event keeps of each statement, recorded or not, and then goes action by
action. `RecordIsComplete` has an invariant of its own,
`LastsAreEvents`, and a lemma on what a record that `Reconstruct` accepts looks like
(`ReplayedRecord`): one proposal, one approval of it, authorizations.

`ClusterSimulationProofs` proves, for any workloads, floors, envelopes and watts
(under `ClusterAssumption`):

| Theorem | Property |
|---|---|
| `ClusterTypeCorrect` | `ClusterTypeOK` |
| `ProtectedSafe` | `ProtectedUntouched` |
| `LogExplains` | `LogExplainsCluster` |
| `AnnouncedFirst` | `ChangesAreAnnounced` |
| `ExcessAccounted` | `ExcessIsAccountedFor`, if `ReserveCoversRounding` |

`ClusterInv` adds to the types that the rest of a plan being carried out is legal and
names no protected workload (`PlanOK`); that the cap to return to
and the intent in memory belong to the action in hand (`MemoryOK`); and that the
durable log is at least as far as memory (`DurableOK`). Nothing is used of
`Recommendation` but that `Validated` was asked about it: whatever a planner
recommends, the first four properties hold. TLC checked `ClusterInv` first.

`ExcessAccounted` is about what `Recommendation` computes. A loop is a recursive function
over its turns: that it exists is one lemma (`LoopRuns`, by the least turn it would not
have), and what holds before it and is kept by a turn holds after it (`LoopKeeps`). Over a
reduction `ReducedSoFar` is kept: as long as some excess is left it is exactly what the plan
does not save yet, and the candidates so far are at their floors; when none is left, the
plan falls short by less than the rounding of its last cap. Over a recovery `RaisedSoFar`
is kept: the headroom left and the power given back, before cooling, add up. Either bounds
the power the whole plan leads to (`After`), and `PlanAccounts` carries that through the
application: an action that was applied and the rest of the plan lead to the same.
`ReserveCoversRounding` says that the reserve is no less than one unit of power per GPU
of any workload. The default reserve is 100 W and the unit may be as fine as one likes;
without it, with a reserve of 0, the rounding of a cap, or of a float, can leave the
power above the envelope by that much although capacity to reduce is left.

`MeasurementPipelineProofs` proves, for any number of phases and repetitions, any
durations, tolerances and delays, and any number of jumps of the clock (under
`PipelineAssumption`):

| Theorem | Property |
|---|---|
| `PipelineTypeCorrect` | `PipelineTypeOK` |
| `DrainIsTrue` | `IdleMeansDrained` |
| `FailuresAreFinal` | `FailureIsFinal` |
| `SubmissionsAreUnique` | `SubmittedOnce` |
| `ComparisonsAreInOrder` | `ComparisonInOrder` |

`PipelineInv` adds `InCall` (a call has a request and has latched the runner),
`Latched` (after a call that raised, the workload is failed, or the runner is down and
no call is under way), `Booked` (what was submitted is used up, the request in hand not
yet submitted before `Start` and submitted but not measured after it) and `Chronicle`
(the windows follow each other as they were appended and end by `lastEnd`). From
`Chronicle` the order of an accepted comparison follows without looking at the
clock: an earlier entry of a later phase would have to start after it had ended.

`HardwareTrialProofs` proves of the lab trial, for any limits, target and outside changes,
and of a qualification, for any builds, any number of rounds and any clock:

| Theorem | Property |
|---|---|
| `LabTypes` | `LabTypeOK` |
| `LabVerdictIsTrue` | `VerdictIsTrue` |
| `LabKeepsContract` | `LabImplementsContract`, if `TargetStandsApart` |
| `QualificationTypes` | `QualificationTypeOK` |
| `ReadersNamed` | `ReadersAreNamed` |
| `CapRests` | `CapRestsOnQualification`, at the gate's second call |
| `RoundsArePaired` | `RoundsPairUp`, if `NobodyStaysAlone` |

`LabInv` adds to the types of the trial what its log and its locals tell of the two
settings at each stage (`Told`), that the target lies below the limit captured (`Lowers`),
that before the first command, and after a refusal, both settings are as found
(`NotTouchedYet`), that after `restored` was set they are as found again unless somebody
else or a late command changed them (`RestoredIsSeen`), and that a cap in force is within
the tolerance of the target (`CapIsNear`). `TargetStandsApart` says that a target below a
limit is below it by more than twice the readback tolerance, which is by more than one watt.
The code does not check this. With a target nearer than that a readback of one may pass for
the other (section 5), and the theorem says nothing of such a trial; `VerdictIsTrue` needs no such
condition, only its own exception.

For the gate, `GateInv` says that once its first call went through, the packet is whole and
nobody is collecting, every reading was fresh at the clock the last call read
(`GateIsTrue`), and each executable it has inspected was the pinned build; `CapRests`
follows with what `QualificationInv` says of the pinned builds.

`QualificationInv` follows the builds: the pinned one is no later than the installed one
(`PinnedIsPast`), what answered the queries of the reading in progress lies between the two
(`ReadingInProgress`), and since the last inspection of a reading finds these equal, both
streams were answered by the pinned builds alone (`StreamsAreNamed`); an accepted report is
of streams in order (`ReportIsOfStreams`). `RoundsInv` follows the clocks: readings are counted by rounds
(`RoundsCounted`), lie in the time of their rounds unless the clock was set back
(`RoundsInTime`), and the report is what the alignment said of them (`ReportAsAligned`).
That an accepted alignment pairs the rounds is a lemma about `PowerAlignment` alone, on
streams in time order: the k-th turn of the pairing loop finds the first k - 1 readings of
the GPU used or passed, and takes the one of its own round, since another would leave
somebody alone and cost the coverage. `NobodyStaysAlone` says that the coverage demanded is
of more than all readings but one; with the 0.9 of the command line this is so below ten
rounds. The instances for TLC assert both conditions.

`ReleasePacketProofs` proves, for any number of calls, project files and damages:

| Theorem | Property |
|---|---|
| `ReleaseTypes` | `ReleaseTypeOK` |
| `OneCallWritesAlone` | `OneCallWrites` |
| `ValidIsProven` | `ValidMeansProven` |
| `FinishedVerifies` | `FinishedReleaseVerifies`, if `ScenariosProven` |
| `AlteredAreRefused` | `IndependentlyRefused`, if `Producible` |

`ReleaseInv` says that nothing is damaged while a call is at work (`RestWhenDamaged`), that a
directory is empty before the first call (`EmptyAtFirst`), that one call at most is past the
manifest (`OneWriter`), that the log is a beginning of the scenarios in their order, one
record each, all of the writer (`LogInOrder`, `LogOfCall`), and that until a damage the raw
files, the decision and the copies are those of the call that wrote them (`RawOfCall`,
`DecisionOfCall`, `CopiesWhole`). From this the verifier's checks are enough for
`ValidMeansProven`. `ScenariosProven` and `Producible` are facts about the eighteen packets
that `FaultScenarios` computes: that each is accepted by the verifier, and that together
they decide GO. They are constants, and the run `release_packet` shows them: a call over
packets that are not `Producible` raises, and one whose results are no GO returns NO-GO, which
`FinishedReleaseVerifies` excludes.

Model-checked only: the liveness properties `SupervisorTerminates`, `CapIsUndone`,
`CapsAreLifted` and `CallsReturn`, because liveness and `ENABLED` are out of the prover's
reach; and what the scenarios of `FaultScenarios` compute. Every invariant, step property
and refinement that a passing run checks is proved. Induction over data is where the prover
is weakest: its induction rules take an operator for a parameter, so the proofs argue with
sets and a least counterexample instead (`LoopKeeps`), over recursive functions and never
over recursive operators.

## 5. Findings

One run shows a disagreement of code and documents:

* **A retried cycle changes caps in SAFE_HOLD** (`cycle_safe_hold`,
  `NoChangeInSafeHold`). `authorize_execution` answers a known execution_id with
  the earlier event before it looks at state, expiry or meter (`session.py:381`),
  and `run_cycle` (`supervisor.py:141`) takes that event for leave to plan and
  act. `docs/council-power-controls.md:41`: "`SAFE_HOLD`: stop issuing new
  workload changes".
What is true of cycles nevertheless is in `cycle_safety`: such a change still has its
intent on record, its authorization by the same controller, and stays in policy.

Other things met on the way, which the properties state with an exception or a condition:

* *Recovery can exceed the envelope.* The controller's loop compares a restored cap's
  watts of IT power with the facility's headroom (`controller.py:67`) and leaves out the
  cooling they cause. With the default parameters: eight opportunistic workloads of eight
  GPUs at 350 W (floor 180 W), and envelopes of 60000, 16000 and then 18900 W, end in
  18908 W, and the row on the shortfall blames
  `protected_or_non_flexible_load_prevents_compliance`. `ExcessIsAccountedFor` bounds the
  excess; without its case for recovery it is false in `cluster_safety`.
* *A cap of 0 W is never lifted.* A floor of 0 is legal, and the recovery passes over a
  cap of 0 as if there were none (`controller.py:60`). `CapsAreLifted` is checked with
  floors of at least 1.
* *A failed append may be written after its unlock.* `_locked_file` unlocks while the
  stream is open (`audit.py:91`); when `flush` raised, say on a full disk, the close that
  follows tries again, without the lock. If another process appended in between, its
  returned record stands before a line with the same number, and the next verification
  reports an invalid sequence. The docstring (`audit.py:80`) promises to exclude
  cooperating writers. Two processes and four records show it.
* *A restarted controller can rebuild its session from an undisturbed record only.*
  `reconstruct_for_operator_resume` (`session.py:253`) raises for every event but one
  proposal, one approval of it and authorizations. After one hold, one retried proposal or
  approval, one completed recovery or one earlier reconstruction the history is refused.
  Safety does not suffer; the operator starts from nothing.
* *The lock of a trial lies in its run directory* (`rental_execution.py:166`), while
  `docs/engineering-safety-retrospective-2026-09-12.md:32` speaks of one writer. Launches
  into two directories do not exclude each other; `CapKeptWithinDirectory` says what is
  left.
* *Two releases into one directory* that both found it empty write each other's files: one
  may return a GO whose packet does not verify. No packet verifies as a GO without the
  scenarios behind it.
* *The trace verifier does not miss a session's last event.* A packet without it still
  proves its scenario.
* *A failing audit append removes its raw file* although its record may be in the log
  (`evidence.py:270`); the packet does not verify either way.
* *A session event can be missing from the record.* `_emit` (`session.py:279-284`) checks
  the actor and the timestamp, and `propose` (302), `_safe_hold` (436) and
  `complete_recovery` (481) call it when they have changed the session. A proposal with an
  empty actor raises, and yet the session is supervised: an approval and authorizations
  may follow, with no proposal before them on record, and the controller cannot rebuild
  such a session. A hold with an empty actor raises, and yet holds; a recovery completed
  with a `now` without a zone raises, and yet is completed. Approval and
  authorization are unaffected, so nobody is authorized who was not approved on record;
  `RecordExplainsSession` excepts just the part of the session that such a call changed.
* *A new audit log may vanish.* `audit.py` creates the file (82) and fsyncs it (218), but
  never its directory. Until the entry reaches the disk a power loss may take the file with
  records whose append had returned, although the docstring (`audit.py:184`) promises to
  append "one durable record". `verify()` does not notice: a file that is not there is a
  valid log of no records. The recovery journal and the approval claims do sync their
  directories.
* *Qualification.* A clock set back within a round pairs readings across rounds; an
  executable replaced after the inspection before a query and put back before the next is
  not noticed. The gate is asked before the approval is verified again, the journal written
  and fsynced and the GPU queried, so at the power command itself (`power_adapter.py:136`)
  readings may be past their age limit and an executable replaced since.
* *The lab trial.* A timed out command survives its sudo and may land after the
  verification; and a target less than half a watt below the current limit passes every
  readback, whether or not anything happened. Up to one watt below, where the device
  settles on values half a watt off, one readback can pass for both.

## 6. Plan

Done, in this order: the attended trial and its supervisor; session, meter sequence and
supervisory cycle; the simulated cluster; the audit log; the measurement pipeline;
concurrent launches over shared directories and approvals; fault scenarios, trace verifier
and release; qualification and alignment; the lab trial. What could follow, in order of
weight:

1. The recovery approval's nonce in `ConcurrentTrials`, and the liveness of several
   launches: that an owed restoration can always be made.
2. The three Gate B scenarios that run on the simulated cluster, as a composition of
   `ClusterSimulation` and `TraceVerifier`.
3. An abstract specification of the audit log (a sequence of records that only grows and
   survives), which `AuditLog` implements short of a late write, and under which the other
   components could be stated.

## 7. Not modelled

* Parsing and formatting: the CSV of `nvidia-smi`, recipes, JSON, hashes and
  signatures. Where a failure of these matters it is a branch that may be taken;
  hashes and signatures are taken to be sound.
* Arithmetic of measurements (the energy and the statistics of `_measure`,
  `benchmarks`, the calibrated overhead of `alignment`): results, not control; the checks of the window are in
  `SoundWindow`. Of the samples only the first and the last are kept, and branches
  for failed jobs are left out, because `FixedCudaWorkload` never returns one.
* Within the modelled components: the selector loop and output bound of
  `PosixBoundedRunner` (one failure branch), the chunk protocol of the CUDA worker,
  tenant, operator and duration checks of the policy guard, deferral (which the
  controller's own validation never lets through).
* The simulator's meters, dashboards and summaries; in the audit log the snapshot
  and signature functions, and the in-process lock (threads of one process count as
  one). A hash stands for the record it is made of.
* In `ConcurrentTrials` the tolerances, hung commands and torn records, which
  `SupervisedTrial` has, and the nonce of a recovery approval.
* In the gate of `Qualification` the checks of schema, digest, host and policy scope,
  which only a packet altered by hand fails; and a build that comes back.
* In the release the three scenarios of the simulated cluster, which go through
  `ClusterSimulation` and not through a harness; the wording of the packet.
* Time within a step: clocks move between steps, and within a cycle not at all,
  because `run_cycle` is given its `now`.
* `trial_archive` (one exclusive write of finished files), `meter`, `nvml`, `adapters`
  (parsing), `reporting`, the command line, `benchmarks`, `fault_benchmarks` (experiments
  over the components above): no state of their own to lose.
