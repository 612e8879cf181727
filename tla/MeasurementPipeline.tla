------------------------ MODULE MeasurementPipeline ------------------------
(***************************************************************************)
(* The measured work of a trial: BenchmarkRunner (workload_benchmark.py)   *)
(* calls CompleteFreshCollector (measurement_collection.py), which calls,  *)
(* through collect() of rental_execution.py, LiveReadOnlyCollector         *)
(* (live_measurement.py), which runs one FixedCudaWorkload                 *)
(* (cuda_workload.py) between a first and a last meter sample.  The caller *)
(* asks for any phase and repetition in any order and goes on after an     *)
(* exception; each layer has its own latch against that.                   *)
(*                                                                         *)
(* elapsed is the monotonic time since the call, utc the wall clock, which *)
(* may jump.  Of the samples the first, taken when the call begins, and    *)
(* the last are kept; whatever delays a step before the last sample is     *)
(* part of its own delay.  The worker reports a window as a whole:         *)
(* FixedCudaWorkload returns no failed job.                                *)
(***************************************************************************)
EXTENDS Integers, Sequences, FiniteSets

CONSTANTS PhaseCount,        \* baseline, capped, restored
          Repetitions,       \* PerformanceTrialConfig.repetitions
          Duration,          \* sample_seconds and warmup_seconds
          Grace,             \* completion_grace_seconds
          Tolerance,         \* clock_tolerance_seconds
          DurationTolerance, \* of _measure
          MaxDelay,          \* bound on the time a step takes
          MaxJumps,          \* bound on jumps of the wall clock
          Horizon            \* bound on the wall clock when a call begins

ASSUME PipelineAssumption ==
    /\ PhaseCount \in Nat \ {0} /\ Repetitions \in Nat \ {0}
    /\ {Duration, Grace, Tolerance, DurationTolerance, MaxDelay, MaxJumps, Horizon} \subseteq Nat

VARIABLES pc,           \* where the call under way is, or "idle"
          request,      \* its phase and repetition
          elapsed, utc, \* the two clocks
          jumps,        \* jumps of the wall clock so far
          before,       \* utc at the beginning of the call
          first, last,  \* the first and the last sample
          runnerDown,   \* BenchmarkRunner._unavailable
          collectorDown, \* CompleteFreshCollector._unavailable
          liveDown,     \* LiveReadOnlyCollector._failed
          used,         \* CompleteFreshCollector._used
          lastEnd,      \* BenchmarkRunner._last_window_end, 0 for None
          measurements, \* BenchmarkRunner.measurements
          process,      \* FixedCudaWorkload._process is not None
          failed,       \* FixedCudaWorkload._failed
          worker,       \* the worker process itself
          submitted,    \* how often a request's jobs were submitted
          broken        \* a call raised, or the caller gave up

clocks == <<elapsed, utc, jumps>>
window == <<before, first, last>>
latches == <<runnerDown, collectorDown, liveDown>>
evidence == <<lastEnd, measurements>>
workload == <<process, failed, worker>>
vars == <<pc, request, clocks, window, latches, used, evidence, workload, submitted, broken>>

Warmup == -1
Requests == [phase : 1 .. PhaseCount, repetition : Warmup .. Repetitions - 1]
Measured == {q \in Requests : q.repetition # Warmup}
NoRequest == [phase |-> 0, repetition |-> Warmup]
NoSample == [elapsed |-> 0, utc |-> 0]
Samples == [elapsed : Nat, utc : Nat]
Deadline == Duration + Grace

Latest(a, b) == IF a >= b THEN a ELSE b
Distance(a, b) == IF a >= b THEN a - b ELSE b - a
Delays == 0 .. MaxDelay

Init ==
    /\ pc = "idle" /\ request = NoRequest
    /\ elapsed = 0 /\ utc = 0 /\ jumps = 0
    /\ before = 0 /\ first = NoSample /\ last = NoSample
    /\ runnerDown = FALSE /\ collectorDown = FALSE /\ liveDown = FALSE
    /\ used = {}
    /\ lastEnd = 0 /\ measurements = <<>>
    /\ process = FALSE /\ failed = FALSE /\ worker = "none"
    /\ submitted = [q \in Requests |-> 0]
    /\ broken = FALSE

-----------------------------------------------------------------------------
(* Ways out of a step.                                                     *)

Passes(d) == elapsed' = elapsed + d /\ utc' = utc + d /\ UNCHANGED jumps

\* The call is over; nothing of its locals is left.
Leaves ==
    /\ pc' = "idle" /\ request' = NoRequest
    /\ elapsed' = 0 /\ UNCHANGED <<utc, jumps>>
    /\ before' = 0 /\ first' = NoSample /\ last' = NoSample

\* An exception leaves the runner, which has latched itself before the call.
Raises == Leaves /\ broken' = TRUE /\ UNCHANGED runnerDown

\* An exception leaves LiveReadOnlyCollector and reaches collect().
LiveRaises ==
    /\ liveDown' = TRUE
    /\ pc' = "collect_abort"
    /\ UNCHANGED <<request, window, runnerDown, collectorDown, used, evidence, submitted, broken>>

\* Faulty variant of Drains: the reference is dropped before the worker stops.
DrainsForgetful ==
    /\ failed' = TRUE /\ process' = FALSE
    /\ worker' \in {"none"} \cup (IF worker = "running" THEN {"running"} ELSE {})

\* FixedCudaWorkload.abort: stop_worker reaps the worker, or raises because a
\* running one survived SIGTERM and SIGKILL.
Drains ==
    /\ failed' = TRUE
    /\ \/ process' = FALSE /\ worker' = IF process THEN "none" ELSE worker
       \/ process /\ worker = "running" /\ UNCHANGED <<process, worker>>

-----------------------------------------------------------------------------
(* One call of the runner.                                                 *)

Call(q) ==
    /\ pc = "idle" /\ ~runnerDown /\ utc <= Horizon
    /\ runnerDown' = TRUE
    /\ request' = q
    /\ pc' = "accept"
    /\ UNCHANGED <<clocks, window, collectorDown, liveDown, used, evidence, workload, submitted, broken>>

HasMeasured == \E i \in DOMAIN measurements : measurements[i].request = request

\* Faulty variant of Accept: _used is not kept.
AcceptAnew ==
    /\ pc = "accept" /\ ~HasMeasured /\ ~collectorDown
    /\ collectorDown' = TRUE
    /\ used' = {request}
    /\ before' = utc
    /\ pc' = "first_sample"
    /\ UNCHANGED <<request, clocks, first, last, runnerDown, liveDown, evidence, workload, submitted, broken>>

\* The collector latches itself and consumes the request before it collects.
Accept ==
    /\ pc = "accept" /\ ~HasMeasured /\ ~collectorDown /\ request \notin used
    /\ collectorDown' = TRUE
    /\ used' = used \cup {request}
    /\ before' = utc
    /\ pc' = "first_sample"
    /\ UNCHANGED <<request, clocks, first, last, runnerDown, liveDown, evidence, workload, submitted, broken>>

\* A duplicate measurement, or a collector that is down or has seen the request.
Refuse ==
    /\ pc = "accept" /\ (HasMeasured \/ collectorDown \/ request \in used)
    /\ collectorDown' = (collectorDown \/ ~HasMeasured)
    /\ Raises
    /\ UNCHANGED <<liveDown, used, evidence, workload, submitted>>

FirstSample ==
    /\ pc = "first_sample" /\ ~liveDown
    /\ first' = [elapsed |-> elapsed, utc |-> utc]
    /\ pc' = "start"
    /\ UNCHANGED <<request, clocks, before, last, latches, used, evidence, workload, submitted, broken>>

\* A command fails or takes too long, a reading is malformed, or the collector
\* is down.  Samples in between may fail like the last.
SampleFails ==
    /\ pc \in {"first_sample", "last_sample"}
    /\ LiveRaises
    /\ UNCHANGED <<clocks, workload>>

Start ==
    /\ pc = "start" /\ ~failed /\ ~process /\ elapsed < Deadline
    /\ process' = TRUE /\ worker' = "running"
    /\ submitted' = [submitted EXCEPT ![request] = @ + 1]
    /\ pc' = "last_sample"
    /\ UNCHANGED <<request, clocks, window, latches, used, evidence, failed, broken>>

\* The workload is active or failed, its artifact changed, the deadline passed
\* or the process could not be started.
StartFails ==
    /\ pc = "start"
    /\ failed' \in {failed, TRUE}
    /\ LiveRaises
    /\ UNCHANGED <<clocks, process, worker>>

LastSample ==
    /\ pc = "last_sample"
    /\ \E d \in Delays :
          /\ Passes(Duration + d)
          /\ last' = [elapsed |-> elapsed + Duration + d, utc |-> utc + Duration + d]
    /\ pc' = "finish"
    /\ UNCHANGED <<request, before, first, latches, used, evidence, workload, submitted, broken>>

\* Every job is verified and inside the window, the worker has exited.
Finish ==
    /\ pc = "finish" /\ worker = "done"
    /\ \E d \in Delays : elapsed + d <= Deadline /\ Passes(d)
    /\ process' = FALSE /\ worker' = "none"
    /\ pc' = "fresh"
    /\ UNCHANGED <<request, window, latches, used, evidence, failed, submitted, broken>>

\* Faulty variant of FinishFails: communicate waits without a timeout.
FinishFailsLate ==
    /\ pc = "finish" /\ worker # "running"
    /\ Passes(0)
    /\ pc' = "finish_abort"
    /\ UNCHANGED <<request, window, latches, used, evidence, workload, submitted, broken>>

\* The deadline passes, the worker fails or its answer is refused.
FinishFails ==
    /\ pc = "finish"
    /\ Passes(IF worker = "running" THEN Latest(elapsed, Deadline) - elapsed ELSE 0)
    /\ pc' = "finish_abort"
    /\ UNCHANGED <<request, window, latches, used, evidence, workload, submitted, broken>>

\* finish() aborts, and raises either way.
FinishAborts ==
    /\ pc = "finish_abort"
    /\ Drains
    /\ LiveRaises
    /\ UNCHANGED clocks

\* collect() aborts whatever LiveReadOnlyCollector raised, and raises.
CollectAborts ==
    /\ pc = "collect_abort"
    /\ Drains
    /\ Raises
    /\ UNCHANGED <<collectorDown, liveDown, used, evidence, submitted>>

\* _collect_once after the collector returned.
FreshWindow ==
    /\ utc >= before /\ Distance(utc - before, elapsed) <= Tolerance
    /\ elapsed <= Deadline /\ elapsed + Tolerance >= Duration
    /\ \A s \in {first, last} : s.utc >= before - Tolerance /\ s.utc <= utc + Tolerance
    /\ first.utc - before <= Grace + Tolerance
    /\ utc - last.utc <= Grace + Tolerance

Fresh ==
    /\ pc = "fresh" /\ FreshWindow
    /\ collectorDown' = FALSE
    /\ pc' = "measure"
    /\ UNCHANGED <<request, clocks, window, runnerDown, liveDown, used, evidence, workload, submitted, broken>>

NotFresh ==
    /\ pc = "fresh" /\ ~FreshWindow
    /\ Raises
    /\ UNCHANGED <<collectorDown, liveDown, used, evidence, workload, submitted>>

\* measure_window and _measure: strictly increasing stamps that agree with the
\* elapsed times, over the authorized duration.
SoundWindow ==
    /\ first.utc < last.utc
    /\ last.utc - first.utc = last.elapsed - first.elapsed
    /\ Distance(last.elapsed - first.elapsed, Duration) <= DurationTolerance

\* Faulty variant of Measure: the end of the window before is not looked at.
MeasureAnyTime ==
    /\ pc = "measure" /\ SoundWindow
    /\ lastEnd' = last.utc
    /\ measurements' =
          IF request \in Measured
          THEN Append(measurements, [request |-> request, start |-> first.utc, end |-> last.utc])
          ELSE measurements
    /\ runnerDown' = FALSE
    /\ Leaves
    /\ UNCHANGED <<collectorDown, liveDown, used, workload, submitted, broken>>

Measure ==
    /\ pc = "measure" /\ SoundWindow /\ first.utc >= lastEnd
    /\ lastEnd' = last.utc
    /\ measurements' =
          IF request \in Measured
          THEN Append(measurements, [request |-> request, start |-> first.utc, end |-> last.utc])
          ELSE measurements
    /\ runnerDown' = FALSE
    /\ Leaves
    /\ UNCHANGED <<collectorDown, liveDown, used, workload, submitted, broken>>

\* One of these checks or one of the readings' values, identities or energy.
MeasureRejects ==
    /\ pc = "measure"
    /\ Raises
    /\ UNCHANGED <<collectorDown, liveDown, used, evidence, workload, submitted>>

-----------------------------------------------------------------------------
(* The caller and the environment.                                         *)

\* run_rental_trial's finally clause.
GivesUp ==
    /\ pc = "idle" /\ (process \/ ~failed)
    /\ Drains
    /\ broken' = TRUE
    /\ UNCHANGED <<pc, request, clocks, window, latches, used, evidence, submitted>>

WorkerEnds ==
    /\ worker = "running"
    /\ worker' \in {"done", "failed"}
    /\ UNCHANGED <<pc, request, clocks, window, latches, used, evidence, process, failed, submitted, broken>>

\* The wall clock is set, or time passes between two calls.  After the last
\* call, the clock matters to no one.
Jump ==
    /\ jumps < MaxJumps /\ (pc # "idle" \/ ~runnerDown)
    /\ jumps' = jumps + 1
    /\ utc' \in 0 .. Horizon
    /\ UNCHANGED <<pc, request, elapsed, window, latches, used, evidence, workload, submitted, broken>>

Step ==
    \/ Accept \/ Refuse
    \/ FirstSample \/ SampleFails \/ Start \/ StartFails \/ LastSample
    \/ Finish \/ FinishFails \/ FinishAborts \/ CollectAborts
    \/ Fresh \/ NotFresh \/ Measure \/ MeasureRejects

Next == Step \/ (\E q \in Requests : Call(q)) \/ GivesUp \/ WorkerEnds \/ Jump

\* Every wait of a call has a timeout: commands, sleep, communicate and stop.
Spec == Init /\ [][Next]_vars /\ WF_vars(Step)

-----------------------------------------------------------------------------
(* Properties.                                                             *)

Stages == {"idle", "accept", "first_sample", "start", "last_sample", "finish",
           "finish_abort", "collect_abort", "fresh", "measure"}

\* The types; a worker is referenced only from its submission to the end of
\* finish(), unless an abort could not reap it (cuda_workload.py:120-199).
PipelineTypeOK ==
    /\ pc \in Stages /\ request \in Requests \cup {NoRequest}
    /\ elapsed \in Nat /\ utc \in Nat /\ jumps \in 0 .. MaxJumps
    /\ before \in Nat /\ first \in Samples /\ last \in Samples
    /\ runnerDown \in BOOLEAN /\ collectorDown \in BOOLEAN /\ liveDown \in BOOLEAN
    /\ used \subseteq Requests /\ lastEnd \in Nat
    /\ measurements \in Seq([request : Measured, start : Nat, end : Nat])
    /\ process \in BOOLEAN /\ failed \in BOOLEAN
    /\ worker \in {"none", "running", "done", "failed"}
    /\ submitted \in [Requests -> Nat] /\ broken \in BOOLEAN
    /\ process => failed \/ pc \in {"last_sample", "finish", "finish_abort", "collect_abort"}

\* require_idle, asked before every change of the limit, is right: a workload
\* without a process has no worker, also after aborts that failed
\* (cuda_workload.py:147-157).
IdleMeansDrained == ~process => worker = "none"

\* Once any call has raised or the caller gave up, nothing is submitted any
\* more, whatever is called then; and never next to another worker
\* (measurement_collection.py:57-63, workload_benchmark.py:119-125).
FailureIsFinal ==
    [][submitted' # submitted => ~broken /\ worker = "none"]_vars

\* No phase and repetition is ever submitted twice, warmups included, and a
\* measurement is of work that was submitted (measurement_collection.py:85).
SubmittedOnce ==
    /\ \A q \in Requests : submitted[q] <= 1
    /\ \A i \in DOMAIN measurements : submitted[measurements[i].request] = 1

Precedes(q, r) == q.phase < r.phase \/ (q.phase = r.phase /\ q.repetition < r.repetition)

\* validate_comparison: each repetition once, and the windows, in the order of
\* their phases, do not overlap.
Accepted(ms) ==
    /\ Len(ms) = Cardinality(Measured)
    /\ {ms[i].request : i \in DOMAIN ms} = Measured
    /\ \A i, j \in DOMAIN ms :
          Precedes(ms[i].request, ms[j].request) => ms[i].end <= ms[j].start

\* A comparison is accepted only if its phases were really run in their order,
\* although it sees only stamps of a clock that may have jumped
\* (workload_benchmark.py:154-169).
ComparisonInOrder ==
    Accepted(measurements) =>
        \A i, j \in DOMAIN measurements :
            i < j => Precedes(measurements[i].request, measurements[j].request)

\* Every call returns or raises, although the worker may hang and resist.
CallsReturn == pc # "idle" ~> pc = "idle"
=============================================================================
