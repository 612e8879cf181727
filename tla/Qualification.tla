--------------------------- MODULE Qualification ----------------------------
(***************************************************************************)
(* The read-only qualification of a host before a trial: qualification.py  *)
(* and gpu_observer.py read the meter and the GPU a few times through      *)
(* pinned executables, align the readings (module PowerAlignment) and      *)
(* write one packet; qualification_gate.py admits a trial on that packet,  *)
(* once before any hardware access and again before the cap.  A call of    *)
(* the gate reads the clock first and inspects the executables after it;   *)
(* between the second call and the cap the trial still verifies its        *)
(* approval, writes its journal and queries the GPU.                       *)
(*                                                                         *)
(* Beside the two programs act the wall clock, which an operator or a time *)
(* service may set back between any two steps, and an administrator, who   *)
(* may install another build of ipmitool or nvidia-smi.  A build that was  *)
(* replaced does not return.                                               *)
(*                                                                         *)
(* A query that fails or answers nonsense, an executable with a wrong      *)
(* owner or mode and a GPU missing from the answer end the collection      *)
(* alike: an exception leaves it and no packet is written (action Fail).   *)
(***************************************************************************)
EXTENDS PowerAlignment

CONSTANTS
  Samples,       \* rounds of one meter reading and one GPU reading
  Interval,      \* sample_interval_seconds
  MaxAge,        \* maximum_observation_age_seconds
  PacketMaxAge,  \* maximum_age_seconds of the gate
  MaxTime,       \* bound: the real time a behaviour lasts
  MaxBack,       \* bound: how far the wall clock is set back in all
  MaxBuild       \* bound: builds of one executable ever installed

ASSUME QualificationAssumption ==
  /\ Samples \in Nat /\ Samples >= 3
  /\ {Interval, MaxAge, PacketMaxAge, MaxTime, MaxBack} \subseteq Nat
  /\ MaxBuild \in Nat \ {0}

VARIABLES
  real,      \* real time: what the monotonic clock reads
  back,      \* how far the wall clock is behind it
  installed, \* installed[t]: the build of executable t on disk
  pc,        \* where the collection stands
  pinned,    \* pinned[t]: the build the collector pinned; the packet names it
  taking,    \* the reading in progress
  meters,    \* readings of the meter, in the order they were taken
  gpus,      \* readings of the GPU
  report,    \* what the alignment reported
  file,      \* the packet on disk
  trial,     \* how far the gate let a trial come
  gate       \* what the gate's last call read: the clocks, then the builds

vars == <<real, back, installed, pc, pinned, taking, meters, gpus, report, file, trial,
          gate>>

environment == <<real, back, installed>>
collection == <<pc, pinned, taking, meters, gpus, report, file>>
gating == <<trial, gate>>

Tools == {"bmc", "nvidia"}

Wall == real - back

Nothing == [at |-> 0, since |-> 0, builds |-> {}]

NotAsked == [at |-> 0, back |-> 0, builds |-> [t \in Tools |-> 0]]

NoReport == [accepted |-> FALSE, pairs |-> <<>>]

Running == {"start", "pin", "meter", "fru", "fru_read", "dcmi", "dcmi_read",
            "gpu", "query", "drivers", "gpu_read", "sleep", "align", "write"}

Init ==
  /\ real = 0 /\ back = 0
  /\ installed = [t \in Tools |-> 1]
  /\ pc = "start" /\ pinned = [t \in Tools |-> 0]
  /\ taking = Nothing /\ meters = <<>> /\ gpus = <<>>
  /\ report = NoReport /\ file = "none"
  /\ trial = "idle" /\ gate = NotAsked
-----------------------------------------------------------------------------
(* Reading through a pinned executable. *)

\* inspect_pinned_executable and _require_pinned_executable
Unchanged(t) == installed[t] = pinned[t]

Step(from, to) == pc = from /\ pc' = to

\* Both observers inspect their executable when they are constructed.
Pin(t, from, to) ==
  /\ Step(from, to)
  /\ pinned' = [pinned EXCEPT ![t] = installed[t]]
  /\ UNCHANGED <<environment, taking, meters, gpus, report, file, gating>>

\* The timestamp of a reading is the time it begins.
Begin(t, from, to) ==
  /\ Step(from, to)
  /\ Unchanged(t)
  /\ taking' = [at |-> Wall, since |-> real, builds |-> {}]
  /\ UNCHANGED <<environment, pinned, meters, gpus, report, file, gating>>

\* A query runs whatever build is on disk.
Query(t, from, to) ==
  /\ Step(from, to)
  /\ taking' = [taking EXCEPT !.builds = @ \cup {installed[t]}]
  /\ UNCHANGED <<environment, pinned, meters, gpus, report, file, gating>>

\* The inspection after the meter's first query and the one before its second.
CheckBetween ==
  /\ Step("fru_read", "dcmi")
  /\ Unchanged("bmc")
  /\ UNCHANGED <<environment, pinned, taking, meters, gpus, report, file, gating>>

Taken(stream) ==
  [seq |-> Len(stream), at |-> taking.at, ingested |-> Wall, builds |-> taking.builds]

\* Mutant: the executable is not inspected again after the last query.
MeterEndUninspected ==
  /\ Step("dcmi_read", "gpu")
  /\ Wall - taking.at \in 0 .. MaxAge
  /\ real - taking.since <= MaxLatency
  /\ meters' = Append(meters, Taken(meters))
  /\ taking' = Nothing
  /\ UNCHANGED <<environment, pinned, gpus, report, file, gating>>

\* BmcPowerObserver.collect after its last query, and the validation of the
\* reading: its age by the wall clock, its latency by the monotonic one.
MeterEnd ==
  /\ Step("dcmi_read", "gpu")
  /\ Unchanged("bmc")
  /\ Wall - taking.at \in 0 .. MaxAge
  /\ real - taking.since <= MaxLatency
  /\ meters' = Append(meters, Taken(meters))
  /\ taking' = Nothing
  /\ UNCHANGED <<environment, pinned, gpus, report, file, gating>>

\* NvidiaPowerObserver.collect after its last query
GpuEnd ==
  /\ pc = "gpu_read"
  /\ Unchanged("nvidia")
  /\ Wall - taking.at \in 0 .. MaxAge
  /\ gpus' = Append(gpus, Taken(gpus))
  /\ taking' = Nothing
  /\ pc' = IF Len(gpus) + 1 < Samples THEN "sleep" ELSE "align"
  /\ UNCHANGED <<environment, pinned, meters, report, file, gating>>

Sleep ==
  /\ Step("sleep", "meter")
  /\ real + Interval <= MaxTime
  /\ real' = real + Interval
  /\ UNCHANGED <<back, installed, pinned, taking, meters, gpus, report, file, gating>>

\* The exception leaves nothing behind of what the collection held.
Failed ==
  /\ pc' = "failed" /\ pinned' = [t \in Tools |-> 0]
  /\ taking' = Nothing /\ meters' = <<>> /\ gpus' = <<>> /\ report' = NoReport

\* A failed inspection, check or query ends the collection.
Fail ==
  /\ pc \in Running \ {"write"}
  /\ Failed
  /\ UNCHANGED <<environment, file, gating>>

\* collect_read_only_qualification after its loop
Align ==
  /\ Step("align", "write")
  /\ \E calibrated \in BOOLEAN :
       LET pairs == Pairs(meters, gpus) IN
       report' = [accepted |-> Accepted(meters, gpus, pairs, calibrated), pairs |-> pairs]
  /\ UNCHANGED <<environment, pinned, taking, meters, gpus, file, gating>>

\* _write_new: a packet is kept whether it qualifies or not; a write that
\* fails leaves the file it created cut off.
Write ==
  /\ pc = "write"
  /\ \/ /\ pc' = "done" /\ file' = "whole"
        /\ UNCHANGED <<pinned, taking, meters, gpus, report>>
     \/ Failed /\ file' \in {"none", "cut"}
  /\ UNCHANGED <<environment, gating>>

Collect ==
  \/ Pin("nvidia", "start", "pin") \/ Pin("bmc", "pin", "meter")
  \/ Begin("bmc", "meter", "fru") \/ Query("bmc", "fru", "fru_read")
  \/ CheckBetween \/ Query("bmc", "dcmi", "dcmi_read") \/ MeterEnd
  \/ Begin("nvidia", "gpu", "query") \/ Query("nvidia", "query", "drivers")
  \/ Query("nvidia", "drivers", "gpu_read") \/ GpuEnd
  \/ Sleep \/ Align \/ Write \/ Fail
-----------------------------------------------------------------------------
(* The gate. *)

Fresh(stamp) == Wall - stamp \in 0 .. PacketMaxAge

StrictlyLater(stream) == \A i \in 1 .. Len(stream) - 1 : stream[i].at < stream[i + 1].at

\* Everything the gate asks of the packet itself; only the clock moves on
\* while it does.
PacketAccepted ==
  /\ file = "whole"
  /\ report.accepted
  /\ Len(report.pairs) >= 3
  /\ \A stream \in {meters, gpus} :
       /\ \A i \in DOMAIN stream : Fresh(stream[i].at) /\ Fresh(stream[i].ingested)
       /\ StrictlyLater(stream)

\* A call of validate_qualification_packet reads the clock ...
Ask(call) ==
  /\ IF PacketAccepted
     THEN trial' = call /\ gate' = [NotAsked EXCEPT !.at = real, !.back = back]
     ELSE trial' = "refused" /\ gate' = NotAsked
  /\ UNCHANGED <<environment, collection>>

\* ... and inspects nvidia-smi, then ipmitool.
Inspect(t, call, to) ==
  /\ trial = call
  /\ gate.builds[t] = 0 /\ (t = "bmc" => gate.builds["nvidia"] # 0)
  /\ IF Unchanged(t)
     THEN /\ gate' = [gate EXCEPT !.builds[t] = installed[t]]
          /\ trial' = IF t = "bmc" THEN to ELSE call
     ELSE trial' = "refused" /\ gate' = NotAsked
  /\ UNCHANGED <<environment, collection>>

\* run_rental_trial before it touches hardware; a refused trial may be tried anew.
Admit == trial \in {"idle", "refused"} /\ file # "none" /\ Ask("admitting")

\* Mutant: before the cap only the executables are inspected once more.
RecheckTools ==
  /\ trial = "admitted"
  /\ trial' = "clearing" /\ gate' = [NotAsked EXCEPT !.at = real, !.back = back]
  /\ UNCHANGED <<environment, collection>>

\* DrainBeforeControl.set_limit of the target: the gate again.
Recheck == trial = "admitted" /\ Ask("clearing")

\* The power command, once the approval is verified again, the journal is on
\* disk and the adapter has read the GPU.
Cap ==
  /\ trial = "cleared" /\ trial' = "capped"
  /\ UNCHANGED <<environment, collection, gate>>

\* Any step of the trial may fail before its cap.
GiveUp ==
  /\ trial \in {"admitting", "admitted", "clearing", "cleared"}
  /\ trial' = "refused" /\ gate' = NotAsked
  /\ UNCHANGED <<environment, collection>>

Trial ==
  \/ Admit \/ Recheck \/ Cap \/ GiveUp
  \/ \E t \in Tools :
       Inspect(t, "admitting", "admitted") \/ Inspect(t, "clearing", "cleared")
-----------------------------------------------------------------------------
(* What happens around the two programs. *)

Tick ==
  /\ real < MaxTime
  /\ real' = real + 1
  /\ UNCHANGED <<back, installed, collection, gating>>

SetBack ==
  /\ back < MaxBack
  /\ back' = back + 1
  /\ UNCHANGED <<real, installed, collection, gating>>

Install(t) ==
  /\ installed[t] < MaxBuild
  /\ installed' = [installed EXCEPT ![t] = @ + 1]
  /\ UNCHANGED <<real, back, collection, gating>>

Next ==
  \/ Collect \/ Trial
  \/ Tick \/ SetBack \/ \E t \in Tools : Install(t)

Spec == Init /\ [][Next]_vars
-----------------------------------------------------------------------------
(* Properties. *)

Readings == [seq : Nat, at : Int, ingested : Int, builds : SUBSET (1 .. MaxBuild)]

QualificationTypeOK ==
  /\ real \in Nat /\ back \in Nat
  /\ installed \in [Tools -> 1 .. MaxBuild] /\ pinned \in [Tools -> 0 .. MaxBuild]
  /\ pc \in Running \cup {"done", "failed"}
  /\ taking \in [at : Int, since : Nat, builds : SUBSET (1 .. MaxBuild)]
  /\ meters \in Seq(Readings) /\ gpus \in Seq(Readings)
  /\ report.accepted \in BOOLEAN
  /\ file \in {"none", "cut", "whole"}
  /\ trial \in {"idle", "admitting", "admitted", "clearing", "cleared", "capped", "refused"}
  /\ gate \in [at : Nat, back : Nat, builds : [Tools -> 0 .. MaxBuild]]

\* Whatever is installed while the collection runs, every query behind a
\* written packet was answered by the build the packet names.
ReadersAreNamed ==
  file = "whole" =>
    /\ \A i \in DOMAIN meters : meters[i].builds = {pinned["bmc"]}
    /\ \A i \in DOMAIN gpus : gpus[i].builds = {pinned["nvidia"]}

\* The coverage demanded leaves no reading alone: with the least coverage the
\* command line admits, nine tenths, as long as the rounds are fewer than ten.
NobodyStaysAlone == MinCoverage * Samples > 100 * (Samples - 1)

\* An accepted alignment takes every stream in the order it was read, however
\* the clock jumped; and if it was never set back, it pairs each meter reading
\* with the GPU reading of its own round, although it knows timestamps only.
RoundsPairUp ==
  report.accepted =>
    /\ \A stream \in {meters, gpus} :
         \A i, j \in DOMAIN stream : i < j => stream[i].at <= stream[j].at
    /\ back = 0 =>
         /\ Len(report.pairs) = Samples
         /\ \A i \in DOMAIN report.pairs :
              report.pairs[i].meter.seq = report.pairs[i].gpu.seq

\* A trial that was let through to its cap rests on the packet: the second call
\* of the gate found on disk the very builds that answered every query, and no
\* reading was older than the gate allows when that call read the clock, if the
\* clock had never been set back.  How long after that call the cap comes, and
\* what is installed in between, the code does not bound.
CapRestsOnQualification ==
  trial \in {"cleared", "capped"} =>
    /\ \A i \in DOMAIN meters : meters[i].builds = {gate.builds["bmc"]}
    /\ \A i \in DOMAIN gpus : gpus[i].builds = {gate.builds["nvidia"]}
    /\ gate.back = 0 => \A stream \in {meters, gpus} :
         \A i \in DOMAIN stream : gate.at - stream[i].at <= PacketMaxAge
=============================================================================
