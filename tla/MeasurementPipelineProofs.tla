---------------------- MODULE MeasurementPipelineProofs ----------------------
(***************************************************************************)
(* Proofs of the safety properties of MeasurementPipeline, for any number  *)
(* of phases and repetitions, any durations and any jumps of the clock.    *)
(***************************************************************************)
EXTENDS MeasurementPipeline, TLAPS

\* A call under way is for a request, and its runner has latched itself.
InCall == pc # "idle" => request \in Requests /\ runnerDown

\* Whoever went on after a failure finds the workload failed or the runner down.
Latched == broken => failed \/ (pc = "idle" /\ runnerDown)

Working == {"last_sample", "finish", "fresh", "measure"}

\* What was submitted is used up, and once only; what is measured was submitted.
Booked ==
    /\ \A q \in Requests : submitted[q] <= 1 /\ (submitted[q] = 1 => q \in used)
    /\ pc \in {"first_sample", "start"} => submitted[request] = 0 /\ request \in used
    /\ pc \in Working => submitted[request] = 1 /\ ~HasMeasured
    /\ \A i \in DOMAIN measurements : submitted[measurements[i].request] = 1

\* The measured windows follow each other, and no request is measured twice.
Chronicle ==
    /\ \A i \in DOMAIN measurements :
          measurements[i].start < measurements[i].end /\ measurements[i].end <= lastEnd
    /\ \A i, j \in DOMAIN measurements : i < j =>
          /\ measurements[i].end <= measurements[j].start
          /\ measurements[i].request # measurements[j].request

PipelineInv == PipelineTypeOK /\ IdleMeansDrained /\ InCall /\ Latched /\ Booked /\ Chronicle

-----------------------------------------------------------------------------
(* Types.                                                                  *)

LEMMA ConstantsAreNaturals ==
  /\ PhaseCount \in Nat /\ Repetitions \in Nat /\ Deadline \in Nat /\ Duration \in Nat
  /\ MaxDelay \in Nat /\ MaxJumps \in Nat /\ Horizon \in Nat /\ Delays \subseteq Nat
  BY PipelineAssumption DEF Deadline, Delays

LEMMA InitInv == Init => PipelineInv
<1> SUFFICES ASSUME Init PROVE PipelineInv
  OBVIOUS
<1>1. PipelineTypeOK
  <2>1. submitted \in [Requests -> Nat]
    BY DEF Init
  <2>2. measurements \in Seq([request : Measured, start : Nat, end : Nat])
    BY DEF Init
  <2>3. first \in Samples /\ last \in Samples
    BY DEF Init, Samples, NoSample
  <2>4. elapsed \in Nat /\ utc \in Nat /\ jumps \in 0 .. MaxJumps /\ before \in Nat /\ lastEnd \in Nat
    BY ConstantsAreNaturals DEF Init
  <2>5. pc \in Stages /\ request \in Requests \cup {NoRequest} /\ used \subseteq Requests
    BY DEF Init, Stages
  <2>6. /\ runnerDown \in BOOLEAN /\ collectorDown \in BOOLEAN /\ liveDown \in BOOLEAN
        /\ process \in BOOLEAN /\ failed \in BOOLEAN /\ broken \in BOOLEAN
        /\ worker \in {"none", "running", "done", "failed"} /\ ~process
    BY DEF Init
  <2>7. QED BY <2>1, <2>2, <2>3, <2>4, <2>5, <2>6 DEF PipelineTypeOK
<1>2. IdleMeansDrained /\ InCall /\ Latched
  BY DEF Init, IdleMeansDrained, InCall, Latched
<1>3. Booked /\ Chronicle
  BY DEF Init, Booked, Chronicle, Working
<1>4. QED BY <1>1, <1>2, <1>3 DEF PipelineInv

LEMMA MeasurementTypes ==
  ASSUME PipelineTypeOK, NEW i \in DOMAIN measurements
  PROVE  /\ measurements[i].request \in Requests
         /\ measurements[i].start \in Nat /\ measurements[i].end \in Nat
<1>1. measurements[i] \in [request : Measured, start : Nat, end : Nat]
  <2> DEFINE Windows == [request : Measured, start : Nat, end : Nat]
  <2>1. measurements \in Seq(Windows)
    BY DEF PipelineTypeOK
  <2> HIDE DEF Windows
  <2>2. measurements[i] \in Windows
    BY <2>1
  <2>3. QED BY <2>2 DEF Windows
<1>2. Measured \subseteq Requests
  BY DEF Measured
<1>3. QED BY <1>1, <1>2

LEMMA TypePreserved ==
  ASSUME PipelineTypeOK, InCall, [Next]_vars
  PROVE  PipelineTypeOK' /\ InCall'
<1> USE ConstantsAreNaturals DEF PipelineTypeOK, InCall, Stages, clocks, window, latches, evidence, workload
<1>1. ASSUME NEW q \in Requests, Call(q) PROVE PipelineTypeOK' /\ InCall'
  BY <1>1 DEF Call
<1>2. CASE Accept
  BY <1>2 DEF Accept
<1>3. CASE Refuse
  BY <1>3 DEF Refuse, Raises, Leaves, Samples, NoSample
<1>4. CASE FirstSample
  BY <1>4 DEF FirstSample, Samples
<1>5. CASE SampleFails
  BY <1>5 DEF SampleFails, LiveRaises
<1>6. CASE Start
  BY <1>6 DEF Start
<1>7. CASE StartFails
  BY <1>7 DEF StartFails, LiveRaises
<1>8. CASE LastSample
  BY <1>8 DEF LastSample, Passes, Samples
<1>9. CASE Finish
  <2>1. PICK d \in Delays : Passes(d)
    BY <1>9 DEF Finish
  <2>2. d \in Nat
    OBVIOUS
  <2>3. elapsed' \in Nat /\ utc' \in Nat /\ jumps' = jumps
    BY <2>1, <2>2 DEF Passes
  <2>4. /\ pc = "finish" /\ pc' = "fresh" /\ process' = FALSE /\ worker' = "none"
        /\ UNCHANGED <<request, window, latches, used, evidence, failed, submitted, broken>>
    BY <1>9 DEF Finish
  <2>5. QED BY <2>3, <2>4
<1>10. CASE FinishFails
  BY <1>10 DEF FinishFails, Passes, Latest
<1>11. CASE FinishAborts
  BY <1>11 DEF FinishAborts, LiveRaises, Drains
<1>12. CASE CollectAborts
  BY <1>12 DEF CollectAborts, Drains, Raises, Leaves, Samples, NoSample
<1>13. CASE Fresh
  BY <1>13 DEF Fresh
<1>14. CASE NotFresh
  BY <1>14 DEF NotFresh, Raises, Leaves, Samples, NoSample
<1>15. CASE Measure
  <2>1. measurements' \in Seq([request : Measured, start : Nat, end : Nat]) /\ lastEnd' \in Nat
    <3>1. first.utc \in Nat /\ last.utc \in Nat /\ lastEnd' = last.utc
      BY <1>15 DEF Measure, Samples
    <3>2. CASE request \in Measured
      BY <1>15, <3>1, <3>2 DEF Measure
    <3>3. CASE request \notin Measured
      BY <1>15, <3>1, <3>3 DEF Measure
    <3>4. QED BY <3>2, <3>3
  <2>2. QED BY <1>15, <2>1 DEF Measure, Leaves, Samples, NoSample
<1>16. CASE MeasureRejects
  BY <1>16 DEF MeasureRejects, Raises, Leaves, Samples, NoSample
<1>17. CASE GivesUp
  BY <1>17 DEF GivesUp, Drains
<1>18. CASE WorkerEnds
  BY <1>18 DEF WorkerEnds
<1>19. CASE Jump
  BY <1>19 DEF Jump
<1>20. CASE UNCHANGED vars
  BY <1>20 DEF vars
<1>21. QED
  BY <1>1, <1>2, <1>3, <1>4, <1>5, <1>6, <1>7, <1>8, <1>9, <1>10, <1>11, <1>12, <1>13,
     <1>14, <1>15, <1>16, <1>17, <1>18, <1>19, <1>20 DEF Next, Step

-----------------------------------------------------------------------------
(* Workers and latches.                                                    *)

LEMMA LatchesPreserved ==
  ASSUME PipelineTypeOK, InCall, IdleMeansDrained, Latched, [Next]_vars
  PROVE  IdleMeansDrained' /\ Latched'
<1> USE DEF IdleMeansDrained, Latched, InCall, clocks, window, latches, evidence, workload
<1>1. ASSUME NEW q \in Requests, Call(q) PROVE IdleMeansDrained' /\ Latched'
  BY <1>1 DEF Call
<1>2. CASE Accept \/ FirstSample \/ LastSample \/ FinishFails \/ Fresh
  BY <1>2 DEF Accept, FirstSample, LastSample, FinishFails, Fresh
<1>3. CASE Refuse \/ NotFresh \/ MeasureRejects
  BY <1>3 DEF Refuse, NotFresh, MeasureRejects, Raises, Leaves
<1>4. CASE SampleFails \/ StartFails
  <2>1. pc # "idle" /\ pc' # "idle" /\ UNCHANGED <<broken, process, worker, runnerDown>>
    BY <1>4 DEF SampleFails, StartFails, LiveRaises
  <2>2. failed' = failed \/ failed' = TRUE
    BY <1>4 DEF SampleFails, StartFails
  <2>3. broken => failed
    BY <2>1
  <2>4. QED BY <2>1, <2>2, <2>3
<1>5. CASE Start \/ Finish
  BY <1>5 DEF Start, Finish
<1>6. CASE FinishAborts \/ CollectAborts \/ GivesUp
  BY <1>6 DEF FinishAborts, CollectAborts, GivesUp, Drains
<1>7. CASE Measure
  BY <1>7 DEF Measure, Leaves
<1>8. CASE WorkerEnds \/ Jump
  BY <1>8 DEF WorkerEnds, Jump
<1>9. CASE UNCHANGED vars
  BY <1>9 DEF vars
<1>10. QED
  BY <1>1, <1>2, <1>3, <1>4, <1>5, <1>6, <1>7, <1>8, <1>9 DEF Next, Step

-----------------------------------------------------------------------------
(* Submissions.                                                            *)

LEMMA BookedPreserved ==
  ASSUME PipelineTypeOK, InCall, Booked, [Next]_vars
  PROVE  Booked'
<1> USE DEF Booked, Working, HasMeasured, clocks, window, latches, evidence, workload
<1>1. ASSUME NEW q \in Requests, Call(q) PROVE Booked'
  BY <1>1 DEF Call
<1>2. CASE Accept
  <2>1. request \in Requests /\ submitted[request] = 0
    BY <1>2 DEF Accept, InCall, PipelineTypeOK
  <2>2. QED BY <1>2, <2>1 DEF Accept
<1>3. CASE FirstSample \/ LastSample \/ Finish \/ FinishFails \/ Fresh
  BY <1>3 DEF FirstSample, LastSample, Finish, FinishFails, Fresh
<1>4. CASE Refuse \/ NotFresh \/ MeasureRejects \/ CollectAborts
  BY <1>4 DEF Refuse, NotFresh, MeasureRejects, CollectAborts, Raises, Leaves
<1>5. CASE SampleFails \/ StartFails \/ FinishAborts
  BY <1>5 DEF SampleFails, StartFails, FinishAborts, LiveRaises
<1>6. CASE Start
  <2>1. request \in Requests /\ submitted[request] = 0 /\ request \in used
    BY <1>6 DEF Start, InCall
  <2>2. \A q \in Requests : submitted'[q] = IF q = request THEN 1 ELSE submitted[q]
    BY <1>6, <2>1 DEF Start, PipelineTypeOK
  <2>3. \A i \in DOMAIN measurements :
           measurements[i].request # request /\ measurements[i].request \in Requests
    BY <2>1, MeasurementTypes
  <2>4. QED BY <1>6, <2>1, <2>2, <2>3 DEF Start
<1>7. CASE Measure
  <2>1. \A i \in DOMAIN measurements' : submitted[measurements'[i].request] = 1
    BY <1>7 DEF Measure, PipelineTypeOK
  <2>2. QED BY <1>7, <2>1 DEF Measure, Leaves
<1>8. CASE GivesUp \/ WorkerEnds \/ Jump
  BY <1>8 DEF GivesUp, WorkerEnds, Jump
<1>9. CASE UNCHANGED vars
  BY <1>9 DEF vars
<1>10. QED
  BY <1>1, <1>2, <1>3, <1>4, <1>5, <1>6, <1>7, <1>8, <1>9 DEF Next, Step

-----------------------------------------------------------------------------
(* Measured windows.                                                       *)

LEMMA ChroniclePreserved ==
  ASSUME PipelineTypeOK, InCall, Booked, Chronicle, [Next]_vars
  PROVE  Chronicle'
<1>1. CASE UNCHANGED evidence
  BY <1>1 DEF Chronicle, evidence
<1>2. CASE Measure
  <2> DEFINE w == [request |-> request, start |-> first.utc, end |-> last.utc]
  <2>1. /\ first.utc \in Nat /\ last.utc \in Nat /\ lastEnd \in Nat
        /\ lastEnd <= first.utc /\ first.utc < last.utc /\ lastEnd' = last.utc
    BY <1>2 DEF Measure, SoundWindow, PipelineTypeOK, Samples
  <2>2. \A i \in DOMAIN measurements :
           /\ measurements[i].start \in Nat /\ measurements[i].end \in Nat
           /\ measurements[i].end <= lastEnd /\ measurements[i].request # request
    BY <1>2, MeasurementTypes DEF Measure, Chronicle, Booked, Working, HasMeasured
  <2>3. CASE measurements' = measurements
    BY <2>1, <2>2, <2>3 DEF Chronicle
  <2>4. CASE measurements' = Append(measurements, w)
    <3> DEFINE n == Len(measurements) + 1
    <3>1. /\ DOMAIN measurements = 1 .. Len(measurements) /\ Len(measurements) \in Nat
          /\ DOMAIN measurements' = 1 .. n
          /\ measurements'[n] = w
          /\ \A i \in 1 .. Len(measurements) : measurements'[i] = measurements[i]
      BY <2>4 DEF PipelineTypeOK
    <3>2. \A i \in DOMAIN measurements' :
             measurements'[i].start < measurements'[i].end /\ measurements'[i].end <= lastEnd'
      BY <2>1, <2>2, <3>1 DEF Chronicle
    <3>3. \A i, j \in DOMAIN measurements' : i < j =>
             /\ measurements'[i].end <= measurements'[j].start
             /\ measurements'[i].request # measurements'[j].request
      <4> SUFFICES ASSUME NEW i \in 1 .. n, NEW j \in 1 .. n, i < j
                   PROVE  /\ measurements'[i].end <= measurements'[j].start
                          /\ measurements'[i].request # measurements'[j].request
        BY <3>1
      <4>1. CASE j = n
        BY <2>1, <2>2, <3>1, <4>1
      <4>2. CASE j # n
        BY <3>1, <4>2 DEF Chronicle
      <4>3. QED BY <4>1, <4>2
    <3>4. QED BY <3>2, <3>3 DEF Chronicle
  <2>5. QED BY <1>2, <2>3, <2>4 DEF Measure
<1>3. [Next]_vars => UNCHANGED evidence \/ Measure
  BY DEF Next, Step, vars, Call, Accept, Refuse, FirstSample, SampleFails, Start, StartFails,
         LastSample, Finish, FinishFails, FinishAborts, CollectAborts, Fresh, NotFresh,
         MeasureRejects, GivesUp, WorkerEnds, Jump, LiveRaises
<1>4. QED BY <1>1, <1>2, <1>3

-----------------------------------------------------------------------------
(* Theorems.                                                               *)

LEMMA Invariance == Spec => []PipelineInv
<1>1. PipelineInv /\ [Next]_vars => PipelineInv'
  BY TypePreserved, LatchesPreserved, BookedPreserved, ChroniclePreserved DEF PipelineInv
<1>2. QED BY InitInv, <1>1, PTL DEF Spec

\* The types; a process is referenced only while its call runs, or after an
\* abort that failed.
THEOREM PipelineTypeCorrect == Spec => []PipelineTypeOK
<1>1. PipelineInv => PipelineTypeOK
  BY DEF PipelineInv
<1>2. QED BY Invariance, <1>1, PTL

\* require_idle never passes over a worker that is still there.
THEOREM DrainIsTrue == Spec => []IdleMeansDrained
<1>1. PipelineInv => IdleMeansDrained
  BY DEF PipelineInv
<1>2. QED BY Invariance, <1>1, PTL

\* No submission follows a failure, and none happens next to a worker.
THEOREM FailuresAreFinal == Spec => FailureIsFinal
<1>1. PipelineInv /\ [Next]_vars => [submitted' # submitted => ~broken /\ worker = "none"]_vars
  <2>1. [Next]_vars => Start \/ UNCHANGED submitted
    BY DEF Next, Step, vars, Call, Accept, Refuse, FirstSample, SampleFails, StartFails,
           LastSample, Finish, FinishFails, FinishAborts, CollectAborts, Fresh, NotFresh,
           Measure, MeasureRejects, GivesUp, WorkerEnds, Jump, LiveRaises
  <2>2. PipelineInv /\ Start => ~broken /\ worker = "none"
    BY DEF PipelineInv, Latched, IdleMeansDrained, Start
  <2>3. QED BY <2>1, <2>2
<1>2. QED BY Invariance, <1>1, PTL DEF Spec, FailureIsFinal

\* No request's jobs are submitted twice; a measurement is of submitted work.
THEOREM SubmissionsAreUnique == Spec => []SubmittedOnce
<1>1. PipelineInv => SubmittedOnce
  BY DEF PipelineInv, Booked, SubmittedOnce
<1>2. QED BY Invariance, <1>1, PTL

\* An accepted comparison was run in the order of its phases, whatever the
\* wall clock did.
THEOREM ComparisonsAreInOrder == Spec => []ComparisonInOrder
<1>1. PipelineInv => ComparisonInOrder
  <2> SUFFICES ASSUME PipelineInv, Accepted(measurements),
                      NEW i \in DOMAIN measurements, NEW j \in DOMAIN measurements, i < j
               PROVE  Precedes(measurements[i].request, measurements[j].request)
    BY DEF ComparisonInOrder
  <2>1. /\ measurements[i].request \in Requests /\ measurements[j].request \in Requests
        /\ measurements[i].start \in Nat /\ measurements[i].end \in Nat
        /\ measurements[j].start \in Nat /\ measurements[j].end \in Nat
    BY MeasurementTypes DEF PipelineInv
  <2>2. \/ Precedes(measurements[i].request, measurements[j].request)
        \/ Precedes(measurements[j].request, measurements[i].request)
    <3>1. measurements[i].request # measurements[j].request
      BY DEF PipelineInv, Chronicle
    <3>2. QED BY <2>1, <3>1, ConstantsAreNaturals DEF Requests, Precedes, Warmup
  <2>3. ~Precedes(measurements[j].request, measurements[i].request)
    BY <2>1 DEF PipelineInv, Chronicle, Accepted
  <2>4. QED BY <2>2, <2>3
<1>2. QED BY Invariance, <1>1, PTL
=============================================================================
