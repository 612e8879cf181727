------------------------ MODULE HardwareTrialProofs ------------------------
(***************************************************************************)
(* Proofs about the two modules closest to the hardware: the older trial   *)
(* of a power cap (HardwareLab) and the qualification of a host before a   *)
(* trial (Qualification).  They share no variable; each part has an        *)
(* inductive invariant of its own.                                         *)
(***************************************************************************)
EXTENDS HardwareLab, Qualification, FiniteSetTheorems, WellFoundedInduction, TLAPS

-----------------------------------------------------------------------------
(***************************************************************************)
(* The older trial, for any limits, tolerance and number of outside        *)
(* changes, whether commands may hang or not.                              *)
(*                                                                         *)
(* What makes its verdict true is the observation just before it: the      *)
(* invariant says that whoever got past Verify with the answer "restored"  *)
(* still sees what was observed, that every record of the log and every    *)
(* outcome but the CRITICAL one rests on such an answer or on a GPU that   *)
(* was never touched, and that the limit of a cap is near the target.      *)
(***************************************************************************)

Untouched == {"observe", "intent"}
Under == {"enable", "cap", "measure", "restore", "disable", "verify", "close"}

AsFound == Near(limit, initial.limit) /\ persistence = initial.persistence

\* What the log and the outcome say at each stage.
Told ==
    /\ stage \in Untouched => log = "empty"
    /\ stage \in Under => log = "intent"
    /\ stage \notin {"done", "dead"} => outcome = "none"
    /\ stage = "dead" => log \in {"empty", "intent"} /\ outcome = "none"
    /\ stage = "done" => outcome # "none"
    /\ outcome = "refused" => log \in {"empty", "intent"}
    /\ log \in {"failed_safe", "completed"} \/ outcome \in {"failed", "returned"} => restored

Lowers == stage \notin {"observe", "done", "dead"} => Target < initial.limit

NotTouchedYet ==
    (stage \in Untouched \/ outcome = "refused") /\ Undisturbed => AsFound

RestoredIsSeen ==
    restored =>
        /\ stage \in {"close", "done", "dead"}
        /\ Target < initial.limit
        /\ Undisturbed => AsFound
        /\ writer = "cap" => late \/ Near(limit, initial.limit)

CapIsNear == writer = "cap" => Near(limit, Target)

LabInv ==
    /\ LabTypeOK
    /\ Told /\ Lowers /\ NotTouchedYet /\ RestoredIsSeen /\ CapIsNear

LEMMA NearItself == \A w \in Watts : Near(w, w)
  BY LimitAssumption DEF Near

LEMMA LabInvInit == LabInit => LabInv
<1> SUFFICES ASSUME LabInit
             PROVE  LabInv
  OBVIOUS
<1>1. LabTypeOK
  <2>1. initial \in States
    BY DEF LabInit, LimitInit, States
  <2>2. drifts \in DriftCounts
    BY LimitAssumption DEF LabInit, LimitInit, DriftCounts
  <2>3. QED
    BY <2>1, <2>2 DEF LabInit, LimitInit, LabTypeOK, Stages, Records, Outcomes, Writers
<1>2. AsFound
  BY NearItself DEF LabInit, LimitInit, AsFound
<1>3. Told /\ Lowers /\ RestoredIsSeen /\ CapIsNear
  BY DEF LabInit, LimitInit, Told, Lowers, RestoredIsSeen, CapIsNear, Untouched, Under
<1>4. QED
  BY <1>1, <1>2, <1>3 DEF LabInv, NotTouchedYet

\* What a command does to the limit, and what it can never do.
LEMMA SetLimitTypes ==
  ASSUME LabTypeOK, NEW w \in Watts, NEW raised \in BOOLEAN, SetLimit(w, raised)
  PROVE  /\ limit' \in Watts /\ writer' \in Writers /\ inflight' \subseteq Watts
         /\ late' = late /\ drifts' = drifts
         /\ persistence' = persistence /\ modes' = modes
         /\ (limit' = limit /\ writer' = writer)
            \/ (limit' \in Settled(w) /\ writer' = WriterOf(w))
<1>1. CASE Takes(w) /\ UNCHANGED <<inflight, late, drifts>>
  BY <1>1 DEF SetLimit, Takes, Settled, WriterOf, Writers, LabTypeOK
<1>2. CASE UNCHANGED <<limit, writer, inflight, late, drifts>>
  BY <1>2 DEF SetLimit, LabTypeOK
<1>3. CASE CommandHangs(w)
  BY <1>3 DEF SetLimit, CommandHangs, LabTypeOK
<1>4. QED
  BY <1>1, <1>2, <1>3 DEF SetLimit, CommandEnds

LEMMA SetPersistenceTypes ==
  ASSUME LabTypeOK, NEW mode \in BOOLEAN, NEW raised \in BOOLEAN, SetPersistence(mode, raised)
  PROVE  /\ persistence' \in BOOLEAN /\ modes' \subseteq BOOLEAN
         /\ UNCHANGED limitVars
<1>1. CASE persistence' \in {persistence, mode} /\ UNCHANGED modes
  BY <1>1 DEF SetPersistence, LabTypeOK
<1>2. CASE modes' = modes \cup {mode} /\ UNCHANGED persistence
  BY <1>2 DEF SetPersistence, LabTypeOK
<1>3. QED BY <1>1, <1>2 DEF SetPersistence

LEMMA LabTypesStep == LabTypeOK /\ [LabNext]_hardwareVars => LabTypeOK'
<1> SUFFICES ASSUME LabTypeOK, [LabNext]_hardwareVars
             PROVE  LabTypeOK'
  OBVIOUS
<1> USE DEF LabTypeOK, Stages, Records, Outcomes
<1>1. CASE Observe
  BY <1>1 DEF Observe, End, limitVars, States
<1>2. CASE Intent
  BY <1>2 DEF Intent, End, limitVars, States
<1>3. CASE Enable
  BY <1>3, SetPersistenceTypes DEF Enable, limitVars
<1>4. CASE SetCap
  BY <1>4, SetLimitTypes, LimitAssumption DEF SetCap
<1>5. CASE Measure
  BY <1>5 DEF Measure, limitVars
<1>6. CASE Restore
  <2>1. initial.limit \in Watts
    BY DEF States
  <2>2. QED BY <1>6, <2>1, SetLimitTypes DEF Restore
<1>7. CASE Disable
  BY <1>7, SetPersistenceTypes DEF Disable, limitVars
<1>8. CASE Verify
  BY <1>8 DEF Verify, limitVars, Near
<1>9. CASE Close
  BY <1>9 DEF Close, Closing, Unproven, FailedSafe, Completed, End, limitVars
<1>10. CASE Kill
  BY <1>10 DEF Kill, limitVars
<1>11. CASE HungCommandEnds /\ UNCHANGED labVars
  <2>1. inflight' \subseteq Watts /\ drifts' = drifts
    BY <1>11 DEF HungCommandEnds
  <2>2. limit' \in Watts /\ writer' \in Writers /\ late' \in BOOLEAN
    BY <1>11 DEF HungCommandEnds, Takes, Settled, WriterOf, Writers
  <2>3. QED BY <1>11, <2>1, <2>2 DEF labVars
<1>12. CASE Drift /\ UNCHANGED labVars
  BY <1>12, LimitAssumption DEF Drift, Writers, DriftCounts, labVars
<1>13. CASE HungModeEnds
  <2>1. modes' \subseteq BOOLEAN /\ persistence' \in BOOLEAN /\ late' \in BOOLEAN
    BY <1>13 DEF HungModeEnds
  <2>2. QED BY <1>13, <2>1 DEF HungModeEnds
<1>14. CASE UNCHANGED hardwareVars
  BY <1>14 DEF hardwareVars, limitVars, labVars
<1>15. QED
  BY <1>1, <1>2, <1>3, <1>4, <1>5, <1>6, <1>7, <1>8, <1>9, <1>10, <1>11, <1>12, <1>13, <1>14
     DEF LabNext

\* The limit after one of the trial's commands is the one the cap left or near
\* what was commanded, and counts as a cap only if the target was commanded.
LEMMA CapStaysNear ==
  ASSUME LabTypeOK, CapIsNear, NEW w \in Watts, NEW raised \in BOOLEAN, SetLimit(w, raised)
  PROVE  CapIsNear'
<1>1. CASE limit' = limit /\ writer' = writer
  BY <1>1 DEF CapIsNear
<1>2. CASE limit' \in Settled(w) /\ writer' = WriterOf(w)
  BY <1>2 DEF CapIsNear, Settled, WriterOf
<1>3. QED BY <1>1, <1>2, SetLimitTypes

LEMMA LabInvStep == LabInv /\ [LabNext]_hardwareVars => LabInv'
<1> SUFFICES ASSUME LabInv, [LabNext]_hardwareVars
             PROVE  LabInv'
  OBVIOUS
<1>0. LabTypeOK /\ LabTypeOK'
  BY LabTypesStep DEF LabInv
<1> DEFINE Goal == Told' /\ Lowers' /\ NotTouchedYet' /\ RestoredIsSeen' /\ CapIsNear'
<1> SUFFICES Goal
  BY <1>0 DEF LabInv
<1>1. CASE Observe
  <2>1. CASE outcome' = outcome
    <3>1. /\ stage' = "intent" /\ Target < limit
          /\ initial' = [limit |-> limit, persistence |-> persistence]
      BY <1>1, <2>1, <1>0 DEF Observe, End, LabInv, Told
    <3>2. AsFound'
      BY <1>0, <1>1, <3>1, NearItself DEF Observe, AsFound, limitVars, LabTypeOK
    <3>3. QED
      BY <1>1, <2>1, <3>1, <3>2
         DEF Observe, LabInv, Told, Lowers, NotTouchedYet, RestoredIsSeen, CapIsNear,
             limitVars, Untouched, Under
  <2>2. CASE End("refused") /\ UNCHANGED initial
    BY <1>1, <2>2
       DEF Observe, End, LabInv, Told, Lowers, NotTouchedYet, RestoredIsSeen, CapIsNear,
           AsFound, Undisturbed, limitVars, Untouched, Under
  <2>3. QED BY <1>1, <2>1, <2>2 DEF Observe
<1>2. CASE Intent
  BY <1>2
     DEF Intent, End, LabInv, Told, Lowers, NotTouchedYet, RestoredIsSeen, CapIsNear,
         AsFound, Undisturbed, limitVars, Untouched, Under
<1>3. CASE Enable
  <2>1. UNCHANGED limitVars
    BY <1>0, <1>3, SetPersistenceTypes DEF Enable
  <2>2. QED
    BY <1>3, <2>1
       DEF Enable, LabInv, Told, Lowers, NotTouchedYet, RestoredIsSeen, CapIsNear,
           limitVars, Untouched, Under
<1>4. CASE SetCap
  <2>1. CapIsNear'
    BY <1>0, <1>4, CapStaysNear, LimitAssumption DEF SetCap, LabInv
  <2>2. QED
    BY <1>4, <2>1
       DEF SetCap, LabInv, Told, Lowers, NotTouchedYet, RestoredIsSeen, Untouched, Under
<1>5. CASE Measure
  BY <1>5
     DEF Measure, LabInv, Told, Lowers, NotTouchedYet, RestoredIsSeen, CapIsNear,
         limitVars, Untouched, Under
<1>6. CASE Restore
  <2>1. CapIsNear'
    BY <1>0, <1>6, CapStaysNear DEF Restore, LabInv, LabTypeOK, States
  <2>2. QED
    BY <1>6, <2>1
       DEF Restore, LabInv, Told, Lowers, NotTouchedYet, RestoredIsSeen, Untouched, Under
<1>7. CASE Disable
  <2>1. UNCHANGED limitVars
    BY <1>0, <1>7, SetPersistenceTypes DEF Disable
  <2>2. QED
    BY <1>7, <2>1
       DEF Disable, LabInv, Told, Lowers, NotTouchedYet, RestoredIsSeen, CapIsNear,
           limitVars, Untouched, Under
<1>8. CASE Verify
  <2>1. restored' => AsFound
    BY <1>8 DEF Verify, AsFound
  <2>2. QED
    BY <1>8, <2>1
       DEF Verify, LabInv, Told, Lowers, NotTouchedYet, RestoredIsSeen, CapIsNear, AsFound,
           Undisturbed, limitVars, Untouched, Under
<1>9. CASE Close
  <2>1. Closing.outcome # "critical" => restored
    BY DEF Closing, Unproven, FailedSafe, Completed
  <2>2. Closing.record \in {"failed_safe", "completed"} => restored
    BY DEF Closing, Unproven, FailedSafe, Completed
  <2>3. /\ Closing.record \in {"restore_failed", "failed_safe", "completed"}
        /\ Closing.outcome \in {"critical", "failed", "returned"}
    BY DEF Closing, Unproven, FailedSafe, Completed
  <2>4. /\ stage = "close" /\ stage' = "done" /\ outcome' \in {"critical", "failed", "returned"}
        /\ log' \in {"failed_safe", "completed"} \/ outcome' \in {"failed", "returned"} => restored
    BY <1>9, <2>1, <2>2, <2>3 DEF Close, End, LabInv, Told, Under
  <2>5. QED
    BY <1>9, <2>4
       DEF Close, LabInv, Told, Lowers, NotTouchedYet, RestoredIsSeen, CapIsNear, AsFound,
           Undisturbed, limitVars, Untouched, Under
<1>10. CASE Kill
  BY <1>0, <1>10
     DEF Kill, Alive, LabTypeOK, Stages, LabInv, Told, Lowers, NotTouchedYet, RestoredIsSeen, CapIsNear, AsFound,
         Undisturbed, limitVars, Untouched, Under
<1>11. CASE HungCommandEnds /\ UNCHANGED labVars
  <2>1. late' \/ UNCHANGED <<limit, writer, late, drifts>>
    BY <1>11 DEF HungCommandEnds
  <2>2. CapIsNear'
    BY <1>11 DEF HungCommandEnds, Takes, Settled, WriterOf, LabInv, CapIsNear
  <2>3. QED
    BY <1>11, <2>1, <2>2
       DEF labVars, LabInv, Told, Lowers, NotTouchedYet, RestoredIsSeen, AsFound,
           Undisturbed, Untouched, Under
<1>12. CASE Drift /\ UNCHANGED labVars
  <2>1. drifts' # 0 /\ writer' = "outside"
    BY <1>0, <1>12, LimitAssumption DEF Drift, LabTypeOK, DriftCounts
  <2>2. QED
    BY <1>12, <2>1
       DEF labVars, LabInv, Told, Lowers, NotTouchedYet, RestoredIsSeen, CapIsNear,
           Undisturbed, Untouched, Under
<1>13. CASE HungModeEnds
  <2>1. late' \/ UNCHANGED <<persistence, late>>
    BY <1>13 DEF HungModeEnds
  <2>2. QED
    BY <1>13, <2>1
       DEF HungModeEnds, LabInv, Told, Lowers, NotTouchedYet, RestoredIsSeen, CapIsNear,
           AsFound, Undisturbed, Untouched, Under
<1>14. CASE UNCHANGED hardwareVars
  BY <1>14
     DEF hardwareVars, limitVars, labVars, LabInv, Told, Lowers, NotTouchedYet,
         RestoredIsSeen, CapIsNear, AsFound, Undisturbed
<1>15. QED
  BY <1>1, <1>2, <1>3, <1>4, <1>5, <1>6, <1>7, <1>8, <1>9, <1>10, <1>11, <1>12, <1>13, <1>14
     DEF LabNext

LEMMA LabInvariance == LabSpec => []LabInv
  BY LabInvInit, LabInvStep, PTL DEF LabSpec

(***************************************************************************)
(* Type correctness of the trial, its settings and what is in flight.      *)
(***************************************************************************)
THEOREM LabTypes == LabSpec => []LabTypeOK
<1>1. LabInv => LabTypeOK
  BY DEF LabInv
<1>2. QED BY <1>1, LabInvariance, PTL

(***************************************************************************)
(* run_hardware_trial never tells of a restoration that did not happen,    *)
(* and never ends without the CRITICAL error over a GPU it changed,        *)
(* whatever failed or hung, unless somebody else changed the GPU as well.  *)
(***************************************************************************)
THEOREM LabVerdictIsTrue == LabSpec => []VerdictIsTrue
<1>1. LabInv => VerdictIsTrue
  BY DEF LabInv, LabTypeOK, Told, NotTouchedYet, RestoredIsSeen, AsFound, VerdictIsTrue, Outcomes
<1>2. QED BY <1>1, LabInvariance, PTL

-----------------------------------------------------------------------------
(***************************************************************************)
(* The refinement of RestorationContract, for a target that stands apart.  *)
(***************************************************************************)

LEMMA RestoredIsNotCapped ==
  ASSUME LabInv, TargetStandsApart, restored, writer = "cap"
  PROVE  late
<1>1. Target < initial.limit /\ initial.limit \in Watts /\ limit \in Watts
  BY DEF LabInv, RestoredIsSeen, LabTypeOK, States
<1>2. {Target, Tolerance, limit, initial.limit} \subseteq Nat
  BY <1>1, LimitAssumption
<1>3. limit - Target <= Tolerance /\ Target + 2 * Tolerance < initial.limit
  BY <1>1 DEF LabInv, CapIsNear, Near, TargetStandsApart
<1>4. ~Near(limit, initial.limit)
  BY <1>2, <1>3 DEF Near
<1>5. QED BY <1>4 DEF LabInv, RestoredIsSeen

Record ==
  CASE log = "empty" -> "none"
    [] log \in {"intent", "restore_failed"} -> "open"
    [] OTHER -> "closed"

LEMMA ContractStep ==
  ASSUME LabInv, LabInv', TargetStandsApart, [LabNext]_hardwareVars
  PROVE  [Contract!Next]_(Contract!contractVars)
<1> USE DEF Contract!Next, Contract!contractVars
<1> DEFINE Capped == writer = "cap"
           Pending == Target \in inflight
<1>0. LabTypeOK
  BY DEF LabInv
<1>1. CASE UNCHANGED <<limitVars, log>>
  BY <1>1 DEF limitVars
<1>2. CASE Intent
  <2>1. log = "empty" /\ log' \in {"empty", "intent"} /\ UNCHANGED limitVars
    BY <1>2 DEF Intent, LabInv, Told, Untouched
  <2>2. CASE log' = log
    BY <1>1, <2>1, <2>2
  <2>3. CASE log' = "intent"
    BY <2>1, <2>3 DEF Contract!OpenRecord, limitVars
  <2>4. QED BY <2>1, <2>2, <2>3
<1>3. CASE SetCap
  <2>1. log = "intent" /\ log' = log
    BY <1>3 DEF SetCap, LabInv, Told, Under
  <2>2. late' = late /\ (Pending' = Pending \/ (Pending' /\ Capped' = Capped))
    BY <1>3 DEF SetCap, SetLimit, CommandEnds, CommandHangs
  <2>3. QED BY <2>1, <2>2 DEF Contract!Cap
<1>4. CASE Restore
  <2>1. log' = log
    BY <1>4 DEF Restore
  <2>2. initial.limit # Target
    <3>1. Target < initial.limit /\ Target \in Nat
      BY <1>4, LimitAssumption DEF Restore, LabInv, Lowers
    <3>2. QED BY <3>1
  <2>3. late' = late /\ Pending' = Pending /\ (Capped' = Capped \/ Capped' = FALSE)
    BY <1>4, <2>2 DEF Restore, SetLimit, CommandEnds, CommandHangs, Takes, WriterOf
  <2>4. QED BY <2>1, <2>3 DEF Contract!Replace
<1>5. CASE Close
  <2>1. log = "intent" /\ UNCHANGED limitVars
    BY <1>5 DEF Close, LabInv, Told, Under
  <2>2. log' = log \/ log' = Closing.record
    BY <1>5 DEF Close
  <2>3. CASE log' \in {"intent", "restore_failed"}
    BY <2>1, <2>3 DEF limitVars
  <2>4. CASE log' \in {"failed_safe", "completed"}
    <3>1. restored
      BY <2>1, <2>2, <2>4 DEF Closing, Unproven, FailedSafe, Completed
    <3>2. ~Capped \/ late
      BY <3>1, RestoredIsNotCapped
    <3>3. QED BY <2>1, <2>4, <3>2 DEF Contract!CloseRecord, limitVars
  <2>5. QED
    BY <2>1, <2>2, <2>3, <2>4 DEF Closing, Unproven, FailedSafe, Completed
<1>6. CASE HungCommandEnds /\ UNCHANGED labVars
  <2>1. log' = log /\ late' \in {late, TRUE}
    BY <1>6 DEF HungCommandEnds, labVars
  <2>2. PICK w \in inflight :
          /\ inflight' = inflight \ {w}
          /\ (Takes(w) /\ late' = TRUE) \/ UNCHANGED <<limit, writer, late>>
    BY <1>6 DEF HungCommandEnds
  <2>3. CASE w = Target
    <3>1. Pending /\ Pending' = FALSE
      BY <2>2, <2>3
    <3>2. Capped' \in BOOLEAN
      OBVIOUS
    <3>3. Contract!PendingEnds
      BY <2>1, <3>1, <3>2, Zenon DEF Contract!PendingEnds
    <3>4. QED BY <3>3
  <2>4. CASE w # Target
    <3>1. Pending' = Pending /\ (Capped' = Capped \/ Capped' = FALSE)
      BY <2>2, <2>4 DEF Takes, WriterOf
    <3>2. QED BY <2>1, <3>1 DEF Contract!PendingEnds
  <2>5. QED BY <2>3, <2>4
<1>7. CASE Drift /\ UNCHANGED labVars
  BY <1>7 DEF Drift, labVars, Contract!Replace
<1>8. CASE HungModeEnds
  <2>1. log' = log /\ late' \in {late, TRUE} /\ Capped' = Capped /\ Pending' = Pending
    BY <1>8 DEF HungModeEnds
  <2>2. QED BY <2>1 DEF Contract!PendingEnds
<1>9. CASE Observe \/ Enable \/ Measure \/ Disable \/ Verify \/ Kill
  BY <1>0, <1>1, <1>9, SetPersistenceTypes
     DEF Observe, Enable, Measure, Disable, Verify, Kill
<1>10. CASE UNCHANGED hardwareVars
  BY <1>1, <1>10 DEF hardwareVars, labVars
<1>11. QED
  BY <1>2, <1>3, <1>4, <1>5, <1>6, <1>7, <1>8, <1>9, <1>10 DEF LabNext

(***************************************************************************)
(* run_hardware_trial keeps the promises of RestorationContract, with its  *)
(* audit log in the place of the journal: no cap before the intent is on   *)
(* record, no record of a restored GPU while the cap is in force.          *)
(***************************************************************************)
THEOREM LabKeepsContract == TargetStandsApart => (LabSpec => LabImplementsContract)
<1> SUFFICES ASSUME TargetStandsApart
             PROVE  LabSpec => LabImplementsContract
  OBVIOUS
<1>1. LabInit => Contract!Init
  BY DEF LabInit, LimitInit, Contract!Init
<1>2. LabInv /\ LabInv' /\ [LabNext]_hardwareVars => [Contract!Next]_(Contract!contractVars)
  BY ContractStep
<1>3. QED
  BY <1>1, <1>2, LabInvariance, PTL DEF LabSpec, LabImplementsContract, Contract!Spec

-----------------------------------------------------------------------------
(***************************************************************************)
(* The qualification, for any number of rounds and builds and any clock.   *)
(*                                                                         *)
(* A query runs the build on disk, which need not be the one pinned; that  *)
(* a reading only stands if it was is shown by the order of builds: what   *)
(* answered lies between the pinned and the installed build, and the last  *)
(* inspection of a reading finds those two equal.                          *)
(***************************************************************************)

MeterQueries == {"fru", "fru_read", "dcmi", "dcmi_read"}
GpuQueries == {"query", "drivers", "gpu_read"}
Answered == {"fru_read", "dcmi", "dcmi_read", "drivers", "gpu_read"}
Collected == {"write", "done"}

PinnedIsPast == \A t \in Tools : pinned[t] <= installed[t]

Between(t) == \A b \in taking.builds : pinned[t] <= b /\ b <= installed[t]

ReadingInProgress ==
    /\ pc \in MeterQueries => Between("bmc")
    /\ pc \in GpuQueries => Between("nvidia")
    /\ pc \in {"fru", "query"} => taking.builds = {}
    /\ pc \in Answered => taking.builds # {}

AnsweredBy(stream, t) == \A i \in DOMAIN stream : stream[i].builds = {pinned[t]}

Numbered(stream) == \A i \in DOMAIN stream : stream[i].seq = i - 1

StreamsAreNamed ==
    /\ pc \in {"start", "pin"} => meters = <<>> /\ gpus = <<>>
    /\ AnsweredBy(meters, "bmc") /\ AnsweredBy(gpus, "nvidia")
    /\ Numbered(meters) /\ Numbered(gpus)

ReportIsOfStreams ==
    report.accepted =>
        /\ pc \in Collected
        /\ OrderedStream(InTimeOrder(meters)) /\ OrderedStream(InTimeOrder(gpus))

QualificationInv ==
    /\ QualificationTypeOK
    /\ PinnedIsPast /\ ReadingInProgress /\ StreamsAreNamed /\ ReportIsOfStreams

LEMMA WallIsInteger == QualificationTypeOK => Wall \in Int
  BY DEF QualificationTypeOK, Wall

LEMMA BuildsAreNumbered == QualificationTypeOK => \A t \in Tools : installed[t] \in Nat
  BY DEF QualificationTypeOK

LEMMA TakenIsReading ==
  ASSUME QualificationTypeOK, NEW stream \in Seq(Readings)
  PROVE  /\ Taken(stream) \in Readings
         /\ Append(stream, Taken(stream)) \in Seq(Readings)
<1>1. Len(stream) \in Nat /\ Wall \in Int
  BY WallIsInteger
<1>2. Taken(stream) \in Readings
  BY <1>1 DEF QualificationTypeOK, Taken, Readings
<1>3. QED BY <1>2

LEMMA NothingIsTyped == Nothing \in [at : Int, since : Nat, builds : SUBSET (1 .. MaxBuild)]
  BY DEF Nothing

LEMMA FailedTypes ==
  ASSUME Failed
  PROVE  /\ pc' = "failed" /\ pinned' \in [Tools -> 0 .. MaxBuild]
         /\ taking' \in [at : Int, since : Nat, builds : SUBSET (1 .. MaxBuild)]
         /\ meters' = <<>> /\ gpus' = <<>> /\ report'.accepted = FALSE
         /\ meters' \in Seq(Readings) /\ gpus' \in Seq(Readings)
  BY NothingIsTyped, QualificationAssumption DEF Failed, NoReport

LEMMA CollectTypes == QualificationTypeOK /\ Collect => QualificationTypeOK'
<1> SUFFICES ASSUME QualificationTypeOK, Collect
             PROVE  QualificationTypeOK'
  OBVIOUS
<1> USE DEF QualificationTypeOK, environment, gating, Step, Running
<1>1. ASSUME NEW t \in Tools, NEW from, NEW to \in Running, Pin(t, from, to)
      PROVE  QualificationTypeOK'
  BY <1>1 DEF Pin
<1>2. ASSUME NEW t \in Tools, NEW from, NEW to \in Running, Begin(t, from, to)
      PROVE  QualificationTypeOK'
  <2>1. taking' \in [at : Int, since : Nat, builds : SUBSET (1 .. MaxBuild)]
    BY <1>2, WallIsInteger DEF Begin
  <2>2. QED BY <1>2, <2>1 DEF Begin
<1>3. ASSUME NEW t \in Tools, NEW from, NEW to \in Running, Query(t, from, to)
      PROVE  QualificationTypeOK'
  <2>1. taking.builds \cup {installed[t]} \in SUBSET (1 .. MaxBuild)
    OBVIOUS
  <2>2. taking' \in [at : Int, since : Nat, builds : SUBSET (1 .. MaxBuild)]
    BY <1>3, <2>1 DEF Query
  <2>3. QED BY <1>3, <2>2 DEF Query
<1>4. CASE CheckBetween
  BY <1>4 DEF CheckBetween
<1>5. CASE MeterEnd
  BY <1>5, TakenIsReading, NothingIsTyped DEF MeterEnd
<1>6. CASE GpuEnd
  BY <1>6, TakenIsReading, NothingIsTyped DEF GpuEnd
<1>7. CASE Sleep
  BY <1>7, QualificationAssumption DEF Sleep
<1>8. CASE Align
  BY <1>8 DEF Align, Accepted
<1>9. CASE Write
  BY <1>9, FailedTypes DEF Write
<1>10. CASE Fail
  BY <1>10, FailedTypes DEF Fail
<1>11. QED
  BY <1>1, <1>2, <1>3, <1>4, <1>5, <1>6, <1>7, <1>8, <1>9, <1>10 DEF Collect, Tools

\* A trial reads the packet and the executables and changes neither.
LEMMA TrialSteps ==
  ASSUME Trial
  PROVE  UNCHANGED <<real, back, installed, pc, pinned, taking, meters, gpus, report, file>>
  BY DEF Trial, Admit, Recheck, Ask, Inspect, Cap, GiveUp, environment, collection

GateType == [at : Nat, back : Nat, builds : [Tools -> 0 .. MaxBuild]]

LEMMA NotAskedIsTyped ==
  ASSUME NEW a \in Nat, NEW b \in Nat
  PROVE  NotAsked \in GateType /\ [NotAsked EXCEPT !.at = a, !.back = b] \in GateType
<1>1. [t \in Tools |-> 0] \in [Tools -> 0 .. MaxBuild]
  BY QualificationAssumption
<1>2. NotAsked = [at |-> 0, back |-> 0, builds |-> [t \in Tools |-> 0]]
  BY DEF NotAsked
<1>3. NotAsked \in GateType
  <2> HIDE DEF NotAsked
  <2> QED BY <1>1, <1>2 DEF GateType
<1>4. [NotAsked EXCEPT !.at = a, !.back = b] \in GateType
  BY <1>3 DEF GateType
<1>5. QED BY <1>3, <1>4

LEMMA TrialTypes ==
  ASSUME QualificationTypeOK, Trial
  PROVE  /\ trial' \in {"idle", "admitting", "admitted", "clearing", "cleared", "capped", "refused"}
         /\ gate' \in GateType
<1>1. CASE Admit \/ Recheck
  BY <1>1, NotAskedIsTyped DEF Admit, Recheck, Ask, QualificationTypeOK
<1>2. ASSUME NEW t \in Tools, NEW call,
             NEW to \in {"admitted", "cleared"}, call \in {"admitting", "clearing"},
             Inspect(t, call, to)
      PROVE  /\ trial' \in {"admitting", "admitted", "clearing", "cleared", "refused"}
             /\ gate' \in GateType
  <2>1. installed[t] \in 0 .. MaxBuild /\ gate \in GateType
    BY DEF QualificationTypeOK, GateType
  <2>2. [gate EXCEPT !.builds[t] = installed[t]] \in GateType
    BY <2>1 DEF GateType
  <2>3. QED BY <1>2, <2>2, NotAskedIsTyped DEF Inspect, QualificationTypeOK
<1>3. CASE Cap \/ GiveUp
  BY <1>3, NotAskedIsTyped DEF Cap, GiveUp, QualificationTypeOK, GateType
<1>4. QED BY <1>1, <1>2, <1>3 DEF Trial

LEMMA QualificationTypesStep == QualificationTypeOK /\ [Next]_vars => QualificationTypeOK'
<1> SUFFICES ASSUME QualificationTypeOK, [Next]_vars
             PROVE  QualificationTypeOK'
  OBVIOUS
<1>1. CASE Collect
  BY <1>1, CollectTypes
<1>2. CASE Trial
  BY <1>2, TrialSteps, TrialTypes DEF QualificationTypeOK, GateType
<1>3. CASE Tick \/ SetBack
  BY <1>3 DEF Tick, SetBack, QualificationTypeOK, collection, gating
<1>4. ASSUME NEW t \in Tools, Install(t)
      PROVE  QualificationTypeOK'
  BY <1>4, QualificationAssumption DEF Install, QualificationTypeOK, collection, gating
<1>5. CASE UNCHANGED vars
  BY <1>5 DEF vars, QualificationTypeOK
<1>6. QED BY <1>1, <1>2, <1>3, <1>4, <1>5 DEF Next

LEMMA QualificationInvInit == Init => QualificationInv
<1> SUFFICES ASSUME Init
             PROVE  QualificationInv
  OBVIOUS
<1>0. gate \in GateType
  BY NotAskedIsTyped DEF Init
<1>1. QualificationTypeOK
  BY <1>0, NothingIsTyped, QualificationAssumption
     DEF Init, QualificationTypeOK, NoReport, Running, GateType
<1>2. PinnedIsPast /\ ReadingInProgress /\ StreamsAreNamed /\ ReportIsOfStreams
  BY DEF Init, NoReport, PinnedIsPast, ReadingInProgress, StreamsAreNamed, AnsweredBy, Numbered,
         ReportIsOfStreams, MeterQueries, GpuQueries, Answered
<1>3. QED BY <1>1, <1>2 DEF QualificationInv

\* A reading that ends after a last inspection was answered by the pinned build.
LEMMA EndedAsPinned ==
  ASSUME QualificationTypeOK, NEW t \in Tools, Between(t), taking.builds # {}, Unchanged(t)
  PROVE  taking.builds = {pinned[t]}
<1>1. \A b \in taking.builds : b \in Nat /\ b = pinned[t]
  BY DEF QualificationTypeOK, Between, Unchanged
<1>2. QED BY <1>1

LEMMA StreamGrows ==
  ASSUME QualificationTypeOK, NEW t \in Tools, NEW stream \in Seq(Readings),
         AnsweredBy(stream, t), Numbered(stream), taking.builds = {pinned[t]}
  PROVE  /\ \A i \in DOMAIN Append(stream, Taken(stream)) :
              Append(stream, Taken(stream))[i].builds = {pinned[t]}
         /\ Numbered(Append(stream, Taken(stream)))
<1> DEFINE longer == Append(stream, Taken(stream))
<1>1. /\ DOMAIN longer = 1 .. Len(stream) + 1 /\ Len(stream) \in Nat
      /\ \A i \in 1 .. Len(stream) : longer[i] = stream[i]
      /\ longer[Len(stream) + 1] = Taken(stream)
      /\ DOMAIN stream = 1 .. Len(stream)
  BY TakenIsReading
<1>2. Taken(stream).builds = {pinned[t]} /\ Taken(stream).seq = Len(stream)
  BY DEF Taken
<1>3. \A i \in DOMAIN longer : longer[i].builds = {pinned[t]} /\ longer[i].seq = i - 1
  BY <1>1, <1>2 DEF AnsweredBy, Numbered
<1>4. QED BY <1>3 DEF Numbered

\* What holds of the steps that leave the readings and the pinned builds alone.
LEMMA KeptInv ==
  ASSUME QualificationInv, UNCHANGED <<pinned, meters, gpus, report>>,
         report.accepted => pc' \in Collected, pc' \notin {"start", "pin"} \/ pc' = pc
  PROVE  StreamsAreNamed' /\ ReportIsOfStreams'
<1>1. StreamsAreNamed'
  BY DEF QualificationInv, StreamsAreNamed, AnsweredBy, Numbered
<1>2. ReportIsOfStreams'
  BY DEF QualificationInv, ReportIsOfStreams
<1>3. QED BY <1>1, <1>2

LEMMA FailedInv ==
  ASSUME QualificationInv, Failed, UNCHANGED installed
  PROVE  PinnedIsPast' /\ ReadingInProgress' /\ StreamsAreNamed' /\ ReportIsOfStreams'
<1>1. PinnedIsPast'
  BY DEF QualificationInv, QualificationTypeOK, Failed, PinnedIsPast
<1>2. ReadingInProgress'
  BY DEF Failed, ReadingInProgress, MeterQueries, GpuQueries, Answered
<1>3. StreamsAreNamed' /\ ReportIsOfStreams'
  BY DEF Failed, StreamsAreNamed, AnsweredBy, Numbered, ReportIsOfStreams, NoReport
<1>4. QED BY <1>1, <1>2, <1>3

LEMMA CollectInv ==
  ASSUME QualificationInv, QualificationTypeOK', Collect
  PROVE  QualificationInv'
<1> USE DEF environment, gating, Step, MeterQueries, GpuQueries, Answered, Collected, Tools
<1>0. QualificationTypeOK
  BY DEF QualificationInv
<1> DEFINE Goal == PinnedIsPast' /\ ReadingInProgress' /\ StreamsAreNamed' /\ ReportIsOfStreams'
<1> SUFFICES Goal
  BY DEF QualificationInv
<1>1. ASSUME NEW t \in Tools, NEW from \in {"start", "pin"}, NEW to \in {"pin", "meter"},
             Pin(t, from, to)
      PROVE  Goal
  <2>1. PinnedIsPast'
    BY <1>0, <1>1 DEF Pin, QualificationInv, QualificationTypeOK, PinnedIsPast
  <2>2. meters = <<>> /\ gpus = <<>> /\ ~report.accepted
    BY <1>1 DEF Pin, QualificationInv, StreamsAreNamed, ReportIsOfStreams
  <2>3. StreamsAreNamed' /\ ReportIsOfStreams'
    BY <1>1, <2>2 DEF Pin, StreamsAreNamed, AnsweredBy, Numbered, ReportIsOfStreams
  <2>4. ReadingInProgress'
    BY <1>1 DEF Pin, ReadingInProgress
  <2>5. QED BY <2>1, <2>3, <2>4
<1>2. CASE Begin("bmc", "meter", "fru") \/ Begin("nvidia", "gpu", "query")
  <2>1. taking'.builds = {} /\ pc' \in {"fru", "query"}
        /\ UNCHANGED <<installed, pinned, meters, gpus, report>>
    BY <1>2 DEF Begin
  <2>2. PinnedIsPast'
    BY <2>1 DEF QualificationInv, PinnedIsPast
  <2>3. ReadingInProgress'
    BY <2>1 DEF ReadingInProgress, Between
  <2>4. ~report.accepted
    BY <1>2 DEF Begin, QualificationInv, ReportIsOfStreams
  <2>5. QED BY <2>1, <2>2, <2>3, <2>4, KeptInv
<1>3. ASSUME NEW t \in Tools, NEW from, NEW to, Query(t, from, to),
             <<t, from, to>> \in {<<"bmc", "fru", "fru_read">>, <<"bmc", "dcmi", "dcmi_read">>,
                                  <<"nvidia", "query", "drivers">>,
                                  <<"nvidia", "drivers", "gpu_read">>}
      PROVE  Goal
  <2>1. /\ taking'.builds = taking.builds \cup {installed[t]}
        /\ UNCHANGED <<installed, pinned, meters, gpus, report>> /\ pc = from /\ pc' = to
    BY <1>0, <1>3 DEF Query, QualificationTypeOK
  <2>2. PinnedIsPast'
    BY <2>1 DEF QualificationInv, PinnedIsPast
  <2>3. Between(t)'
    <3>1. Between(t)
      BY <1>3, <2>1 DEF QualificationInv, ReadingInProgress
    <3>2. pinned[t] <= installed[t] /\ installed[t] <= installed[t]
      <4>1. installed[t] \in Nat
        BY <1>0, BuildsAreNumbered
      <4>2. pinned[t] <= installed[t]
        BY DEF QualificationInv, PinnedIsPast
      <4>3. QED BY <4>1, <4>2
    <3>3. QED BY <2>1, <3>1, <3>2 DEF Between
  <2>4. ReadingInProgress'
    BY <1>3, <2>1, <2>3 DEF ReadingInProgress
  <2>5. ~report.accepted
    BY <1>3, <2>1 DEF QualificationInv, ReportIsOfStreams
  <2>6. pc' \notin {"start", "pin"}
    BY <1>3, <2>1
  <2>7. QED BY <2>1, <2>2, <2>4, <2>5, <2>6, KeptInv
<1>4. CASE CheckBetween
  <2>1. UNCHANGED <<installed, pinned, meters, gpus, report, taking>>
        /\ pc = "fru_read" /\ pc' = "dcmi"
    BY <1>4 DEF CheckBetween
  <2>2. PinnedIsPast'
    BY <2>1 DEF QualificationInv, PinnedIsPast
  <2>3. ReadingInProgress'
    BY <2>1 DEF QualificationInv, ReadingInProgress, Between
  <2>4. ~report.accepted
    BY <2>1 DEF QualificationInv, ReportIsOfStreams
  <2>5. QED BY <2>1, <2>2, <2>3, <2>4, KeptInv
<1>5. CASE MeterEnd
  <2>1. /\ pc = "dcmi_read" /\ pc' = "gpu" /\ Unchanged("bmc")
        /\ meters' = Append(meters, Taken(meters))
        /\ UNCHANGED <<installed, pinned, gpus, report>>
    BY <1>5 DEF MeterEnd
  <2>2. taking.builds = {pinned["bmc"]}
    BY <1>0, <2>1, EndedAsPinned DEF QualificationInv, ReadingInProgress
  <2>3. meters \in Seq(Readings) /\ AnsweredBy(meters, "bmc") /\ Numbered(meters)
        /\ AnsweredBy(gpus, "nvidia") /\ Numbered(gpus)
    BY DEF QualificationInv, QualificationTypeOK, StreamsAreNamed
  <2>4. AnsweredBy(meters, "bmc")' /\ Numbered(meters)'
    BY <1>0, <2>1, <2>2, <2>3, StreamGrows DEF AnsweredBy
  <2>5. AnsweredBy(gpus, "nvidia")' /\ Numbered(gpus)'
    BY <2>1, <2>3 DEF AnsweredBy, Numbered
  <2>6. StreamsAreNamed'
    BY <2>1, <2>4, <2>5 DEF StreamsAreNamed
  <2>7. PinnedIsPast' /\ ReadingInProgress' /\ ReportIsOfStreams'
    BY <2>1 DEF QualificationInv, PinnedIsPast, ReadingInProgress, ReportIsOfStreams
  <2>8. QED BY <2>6, <2>7
<1>6. CASE GpuEnd
  <2>1. /\ pc = "gpu_read" /\ pc' \in {"sleep", "align"} /\ Unchanged("nvidia")
        /\ gpus' = Append(gpus, Taken(gpus))
        /\ UNCHANGED <<installed, pinned, meters, report>>
    BY <1>6 DEF GpuEnd
  <2>2. taking.builds = {pinned["nvidia"]}
    BY <1>0, <2>1, EndedAsPinned DEF QualificationInv, ReadingInProgress
  <2>3. gpus \in Seq(Readings) /\ AnsweredBy(meters, "bmc") /\ Numbered(meters)
        /\ AnsweredBy(gpus, "nvidia") /\ Numbered(gpus)
    BY DEF QualificationInv, QualificationTypeOK, StreamsAreNamed
  <2>4. AnsweredBy(gpus, "nvidia")' /\ Numbered(gpus)'
    BY <1>0, <2>1, <2>2, <2>3, StreamGrows DEF AnsweredBy
  <2>5. AnsweredBy(meters, "bmc")' /\ Numbered(meters)'
    BY <2>1, <2>3 DEF AnsweredBy, Numbered
  <2>6. StreamsAreNamed'
    BY <2>1, <2>4, <2>5 DEF StreamsAreNamed
  <2>7. PinnedIsPast' /\ ReadingInProgress' /\ ReportIsOfStreams'
    BY <2>1 DEF QualificationInv, PinnedIsPast, ReadingInProgress, ReportIsOfStreams
  <2>8. QED BY <2>6, <2>7
<1>7. CASE Sleep
  <2>1. UNCHANGED <<installed, pinned, taking, meters, gpus, report>>
        /\ pc = "sleep" /\ pc' = "meter"
    BY <1>7 DEF Sleep
  <2>2. PinnedIsPast' /\ ReadingInProgress'
    BY <2>1 DEF QualificationInv, PinnedIsPast, ReadingInProgress
  <2>3. ~report.accepted
    BY <2>1 DEF QualificationInv, ReportIsOfStreams
  <2>4. QED BY <2>1, <2>2, <2>3, KeptInv
<1>8. CASE Align
  <2>1. UNCHANGED <<installed, pinned, taking, meters, gpus>> /\ pc = "align" /\ pc' = "write"
    BY <1>8 DEF Align
  <2>2. PinnedIsPast' /\ ReadingInProgress' /\ StreamsAreNamed'
    BY <2>1 DEF QualificationInv, PinnedIsPast, ReadingInProgress, StreamsAreNamed, AnsweredBy,
                Numbered
  <2>3. report'.accepted => OrderedStream(InTimeOrder(meters)) /\ OrderedStream(InTimeOrder(gpus))
    BY <1>8 DEF Align, Accepted
  <2>4. ReportIsOfStreams'
    BY <2>1, <2>3 DEF ReportIsOfStreams
  <2>5. QED BY <2>2, <2>4
<1>9. CASE Write
  <2>1. CASE pc' = "done" /\ UNCHANGED <<pinned, taking, meters, gpus, report>>
    <3>1. PinnedIsPast' /\ ReadingInProgress'
      BY <1>9, <2>1 DEF Write, QualificationInv, PinnedIsPast, ReadingInProgress
    <3>2. QED BY <2>1, <3>1, KeptInv
  <2>2. CASE Failed
    BY <1>9, <2>2, FailedInv DEF Write
  <2>3. QED BY <1>9, <2>1, <2>2 DEF Write
<1>10. CASE Fail
  BY <1>10, FailedInv DEF Fail
<1>11. QED
  BY <1>1, <1>2, <1>3, <1>4, <1>5, <1>6, <1>7, <1>8, <1>9, <1>10 DEF Collect
LEMMA QualificationInvStep == QualificationInv /\ [Next]_vars => QualificationInv'
<1> SUFFICES ASSUME QualificationInv, [Next]_vars
             PROVE  QualificationInv'
  OBVIOUS
<1> USE DEF environment
<1>0. QualificationTypeOK /\ QualificationTypeOK'
  BY QualificationTypesStep DEF QualificationInv
<1>1. CASE Collect
  BY <1>0, <1>1, CollectInv
<1>2. ASSUME UNCHANGED <<installed, pc, pinned, taking, meters, gpus, report>>
      PROVE  QualificationInv'
  <2>1. PinnedIsPast' /\ ReadingInProgress' /\ StreamsAreNamed'
    BY <1>2 DEF QualificationInv, PinnedIsPast, ReadingInProgress, StreamsAreNamed, AnsweredBy,
                Numbered, Between
  <2>2. ReportIsOfStreams'
    BY <1>2 DEF QualificationInv, ReportIsOfStreams
  <2>3. QED BY <1>0, <2>1, <2>2 DEF QualificationInv
<1>3. CASE Trial \/ Tick \/ SetBack \/ UNCHANGED vars
  BY <1>2, <1>3, TrialSteps DEF Tick, SetBack, vars, collection
<1>4. ASSUME NEW t \in Tools, Install(t)
      PROVE  QualificationInv'
  <2>1. UNCHANGED <<pc, pinned, taking, meters, gpus, report>>
        /\ \A u \in Tools : installed[u] <= installed'[u]
    BY <1>0, <1>4 DEF Install, QualificationTypeOK, collection
  <2>2. PinnedIsPast'
    BY <1>0, <2>1 DEF QualificationInv, PinnedIsPast, QualificationTypeOK
  <2>3. \A u \in Tools : Between(u) => Between(u)'
    BY <1>0, <2>1 DEF Between, QualificationTypeOK
  <2>4. ReadingInProgress'
    BY <2>1, <2>3 DEF QualificationInv, ReadingInProgress, Tools
  <2>5. StreamsAreNamed'
    BY <2>1 DEF QualificationInv, StreamsAreNamed, AnsweredBy, Numbered
  <2>6. ReportIsOfStreams'
    BY <2>1 DEF QualificationInv, ReportIsOfStreams
  <2>7. QED BY <1>0, <2>2, <2>4, <2>5, <2>6 DEF QualificationInv
<1>5. QED BY <1>1, <1>3, <1>4 DEF Next

LEMMA QualificationInvariance == Spec => []QualificationInv
  BY QualificationInvInit, QualificationInvStep, PTL DEF Spec

(***************************************************************************)
(* Type correctness of the clocks, the executables, the readings and what  *)
(* the gate reads of the packet.                                           *)
(***************************************************************************)
THEOREM QualificationTypes == Spec => []QualificationTypeOK
<1>1. QualificationInv => QualificationTypeOK
  BY DEF QualificationInv
<1>2. QED BY <1>1, QualificationInvariance, PTL

(***************************************************************************)
(* Every query behind a written packet of collect_read_only_qualification  *)
(* was answered by the build the packet names, whatever was installed      *)
(* while it ran.                                                           *)
(***************************************************************************)
THEOREM ReadersNamed == Spec => []ReadersAreNamed
<1>1. QualificationInv => ReadersAreNamed
  BY DEF QualificationInv, StreamsAreNamed, AnsweredBy, ReadersAreNamed
<1>2. QED BY <1>1, QualificationInvariance, PTL

(***************************************************************************)
(* What the gate has found so far stays true of the packet, which nobody   *)
(* writes again: the readings were fresh at the clock the call read, and   *)
(* every executable it inspected was the pinned build.                     *)
(***************************************************************************)

FreshAt(asked) ==
    \A stream \in {meters, gpus} : \A i \in DOMAIN stream :
        asked.at - asked.back - stream[i].at <= PacketMaxAge

GateIsTrue ==
    trial \in {"admitting", "admitted", "clearing", "cleared", "capped"} =>
        /\ file = "whole" /\ FreshAt(gate)
        /\ \A t \in Tools : gate.builds[t] \in {0, pinned[t]}
        /\ trial \notin {"admitting", "clearing"} => \A t \in Tools : gate.builds[t] # 0

WholeIsDone == file = "whole" => pc = "done"

GateInv == GateIsTrue /\ WholeIsDone

LEMMA PacketIsFresh ==
  ASSUME QualificationTypeOK, PacketAccepted
  PROVE  FreshAt([at |-> real, back |-> back])
<1>1. SUFFICES ASSUME NEW stream \in {meters, gpus}, NEW i \in DOMAIN stream
               PROVE  real - back - stream[i].at <= PacketMaxAge
  BY DEF FreshAt
<1>2. Fresh(stream[i].at)
  BY DEF PacketAccepted
<1>3. stream \in Seq(Readings) /\ real \in Nat /\ back \in Nat
  BY DEF QualificationTypeOK
<1>4. stream[i].at \in Int
  <2>1. stream[i] \in Readings
    BY <1>3
  <2>2. QED BY <2>1 DEF Readings
<1>5. QED BY <1>2, <1>3, <1>4, QualificationAssumption DEF Fresh, Wall

\* While nothing of the packet and of what the gate read changes, all of it stays.
LEMMA GateKept ==
  ASSUME GateInv, UNCHANGED <<pc, pinned, meters, gpus, file, trial, gate>>
  PROVE  GateInv'
  BY DEF GateInv, GateIsTrue, WholeIsDone, FreshAt

\* No step of a collection is left once its packet is whole.
LEMMA CollectGate ==
  ASSUME GateInv, Collect
  PROVE  GateInv'
<1> USE DEF gating, Step
<1>1. file # "whole"
  BY DEF GateInv, WholeIsDone, Collect, Pin, Begin, Query, CheckBetween, MeterEnd, GpuEnd, Sleep,
         Align, Write, Fail, Running
<1>2. trial \notin {"admitting", "admitted", "clearing", "cleared", "capped"}
  BY <1>1 DEF GateInv, GateIsTrue
<1>3. UNCHANGED <<trial, gate>>
  BY DEF Collect, Pin, Begin, Query, CheckBetween, MeterEnd, GpuEnd, Sleep, Align, Write, Fail
<1>4. file' = "whole" => pc' = "done"
  BY <1>1 DEF Collect, Pin, Begin, Query, CheckBetween, MeterEnd, GpuEnd, Sleep, Align, Write, Fail
<1>5. QED BY <1>2, <1>3, <1>4 DEF GateInv, GateIsTrue, WholeIsDone

LEMMA AskGate ==
  ASSUME QualificationTypeOK, GateInv, NEW call \in {"admitting", "clearing"}, Ask(call)
  PROVE  GateInv'
<1> USE DEF collection
<1>1. CASE ~PacketAccepted
  BY <1>1 DEF Ask, GateInv, GateIsTrue, WholeIsDone
<1>2. CASE PacketAccepted
  <2>1. trial' = call /\ gate'.at = real /\ gate'.back = back
        /\ \A t \in Tools : gate'.builds[t] = 0
    BY <1>2 DEF Ask, NotAsked
  <2>2. UNCHANGED <<pc, pinned, meters, gpus, file>> /\ file = "whole"
    BY <1>2 DEF Ask, PacketAccepted
  <2>3. FreshAt(gate)'
    BY <1>2, <2>1, <2>2, PacketIsFresh DEF FreshAt
  <2>4. QED BY <2>1, <2>2, <2>3 DEF GateInv, GateIsTrue, WholeIsDone
<1>3. QED BY <1>1, <1>2

LEMMA InspectGate ==
  ASSUME QualificationTypeOK, GateInv, NEW t \in Tools,
         NEW call \in {"admitting", "clearing"}, NEW to \in {"admitted", "cleared"},
         Inspect(t, call, to)
  PROVE  GateInv'
<1> USE DEF collection
<1>1. CASE ~Unchanged(t)
  BY <1>1 DEF Inspect, GateInv, GateIsTrue, WholeIsDone
<1>2. CASE Unchanged(t)
  <2>1. gate'.at = gate.at /\ gate'.back = gate.back /\ gate'.builds[t] = pinned[t]
        /\ \A u \in Tools \ {t} : gate'.builds[u] = gate.builds[u]
    BY <1>2 DEF Inspect, Unchanged, QualificationTypeOK
  <2>2. UNCHANGED <<pc, pinned, meters, gpus, file>> /\ trial = call
        /\ trial' = IF t = "bmc" THEN to ELSE call
    BY <1>2 DEF Inspect
  <2>3. file = "whole" /\ FreshAt(gate) /\ \A u \in Tools : gate.builds[u] \in {0, pinned[u]}
    BY <2>2 DEF GateInv, GateIsTrue
  <2>4. FreshAt(gate)'
    BY <2>1, <2>2, <2>3 DEF FreshAt
  <2>5. \A u \in Tools : gate'.builds[u] \in {0, pinned[u]}
    BY <2>1, <2>3
  <2>6. pinned[t] = installed[t] /\ installed[t] # 0
    BY <1>2 DEF Unchanged, QualificationTypeOK
  <2>7. t = "bmc" => \A u \in Tools : gate'.builds[u] # 0
    BY <2>1, <2>6 DEF Inspect, Tools
  <2>8. QED BY <2>2, <2>3, <2>4, <2>5, <2>7 DEF GateInv, GateIsTrue, WholeIsDone
<1>3. QED BY <1>1, <1>2

LEMMA GateInvStep ==
  ASSUME QualificationTypeOK, GateInv, [Next]_vars
  PROVE  GateInv'
<1>1. CASE Collect
  BY <1>1, CollectGate
<1>2. CASE Admit \/ Recheck
  BY <1>2, AskGate DEF Admit, Recheck
<1>3. ASSUME NEW t \in Tools,
             Inspect(t, "admitting", "admitted") \/ Inspect(t, "clearing", "cleared")
      PROVE  GateInv'
  BY <1>3, InspectGate
<1>4. CASE Cap \/ GiveUp
  BY <1>4 DEF Cap, GiveUp, collection, GateInv, GateIsTrue, WholeIsDone, FreshAt
<1>5. CASE Tick \/ SetBack \/ (\E t \in Tools : Install(t)) \/ UNCHANGED vars
  BY <1>5, GateKept DEF Tick, SetBack, Install, vars, collection, gating
<1>6. QED BY <1>1, <1>2, <1>3, <1>4, <1>5 DEF Next, Trial

LEMMA GateInvariance == Spec => []GateInv
<1>1. Init => GateInv
  BY DEF Init, GateInv, GateIsTrue, WholeIsDone
<1>2. QualificationInv => QualificationTypeOK
  BY DEF QualificationInv
<1>3. QED BY <1>1, <1>2, GateInvStep, QualificationInvariance, PTL DEF Spec

(***************************************************************************)
(* The cap of a trial rests on its qualification: the second call of the   *)
(* gate, DrainBeforeControl.set_limit to validate_qualification_packet,    *)
(* found the builds that answered the queries, and readings within their   *)
(* age at the clock it read; no later step of the trial or of an           *)
(* administrator undoes what it found.                                     *)
(***************************************************************************)
THEOREM CapRests == Spec => []CapRestsOnQualification
<1>1. ASSUME QualificationInv, GateInv, trial \in {"cleared", "capped"}
      PROVE  /\ \A i \in DOMAIN meters : meters[i].builds = {gate.builds["bmc"]}
             /\ \A i \in DOMAIN gpus : gpus[i].builds = {gate.builds["nvidia"]}
             /\ gate.back = 0 => \A stream \in {meters, gpus} :
                  \A i \in DOMAIN stream : gate.at - stream[i].at <= PacketMaxAge
  <2>1. gate.builds["bmc"] = pinned["bmc"] /\ gate.builds["nvidia"] = pinned["nvidia"]
    BY <1>1 DEF GateInv, GateIsTrue, Tools
  <2>2. AnsweredBy(meters, "bmc") /\ AnsweredBy(gpus, "nvidia")
    BY <1>1 DEF QualificationInv, StreamsAreNamed
  <2>3. FreshAt(gate) /\ gate.at \in Nat
    BY <1>1 DEF GateInv, GateIsTrue, QualificationInv, QualificationTypeOK
  <2>4. ASSUME gate.back = 0, NEW stream \in {meters, gpus}, NEW i \in DOMAIN stream
        PROVE  gate.at - stream[i].at <= PacketMaxAge
    BY <2>3, <2>4 DEF FreshAt
  <2>5. QED BY <2>1, <2>2, <2>4 DEF AnsweredBy
<1>2. QualificationInv /\ GateInv => CapRestsOnQualification
  BY <1>1 DEF CapRestsOnQualification
<1>3. QED BY <1>2, QualificationInvariance, GateInvariance, PTL

-----------------------------------------------------------------------------
(***************************************************************************)
(* The alignment.  What is said of every turn of its loop is proved from   *)
(* the first turn it could fail for.                                       *)
(***************************************************************************)
LEMMA Least ==
  ASSUME NEW T \in SUBSET Nat, T # {}
  PROVE  \E x \in T : \A y \in T : x <= y
<1> DEFINE R == OpToRel(<, Nat)
<1>1. IsWellFoundedOn(R, Nat)
  BY NatLessThanWellFounded
<1>2. PICK x \in T : \A y \in T : ~(<<y, x>> \in R)
  <2> HIDE DEF R
  <2> QED BY <1>1, WFMin
<1>3. \A y \in T : ~(y < x)
  BY <1>2 DEF OpToRel
<1>4. QED BY <1>3

\* What grows from each place to the next grows throughout.
LEMMA Ascending ==
  ASSUME NEW n \in Nat, NEW f, \A k \in 1..n : f[k] \in Int,
         \A k \in 1 .. n - 1 : f[k] < f[k + 1]
  PROVE  \A i, j \in 1..n : i < j => f[i] < f[j]
<1> DEFINE T == {j \in 1..n : \E i \in 1..n : i < j /\ ~(f[i] < f[j])}
<1> SUFFICES ASSUME T # {}
             PROVE  FALSE
  OBVIOUS
<1>0. T \in SUBSET Nat
  OBVIOUS
<1>1. PICK j \in T : \A y \in T : j <= y
  <2> HIDE DEF T
  <2> QED BY <1>0, Least
<1>2. PICK i \in 1..n : i < j /\ ~(f[i] < f[j])
  BY <1>1
<1>3. j - 1 \in 1 .. n - 1 /\ i <= j - 1 /\ (j - 1) + 1 = j /\ j - 1 \in 1..n /\ j \in 1..n
  BY <1>1, <1>2
<1>4. f[j - 1] < f[j]
  BY <1>3
<1>5. CASE i = j - 1
  BY <1>2, <1>4, <1>5
<1>6. CASE i # j - 1
  <2>1. i < j - 1
    BY <1>2, <1>3, <1>6
  <2>2. j - 1 \notin T
    <3>1. ~(j <= j - 1)
      BY <1>3
    <3>2. QED BY <1>1, <3>1
  <2>3. f[i] < f[j - 1]
    BY <1>2, <1>3, <2>1, <2>2
  <2>4. f[i] \in Int /\ f[j - 1] \in Int /\ f[j] \in Int
    BY <1>2, <1>3
  <2>5. QED BY <1>2, <1>4, <2>3, <2>4
<1>7. QED BY <1>5, <1>6

(***************************************************************************)
(* The stable sort: every place of the sorted stream is the rank of one    *)
(* reading.                                                                *)
(***************************************************************************)
Earlier(stream, i) == {j \in DOMAIN stream : Before(stream, j, i)}

Rank(stream, i) == Cardinality(Earlier(stream, i))

LEMMA Stamped ==
  ASSUME NEW stream \in Seq(Readings)
  PROVE  \A i \in DOMAIN stream : stream[i].at \in Int /\ i \in Int
<1>1. \A i \in DOMAIN stream : stream[i] \in Readings /\ i \in Int
  OBVIOUS
<1>2. QED BY <1>1 DEF Readings

LEMMA RankBounds ==
  ASSUME NEW stream \in Seq(Readings), NEW i \in DOMAIN stream
  PROVE  /\ IsFiniteSet(Earlier(stream, i))
         /\ Rank(stream, i) \in 0 .. Len(stream) - 1
<1>1. /\ Len(stream) \in Nat /\ DOMAIN stream = 1 .. Len(stream)
      /\ \A j \in DOMAIN stream : stream[j].at \in Int
  BY Stamped
<1>2. IsFiniteSet(DOMAIN stream) /\ Cardinality(DOMAIN stream) = Len(stream)
  <2>1. /\ IsFiniteSet(1 .. Len(stream))
        /\ Cardinality(1 .. Len(stream)) = IF 1 > Len(stream) THEN 0 ELSE Len(stream) - 1 + 1
    BY <1>1, FS_Interval
  <2>2. QED BY <1>1, <2>1
<1>3. i \notin Earlier(stream, i) /\ Earlier(stream, i) \subseteq DOMAIN stream
  BY <1>1 DEF Earlier, Before
<1>4. IsFiniteSet((DOMAIN stream) \ {i}) /\ Cardinality((DOMAIN stream) \ {i}) = Len(stream) - 1
  BY <1>2, FS_RemoveElement
<1>5. Earlier(stream, i) \in SUBSET ((DOMAIN stream) \ {i})
  BY <1>3
<1>6. /\ IsFiniteSet(Earlier(stream, i))
      /\ Cardinality(Earlier(stream, i)) <= Len(stream) - 1
  BY <1>4, <1>5, FS_Subset
<1>7. Cardinality(Earlier(stream, i)) \in Nat
  BY <1>6, FS_CardinalityType
<1>8. QED BY <1>1, <1>6, <1>7 DEF Rank

LEMMA RankFollows ==
  ASSUME NEW stream \in Seq(Readings), NEW i \in DOMAIN stream, NEW j \in DOMAIN stream,
         Before(stream, i, j)
  PROVE  Rank(stream, i) < Rank(stream, j)
<1>1. \A k \in DOMAIN stream : stream[k].at \in Int /\ k \in Int
  BY Stamped
<1>2. Earlier(stream, i) \subseteq Earlier(stream, j)
  BY <1>1 DEF Earlier, Before
<1>3. i \in Earlier(stream, j) /\ i \notin Earlier(stream, i)
  BY <1>1 DEF Earlier, Before
<1>4. IsFiniteSet(Earlier(stream, j)) /\ Earlier(stream, i) \in SUBSET Earlier(stream, j)
  BY <1>2, RankBounds
<1>5. /\ Cardinality(Earlier(stream, i)) <= Cardinality(Earlier(stream, j))
      /\ Cardinality(Earlier(stream, i)) # Cardinality(Earlier(stream, j))
  BY <1>3, <1>4, FS_Subset
<1>6. Rank(stream, i) \in Int /\ Rank(stream, j) \in Int
  BY RankBounds
<1>7. QED BY <1>5, <1>6 DEF Rank

LEMMA RankTells ==
  ASSUME NEW stream \in Seq(Readings), NEW i \in DOMAIN stream, NEW j \in DOMAIN stream,
         i # j
  PROVE  Rank(stream, i) # Rank(stream, j)
<1>1. \A k \in DOMAIN stream : stream[k].at \in Int /\ k \in Int
  BY Stamped
<1>2. Before(stream, i, j) \/ Before(stream, j, i)
  BY <1>1 DEF Before
<1>3. Rank(stream, i) < Rank(stream, j) \/ Rank(stream, j) < Rank(stream, i)
  BY <1>2, RankFollows
<1>4. Rank(stream, i) \in Int /\ Rank(stream, j) \in Int
  BY RankBounds
<1>5. QED BY <1>3, <1>4

LEMMA EveryRank ==
  ASSUME NEW stream \in Seq(Readings), NEW k \in DOMAIN stream
  PROVE  \E i \in DOMAIN stream : Rank(stream, i) = k - 1
<1> DEFINE D == DOMAIN stream
           f == [i \in D |-> Rank(stream, i) + 1]
<1>1. Len(stream) \in Nat /\ D = 1 .. Len(stream) /\ IsFiniteSet(D)
  BY FS_Interval
<1>2. f \in [D -> D]
  <2>1. \A i \in D : Rank(stream, i) \in 0 .. Len(stream) - 1
    BY RankBounds
  <2>2. \A i \in D : Rank(stream, i) + 1 \in D
    BY <1>1, <2>1
  <2>3. QED BY <2>2
<1>3. \A i, j \in D : f[i] = f[j] => i = j
  <2>1. \A i \in D : Rank(stream, i) \in Int
    BY RankBounds
  <2>2. \A i, j \in D : Rank(stream, i) = Rank(stream, j) => i = j
    BY RankTells
  <2>3. QED BY <2>1, <2>2
<1>4. f \in Injection(D, D)
  <2> HIDE DEF f
  <2> QED BY <1>2, <1>3 DEF Injection, IsInjective
<1>5. f \in Surjection(D, D)
  BY <1>1, <1>4, FS_Injection
<1>6. PICK i \in D : f[i] = k
  <2> HIDE DEF f
  <2> QED BY <1>5 DEF Surjection
<1>7. Rank(stream, i) \in Int /\ Rank(stream, i) + 1 = k
  BY <1>6, RankBounds
<1>8. QED BY <1>7

\* Each reading stands in the sorted stream at its rank.
LEMMA SortedByRank ==
  ASSUME NEW stream \in Seq(Readings), NEW i \in DOMAIN stream
  PROVE  /\ Rank(stream, i) + 1 \in DOMAIN stream
         /\ InTimeOrder(stream)[Rank(stream, i) + 1] = stream[i]
<1> DEFINE k == Rank(stream, i) + 1
<1>1. k \in DOMAIN stream /\ k - 1 = Rank(stream, i)
  <2>1. Rank(stream, i) \in 0 .. Len(stream) - 1 /\ Len(stream) \in Nat
        /\ DOMAIN stream = 1 .. Len(stream)
    BY RankBounds
  <2>2. QED BY <2>1
<1> HIDE DEF k
<1>2. \A h \in DOMAIN stream : Rank(stream, h) = k - 1 => h = i
  BY <1>1, RankTells
<1>3. (CHOOSE h \in DOMAIN stream : Rank(stream, h) = k - 1) = i
  BY <1>1, <1>2
<1>4. InTimeOrder(stream)[k] = stream[CHOOSE h \in DOMAIN stream : Rank(stream, h) = k - 1]
  BY <1>1 DEF InTimeOrder, Rank, Earlier
<1>5. QED BY <1>1, <1>3, <1>4 DEF k

(***************************************************************************)
(* A stream whose sequence numbers still grow once it is sorted by time    *)
(* was in the order of time when it was read.                              *)
(***************************************************************************)
LEMMA ReadInOrder ==
  ASSUME NEW stream \in Seq(Readings), Numbered(stream), OrderedStream(InTimeOrder(stream))
  PROVE  \A i, j \in DOMAIN stream : i < j => stream[i].at <= stream[j].at
<1> DEFINE n == Len(stream)
           sorted == InTimeOrder(stream)
           f == [k \in 1..n |-> sorted[k].seq]
<1>1. n \in Nat /\ DOMAIN stream = 1..n
  OBVIOUS
<1>2. DOMAIN sorted = 1..n /\ Len(sorted) = n
  BY <1>1 DEF InTimeOrder
<1>3. \A k \in 1..n : f[k] \in Int
  <2> TAKE k \in 1..n
  <2>1. PICK i \in DOMAIN stream : Rank(stream, i) = k - 1
    BY <1>1, EveryRank
  <2>2. sorted[k] = stream[i]
    <3>1. Rank(stream, i) + 1 = k
      BY <1>1, <2>1
    <3>2. QED BY <2>1, <3>1, SortedByRank
  <2>3. stream[i].seq = i - 1
    BY <2>1 DEF Numbered
  <2>4. QED BY <1>1, <2>2, <2>3
<1>4. \A k \in 1 .. n - 1 : f[k] < f[k + 1]
  <2>1. \A k \in 1 .. n - 1 : sorted[k].seq < sorted[k + 1].seq
    BY <1>2 DEF OrderedStream
  <2>2. \A k \in 1 .. n - 1 : k \in 1..n /\ k + 1 \in 1..n
    BY <1>1
  <2> HIDE DEF sorted
  <2>3. QED BY <2>1, <2>2
<1>5. \A k, l \in 1..n : k < l => f[k] < f[l]
  <2> HIDE DEF f
  <2> QED BY <1>1, <1>3, <1>4, Ascending
<1>6. \A i \in 1..n : /\ Rank(stream, i) \in Int /\ Rank(stream, i) + 1 \in 1..n
                      /\ f[Rank(stream, i) + 1] = i - 1
  <2> TAKE i \in 1..n
  <2>1. Rank(stream, i) \in Int /\ Rank(stream, i) + 1 \in 1..n
        /\ sorted[Rank(stream, i) + 1] = stream[i]
    BY <1>1, RankBounds, SortedByRank
  <2>2. stream[i].seq = i - 1
    BY <1>1 DEF Numbered
  <2> HIDE DEF sorted
  <2>3. QED BY <2>1, <2>2
<1> HIDE DEF f, sorted
<1> SUFFICES ASSUME NEW i \in 1..n, NEW j \in 1..n, i < j
             PROVE  stream[i].at <= stream[j].at
  BY <1>1
<1>7. Rank(stream, i) < Rank(stream, j)
  <2>1. Rank(stream, i) # Rank(stream, j)
    BY <1>1, RankTells
  <2>2. ~(Rank(stream, j) + 1 < Rank(stream, i) + 1)
    <3> SUFFICES ASSUME Rank(stream, j) + 1 < Rank(stream, i) + 1
                 PROVE  FALSE
      OBVIOUS
    <3>1. f[Rank(stream, j) + 1] < f[Rank(stream, i) + 1]
      BY <1>5, <1>6
    <3>2. j - 1 < i - 1
      BY <1>6, <3>1
    <3>3. QED BY <1>1, <3>2
  <2>3. QED BY <1>6, <2>1, <2>2
<1>8. ~Before(stream, j, i)
  <2>1. Before(stream, j, i) => Rank(stream, j) < Rank(stream, i)
    BY <1>1, RankFollows
  <2>2. QED BY <1>6, <1>7, <2>1
<1>9. QED BY <1>1, <1>8, Stamped DEF Before

LEMMA SortedAlready ==
  ASSUME NEW stream \in Seq(Readings),
         \A i, j \in DOMAIN stream : i < j => stream[i].at <= stream[j].at
  PROVE  InTimeOrder(stream) = stream
<1>1. Len(stream) \in Nat /\ DOMAIN stream = 1 .. Len(stream)
  OBVIOUS
<1>2. ASSUME NEW i \in DOMAIN stream
      PROVE  Rank(stream, i) = i - 1
  <2>1. \A j \in DOMAIN stream : Before(stream, j, i) <=> j < i
    BY <1>1, Stamped DEF Before
  <2>2. Earlier(stream, i) = 1 .. i - 1
    BY <1>1, <2>1 DEF Earlier
  <2>3. Cardinality(1 .. i - 1) = IF 1 > i - 1 THEN 0 ELSE (i - 1) - 1 + 1
    <3>1. 1 \in Int /\ i - 1 \in Int
      BY <1>1
    <3>2. QED BY <3>1, FS_Interval
  <2>4. Cardinality(1 .. i - 1) = i - 1
    BY <1>1, <2>3
  <2>5. QED BY <2>2, <2>4 DEF Rank
<1>3. \A i \in DOMAIN stream : InTimeOrder(stream)[i] = stream[i]
  <2> TAKE i \in DOMAIN stream
  <2>1. Rank(stream, i) + 1 = i
    BY <1>1, <1>2
  <2>2. QED BY <2>1, SortedByRank
<1>4. DOMAIN InTimeOrder(stream) = DOMAIN stream
  BY DEF InTimeOrder
<1>5. InTimeOrder(stream) = [i \in DOMAIN stream |-> InTimeOrder(stream)[i]]
  BY DEF InTimeOrder
<1>6. stream = [i \in DOMAIN stream |-> stream[i]]
  OBVIOUS
<1>7. QED BY <1>3, <1>5, <1>6

(***************************************************************************)
(* The pairing loop runs through every turn.                               *)
(***************************************************************************)
LEMMA LoopRuns ==
  ASSUME NEW meters_, NEW gpus_, Len(meters_) \in Nat
  PROVE  LET loop == PairingLoop(meters_, gpus_)
         IN  /\ loop[0] = [unused |-> DOMAIN gpus_, pairs |-> <<>>]
             /\ \A k \in 1 .. Len(meters_) : loop[k] = PairNext(gpus_, loop[k - 1], meters_[k])
<1> DEFINE n == Len(meters_)
           first == [unused |-> DOMAIN gpus_, pairs |-> <<>>]
           Runs(f, m) == f = [k \in 0..m |-> IF k = 0 THEN first
                                             ELSE PairNext(gpus_, f[k - 1], meters_[k])]
           T == {m \in Nat : ~\E f : Runs(f, m)}
<1>1. T = {}
  <2> SUFFICES ASSUME T # {}
               PROVE  FALSE
    OBVIOUS
  <2>1. PICK m \in T : \A y \in T : m <= y
    <3>1. T \in SUBSET Nat
      OBVIOUS
    <3> HIDE DEF T
    <3>2. QED BY <3>1, Least
  <2>2. m \in Nat /\ ~\E f : Runs(f, m)
    BY <2>1
  <2> HIDE DEF first
  <2>3. CASE m = 0
    <3> DEFINE g == [k \in 0..0 |-> first]
    <3>1. g = [k \in 0..0 |-> IF k = 0 THEN first ELSE PairNext(gpus_, g[k - 1], meters_[k])]
      OBVIOUS
    <3>2. Runs(g, m)
      BY <2>3, <3>1
    <3>3. QED BY <2>2, <3>2
  <2>4. CASE m # 0
    <3>1. m - 1 \in Nat /\ ~(m <= m - 1)
      BY <2>2, <2>4
    <3>2. m - 1 \notin T
      BY <2>1, <3>1
    <3>3. PICK f : Runs(f, m - 1)
      BY <3>1, <3>2
    <3> DEFINE g == [k \in 0..m |-> IF k = m THEN PairNext(gpus_, f[m - 1], meters_[m]) ELSE f[k]]
    <3>4. \A k \in 0 .. m - 1 :
            f[k] = IF k = 0 THEN first ELSE PairNext(gpus_, f[k - 1], meters_[k])
      BY <3>3
    <3>5. \A k \in 0..m :
            g[k] = IF k = 0 THEN first ELSE PairNext(gpus_, g[k - 1], meters_[k])
      <4> TAKE k \in 0..m
      <4>1. CASE k = m
        <5>1. m - 1 \in 0..m /\ m - 1 # m /\ m \in 0..m
          BY <2>2, <3>1
        <5>2. g[m - 1] = f[m - 1] /\ g[m] = PairNext(gpus_, f[m - 1], meters_[m])
          BY <5>1
        <5> HIDE DEF g
        <5>3. QED BY <2>4, <4>1, <5>2
      <4>2. CASE k # m
        <5>1. k \in 0 .. m - 1 /\ g[k] = f[k]
          BY <2>2, <4>2
        <5>2. k # 0 => k - 1 \in 0..m /\ k - 1 # m
          BY <2>2, <5>1
        <5>3. k # 0 => g[k - 1] = f[k - 1]
          BY <5>2
        <5> HIDE DEF g
        <5>4. QED BY <3>4, <5>1, <5>3
      <4>3. QED BY <4>1, <4>2
    <3>6. g = [k \in 0..m |-> g[k]]
      OBVIOUS
    <3> HIDE DEF g
    <3>7. Runs(g, m)
      BY <3>5, <3>6
    <3>8. QED BY <2>2, <3>7
  <2>5. QED BY <2>3, <2>4
<1>2. n \notin T
  BY <1>1
<1>3. \E f : Runs(f, n)
  BY <1>2
<1>4. PairingLoop(meters_, gpus_) = CHOOSE f : Runs(f, n)
  BY DEF PairingLoop
<1> HIDE DEF Runs
<1>5. Runs(PairingLoop(meters_, gpus_), n)
  BY <1>3, <1>4
<1> DEFINE loop == PairingLoop(meters_, gpus_)
<1> HIDE DEF loop
<1>6. loop = [k \in 0..n |-> IF k = 0 THEN first ELSE PairNext(gpus_, loop[k - 1], meters_[k])]
  BY <1>5 DEF Runs, loop
<1>7. \A k \in 0..n :
        loop[k] = IF k = 0 THEN first ELSE PairNext(gpus_, loop[k - 1], meters_[k])
  <2> HIDE DEF first
  <2> QED BY <1>6
<1>8. loop[0] = first
  BY <1>7
<1>9. \A k \in 1..n : loop[k] = PairNext(gpus_, loop[k - 1], meters_[k])
  <2>1. \A k \in 1..n : k \in 0..n /\ k # 0
    OBVIOUS
  <2> HIDE DEF first
  <2>2. QED BY <1>7, <2>1
<1>10. QED BY <1>8, <1>9 DEF loop

(***************************************************************************)
(* Readings of rounds: the meter first, then the GPU, then the next round. *)
(***************************************************************************)
InRounds(meters_, gpus_) ==
    /\ \A i \in DOMAIN meters_, j \in DOMAIN gpus_ :
         /\ i <= j => meters_[i].at <= gpus_[j].at
         /\ j < i => gpus_[j].at <= meters_[i].at
    /\ \A i, j \in DOMAIN gpus_ : i < j => gpus_[i].at <= gpus_[j].at
    /\ \A i, j \in DOMAIN meters_ : i < j => meters_[i].at <= meters_[j].at

SeqOf(x) == \E S : x \in Seq(S)

\* Of the GPU readings of this round and later ones, its own is the nearest.
LEMMA NearestOfRound ==
  ASSUME NEW meters_ \in Seq(Readings), NEW gpus_ \in Seq(Readings),
         InRounds(meters_, gpus_), NEW k \in DOMAIN meters_, k \in DOMAIN gpus_
  PROVE  Nearest(k .. Len(gpus_), gpus_, meters_[k]) = k
<1> DEFINE n == Len(gpus_)
           d(g) == Apart(gpus_[g], meters_[k])
           Closest(g) == \A h \in k..n : d(g) < d(h) \/ (d(g) = d(h) /\ g <= h)
<1>1. n \in Nat /\ k \in 1..n /\ DOMAIN gpus_ = 1..n
  OBVIOUS
<1>2. meters_[k].at \in Int /\ \A g \in k..n : gpus_[g].at \in Int /\ g \in Int /\ g \in 1..n
  BY <1>1, Stamped
<1>3. \A g \in k..n : meters_[k].at <= gpus_[g].at /\ gpus_[k].at <= gpus_[g].at
  <2> TAKE g \in k..n
  <2>1. k <= g /\ g \in DOMAIN gpus_
    BY <1>1, <1>2
  <2>2. meters_[k].at <= gpus_[g].at
    BY <2>1 DEF InRounds
  <2>3. k = g \/ gpus_[k].at <= gpus_[g].at
    <3>1. k = g \/ k < g
      BY <1>1, <2>1
    <3>2. QED BY <1>1, <2>1, <3>1 DEF InRounds
  <2>4. QED BY <1>2, <2>2, <2>3
<1>4. k \in k..n
  BY <1>1
<1>5. \A g \in k..n : d(g) = gpus_[g].at - meters_[k].at
  BY <1>2, <1>3 DEF Apart
<1>6. \A g \in k..n : d(g) \in Int /\ d(k) <= d(g)
  BY <1>2, <1>3, <1>4, <1>5
<1> HIDE DEF d
<1>7. Closest(k)
  BY <1>1, <1>6
<1>8. \A g \in k..n : Closest(g) => g = k
  <2> SUFFICES ASSUME NEW g \in k..n, Closest(g)
               PROVE  g = k
    OBVIOUS
  <2>1. d(g) < d(k) \/ (d(g) = d(k) /\ g <= k)
    BY <1>4
  <2>2. QED BY <1>1, <1>4, <1>6, <2>1
<1> HIDE DEF Closest
<1>9. (CHOOSE g \in k..n : Closest(g)) = k
  BY <1>4, <1>7, <1>8
<1>10. QED BY <1>9 DEF Nearest, Closest, d

LEMMA OnePairMore ==
  ASSUME NEW x, SeqOf(x), NEW e
  PROVE  /\ SeqOf(Append(x, e)) /\ Len(x) \in Nat /\ Len(Append(x, e)) = Len(x) + 1
         /\ \A i \in 1 .. Len(x) : Append(x, e)[i] = x[i]
         /\ Append(x, e)[Len(x) + 1] = e
<1>1. PICK S : x \in Seq(S)
  BY DEF SeqOf
<1>2. x \in Seq(S \cup {e}) /\ e \in S \cup {e}
  BY <1>1
<1>3. QED BY <1>2 DEF SeqOf

(***************************************************************************)
(* As long as no meter reading stayed alone, each was paired with the GPU  *)
(* reading of its round.                                                   *)
(***************************************************************************)
LEMMA PairsOfRounds ==
  ASSUME NEW meters_ \in Seq(Readings), NEW gpus_ \in Seq(Readings),
         Len(meters_) = Len(gpus_), InRounds(meters_, gpus_)
  PROVE  LET pairs == PairingLoop(meters_, gpus_)[Len(meters_)].pairs
         IN  /\ Len(pairs) \in 0 .. Len(meters_) /\ DOMAIN pairs = 1 .. Len(pairs)
             /\ Len(pairs) = Len(meters_) =>
                  \A i \in DOMAIN pairs : pairs[i] = [meter |-> meters_[i], gpu |-> gpus_[i]]
<1> DEFINE n == Len(meters_)
           loop == PairingLoop(meters_, gpus_)
           All(k) == /\ loop[k].unused = k + 1 .. n
                     /\ \A i \in 1..k : loop[k].pairs[i] = [meter |-> meters_[i], gpu |-> gpus_[i]]
           Good(k) == /\ SeqOf(loop[k].pairs) /\ Len(loop[k].pairs) \in 0..k
                      /\ Len(loop[k].pairs) = k => All(k)
           T == {k \in 0..n : ~Good(k)}
<1>1. n \in Nat /\ DOMAIN meters_ = 1..n /\ DOMAIN gpus_ = 1..n
  OBVIOUS
<1>2. /\ loop[0] = [unused |-> 1..n, pairs |-> <<>>]
      /\ \A k \in 1..n : loop[k] = PairNext(gpus_, loop[k - 1], meters_[k])
  BY <1>1, LoopRuns
<1> HIDE DEF loop
<1>3. Good(0)
  <2>1. loop[0].unused = 1..n /\ loop[0].pairs = <<>>
    BY <1>2
  <2>2. SeqOf(<<>>) /\ Len(<<>>) = 0
    BY <<>> \in Seq({}) DEF SeqOf
  <2>3. QED BY <2>1, <2>2
<1>4. ASSUME NEW k \in 1..n, Good(k - 1)
      PROVE  Good(k)
  <2> DEFINE g == Nearest(loop[k - 1].unused, gpus_, meters_[k])
             e == [meter |-> meters_[k], gpu |-> gpus_[g]]
             old == loop[k - 1].pairs
  <2>1. k - 1 \in Nat /\ k \in DOMAIN meters_ /\ k \in DOMAIN gpus_ /\ k \in Int
    BY <1>1
  <2>2. SeqOf(old) /\ Len(old) \in 0 .. k - 1 /\ (Len(old) = k - 1 => All(k - 1))
    BY <1>4
  <2>3. CASE loop[k] = loop[k - 1]
    <3>1. Len(loop[k].pairs) \in 0..k /\ Len(loop[k].pairs) # k
      BY <2>1, <2>2, <2>3
    <3>2. QED BY <2>2, <2>3, <3>1
  <2>4. CASE loop[k] # loop[k - 1]
    <3>1. /\ loop[k].unused = loop[k - 1].unused \ {g} /\ loop[k].pairs = Append(old, e)
      <4>1. loop[k] = PairNext(gpus_, loop[k - 1], meters_[k])
        BY <1>2
      <4>2. loop[k] = [unused |-> loop[k - 1].unused \ {g}, pairs |-> Append(old, e)]
        BY <2>4, <4>1, Zenon DEF PairNext
      <4> HIDE DEF e, old, g
      <4>3. QED BY <4>2
    <3> HIDE DEF e, old, All
    <3>2. /\ SeqOf(loop[k].pairs) /\ Len(loop[k].pairs) = Len(old) + 1
          /\ \A i \in 1 .. Len(old) : loop[k].pairs[i] = old[i]
          /\ loop[k].pairs[Len(old) + 1] = e
      BY <2>2, <3>1, OnePairMore
    <3>3. Len(loop[k].pairs) \in 0..k
      BY <2>1, <2>2, <3>2
    <3>4. ASSUME Len(loop[k].pairs) = k
          PROVE  All(k)
      <4>1. Len(old) = k - 1 /\ All(k - 1)
        BY <2>1, <2>2, <3>2, <3>4
      <4>2. loop[k - 1].unused = k..n
        <5>1. (k - 1) + 1 = k
          BY <2>1
        <5>2. QED BY <4>1, <5>1 DEF All
      <4>3. g = k
        BY <2>1, <4>2, NearestOfRound
      <4>4. loop[k].unused = k + 1 .. n
        <5>1. (k..n) \ {k} = k + 1 .. n
          BY <1>1
        <5>2. QED BY <3>1, <4>2, <4>3, <5>1
      <4>5. e = [meter |-> meters_[k], gpu |-> gpus_[k]]
        BY <4>3 DEF e
      <4>6. loop[k].pairs[k] = e
        <5>1. Len(old) + 1 = k
          BY <2>1, <4>1
        <5>2. QED BY <3>2, <5>1
      <4>7. \A i \in 1 .. k - 1 :
              loop[k].pairs[i] = [meter |-> meters_[i], gpu |-> gpus_[i]]
        BY <3>2, <4>1 DEF All, old
      <4>8. \A i \in 1..k : i \in 1 .. k - 1 \/ i = k
        BY <2>1
      <4>9. QED BY <4>4, <4>5, <4>6, <4>7, <4>8 DEF All
    <3>5. QED BY <3>2, <3>3, <3>4
  <2>5. QED BY <2>3, <2>4
<1>5. T = {}
  <2> HIDE DEF Good
  <2> SUFFICES ASSUME T # {}
               PROVE  FALSE
    OBVIOUS
  <2>1. PICK k \in T : \A y \in T : k <= y
    <3>1. T \in SUBSET Nat
      OBVIOUS
    <3> HIDE DEF T
    <3>2. QED BY <3>1, Least
  <2>2. k \in 1..n /\ k - 1 \in 0..n /\ ~(k <= k - 1) /\ ~Good(k)
    BY <1>1, <1>3, <2>1
  <2>3. Good(k - 1)
    BY <2>1, <2>2
  <2>4. QED BY <1>4, <2>2, <2>3
<1>6. Good(n)
  <2> HIDE DEF Good
  <2> QED BY <1>1, <1>5
<1>7. DOMAIN loop[n].pairs = 1 .. Len(loop[n].pairs)
  <2>1. PICK S : loop[n].pairs \in Seq(S)
    BY <1>6 DEF SeqOf
  <2>2. QED BY <2>1
<1>8. QED BY <1>6, <1>7 DEF loop

-----------------------------------------------------------------------------
(***************************************************************************)
(* Round by round: how many readings there are, and that each was taken    *)
(* after the ones before it, if the clock was never set back.              *)
(***************************************************************************)
MeterTurn == {"meter", "sleep"} \cup MeterQueries
GpuTurn == {"gpu"} \cup GpuQueries

RoundsCounted ==
    /\ pc \in {"start", "pin", "failed"} => meters = <<>> /\ gpus = <<>>
    /\ pc \in MeterTurn => Len(meters) = Len(gpus) /\ Len(gpus) < Samples
    /\ pc \in GpuTurn => Len(meters) = Len(gpus) + 1 /\ Len(gpus) < Samples
    /\ pc \in {"align"} \cup Collected => Len(meters) = Samples /\ Len(gpus) = Samples

NotAfter(stream, time) == \A i \in DOMAIN stream : stream[i].at <= time

RoundsInTime ==
    back = 0 =>
        /\ InRounds(meters, gpus)
        /\ NotAfter(meters, real) /\ NotAfter(gpus, real)
        /\ pc \in MeterQueries \cup GpuQueries =>
             taking.at <= real /\ NotAfter(meters, taking.at) /\ NotAfter(gpus, taking.at)

ReportAsAligned ==
    report.accepted =>
        report.pairs = Pairs(meters, gpus) /\ Covered(report.pairs, meters, gpus)

RoundsInv == RoundsCounted /\ RoundsInTime /\ ReportAsAligned

LEMMA OneReadingMore ==
  ASSUME QualificationTypeOK, NEW stream \in Seq(Readings)
  PROVE  LET longer == Append(stream, Taken(stream))
         IN  /\ Len(stream) \in Nat /\ Len(longer) = Len(stream) + 1
             /\ DOMAIN stream = 1 .. Len(stream) /\ DOMAIN longer = 1 .. Len(stream) + 1
             /\ \A i \in 1 .. Len(stream) : longer[i] = stream[i] /\ stream[i].at \in Int
             /\ longer[Len(stream) + 1].at = taking.at /\ taking.at \in Int
<1>1. Taken(stream) \in Readings /\ Taken(stream).at = taking.at /\ taking.at \in Int
  BY TakenIsReading DEF Taken, QualificationTypeOK
<1> HIDE DEF Taken
<1>2. DOMAIN stream = 1 .. Len(stream) /\ Len(stream) \in Nat
  OBVIOUS
<1>3. QED BY <1>1, <1>2, Stamped

LEMMA NotAfterGrows ==
  ASSUME QualificationTypeOK, NEW stream \in Seq(Readings), NEW time \in Int,
         NotAfter(stream, time), taking.at <= time
  PROVE  NotAfter(Append(stream, Taken(stream)), time)
<1> DEFINE longer == Append(stream, Taken(stream))
<1>1. /\ Len(stream) \in Nat /\ DOMAIN stream = 1 .. Len(stream)
      /\ DOMAIN longer = 1 .. Len(stream) + 1
      /\ \A i \in 1 .. Len(stream) : longer[i] = stream[i]
      /\ longer[Len(stream) + 1].at = taking.at
  BY OneReadingMore
<1> HIDE DEF longer
<1>2. ASSUME NEW i \in DOMAIN longer
      PROVE  longer[i].at <= time
  <2>1. i \in 1 .. Len(stream) \/ i = Len(stream) + 1
    BY <1>1
  <2>2. QED BY <1>1, <2>1 DEF NotAfter
<1>3. QED BY <1>2 DEF NotAfter, longer

LEMMA RoundsInvInit == Init => RoundsInv
<1> SUFFICES ASSUME Init
             PROVE  RoundsInv
  OBVIOUS
<1>1. meters = <<>> /\ gpus = <<>> /\ pc = "start" /\ ~report.accepted
  BY DEF Init, NoReport
<1>2. QED
  BY <1>1 DEF RoundsInv, RoundsCounted, RoundsInTime, ReportAsAligned, InRounds, NotAfter,
              MeterTurn, GpuTurn, MeterQueries, GpuQueries, Collected

\* A reading of the meter after those of the rounds before.
LEMMA MeterRound ==
  ASSUME QualificationTypeOK, InRounds(meters, gpus), Len(meters) = Len(gpus),
         NotAfter(meters, taking.at), NotAfter(gpus, taking.at)
  PROVE  InRounds(Append(meters, Taken(meters)), gpus)
<1> DEFINE n == Len(meters)
           longer == Append(meters, Taken(meters))
<1>1. /\ n \in Nat /\ DOMAIN meters = 1..n /\ DOMAIN longer = 1 .. n + 1
      /\ \A i \in 1..n : longer[i] = meters[i] /\ meters[i].at \in Int
      /\ longer[n + 1].at = taking.at /\ taking.at \in Int
      /\ DOMAIN gpus = 1..n
  BY OneReadingMore DEF QualificationTypeOK
<1> HIDE DEF longer
<1>2. \A i \in DOMAIN longer : i \in 1..n \/ i = n + 1
  BY <1>1
<1>3. ASSUME NEW i \in DOMAIN longer, NEW j \in DOMAIN gpus
      PROVE  /\ i <= j => longer[i].at <= gpus[j].at
             /\ j < i => gpus[j].at <= longer[i].at
  <2>1. CASE i \in 1..n
    BY <1>1, <2>1 DEF InRounds
  <2>2. CASE i = n + 1
    <3>1. ~(i <= j)
      BY <1>1, <2>2
    <3>2. gpus[j].at <= longer[i].at
      BY <1>1, <2>2 DEF NotAfter
    <3>3. QED BY <3>1, <3>2
  <2>3. QED BY <1>2, <2>1, <2>2
<1>4. ASSUME NEW i \in DOMAIN longer, NEW j \in DOMAIN longer, i < j
      PROVE  longer[i].at <= longer[j].at
  <2>1. i \in 1..n
    BY <1>1, <1>4
  <2>2. CASE j \in 1..n
    BY <1>1, <1>4, <2>1, <2>2 DEF InRounds
  <2>3. CASE j = n + 1
    BY <1>1, <2>1, <2>3 DEF NotAfter
  <2>4. QED BY <1>2, <2>2, <2>3
<1>5. \A i, j \in DOMAIN gpus : i < j => gpus[i].at <= gpus[j].at
  BY DEF InRounds
<1>6. InRounds(longer, gpus)
  BY <1>3, <1>4, <1>5 DEF InRounds
<1>7. QED BY <1>6 DEF longer

\* The GPU's reading of the round whose meter reading was just taken.
LEMMA GpuRound ==
  ASSUME QualificationTypeOK, InRounds(meters, gpus), Len(meters) = Len(gpus) + 1,
         NotAfter(meters, taking.at), NotAfter(gpus, taking.at)
  PROVE  InRounds(meters, Append(gpus, Taken(gpus)))
<1> DEFINE n == Len(gpus)
           longer == Append(gpus, Taken(gpus))
<1>1. /\ n \in Nat /\ DOMAIN gpus = 1..n /\ DOMAIN longer = 1 .. n + 1
      /\ \A i \in 1..n : longer[i] = gpus[i] /\ gpus[i].at \in Int
      /\ longer[n + 1].at = taking.at /\ taking.at \in Int
      /\ DOMAIN meters = 1 .. n + 1
  BY OneReadingMore DEF QualificationTypeOK
<1> HIDE DEF longer
<1>2. \A i \in DOMAIN longer : i \in 1..n \/ i = n + 1
  BY <1>1
<1>3. ASSUME NEW i \in DOMAIN meters, NEW j \in DOMAIN longer
      PROVE  /\ i <= j => meters[i].at <= longer[j].at
             /\ j < i => longer[j].at <= meters[i].at
  <2>1. CASE j \in 1..n
    BY <1>1, <2>1 DEF InRounds
  <2>2. CASE j = n + 1
    <3>1. ~(j < i)
      BY <1>1, <2>2
    <3>2. meters[i].at <= longer[j].at
      BY <1>1, <2>2 DEF NotAfter
    <3>3. QED BY <3>1, <3>2
  <2>3. QED BY <1>2, <2>1, <2>2
<1>4. ASSUME NEW i \in DOMAIN longer, NEW j \in DOMAIN longer, i < j
      PROVE  longer[i].at <= longer[j].at
  <2>1. i \in 1..n
    BY <1>1, <1>4
  <2>2. CASE j \in 1..n
    BY <1>1, <1>4, <2>1, <2>2 DEF InRounds
  <2>3. CASE j = n + 1
    BY <1>1, <2>1, <2>3 DEF NotAfter
  <2>4. QED BY <1>2, <2>2, <2>3
<1>5. \A i, j \in DOMAIN meters : i < j => meters[i].at <= meters[j].at
  BY DEF InRounds
<1>6. InRounds(meters, longer)
  BY <1>3, <1>4, <1>5 DEF InRounds
<1>7. QED BY <1>6 DEF longer

\* What a step does that leaves the readings alone.
LEMMA SameReadings ==
  ASSUME QualificationInv, QualificationTypeOK', RoundsInv, UNCHANGED <<meters, gpus>>,
         back <= back', real <= real'
  PROVE  back' = 0 => InRounds(meters, gpus)' /\ NotAfter(meters, real)' /\ NotAfter(gpus, real)'
<1> SUFFICES ASSUME back' = 0
             PROVE  InRounds(meters, gpus)' /\ NotAfter(meters, real)' /\ NotAfter(gpus, real)'
  OBVIOUS
<1>1. back = 0 /\ real \in Int /\ real' \in Int
  BY DEF QualificationInv, QualificationTypeOK
<1>2. InRounds(meters, gpus) /\ NotAfter(meters, real) /\ NotAfter(gpus, real)
  BY <1>1 DEF RoundsInv, RoundsInTime
<1>3. /\ \A i \in DOMAIN meters : meters[i].at \in Int
      /\ \A i \in DOMAIN gpus : gpus[i].at \in Int
  BY Stamped DEF QualificationInv, QualificationTypeOK
<1>4. QED BY <1>1, <1>2, <1>3 DEF InRounds, NotAfter

LEMMA FailedRounds == Failed => RoundsInv'
  BY DEF Failed, NoReport, RoundsInv, RoundsCounted, RoundsInTime, ReportAsAligned, InRounds,
         NotAfter, MeterTurn, GpuTurn, MeterQueries, GpuQueries, Collected

LEMMA CollectRounds ==
  ASSUME QualificationInv, QualificationTypeOK', RoundsInv, Collect
  PROVE  RoundsInv'
<1> USE DEF environment, Step, MeterTurn, GpuTurn, MeterQueries, GpuQueries, Collected
<1>0. QualificationTypeOK /\ RoundsCounted /\ RoundsInTime /\ ReportAsAligned
      /\ back \in Nat /\ real \in Nat
      /\ (report.accepted => pc \in Collected)
  BY DEF QualificationInv, QualificationTypeOK, RoundsInv, ReportIsOfStreams
<1> DEFINE Kept == UNCHANGED <<meters, gpus>> /\ back <= back' /\ real <= real'
           Still == back' = 0 =>
             InRounds(meters, gpus)' /\ NotAfter(meters, real)' /\ NotAfter(gpus, real)'
<1>a. Kept => Still
  BY SameReadings
<1>b. back <= back /\ real <= real
  BY <1>0
<1> HIDE DEF Still
<1>1. ASSUME NEW t \in Tools, NEW from \in {"start", "pin"}, NEW to \in {"pin", "meter"},
             Pin(t, from, to)
      PROVE  RoundsInv'
  <2>1. meters = <<>> /\ gpus = <<>> /\ ~report.accepted
    BY <1>0, <1>1 DEF Pin, RoundsCounted
  <2>2. RoundsCounted'
    <3>1. Len(<<>>) = 0 /\ 0 < Samples
      BY QualificationAssumption
    <3>2. QED BY <1>1, <2>1, <3>1 DEF Pin, RoundsCounted
  <2>3. RoundsInTime'
    BY <1>1, <2>1 DEF Pin, RoundsInTime, InRounds, NotAfter
  <2>4. ReportAsAligned'
    BY <1>1, <2>1 DEF Pin, ReportAsAligned
  <2>5. QED BY <2>2, <2>3, <2>4 DEF RoundsInv
<1>2. CASE Begin("bmc", "meter", "fru") \/ Begin("nvidia", "gpu", "query")
  <2>1. /\ UNCHANGED <<real, back, meters, gpus, report>> /\ taking'.at = Wall
        /\ (pc = "meter" /\ pc' = "fru") \/ (pc = "gpu" /\ pc' = "query")
    BY <1>2 DEF Begin
  <2>2. RoundsCounted'
    BY <1>0, <2>1 DEF RoundsCounted
  <2>3. RoundsInTime'
    <3>1. Still
      BY <1>a, <1>b, <2>1
    <3>2. back' = 0 => taking'.at = real' /\ real' <= real'
      BY <1>0, <2>1 DEF Wall
    <3>3. QED BY <3>1, <3>2 DEF RoundsInTime, NotAfter, Still
  <2>4. ReportAsAligned'
    BY <1>0, <2>1 DEF ReportAsAligned
  <2>5. QED BY <2>2, <2>3, <2>4 DEF RoundsInv
<1>3. ASSUME UNCHANGED <<real, back, meters, gpus, report>>, taking'.at = taking.at,
             \/ pc \in MeterQueries /\ pc' \in MeterQueries
             \/ pc \in GpuQueries /\ pc' \in GpuQueries
      PROVE  RoundsInv'
  <2>1. RoundsCounted'
    BY <1>0, <1>3 DEF RoundsCounted
  <2>2. RoundsInTime'
    BY <1>0, <1>3 DEF RoundsInTime, NotAfter, InRounds
  <2>3. ReportAsAligned'
    BY <1>0, <1>3 DEF ReportAsAligned
  <2>4. QED BY <2>1, <2>2, <2>3 DEF RoundsInv
<1>4. CASE \/ Query("bmc", "fru", "fru_read") \/ Query("bmc", "dcmi", "dcmi_read")
           \/ Query("nvidia", "query", "drivers") \/ Query("nvidia", "drivers", "gpu_read")
  <2>1. taking'.at = taking.at
    BY <1>0, <1>4 DEF Query, QualificationTypeOK
  <2>2. QED BY <1>3, <1>4, <2>1 DEF Query
<1>5. CASE CheckBetween
  BY <1>3, <1>5 DEF CheckBetween
<1>6. CASE MeterEnd
  <2>1. /\ pc = "dcmi_read" /\ pc' = "gpu" /\ meters' = Append(meters, Taken(meters))
        /\ UNCHANGED <<real, back, gpus, report>>
    BY <1>6 DEF MeterEnd
  <2>2. meters \in Seq(Readings) /\ gpus \in Seq(Readings) /\ ~report.accepted
        /\ Len(meters) = Len(gpus) /\ Len(gpus) < Samples
    BY <1>0, <2>1 DEF QualificationTypeOK, RoundsCounted
  <2>3. RoundsCounted'
    <3>1. Len(meters') = Len(gpus') + 1 /\ Len(gpus') < Samples
      BY <1>0, <2>1, <2>2, OneReadingMore
    <3>2. QED BY <2>1, <3>1 DEF RoundsCounted
  <2>4. RoundsInTime'
    <3> SUFFICES ASSUME back' = 0
                 PROVE  InRounds(meters', gpus') /\ NotAfter(meters', real') /\ NotAfter(gpus', real')
      BY <2>1 DEF RoundsInTime
    <3>1. /\ InRounds(meters, gpus) /\ NotAfter(meters, real) /\ NotAfter(gpus, real)
          /\ taking.at <= real /\ NotAfter(meters, taking.at) /\ NotAfter(gpus, taking.at)
      BY <1>0, <2>1 DEF RoundsInTime
    <3>2. InRounds(meters', gpus')
      BY <1>0, <2>1, <2>2, <3>1, MeterRound
    <3>3. NotAfter(meters', real')
      <4>1. real \in Int
        BY <1>0
      <4>2. QED BY <1>0, <2>1, <2>2, <3>1, <4>1, NotAfterGrows
    <3>4. QED BY <2>1, <3>1, <3>2, <3>3
  <2>5. ReportAsAligned'
    BY <2>1, <2>2 DEF ReportAsAligned
  <2>6. QED BY <2>3, <2>4, <2>5 DEF RoundsInv
<1>7. CASE GpuEnd
  <2>1. /\ pc = "gpu_read" /\ gpus' = Append(gpus, Taken(gpus))
        /\ pc' = (IF Len(gpus) + 1 < Samples THEN "sleep" ELSE "align")
        /\ UNCHANGED <<real, back, meters, report>>
    BY <1>7 DEF GpuEnd
  <2>2. meters \in Seq(Readings) /\ gpus \in Seq(Readings) /\ ~report.accepted
        /\ Len(meters) = Len(gpus) + 1 /\ Len(gpus) < Samples
    BY <1>0, <2>1 DEF QualificationTypeOK, RoundsCounted
  <2>3. RoundsCounted'
    <3>1. Len(gpus') = Len(gpus) + 1 /\ Len(gpus) \in Nat
      BY <1>0, <2>1, <2>2, OneReadingMore
    <3>2. CASE Len(gpus) + 1 < Samples
      BY <2>1, <2>2, <3>1, <3>2 DEF RoundsCounted
    <3>3. CASE ~(Len(gpus) + 1 < Samples)
      <4>1. Len(gpus) + 1 = Samples
        BY <2>2, <3>1, <3>3, QualificationAssumption
      <4>2. QED BY <2>1, <2>2, <3>1, <3>3, <4>1 DEF RoundsCounted
    <3>4. QED BY <3>2, <3>3
  <2>4. RoundsInTime'
    <3> SUFFICES ASSUME back' = 0
                 PROVE  InRounds(meters', gpus') /\ NotAfter(meters', real') /\ NotAfter(gpus', real')
      BY <2>1 DEF RoundsInTime
    <3>1. /\ InRounds(meters, gpus) /\ NotAfter(meters, real) /\ NotAfter(gpus, real)
          /\ taking.at <= real /\ NotAfter(meters, taking.at) /\ NotAfter(gpus, taking.at)
      BY <1>0, <2>1 DEF RoundsInTime
    <3>2. InRounds(meters', gpus')
      BY <1>0, <2>1, <2>2, <3>1, GpuRound
    <3>3. NotAfter(gpus', real')
      <4>1. real \in Int
        BY <1>0
      <4>2. QED BY <1>0, <2>1, <2>2, <3>1, <4>1, NotAfterGrows
    <3>4. QED BY <2>1, <3>1, <3>2, <3>3
  <2>5. ReportAsAligned'
    BY <2>1, <2>2 DEF ReportAsAligned
  <2>6. QED BY <2>3, <2>4, <2>5 DEF RoundsInv
<1>8. CASE Sleep
  <2>1. /\ pc = "sleep" /\ pc' = "meter" /\ back' = back /\ real <= real'
        /\ UNCHANGED <<meters, gpus, report>>
    BY <1>0, <1>8, QualificationAssumption DEF Sleep
  <2>2. RoundsCounted'
    BY <1>0, <2>1 DEF RoundsCounted
  <2>3. RoundsInTime'
    BY <1>a, <1>b, <2>1 DEF RoundsInTime, Still
  <2>4. ReportAsAligned'
    BY <1>0, <2>1 DEF ReportAsAligned
  <2>5. QED BY <2>2, <2>3, <2>4 DEF RoundsInv
<1>9. CASE Align
  <2>1. /\ pc = "align" /\ pc' = "write"
        /\ UNCHANGED <<real, back, meters, gpus>>
    BY <1>9 DEF Align
  <2>2. ReportAsAligned'
    <3>1. PICK calibrated \in BOOLEAN :
            report' = [accepted |-> Accepted(meters, gpus, Pairs(meters, gpus), calibrated),
                       pairs |-> Pairs(meters, gpus)]
      BY <1>9 DEF Align
    <3>2. report'.pairs = Pairs(meters, gpus)
          /\ (report'.accepted => Covered(Pairs(meters, gpus), meters, gpus))
      BY <3>1 DEF Accepted
    <3>3. QED BY <2>1, <3>2 DEF ReportAsAligned
  <2>3. RoundsCounted'
    BY <1>0, <2>1 DEF RoundsCounted
  <2>4. RoundsInTime'
    BY <1>a, <1>b, <2>1 DEF RoundsInTime, Still
  <2>5. QED BY <2>2, <2>3, <2>4 DEF RoundsInv
<1>10. CASE Write
  <2>1. CASE pc' = "done" /\ UNCHANGED <<pinned, taking, meters, gpus, report>>
    <3>1. pc = "write" /\ UNCHANGED <<real, back>>
      BY <1>10 DEF Write
    <3>2. RoundsCounted'
      BY <1>0, <2>1, <3>1 DEF RoundsCounted
    <3>3. RoundsInTime'
      BY <1>a, <1>b, <2>1, <3>1 DEF RoundsInTime, Still
    <3>4. ReportAsAligned'
      BY <1>0, <2>1 DEF ReportAsAligned
    <3>5. QED BY <3>2, <3>3, <3>4 DEF RoundsInv
  <2>2. CASE Failed
    BY <2>2, FailedRounds
  <2>3. QED BY <1>10, <2>1, <2>2 DEF Write
<1>11. CASE Fail
  BY <1>11, FailedRounds DEF Fail
<1>12. QED
  BY <1>1, <1>2, <1>4, <1>5, <1>6, <1>7, <1>8, <1>9, <1>10, <1>11 DEF Collect, Tools

LEMMA RoundsInvStep == QualificationInv /\ RoundsInv /\ [Next]_vars => RoundsInv'
<1> SUFFICES ASSUME QualificationInv, RoundsInv, [Next]_vars
             PROVE  RoundsInv'
  OBVIOUS
<1>0. QualificationTypeOK /\ QualificationTypeOK'
  BY QualificationTypesStep DEF QualificationInv
<1>1. CASE Collect
  BY <1>0, <1>1, CollectRounds
<1>2. ASSUME UNCHANGED <<pc, taking, meters, gpus, report>>, back <= back', real <= real'
      PROVE  RoundsInv'
  <2>1. RoundsCounted'
    BY <1>2 DEF RoundsInv, RoundsCounted
  <2>2. RoundsInTime'
    <3> SUFFICES ASSUME back' = 0
                 PROVE  RoundsInTime'
      BY DEF RoundsInTime
    <3>1. InRounds(meters, gpus)' /\ NotAfter(meters, real)' /\ NotAfter(gpus, real)'
      BY <1>0, <1>2, SameReadings
    <3>2. back = 0 /\ taking.at \in Int /\ real \in Int /\ real' \in Int
      BY <1>0, <1>2 DEF QualificationTypeOK
    <3>3. pc \in MeterQueries \cup GpuQueries =>
            taking.at <= real /\ NotAfter(meters, taking.at) /\ NotAfter(gpus, taking.at)
      BY <3>2 DEF RoundsInv, RoundsInTime
    <3>4. pc' \in MeterQueries \cup GpuQueries =>
            taking'.at <= real' /\ NotAfter(meters', taking'.at) /\ NotAfter(gpus', taking'.at)
      BY <1>2, <3>2, <3>3
    <3>5. QED BY <3>1, <3>4 DEF RoundsInTime
  <2>3. ReportAsAligned'
    BY <1>2 DEF RoundsInv, ReportAsAligned
  <2>4. QED BY <2>1, <2>2, <2>3 DEF RoundsInv
<1>3. CASE Trial \/ Tick \/ SetBack \/ UNCHANGED vars
  <2>1. back \in Nat /\ real \in Nat
    BY <1>0 DEF QualificationTypeOK
  <2>2. QED BY <1>2, <1>3, <2>1, TrialSteps DEF Tick, SetBack, vars, collection
<1>4. ASSUME NEW t \in Tools, Install(t)
      PROVE  RoundsInv'
  <2>1. back \in Nat /\ real \in Nat
    BY <1>0 DEF QualificationTypeOK
  <2>2. QED BY <1>2, <1>4, <2>1 DEF Install, collection
<1>5. QED BY <1>1, <1>3, <1>4 DEF Next

LEMMA RoundsInvariance == Spec => []RoundsInv
  BY RoundsInvInit, RoundsInvStep, QualificationInvariance, PTL DEF Spec

(***************************************************************************)
(* An accepted alignment took both streams in the order they were read     *)
(* and, if the clock was never set back, paired every meter reading with   *)
(* the GPU reading of its own round, by timestamps alone.                  *)
(***************************************************************************)
THEOREM RoundsArePaired == NobodyStaysAlone => (Spec => []RoundsPairUp)
<1> SUFFICES ASSUME NobodyStaysAlone
             PROVE  Spec => []RoundsPairUp
  OBVIOUS
<1>1. QualificationInv /\ RoundsInv => RoundsPairUp
  <2> SUFFICES ASSUME QualificationInv, RoundsInv, report.accepted
               PROVE  RoundsPairUp
    BY DEF RoundsPairUp
  <2>1. /\ meters \in Seq(Readings) /\ gpus \in Seq(Readings)
        /\ Numbered(meters) /\ Numbered(gpus)
        /\ OrderedStream(InTimeOrder(meters)) /\ OrderedStream(InTimeOrder(gpus))
        /\ pc \in Collected
    BY DEF QualificationInv, QualificationTypeOK, StreamsAreNamed, ReportIsOfStreams
  <2>2. /\ \A i, j \in DOMAIN meters : i < j => meters[i].at <= meters[j].at
        /\ \A i, j \in DOMAIN gpus : i < j => gpus[i].at <= gpus[j].at
    BY <2>1, ReadInOrder
  <2>3. InTimeOrder(meters) = meters /\ InTimeOrder(gpus) = gpus
    BY <2>1, <2>2, SortedAlready
  <2>4. /\ Len(meters) = Samples /\ Len(gpus) = Samples
        /\ report.pairs = PairingLoop(meters, gpus)[Len(meters)].pairs
        /\ Covered(report.pairs, meters, gpus)
    BY <2>1, <2>3 DEF RoundsInv, RoundsCounted, ReportAsAligned, Pairs
  <2>5. ASSUME back = 0
        PROVE  /\ Len(report.pairs) = Samples
               /\ \A i \in DOMAIN report.pairs :
                    report.pairs[i].meter.seq = report.pairs[i].gpu.seq
    <3>1. InRounds(meters, gpus)
      BY <2>5 DEF RoundsInv, RoundsInTime
    <3>2. /\ Len(report.pairs) \in 0 .. Samples /\ DOMAIN report.pairs = 1 .. Len(report.pairs)
          /\ Len(report.pairs) = Samples =>
               \A i \in DOMAIN report.pairs :
                 report.pairs[i] = [meter |-> meters[i], gpu |-> gpus[i]]
      BY <2>1, <2>4, <3>1, PairsOfRounds
    <3>3. 100 * Len(report.pairs) >= MinCoverage * Samples
      BY <2>4 DEF Covered
    <3>4. Len(report.pairs) = Samples
      <4>1. \A m, n, c \in Int :
              m \in 0..n /\ 100 * m >= c /\ c > 100 * (n - 1) => m = n
        OBVIOUS
      <4>2. MinCoverage * Samples \in Int /\ Samples \in Int /\ Len(report.pairs) \in Int
        BY <3>2, PolicyAssumption, QualificationAssumption
      <4>3. QED BY <3>2, <3>3, <4>1, <4>2 DEF NobodyStaysAlone
    <3>5. ASSUME NEW i \in DOMAIN report.pairs
          PROVE  report.pairs[i].meter.seq = report.pairs[i].gpu.seq
      <4>1. report.pairs[i] = [meter |-> meters[i], gpu |-> gpus[i]]
        BY <3>2, <3>4
      <4>2. i \in DOMAIN meters /\ i \in DOMAIN gpus
        BY <2>1, <2>4, <3>2, <3>4
      <4>3. meters[i].seq = i - 1 /\ gpus[i].seq = i - 1
        BY <2>1, <4>2 DEF Numbered
      <4>4. QED BY <4>1, <4>3
    <3>6. QED BY <3>4, <3>5
  <2>6. QED BY <2>2, <2>5 DEF RoundsPairUp
<1>2. QED BY <1>1, RoundsInvariance, QualificationInvariance, PTL
=============================================================================
