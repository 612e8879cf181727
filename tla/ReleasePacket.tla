--------------------------- MODULE ReleasePacket ---------------------------
(***************************************************************************)
(* release.py, evidence.py and manifest.py: a call of run_gate_b_release   *)
(* produces the packet of a release in a directory, verify_release_packet  *)
(* judges whatever the directory holds later.                              *)
(*                                                                         *)
(* A directory is checked for emptiness and only then written, so two      *)
(* calls given the same directory may both go on.  A call may be killed or *)
(* meet an I/O error at any step.  What a packet lost or had mixed up      *)
(* while it was retained is a Damage, at most MaxDamages of them.          *)
(*                                                                         *)
(* A retained file is named by what it says: a raw file by the scenario it *)
(* is of and what became of its rows, a digest by what it is a digest of.  *)
(***************************************************************************)
EXTENDS TraceVerifier, SequencesExt, FiniteSetsExt

CONSTANTS Producers,   \* the calls of run_gate_b_release for the directory
          FileOrder,   \* the project files a release snapshots, as discovered
          None,        \* what is not there
          Cut,         \* a file whose writing was cut off
          MaxDamages   \* bound on what happens to a retained packet

Files == Range(FileOrder)

\* What a copy is measured to be, and what a manifest then says.
Looks == {"nothing", "partial", "whole"}
Manifests == [by : Producers, files : [Files -> Looks]]

ASSUME ReleaseAssumption ==
  /\ FileOrder \in Seq(Files) /\ FileOrder # <<>>
  /\ \A i, j \in DOMAIN FileOrder : FileOrder[i] = FileOrder[j] => i = j
  /\ MaxDamages \in Nat
  /\ Cut # None /\ {None, Cut} \cap Producers = {}

Fault == INSTANCE FaultScenarios

VARIABLES pc,        \* where each call is
          ended,     \* calls that raised or were killed
          step,      \* how many files or scenarios a call is done with
          seen,      \* what each call measured of each file it copied
          begun,     \* whether the directory holds anything
          snapshot,  \* files/: absent, whole, or the call that is writing it
          manifest,  \* manifest.json
          raw,       \* raw/<scenario>.json
          log,       \* release-audit.jsonl
          decision,  \* gate-b-decision.json
          damages

calls == <<pc, ended, step, seen>>
packet == <<begun, snapshot, manifest, raw, log, decision>>
vars == <<calls, packet, damages>>

\* The order the scenarios are run and packaged in.
Scenarios == <<
  "stale_meter", "meter_loss", "meter_stale", "meter_duplicate", "meter_reorder",
  "clock_jump", "scheduler_unavailable", "scheduler_rejection", "adapter_unavailable",
  "adapter_rejection", "audit_failure", "controller_restart", "split_brain",
  "manual_conflict", "optimizer_timeout", "optimizer_invalid_output",
  "interrupted_recovery", "protected_mislabel_attempt">>

-----------------------------------------------------------------------------
(***************************************************************************)
(* What raw files hold.                                                    *)
(***************************************************************************)
Ledgers == {"trace", "injections", "mutations", "events"}
Alterations == {"row lost", "row twice", "rows swapped"}

RawFiles == [of : RequiredScenarios, ledger : Ledgers, how : {"kept"} \cup Alterations]

AsProduced(s) == [of |-> s, ledger |-> "trace", how |-> "kept"]
Altered(s) == {r \in [of : {s}, ledger : Ledgers, how : Alterations] :
                 r.ledger \in DOMAIN Fault!Produced[s]}

Rows(rows, how) ==
  CASE how = "row lost" /\ rows # <<>> -> Front(rows)
    [] how = "row twice" /\ rows # <<>> -> Append(rows, Last(rows))
    [] how = "rows swapped" /\ Len(rows) > 1 ->
         <<rows[2], rows[1]>> \o SubSeq(rows, 3, Len(rows))
    [] OTHER -> rows

Content(r) ==
  IF r.how = "kept" THEN Fault!Produced[r.of]
  ELSE [Fault!Produced[r.of] EXCEPT ![r.ledger] = Rows(@, r.how)]

\* _verified_producer_result, and the same result drawn from a retained file.
Result(s, p) ==
  [scenario |-> s, passed |-> AllFacts(p), findings |-> IF AllFacts(p) THEN 0 ELSE 1,
   digest |-> p, verifiedDigest |-> p, invariants |-> Facts(p), verified |-> Facts(p),
   faults |-> 1, forbidden |-> IF AllFacts(p) THEN 0 ELSE 1]

\* The call has all its results before it writes; one refused packet ends it.
Producible ==
  /\ DOMAIN Fault!Produced = RequiredScenarios
  /\ \A s \in RequiredScenarios : ~Refused(Fault!Produced[s], s)
ProducedResults ==
  [i \in 1..Len(Scenarios) |-> Result(Scenarios[i], Fault!Produced[Scenarios[i]])]

(***************************************************************************)
(* What the log and the decision hold.  A digest stands for what it is of; *)
(* a record taken from another release names no call of this one.          *)
(***************************************************************************)
Verdicts == [manifest : Manifests, go : BOOLEAN, evidence : {RequiredScenarios}]
RecordsBy(writers) ==
  [kind : {"manifest", "scenario", "decision"},
   subject : {"manifest", "decision"} \cup RequiredScenarios,
   digest : Manifests \cup RawFiles \cup Verdicts, by : writers, at : Nat \ {0}]
Entries == RecordsBy(Producers)
Decisions == [verdict : Verdicts, count : Nat, head : RecordsBy(Producers \cup {None}),
              recorded : RecordsBy(Producers \cup {None})]

ASSUME MissingAssumption ==
  {None, Cut} \cap (Manifests \cup RawFiles \cup Decisions) = {}

-----------------------------------------------------------------------------
Running(p, at) == pc[p] = at /\ p \notin ended
Goto(p, at) == pc' = [pc EXCEPT ![p] = at]

Init ==
  /\ pc = [p \in Producers |-> "idle"]
  /\ ended = {}
  /\ step = [p \in Producers |-> 1]
  /\ seen = [p \in Producers |-> [f \in Files |-> "nothing"]]
  /\ begun = FALSE
  /\ snapshot = [f \in Files |-> "absent"]
  /\ manifest = None
  /\ raw = [s \in RequiredScenarios |-> None]
  /\ log = <<>>
  /\ decision = None
  /\ damages = 0

\* _prepare_empty_release_directory
Prepare(p) ==
  /\ Running(p, "idle")
  /\ IF begun THEN ended' = ended \cup {p} /\ UNCHANGED pc
     ELSE Goto(p, "prepared") /\ UNCHANGED ended
  /\ UNCHANGED <<step, seen, packet, damages>>

\* The scenarios run and are verified before anything is written.
Produce(p) ==
  /\ Running(p, "prepared")
  /\ IF Producible THEN Goto(p, "copying") /\ UNCHANGED ended
     ELSE ended' = ended \cup {p} /\ Goto(p, "rejected")
  /\ UNCHANGED <<step, seen, packet, damages>>

(***************************************************************************)
(* build_artifact_manifest: each file is looked for, opened (which empties *)
(* it), filled, and measured as the packet then holds it.                  *)
(***************************************************************************)
File(p) == FileOrder[step[p]]

LookForCopy(p) ==
  /\ Running(p, "copying")
  /\ begun' = TRUE
  /\ IF snapshot[File(p)] = "absent" THEN Goto(p, "opening") /\ UNCHANGED ended
     ELSE ended' = ended \cup {p} /\ UNCHANGED pc
  /\ UNCHANGED <<step, seen, snapshot, manifest, raw, log, decision, damages>>

OpenCopy(p) ==
  /\ Running(p, "opening")
  /\ snapshot' = [snapshot EXCEPT ![File(p)] = p]
  /\ Goto(p, "filling")
  /\ UNCHANGED <<ended, step, seen, begun, manifest, raw, log, decision, damages>>

\* Another call that opened the file meanwhile may have emptied it again.
FillCopy(p) ==
  /\ Running(p, "filling")
  /\ \E now \in IF snapshot[File(p)] \in {p, "whole"} THEN {"whole"}
                ELSE {"whole", snapshot[File(p)]} :
       snapshot' = [snapshot EXCEPT ![File(p)] = now]
  /\ Goto(p, "measuring")
  /\ UNCHANGED <<ended, step, seen, begun, manifest, raw, log, decision, damages>>

\* The size and the hash tell a whole file from any other.
Look(f) == IF snapshot[f] = "whole" THEN "whole" ELSE "partial"

MeasureCopy(p) ==
  /\ Running(p, "measuring")
  /\ seen' = [seen EXCEPT ![p][File(p)] = Look(File(p))]
  /\ IF step[p] = Len(FileOrder)
     THEN step' = [step EXCEPT ![p] = 1] /\ Goto(p, "manifest")
     ELSE step' = [step EXCEPT ![p] = @ + 1] /\ Goto(p, "copying")
  /\ UNCHANGED <<ended, packet, damages>>

\* Faulty variant of MayCreateManifest: an existing file is opened again.
MayReplaceManifest == TRUE

\* write_new_manifest creates the file and nothing else may have.
MayCreateManifest == manifest = None

WriteManifest(p) ==
  /\ Running(p, "manifest")
  /\ IF MayCreateManifest
     THEN manifest' = [by |-> p, files |-> seen[p]] /\ Goto(p, "manifest record")
                      /\ UNCHANGED ended
     ELSE ended' = ended \cup {p} /\ UNCHANGED <<manifest, pc>>
  /\ UNCHANGED <<step, seen, begun, snapshot, raw, log, decision, damages>>

-----------------------------------------------------------------------------
(***************************************************************************)
(* The audit log of the release.  A record is durable when append returns; *)
(* an append that fails may leave its record behind.                       *)
(***************************************************************************)
Entry(p, kind, subject, digest) ==
  [kind |-> kind, subject |-> subject, digest |-> digest, by |-> p, at |-> Len(log) + 1]

RecordManifest(p) ==
  /\ Running(p, "manifest record")
  /\ log' = Append(log, Entry(p, "manifest", "manifest", manifest))
  /\ Goto(p, "raw")
  /\ UNCHANGED <<ended, step, seen, begun, snapshot, manifest, raw, decision, damages>>

\* package_release_evidence, scenario by scenario: the raw file first.
Scenario(p) == Scenarios[step[p]]

WriteRaw(p) ==
  /\ Running(p, "raw")
  /\ IF raw[Scenario(p)] = None
     THEN raw' = [raw EXCEPT ![Scenario(p)] = AsProduced(Scenario(p))]
          /\ Goto(p, "raw record") /\ UNCHANGED ended
     ELSE ended' = ended \cup {p} /\ UNCHANGED <<raw, pc>>
  /\ UNCHANGED <<step, seen, begun, snapshot, manifest, log, decision, damages>>

RecordRaw(p) ==
  /\ Running(p, "raw record")
  /\ log' = Append(log, Entry(p, "scenario", Scenario(p), raw[Scenario(p)]))
  /\ Goto(p, "head")
  /\ UNCHANGED <<ended, step, seen, begun, snapshot, manifest, raw, decision, damages>>

\* The append raised: the raw file is taken back, whatever the log now holds.
RecordRawFails(p) ==
  /\ Running(p, "raw record")
  /\ raw' = [raw EXCEPT ![Scenario(p)] = None]
  /\ log' \in {log, Append(log, Entry(p, "scenario", Scenario(p), raw[Scenario(p)]))}
  /\ ended' = ended \cup {p}
  /\ UNCHANGED <<pc, step, seen, begun, snapshot, manifest, decision, damages>>

\* The head must be the record just appended.
CheckHead(p) ==
  /\ Running(p, "head")
  /\ IF Last(log).by # p \/ Last(log).subject # Scenario(p)
     THEN ended' = ended \cup {p} /\ UNCHANGED <<step, pc>>
     ELSE /\ UNCHANGED ended
          /\ IF step[p] = Len(Scenarios)
             THEN Goto(p, "decide") /\ UNCHANGED step
             ELSE step' = [step EXCEPT ![p] = @ + 1] /\ Goto(p, "raw")
  /\ UNCHANGED <<seen, packet, damages>>

\* The decision without what the log adds to it.
Verdict(m, go) == [manifest |-> m, go |-> go, evidence |-> RequiredScenarios]

Decide(p) ==
  /\ Running(p, "decide")
  /\ log' = Append(log, Entry(p, "decision", "decision",
                              Verdict(manifest, Go(ProducedResults))))
  /\ Goto(p, "decision")
  /\ UNCHANGED <<ended, step, seen, begun, snapshot, manifest, raw, decision, damages>>

WriteDecision(p) ==
  /\ Running(p, "decision")
  /\ IF decision = None
     THEN decision' = [verdict |-> Verdict(manifest, Go(ProducedResults)),
                       count |-> Len(log), head |-> Last(log), recorded |-> Last(log)]
          /\ Goto(p, "released") /\ UNCHANGED ended
     ELSE ended' = ended \cup {p} /\ UNCHANGED <<decision, pc>>
  /\ UNCHANGED <<step, seen, begun, snapshot, manifest, raw, log, damages>>

-----------------------------------------------------------------------------
(***************************************************************************)
(* A call is killed, or an I/O error it lets through ends it.  The file it *)
(* is creating may be left cut off.                                        *)
(***************************************************************************)
CutManifest(p) == pc[p] = "manifest" /\ MayCreateManifest
CutRaw(p) == pc[p] = "raw" /\ raw[Scenario(p)] = None
CutDecision(p) == pc[p] = "decision" /\ decision = None

Fails(p) ==
  /\ p \notin ended /\ pc[p] \notin {"idle", "released"}
  /\ ended' = ended \cup {p}
  /\ UNCHANGED <<pc, step, seen, packet, damages>>

FailsWriting(p) ==
  /\ p \notin ended
  /\ CutManifest(p) \/ CutRaw(p) \/ CutDecision(p)
  /\ ended' = ended \cup {p}
  /\ manifest' = IF CutManifest(p) THEN Cut ELSE manifest
  /\ raw' = IF CutRaw(p) THEN [raw EXCEPT ![Scenario(p)] = Cut] ELSE raw
  /\ decision' = IF CutDecision(p) THEN Cut ELSE decision
  /\ UNCHANGED <<pc, step, seen, begun, snapshot, log, damages>>

-----------------------------------------------------------------------------
(***************************************************************************)
(* Damage to a packet nobody is writing any more: a file is lost, rows of  *)
(* a raw file are lost, repeated or swapped, the raw files of two          *)
(* scenarios are mixed up, a log record is lost, a decision comes from     *)
(* another release of the same project.                                    *)
(***************************************************************************)
Written(file) == file \notin {None, Cut}
Foreign(d) == [d EXCEPT !.head.by = None, !.recorded.by = None]

AtRest == \A p \in Producers : p \in ended \/ pc[p] \in {"idle", "released"}

Damaged ==
  /\ AtRest /\ damages < MaxDamages
  /\ damages' = damages + 1
  /\ UNCHANGED <<calls, begun>>

DamageRaw ==
  /\ Damaged
  /\ \E s \in RequiredScenarios :
       /\ Written(raw[s])
       /\ \E r \in {None} \cup Altered(s) \cup {raw[t] : t \in RequiredScenarios \ {s}} :
            raw' = [raw EXCEPT ![s] = r]
  /\ UNCHANGED <<snapshot, manifest, log, decision>>

DamageLog ==
  /\ Damaged
  /\ \E i \in 1..Len(log) : log' = RemoveAt(log, i)
  /\ UNCHANGED <<snapshot, manifest, raw, decision>>

DamageManifest ==
  /\ Damaged /\ Written(manifest)
  /\ manifest' = None
  /\ UNCHANGED <<snapshot, raw, log, decision>>

DamageDecision ==
  /\ Damaged /\ Written(decision)
  /\ decision' \in {None, Foreign(decision)}
  /\ UNCHANGED <<snapshot, manifest, raw, log>>

DamageSnapshot ==
  /\ Damaged
  /\ \E f \in Files, left \in {"absent", "damaged"} :
       snapshot[f] # "absent" /\ snapshot' = [snapshot EXCEPT ![f] = left]
  /\ UNCHANGED <<manifest, raw, log, decision>>

Call(p) ==
  \/ Prepare(p) \/ Produce(p)
  \/ LookForCopy(p) \/ OpenCopy(p) \/ FillCopy(p) \/ MeasureCopy(p)
  \/ WriteManifest(p) \/ RecordManifest(p)
  \/ WriteRaw(p) \/ RecordRaw(p) \/ RecordRawFails(p) \/ CheckHead(p)
  \/ Decide(p) \/ WriteDecision(p)
  \/ Fails(p) \/ FailsWriting(p)

Next ==
  \/ \E p \in Producers : Call(p)
  \/ DamageRaw \/ DamageLog \/ DamageManifest \/ DamageDecision \/ DamageSnapshot

Spec == Init /\ [][Next]_vars

-----------------------------------------------------------------------------
(***************************************************************************)
(* verify_release_packet: nothing but the directory is read.               *)
(***************************************************************************)
Records(kind) == {i \in 1..Len(log) : log[i].kind = kind}
RecordsOf(s) == {i \in Records("scenario") : log[i].subject = s}

\* Faulty variant of ArtifactsAgree: the files the packet holds are believed.
ArtifactsBelieved == \A f \in Files : snapshot[f] # "absent"

\* verify_manifest_files
ArtifactsAgree ==
  \A f \in Files : snapshot[f] # "absent" /\ Look(f) = manifest.files[f]

\* AuditLog.verify: numbered from one, each record naming the one before.
LogAgrees ==
  /\ \A i \in 1..Len(log) : log[i].at = i
  /\ log # <<>> /\ decision.head = Last(log) /\ decision.count = Len(log)

ManifestAgrees ==
  /\ decision.verdict.manifest = manifest
  /\ Cardinality(Records("manifest")) = 1
  /\ \A i \in Records("manifest") : log[i].digest = manifest

EvidenceAgrees ==
  \A s \in decision.verdict.evidence :
    /\ Written(raw[s])
    /\ RecordsOf(s) # {}
    /\ Content(log[Max(RecordsOf(s))].digest) = Content(raw[s])
    /\ ~Refused(Content(raw[s]), s)

RetainedResults ==
  [i \in 1..Len(Scenarios) |-> Result(Scenarios[i], Content(raw[Scenarios[i]]))]

VerdictAgrees ==
  /\ Go(RetainedResults) = decision.verdict.go
  /\ Cardinality(Records("decision")) = 1
  /\ \A i \in Records("decision") :
       log[i].digest = decision.verdict /\ log[i] = decision.recorded

Valid ==
  /\ Written(manifest) /\ Written(decision)
  /\ ArtifactsAgree /\ LogAgrees /\ ManifestAgrees /\ EvidenceAgrees /\ VerdictAgrees

-----------------------------------------------------------------------------
Packaging == {"raw", "raw record", "head"}
Copying == {"copying", "opening", "filling", "measuring"}
PastManifest == {"manifest record", "decide", "decision", "released"} \cup Packaging
Stages == {"idle", "prepared", "rejected", "manifest"} \cup Copying \cup PastManifest

\* Where a step counts, it counts project files or scenarios.
StagesOK ==
  /\ pc \in [Producers -> Stages] /\ step \in [Producers -> Nat]
  /\ \A p \in Producers :
       /\ pc[p] \in Copying => step[p] \in DOMAIN FileOrder
       /\ pc[p] \in Packaging => step[p] \in DOMAIN Scenarios
       /\ pc[p] \in {"idle", "prepared", "manifest", "manifest record"} => step[p] = 1

ReleaseTypeOK ==
  /\ StagesOK
  /\ ended \subseteq Producers
  /\ seen \in [Producers -> [Files -> Looks]]
  /\ begun \in BOOLEAN
  /\ snapshot \in [Files -> {"absent", "whole", "damaged"} \cup Producers]
  /\ manifest \in {None, Cut} \cup Manifests
  /\ raw \in [RequiredScenarios -> {None, Cut} \cup RawFiles]
  /\ log \in Seq(Entries)
  /\ decision \in {None, Cut} \cup Decisions
  /\ damages \in 0..MaxDamages

Past(p) == pc[p] \in PastManifest

\* Another call found the directory empty too.
Contended == \E p, q \in Producers : p # q /\ pc[p] # "idle" /\ pc[q] # "idle"

(***************************************************************************)
(* However many calls are given one directory, and whatever they find of   *)
(* each other's files, one of them alone writes what follows the manifest, *)
(* and every record of the log is its own.                                 *)
(***************************************************************************)
OneCallWrites ==
  /\ \A p, q \in Producers : Past(p) /\ Past(q) => p = q
  /\ \A i, j \in 1..Len(log) : log[i].by = log[j].by

\* What the scenarios are run to, a fact about eighteen packets: none is refused,
\* and together they make a GO.
ScenariosProven == Producible /\ Go(ProducedResults)

(***************************************************************************)
(* The packets the scenarios are run to, meter and planner and boundary    *)
(* faults, a restart, a second writer, are never turned down by the        *)
(* release's own verifier, and a call that returns has decided GO.  Unless *)
(* another call took the directory for empty as well, what it wrote then   *)
(* verifies.                                                               *)
(***************************************************************************)
FinishedReleaseVerifies ==
  \A p \in Producers :
    /\ pc[p] # "rejected"
    /\ pc[p] = "released" /\ damages = 0 =>
         decision.verdict.go /\ (Contended \/ Valid)

(***************************************************************************)
(* A packet that verifies as a GO holds every required scenario as it was  *)
(* run, each proving all its invariants, the record of each, and the whole *)
(* files: no call cut off, no I/O error and no damage can leave less and   *)
(* verify.  Only two calls in one directory can leave a file cut off and   *)
(* measured so.                                                            *)
(***************************************************************************)
ValidMeansProven ==
  Valid /\ decision.verdict.go =>
    /\ \A s \in RequiredScenarios :
         /\ Content(raw[s]) = Fault!Produced[s] /\ AllFacts(Content(raw[s]))
         /\ Cardinality(RecordsOf(s)) = 1
    /\ Contended \/ \A f \in Files : snapshot[f] = "whole"

(***************************************************************************)
(* The digests aside, the trace verifier by itself turns down a raw file   *)
(* of another scenario, and one with a row of its trace, its injection or  *)
(* its mutation ledger lost, repeated or out of place.                     *)
(***************************************************************************)
IndependentlyRefused ==
  \A s \in RequiredScenarios :
    Written(raw[s]) =>
      LET p == Content(raw[s])
      IN  \/ \A l \in Ledgers \ {"events"} :
               /\ raw[s].of = s
               /\ l \in DOMAIN p => p[l] = Fault!Produced[s][l]
          \/ Refused(p, s) \/ ~AllFacts(p)
=============================================================================
