------------------------ MODULE ReleasePacketProofs ------------------------
(***************************************************************************)
(* Proofs about ReleasePacket, for any number of calls, project files and  *)
(* damages.                                                                *)
(*                                                                         *)
(* The manifest is the lock of a directory: it is created exclusively and  *)
(* after every copy, so the one call that got past it writes alone.  The   *)
(* log then holds its records in their order, and damage can only take     *)
(* some of them out again; that is why the invariant numbers the records   *)
(* by the place they were written at.                                      *)
(***************************************************************************)
EXTENDS ReleasePacket, FiniteSetTheorems, SequenceTheorems, TLAPS

Last2 == Len(Scenarios) + 2

(***************************************************************************)
(* Nothing is there before the first copy is looked for, and a packet is   *)
(* only damaged when every call has come to rest.                          *)
(***************************************************************************)
RestWhenDamaged == damages > 0 => AtRest /\ begun

EmptyAtFirst ==
    ~begun =>
        /\ \A f \in Files : snapshot[f] = "absent"
        /\ manifest = None /\ decision = None /\ log = <<>>
        /\ \A s \in RequiredScenarios : raw[s] = None
        /\ \A p \in Producers : pc[p] \in {"idle", "prepared", "rejected", "copying"}

OneWriter ==
    /\ \A p, q \in Producers : Past(p) /\ Past(q) => p = q
    /\ \A p \in Producers : pc[p] = "released" => p \notin ended

(***************************************************************************)
(* The record a call writes at each place of its log.                      *)
(***************************************************************************)
AsWritten(e) ==
    /\ e.at \in 1..Last2
    /\ e.at = 1 => e.kind = "manifest"
    /\ e.at = Last2 => e.kind = "decision"
    /\ e.at \in 2..Len(Scenarios) + 1 =>
         e.kind = "scenario" /\ e.subject = Scenarios[e.at - 1]
           /\ e.digest = AsProduced(Scenarios[e.at - 1])

LogInOrder ==
    /\ \A i \in DOMAIN log : AsWritten(log[i]) /\ Past(log[i].by)
    /\ \A i, j \in DOMAIN log : i < j => log[i].at < log[j].at

(***************************************************************************)
(* Before any damage: how far log and raw files of a call have come.       *)
(***************************************************************************)
Appended(p) ==
    IF pc[p] = "manifest record" THEN 0
    ELSE IF pc[p] = "head" THEN step[p] + 1
    ELSE IF pc[p] \in Packaging THEN step[p]
    ELSE IF pc[p] = "decide" THEN Last2 - 1 ELSE Last2

Packed(p) ==
    IF pc[p] = "manifest record" THEN 0
    ELSE IF pc[p] = "raw" THEN step[p] - 1
    ELSE IF pc[p] \in Packaging THEN step[p] ELSE Len(Scenarios)

Conclusion == Verdict(manifest, Go(ProducedResults))

LogOfCall ==
    damages = 0 =>
        /\ \A i \in DOMAIN log : log[i].at = i
        /\ \A i \in DOMAIN log : log[i].at = 1 => log[i].digest = manifest
        /\ \A i \in DOMAIN log : log[i].at = Last2 => log[i].digest = Conclusion
        /\ \A p \in Producers : Past(p) =>
             /\ manifest = [by |-> p, files |-> seen[p]]
             /\ p \notin ended => Len(log) = Appended(p)

RawOfCall ==
    damages = 0 =>
        /\ \A s \in RequiredScenarios : raw[s] \in {None, Cut, AsProduced(s)}
        /\ \A p \in Producers : Past(p) /\ p \notin ended =>
             \A i \in 1..Packed(p) : raw[Scenarios[i]] = AsProduced(Scenarios[i])

DecisionOfCall ==
    damages = 0 =>
        \A p \in Producers : pc[p] = "released" =>
            decision = [verdict |-> Conclusion, count |-> Last2,
                        head |-> log[Last2], recorded |-> log[Last2]]

(***************************************************************************)
(* A call that nobody else came between finds its copies whole.            *)
(***************************************************************************)
Copied(p, i) ==
    snapshot[FileOrder[i]] = "whole" /\ seen[p][FileOrder[i]] = "whole"

CopiesOfCall(p) ==
    /\ pc[p] \in Copying => \A i \in 1..step[p] - 1 : Copied(p, i)
    /\ pc[p] = "filling" => snapshot[File(p)] = p
    /\ pc[p] = "measuring" => snapshot[File(p)] = "whole"
    /\ pc[p] = "manifest" \/ Past(p) => \A i \in DOMAIN FileOrder : Copied(p, i)

CopiesWhole ==
    ~Contended =>
        /\ manifest \in Manifests => \A f \in Files : manifest.files[f] = "whole"
        /\ damages = 0 => \A p \in Producers \ ended : CopiesOfCall(p)

ReleaseInv ==
    /\ ReleaseTypeOK
    /\ RestWhenDamaged /\ EmptyAtFirst /\ OneWriter /\ LogInOrder
    /\ LogOfCall /\ RawOfCall /\ DecisionOfCall /\ CopiesWhole
-----------------------------------------------------------------------------
(***************************************************************************)
(* The order of scenarios and files, and the values records are made of.   *)
(***************************************************************************)
LEMMA ScenarioOrder ==
    /\ Len(Scenarios) = 18 /\ DOMAIN Scenarios = 1..18
    /\ \A i \in 1..18 : Scenarios[i] \in RequiredScenarios
    /\ \A i, j \in 1..18 : Scenarios[i] = Scenarios[j] => i = j
    /\ \A s \in RequiredScenarios : \E i \in 1..18 : Scenarios[i] = s
<1>1. Len(Scenarios) = 18 /\ DOMAIN Scenarios = 1..18
  BY DEF Scenarios
<1>2. \A i \in 1..18 : Scenarios[i] \in RequiredScenarios
  BY DEF Scenarios, RequiredScenarios, RequiredInvariants
<1>3. \A i, j \in 1..18 : Scenarios[i] = Scenarios[j] => i = j
  BY DEF Scenarios
<1>4. \A s \in RequiredScenarios : \E i \in 1..18 : Scenarios[i] = s
  BY DEF Scenarios, RequiredScenarios, RequiredInvariants
<1>5. QED BY <1>1, <1>2, <1>3, <1>4

LEMMA FilesInOrder ==
    /\ Len(FileOrder) \in Nat \ {0} /\ DOMAIN FileOrder = 1..Len(FileOrder)
    /\ \A i \in DOMAIN FileOrder : FileOrder[i] \in Files
    /\ \A f \in Files : \E i \in DOMAIN FileOrder : FileOrder[i] = f
    /\ \A i, j \in DOMAIN FileOrder : FileOrder[i] = FileOrder[j] => i = j
<1>1. FileOrder \in Seq(Files) /\ FileOrder # <<>>
  BY ReleaseAssumption
<1>2. Len(FileOrder) \in Nat \ {0} /\ DOMAIN FileOrder = 1..Len(FileOrder)
  BY <1>1
<1>3. \A f \in Files : \E i \in DOMAIN FileOrder : FileOrder[i] = f
  BY DEF Files, Range
<1>4. \A i \in DOMAIN FileOrder : FileOrder[i] \in Files
  BY DEF Files, Range
<1>5. QED BY <1>2, <1>3, <1>4, ReleaseAssumption

LEMMA FirstPlaces == 1 \in DOMAIN FileOrder /\ 1 \in DOMAIN Scenarios
<1>1. Len(FileOrder) \in Nat \ {0} /\ DOMAIN FileOrder = 1..Len(FileOrder)
  BY FilesInOrder
<1>2. DOMAIN Scenarios = 1..18
  BY ScenarioOrder
<1>3. QED BY <1>1, <1>2

LEMMA RawAsProduced == \A s \in RequiredScenarios : AsProduced(s) \in RawFiles
  BY DEF AsProduced, RawFiles, Ledgers

LEMMA VerdictTypes ==
  ASSUME manifest \in Manifests
  PROVE  Conclusion \in Verdicts
<1>1. Go(ProducedResults) \in BOOLEAN
  BY DEF Go
<1>2. QED BY <1>1 DEF Conclusion, Verdict, Verdicts

LEMMA MissingIsNothing ==
    /\ \A m \in Manifests : m # None /\ m # Cut
    /\ \A r \in RawFiles : r # None /\ r # Cut
    /\ \A d \in Decisions : d # None /\ d # Cut
  BY MissingAssumption
-----------------------------------------------------------------------------
(***************************************************************************)
(* A call at work: the packet is not damaged, and past the manifest it is  *)
(* the call's own.                                                         *)
(***************************************************************************)
LEMMA AtWork ==
  ASSUME ReleaseInv, NEW p \in Producers, p \notin ended, pc[p] \notin {"idle", "released"}
  PROVE  /\ damages = 0 /\ damages \in Nat
         /\ Past(p) => manifest = [by |-> p, files |-> seen[p]] /\ manifest \in Manifests
                       /\ Len(log) = Appended(p)
<1>1. ~AtRest
  BY DEF AtRest
<1>2. damages = 0
  <2>1. damages \in Nat
    <3>1. damages \in 0..MaxDamages
      BY DEF ReleaseInv, ReleaseTypeOK
    <3>2. QED BY <3>1
  <2>2. ~(damages > 0)
    BY <1>1 DEF ReleaseInv, RestWhenDamaged
  <2>3. QED BY <2>1, <2>2
<1>3. seen[p] \in [Files -> Looks]
  BY DEF ReleaseInv, ReleaseTypeOK
<1>4. Past(p) => manifest = [by |-> p, files |-> seen[p]] /\ Len(log) = Appended(p)
  BY <1>2 DEF ReleaseInv, LogOfCall
<1>5. QED BY <1>2, <1>3, <1>4 DEF Manifests

\* The scenario a call is packaging, and its raw file once written.
LEMMA AtPackaging ==
  ASSUME ReleaseInv, NEW p \in Producers, p \notin ended, pc[p] \in Packaging
  PROVE  /\ step[p] \in 1..18 /\ Scenario(p) \in RequiredScenarios
         /\ Past(p)
         /\ pc[p] \in {"raw record", "head"} => raw[Scenario(p)] = AsProduced(Scenario(p))
<1>1. step[p] \in 1..18
  BY ScenarioOrder DEF ReleaseInv, ReleaseTypeOK, StagesOK
<1>2. Past(p)
  BY DEF Past, PastManifest
<1>3. damages = 0
  BY AtWork DEF Packaging
<1>4. pc[p] \in {"raw record", "head"} => step[p] \in 1..Packed(p)
  <2>1. ASSUME pc[p] = "raw record" PROVE Packed(p) = step[p]
    BY <2>1 DEF Packed, Packaging
  <2>2. ASSUME pc[p] = "head" PROVE Packed(p) = step[p]
    BY <2>2 DEF Packed, Packaging
  <2>3. step[p] \in 1..step[p]
    BY <1>1
  <2>4. QED BY <2>1, <2>2, <2>3
<1>5. pc[p] \in {"raw record", "head"} => raw[Scenario(p)] = AsProduced(Scenario(p))
  BY <1>2, <1>3, <1>4 DEF ReleaseInv, RawOfCall, Scenario
<1>6. QED BY <1>1, <1>2, <1>5, ScenarioOrder DEF Scenario

LEMMA EntryTypes ==
  ASSUME ReleaseTypeOK, NEW p \in Producers,
         NEW kind \in {"manifest", "scenario", "decision"},
         NEW subject \in {"manifest", "decision"} \cup RequiredScenarios,
         NEW digest \in Manifests \cup RawFiles \cup Verdicts
  PROVE  /\ Entry(p, kind, subject, digest) \in Entries
         /\ Append(log, Entry(p, kind, subject, digest)) \in Seq(Entries)
<1>1. Len(log) + 1 \in Nat \ {0} /\ log \in Seq(Entries)
  <2>1. log \in Seq(Entries)
    BY DEF ReleaseTypeOK
  <2>2. QED BY <2>1
<1>2. Entry(p, kind, subject, digest) \in Entries
  BY <1>1 DEF Entry, Entries, RecordsBy
<1>3. QED BY <1>1, <1>2

LEMMA RecordedTypes ==
  ASSUME ReleaseInv, NEW p \in Producers, p \notin ended
  PROVE  /\ pc[p] = "manifest record" =>
              Append(log, Entry(p, "manifest", "manifest", manifest)) \in Seq(Entries)
         /\ pc[p] = "raw record" =>
              Append(log, Entry(p, "scenario", Scenario(p), raw[Scenario(p)])) \in Seq(Entries)
         /\ pc[p] = "decide" =>
              Append(log, Entry(p, "decision", "decision", Conclusion)) \in Seq(Entries)
<1>0. ReleaseTypeOK
  BY DEF ReleaseInv
<1>1. CASE pc[p] = "manifest record"
  <2>1. manifest \in Manifests
    BY <1>1, AtWork DEF Past, PastManifest
  <2>2. QED BY <1>0, <1>1, <2>1, EntryTypes
<1>2. CASE pc[p] = "raw record"
  <2>1. Scenario(p) \in RequiredScenarios /\ raw[Scenario(p)] \in RawFiles
    BY <1>2, AtPackaging, RawAsProduced DEF Packaging
  <2>2. QED BY <1>0, <1>2, <2>1, EntryTypes
<1>3. CASE pc[p] = "decide"
  <2>1. Conclusion \in Verdicts
    BY <1>3, AtWork, VerdictTypes DEF Past, PastManifest
  <2>2. QED BY <1>0, <1>3, <2>1, EntryTypes
<1>4. QED BY <1>1, <1>2, <1>3

-----------------------------------------------------------------------------
LEMMA StageMoves ==
  ASSUME StagesOK, NEW p \in Producers, NEW at \in Stages, Goto(p, at),
         step' \in [Producers -> Nat], \A q \in Producers \ {p} : step'[q] = step[q],
         at \in Copying => step'[p] \in DOMAIN FileOrder,
         at \in Packaging => step'[p] \in DOMAIN Scenarios,
         at \in {"idle", "prepared", "manifest", "manifest record"} => step'[p] = 1
  PROVE  StagesOK'
<1>1. pc' \in [Producers -> Stages] /\ \A q \in Producers : pc'[q] = IF q = p THEN at ELSE pc[q]
  BY DEF Goto, StagesOK
<1>2. ASSUME NEW q \in Producers
      PROVE  /\ pc'[q] \in Copying => step'[q] \in DOMAIN FileOrder
             /\ pc'[q] \in Packaging => step'[q] \in DOMAIN Scenarios
             /\ pc'[q] \in {"idle", "prepared", "manifest", "manifest record"} => step'[q] = 1
  <2>1. CASE q = p
    BY <1>1, <2>1
  <2>2. CASE q # p
    BY <1>1, <2>2 DEF StagesOK
  <2>3. QED BY <2>1, <2>2
<1>3. QED BY <1>1, <1>2 DEF StagesOK

LEMMA StagesStand == StagesOK /\ UNCHANGED <<pc, step>> => StagesOK'
  BY DEF StagesOK

\* From one stage to the next in the same file or scenario.
LEMMA StagePasses ==
  ASSUME StagesOK, NEW p \in Producers, NEW at \in Stages, Goto(p, at), UNCHANGED step,
         \/ at \in Copying /\ pc[p] \in Copying
         \/ at \in Packaging /\ pc[p] \in Packaging
         \/ at \in {"prepared", "copying", "manifest record", "raw", "rejected"}
              /\ step[p] = 1
         \/ at \in {"decide", "decision", "released", "rejected"}
  PROVE  StagesOK'
<1>1. step' \in [Producers -> Nat] /\ step' = step
  BY DEF StagesOK
<1>2. 1 \in DOMAIN FileOrder /\ 1 \in DOMAIN Scenarios
  BY FirstPlaces
<1>3. /\ at \in Copying => step'[p] \in DOMAIN FileOrder
      /\ at \in Packaging => step'[p] \in DOMAIN Scenarios
      /\ at \in {"idle", "prepared", "manifest", "manifest record"} => step'[p] = 1
  BY <1>1, <1>2 DEF StagesOK, Copying, Packaging
<1>4. QED BY <1>1, <1>3, StageMoves

\* What the type of the packet says of each of its parts.
PacketTypes ==
    /\ begun \in BOOLEAN
    /\ snapshot \in [Files -> {"absent", "whole", "damaged"} \cup Producers]
    /\ manifest \in {None, Cut} \cup Manifests
    /\ raw \in [RequiredScenarios -> {None, Cut} \cup RawFiles]
    /\ log \in Seq(Entries)
    /\ decision \in {None, Cut} \cup Decisions
    /\ damages \in 0..MaxDamages

LEMMA TypesInParts ==
    ReleaseTypeOK <=> /\ StagesOK /\ ended \subseteq Producers
                      /\ seen \in [Producers -> [Files -> Looks]] /\ PacketTypes
  BY DEF ReleaseTypeOK, PacketTypes

LEMMA PacketStands == PacketTypes /\ UNCHANGED <<packet, damages>> => PacketTypes'
  BY DEF PacketTypes, packet

LEMMA CallTypes ==
  ASSUME ReleaseInv, NEW p \in Producers, Call(p)
  PROVE  ReleaseTypeOK'
<1> USE DEF packet
<1>0. /\ ReleaseTypeOK /\ StagesOK /\ ended \subseteq Producers
      /\ seen \in [Producers -> [Files -> Looks]] /\ PacketTypes
  BY TypesInParts DEF ReleaseInv
<1> DEFINE Parts == /\ StagesOK' /\ ended' \subseteq Producers
                    /\ seen' \in [Producers -> [Files -> Looks]] /\ PacketTypes'
<1> SUFFICES Parts
  BY DEF ReleaseTypeOK, PacketTypes
<1>1. ASSUME UNCHANGED <<step, seen>>, UNCHANGED pc, ended' \in {ended, ended \cup {p}}, PacketTypes'
      PROVE  Parts
  BY <1>0, <1>1, StagesStand
<1>2. ASSUME NEW at \in Stages, Goto(p, at), UNCHANGED <<step, seen>>,
             ended' \in {ended, ended \cup {p}}, PacketTypes',
             \/ at \in Copying /\ pc[p] \in Copying
             \/ at \in Packaging /\ pc[p] \in Packaging
             \/ at \in {"prepared", "copying", "manifest record", "raw", "rejected"}
                  /\ pc[p] \in {"idle", "prepared", "manifest", "manifest record"}
             \/ at \in {"decide", "decision", "released", "rejected"}
      PROVE  Parts
  <2>1. pc[p] \in {"idle", "prepared", "manifest", "manifest record"} => step[p] = 1
    BY <1>0 DEF StagesOK
  <2>2. StagesOK'
    BY <1>0, <1>2, <2>1, StagePasses
  <2>3. QED BY <1>0, <1>2, <2>2
<1> USE DEF Stages, Copying, PastManifest, Packaging, Running
<1>3. CASE Prepare(p)
  <2>1. PacketTypes'
    BY <1>0, <1>3, PacketStands DEF Prepare
  <2>2. QED BY <1>1, <1>2, <1>3, <2>1 DEF Prepare
<1>4. CASE Produce(p)
  <2>1. PacketTypes'
    BY <1>0, <1>4, PacketStands DEF Produce
  <2>2. QED BY <1>1, <1>2, <1>4, <2>1 DEF Produce
<1>5. CASE LookForCopy(p)
  <2>1. PacketTypes'
    BY <1>0, <1>5 DEF LookForCopy, PacketTypes
  <2>2. QED BY <1>1, <1>2, <1>5, <2>1 DEF LookForCopy
<1>6. CASE OpenCopy(p)
  <2>1. PacketTypes'
    BY <1>0, <1>6 DEF OpenCopy, PacketTypes
  <2>2. QED BY <1>2, <1>6, <2>1 DEF OpenCopy
<1>7. CASE FillCopy(p)
  <2>1. File(p) \in Files
    BY <1>0, <1>7, FilesInOrder DEF FillCopy, File, StagesOK
  <2>2. PacketTypes'
    BY <1>0, <1>7, <2>1 DEF FillCopy, PacketTypes
  <2>3. QED BY <1>2, <1>7, <2>2 DEF FillCopy
<1>8. CASE MeasureCopy(p)
  <2>1. PacketTypes' /\ ended' = ended
    BY <1>0, <1>8, PacketStands DEF MeasureCopy
  <2>2. seen' \in [Producers -> [Files -> Looks]]
    BY <1>0, <1>8 DEF MeasureCopy, Look, Looks
  <2>3. StagesOK'
    <3>1. step[p] \in 1..Len(FileOrder) /\ step \in [Producers -> Nat]
      BY <1>0, <1>8, FilesInOrder DEF MeasureCopy, StagesOK
    <3>2. CASE step[p] = Len(FileOrder)
      <4>1. step' = [step EXCEPT ![p] = 1] /\ Goto(p, "manifest")
        BY <1>8, <3>2 DEF MeasureCopy
      <4>2. /\ step' \in [Producers -> Nat] /\ step'[p] = 1
            /\ \A q \in Producers \ {p} : step'[q] = step[q]
        BY <3>1, <4>1
      <4>3. QED BY <1>0, <4>1, <4>2, StageMoves
    <3>3. CASE step[p] # Len(FileOrder)
      <4>1. step' = [step EXCEPT ![p] = @ + 1] /\ Goto(p, "copying")
        BY <1>8, <3>3 DEF MeasureCopy
      <4>2. /\ step' \in [Producers -> Nat] /\ step'[p] = step[p] + 1
            /\ \A q \in Producers \ {p} : step'[q] = step[q]
        BY <3>1, <4>1
      <4>3. step[p] + 1 \in 1..Len(FileOrder)
        BY <3>1, <3>3
      <4>4. step'[p] \in DOMAIN FileOrder
        BY <4>2, <4>3, FilesInOrder
      <4>5. QED BY <1>0, <4>1, <4>2, <4>4, StageMoves
    <3>4. QED BY <3>2, <3>3
  <2>4. QED BY <1>0, <2>1, <2>2, <2>3
<1>9. CASE WriteManifest(p)
  <2>1. [by |-> p, files |-> seen[p]] \in Manifests
    BY <1>0 DEF Manifests
  <2>2. PacketTypes'
    BY <1>0, <1>9, <2>1 DEF WriteManifest, PacketTypes
  <2>3. QED BY <1>1, <1>2, <1>9, <2>2 DEF WriteManifest
<1>10. CASE RecordManifest(p)
  <2>1. log' \in Seq(Entries)
    BY <1>10, RecordedTypes DEF RecordManifest
  <2>2. PacketTypes'
    BY <1>0, <1>10, <2>1 DEF RecordManifest, PacketTypes
  <2>3. QED BY <1>2, <1>10, <2>2 DEF RecordManifest
<1>11. CASE WriteRaw(p)
  <2>1. Scenario(p) \in RequiredScenarios
    BY <1>11, AtPackaging DEF WriteRaw
  <2>2. PacketTypes'
    BY <1>0, <1>11, <2>1, RawAsProduced DEF WriteRaw, PacketTypes
  <2>3. QED BY <1>1, <1>2, <1>11, <2>2 DEF WriteRaw
<1>12. CASE RecordRaw(p)
  <2>1. log' \in Seq(Entries)
    BY <1>12, RecordedTypes DEF RecordRaw
  <2>2. PacketTypes'
    BY <1>0, <1>12, <2>1 DEF RecordRaw, PacketTypes
  <2>3. QED BY <1>2, <1>12, <2>2 DEF RecordRaw
<1>13. CASE RecordRawFails(p)
  <2>1. log' \in Seq(Entries)
    BY <1>0, <1>13, RecordedTypes DEF RecordRawFails, PacketTypes
  <2>2. PacketTypes'
    BY <1>0, <1>13, <2>1 DEF RecordRawFails, PacketTypes
  <2>3. QED BY <1>1, <1>13, <2>2 DEF RecordRawFails
<1>14. CASE CheckHead(p)
  <2>1. PacketTypes' /\ seen' = seen
    BY <1>0, <1>14, PacketStands DEF CheckHead
  <2>2. CASE UNCHANGED <<step, pc>> /\ ended' = ended \cup {p}
    BY <1>1, <2>1, <2>2
  <2>3. CASE Goto(p, "decide") /\ UNCHANGED <<step, ended>>
    BY <1>2, <2>1, <2>3
  <2>4. CASE step[p] # Len(Scenarios) /\ step' = [step EXCEPT ![p] = @ + 1] /\ Goto(p, "raw")
             /\ UNCHANGED ended
    <3>1. step[p] \in 1..18 /\ step \in [Producers -> Nat]
      BY <1>0, <1>14, AtPackaging DEF CheckHead, StagesOK
    <3>2. step[p] + 1 \in DOMAIN Scenarios
      BY <2>4, <3>1, ScenarioOrder
    <3>3. /\ step' \in [Producers -> Nat] /\ step'[p] = step[p] + 1
          /\ \A q \in Producers \ {p} : step'[q] = step[q]
      BY <2>4, <3>1
    <3>4. StagesOK'
      BY <1>0, <2>4, <3>2, <3>3, StageMoves
    <3>5. QED BY <1>0, <2>1, <2>4, <3>4
  <2>5. QED BY <1>14, <2>2, <2>3, <2>4 DEF CheckHead
<1>15. CASE Decide(p)
  <2>1. log' \in Seq(Entries)
    BY <1>15, RecordedTypes DEF Decide, Conclusion
  <2>2. PacketTypes'
    BY <1>0, <1>15, <2>1 DEF Decide, PacketTypes
  <2>3. QED BY <1>2, <1>15, <2>2 DEF Decide
<1>16. CASE WriteDecision(p)
  <2>1. CASE decision = None
    <3>1. manifest \in Manifests /\ Len(log) = Last2
      BY <1>16, AtWork DEF WriteDecision, Past, Appended
    <3>2. Conclusion \in Verdicts
      BY <3>1, VerdictTypes
    <3>3. Last(log) \in RecordsBy(Producers \cup {None}) /\ Len(log) \in Nat
      <4>1. Last2 = 20
        BY ScenarioOrder DEF Last2
      <4>2. log \in Seq(Entries)
        BY <1>0 DEF PacketTypes
      <4>3. log[Len(log)] \in Entries /\ Len(log) \in Nat
        <5>1. Len(log) \in DOMAIN log
          BY <3>1, <4>1, <4>2
        <5>2. QED BY <4>2, <5>1
      <4>4. QED BY <4>3 DEF Entries, RecordsBy, Last
    <3>4. decision' \in Decisions
      BY <1>16, <2>1, <3>2, <3>3 DEF WriteDecision, Decisions, Conclusion
    <3>5. PacketTypes'
      BY <1>0, <1>16, <3>4 DEF WriteDecision, PacketTypes
    <3>6. QED BY <1>2, <1>16, <2>1, <3>5 DEF WriteDecision
  <2>2. CASE decision # None
    <3>1. PacketTypes'
      BY <1>0, <1>16, <2>2 DEF WriteDecision, PacketTypes
    <3>2. QED BY <1>1, <1>16, <2>2, <3>1 DEF WriteDecision
  <2>3. QED BY <2>1, <2>2
<1>17. CASE Fails(p)
  <2>1. PacketTypes'
    BY <1>0, <1>17, PacketStands DEF Fails
  <2>2. QED BY <1>1, <1>17, <2>1 DEF Fails
<1>18. CASE FailsWriting(p)
  <2>1. PacketTypes'
    BY <1>0, <1>18 DEF FailsWriting, PacketTypes
  <2>2. QED BY <1>1, <1>18, <2>1 DEF FailsWriting
<1>19. QED
  BY <1>3, <1>4, <1>5, <1>6, <1>7, <1>8, <1>9, <1>10, <1>11, <1>12, <1>13, <1>14, <1>15, <1>16,
     <1>17, <1>18 DEF Call

-----------------------------------------------------------------------------
(***************************************************************************)
(* A log that lost one record.                                             *)
(***************************************************************************)
LEMMA RecordLost ==
  ASSUME NEW S, NEW s \in Seq(S), NEW i \in 1..Len(s)
  PROVE  /\ RemoveAt(s, i) \in Seq(S) /\ Len(RemoveAt(s, i)) = Len(s) - 1
         /\ \A k \in DOMAIN RemoveAt(s, i) :
              \E j \in DOMAIN s : j = (IF k < i THEN k ELSE k + 1) /\ RemoveAt(s, i)[k] = s[j]
<1> DEFINE a == SubSeq(s, 1, i - 1)
           b == SubSeq(s, i + 1, Len(s))
<1>1. Len(s) \in Nat /\ i \in Nat /\ 1 <= i /\ i <= Len(s) /\ DOMAIN s = 1..Len(s)
  OBVIOUS
<1>2. /\ a \in Seq(S) /\ Len(a) = i - 1
      /\ \A k \in 1..i - 1 : a[k] = s[k]
  BY <1>1
<1>3. /\ b \in Seq(S) /\ Len(b) = Len(s) - i
      /\ \A k \in 1..Len(s) - i : b[k] = s[k + i]
  <2>1. \A k \in i + 1 .. Len(s) : s[k] \in S
    BY <1>1
  <2>2. /\ b \in Seq(S) /\ Len(b) = IF i + 1 <= Len(s) THEN Len(s) - (i + 1) + 1 ELSE 0
        /\ \A k \in 1 .. Len(s) - (i + 1) + 1 : b[k] = s[i + 1 + k - 1]
    BY <1>1, <2>1, SubSeqProperties
  <2>3. \A k \in Int : i + 1 + k - 1 = k + i
    BY <1>1
  <2>4. (IF i + 1 <= Len(s) THEN Len(s) - (i + 1) + 1 ELSE 0) = Len(s) - i
        /\ Len(s) - (i + 1) + 1 = Len(s) - i
    <3>1. \A n \in Nat, m \in Nat : m <= n =>
            /\ (IF m + 1 <= n THEN n - (m + 1) + 1 ELSE 0) = n - m
            /\ n - (m + 1) + 1 = n - m
      OBVIOUS
    <3>2. QED BY <1>1, <3>1
  <2>5. ASSUME NEW k \in 1..Len(s) - i
        PROVE  b[k] = s[k + i]
    <3>1. k \in Int /\ k \in 1 .. Len(s) - (i + 1) + 1
      <4>1. k \in Int
        BY <1>1
      <4>2. QED BY <2>4, <4>1
    <3>2. b[k] = s[i + 1 + k - 1]
      BY <2>2, <3>1
    <3>3. QED BY <2>3, <3>1, <3>2
  <2>6. QED BY <2>2, <2>4, <2>5
<1>4. /\ a \o b \in Seq(S) /\ Len(a \o b) = Len(s) - 1
      /\ \A k \in 1..Len(s) - 1 : (a \o b)[k] = IF k <= i - 1 THEN a[k] ELSE b[k - (i - 1)]
  <2> HIDE DEF a, b
  <2>1. a \o b \in Seq(S) /\ Len(a \o b) = Len(a) + Len(b)
    BY <1>2, <1>3, ConcatProperties
  <2>2. \A k \in 1..Len(a) + Len(b) :
          (a \o b)[k] = IF k <= Len(a) THEN a[k] ELSE b[k - Len(a)]
    BY <1>2, <1>3, ConcatProperties
  <2>3. Len(a) + Len(b) = Len(s) - 1
    BY <1>1, <1>2, <1>3
  <2>4. QED BY <1>2, <2>1, <2>2, <2>3
<1>5. ASSUME NEW k \in 1..Len(s) - 1
      PROVE  (a \o b)[k] = s[IF k < i THEN k ELSE k + 1]
  <2>1. CASE k < i
    <3>1. k \in 1..i - 1 /\ k <= i - 1
      BY <1>1, <2>1
    <3>2. QED BY <1>2, <1>4, <2>1, <3>1
  <2>2. CASE ~(k < i)
    <3>1. k - (i - 1) \in 1..Len(s) - i /\ ~(k <= i - 1) /\ k - (i - 1) + i = k + 1
      BY <1>1, <2>2
    <3>2. (a \o b)[k] = b[k - (i - 1)]
      BY <1>4, <3>1
    <3>3. b[k - (i - 1)] = s[k - (i - 1) + i]
      BY <1>3, <3>1
    <3>4. QED BY <2>2, <3>1, <3>2, <3>3
  <2>3. QED BY <2>1, <2>2
<1>6. RemoveAt(s, i) = a \o b
  BY DEF RemoveAt
<1>7. QED
  <2> HIDE DEF a, b
  <2>1. DOMAIN (a \o b) = 1..Len(s) - 1
    BY <1>4, LenProperties
  <2>2. \A k \in 1..Len(s) - 1 : (IF k < i THEN k ELSE k + 1) \in DOMAIN s
    BY <1>1
  <2>3. QED BY <1>4, <1>5, <1>6, <2>1, <2>2

LEMMA DamageTypes ==
  ASSUME ReleaseTypeOK,
         DamageRaw \/ DamageLog \/ DamageManifest \/ DamageDecision \/ DamageSnapshot
  PROVE  ReleaseTypeOK'
<1> USE DEF Damaged
<1>0. StagesOK' /\ ended' \subseteq Producers /\ seen' \in [Producers -> [Files -> Looks]]
      /\ PacketTypes
  BY TypesInParts, StagesStand DEF calls, DamageRaw, DamageLog, DamageManifest, DamageDecision,
     DamageSnapshot
<1>1. damages' \in 0..MaxDamages /\ begun' \in BOOLEAN
  <2>1. damages \in 0..MaxDamages /\ damages < MaxDamages /\ damages' = damages + 1
    BY <1>0 DEF DamageRaw, DamageLog, DamageManifest, DamageDecision, DamageSnapshot, PacketTypes
  <2>2. MaxDamages \in Nat
    BY ReleaseAssumption
  <2>3. begun' = begun
    BY DEF DamageRaw, DamageLog, DamageManifest, DamageDecision, DamageSnapshot
  <2>4. QED BY <1>0, <2>1, <2>2, <2>3 DEF PacketTypes
<1> SUFFICES PacketTypes'
  BY <1>0 DEF ReleaseTypeOK, PacketTypes
<1>2. CASE DamageRaw
  <2>1. \A s \in RequiredScenarios : Altered(s) \subseteq RawFiles
    BY DEF Altered, RawFiles
  <2>2. raw' \in [RequiredScenarios -> {None, Cut} \cup RawFiles]
    BY <1>0, <1>2, <2>1 DEF DamageRaw, PacketTypes
  <2>3. QED BY <1>0, <1>1, <1>2, <2>2 DEF DamageRaw, PacketTypes
<1>3. CASE DamageLog
  <2>1. log' \in Seq(Entries)
    BY <1>0, <1>3, RecordLost DEF DamageLog, PacketTypes
  <2>2. QED BY <1>0, <1>1, <1>3, <2>1 DEF DamageLog, PacketTypes
<1>4. CASE DamageManifest
  BY <1>0, <1>1, <1>4 DEF DamageManifest, PacketTypes
<1>5. CASE DamageDecision
  <2>1. decision \in Decisions
    BY <1>0, <1>5 DEF DamageDecision, PacketTypes, Written
  <2>2. Foreign(decision) \in Decisions
    BY <2>1 DEF Foreign, Decisions, RecordsBy
  <2>3. QED BY <1>0, <1>1, <1>5, <2>2 DEF DamageDecision, PacketTypes
<1>6. CASE DamageSnapshot
  BY <1>0, <1>1, <1>6 DEF DamageSnapshot, PacketTypes
<1>7. QED BY <1>2, <1>3, <1>4, <1>5, <1>6

LEMMA ReleaseTypesStep == ReleaseInv /\ [Next]_vars => ReleaseTypeOK'
<1> SUFFICES ASSUME ReleaseInv, [Next]_vars
             PROVE  ReleaseTypeOK'
  OBVIOUS
<1>1. ReleaseTypeOK
  BY DEF ReleaseInv
<1>2. CASE UNCHANGED vars
  BY <1>1, <1>2 DEF vars, calls, packet, ReleaseTypeOK, StagesOK
<1>3. QED BY <1>1, <1>2, CallTypes, DamageTypes DEF Next

-----------------------------------------------------------------------------
(***************************************************************************)
(* A call acts on nobody's place but its own, and never goes back behind   *)
(* the manifest.                                                           *)
(***************************************************************************)
LEMMA CallMoves ==
  ASSUME ReleaseInv, NEW p \in Producers, Call(p)
  PROVE  /\ p \notin ended /\ pc[p] # "released" /\ ended' \in {ended, ended \cup {p}}
         /\ \A q \in Producers \ {p} :
              pc'[q] = pc[q] /\ step'[q] = step[q] /\ seen'[q] = seen[q]
         /\ damages' = damages /\ (begun => begun')
         /\ Past(p) => Past(p)'
         /\ pc[p] = "idle" => Prepare(p)
         /\ pc[p] # "idle" => pc'[p] # "idle"
         /\ pc'[p] = "released" => p \notin ended'
<1> USE DEF Running, Goto, packet, Past, PastManifest, Packaging
<1>0. /\ pc \in [Producers -> Stages] /\ step \in [Producers -> Nat]
      /\ seen \in [Producers -> [Files -> Looks]]
  BY DEF ReleaseInv, ReleaseTypeOK, StagesOK
<1>1. CASE Prepare(p)
  BY <1>0, <1>1 DEF Prepare
<1>2. CASE Produce(p)
  BY <1>0, <1>2 DEF Produce
<1>3. CASE LookForCopy(p)
  BY <1>0, <1>3 DEF LookForCopy
<1>4. CASE OpenCopy(p)
  BY <1>0, <1>4 DEF OpenCopy
<1>5. CASE FillCopy(p)
  BY <1>0, <1>5 DEF FillCopy
<1>6. CASE MeasureCopy(p)
  BY <1>0, <1>6 DEF MeasureCopy
<1>7. CASE WriteManifest(p)
  BY <1>0, <1>7 DEF WriteManifest
<1>8. CASE RecordManifest(p)
  BY <1>0, <1>8 DEF RecordManifest
<1>9. CASE WriteRaw(p)
  BY <1>0, <1>9 DEF WriteRaw
<1>10. CASE RecordRaw(p)
  BY <1>0, <1>10 DEF RecordRaw
<1>11. CASE RecordRawFails(p)
  BY <1>0, <1>11 DEF RecordRawFails
<1>12. CASE CheckHead(p)
  BY <1>0, <1>12 DEF CheckHead
<1>13. CASE Decide(p)
  BY <1>0, <1>13 DEF Decide
<1>14. CASE WriteDecision(p)
  BY <1>0, <1>14 DEF WriteDecision
<1>15. CASE Fails(p)
  BY <1>0, <1>15 DEF Fails
<1>16. CASE FailsWriting(p)
  BY <1>0, <1>16 DEF FailsWriting, CutManifest, CutRaw, CutDecision
<1>17. QED
  BY <1>1, <1>2, <1>3, <1>4, <1>5, <1>6, <1>7, <1>8, <1>9, <1>10, <1>11, <1>12, <1>13, <1>14,
     <1>15, <1>16 DEF Call

\* Damage changes nothing but the packet, and only the packet of calls at rest.
Damage == DamageRaw \/ DamageLog \/ DamageManifest \/ DamageDecision \/ DamageSnapshot

LEMMA DamageMoves ==
  ASSUME ReleaseInv, Damage
  PROVE  UNCHANGED <<pc, ended, step, seen, begun>> /\ AtRest /\ damages' > 0 /\ begun
<1>1. UNCHANGED <<pc, ended, step, seen, begun>> /\ AtRest /\ damages' = damages + 1
  BY DEF Damage, DamageRaw, DamageLog, DamageManifest, DamageDecision, DamageSnapshot, Damaged,
         calls
<1>2. damages' > 0
  <2>1. damages \in 0..MaxDamages
    BY DEF ReleaseInv, ReleaseTypeOK
  <2>2. QED BY <1>1, <2>1
<1>3. begun
  <2>1. SUFFICES ASSUME ~begun PROVE FALSE
    OBVIOUS
  <2>2. /\ \A f \in Files : snapshot[f] = "absent"
        /\ manifest = None /\ decision = None /\ log = <<>>
        /\ \A s \in RequiredScenarios : raw[s] = None
    BY <2>1 DEF ReleaseInv, EmptyAtFirst
  <2>3. QED
    BY <2>2 DEF Damage, DamageRaw, DamageLog, DamageManifest, DamageDecision, DamageSnapshot,
                Written
<1>4. QED BY <1>1, <1>2, <1>3

-----------------------------------------------------------------------------
LEMMA RestStays ==
  ASSUME ReleaseInv, NEW p \in Producers, Call(p)
  PROVE  RestWhenDamaged'
<1> SUFFICES ASSUME damages' > 0
             PROVE  AtRest' /\ begun'
  BY DEF RestWhenDamaged
<1>1. /\ damages > 0 /\ p \notin ended
      /\ \A q \in Producers \ {p} : pc'[q] = pc[q]
      /\ ended' \in {ended, ended \cup {p}}
      /\ pc[p] # "released" /\ (pc[p] = "idle" => Prepare(p)) /\ (begun => begun')
  BY CallMoves
<1>2. AtRest /\ begun
  BY <1>1 DEF ReleaseInv, RestWhenDamaged
<1>3. Prepare(p)
  BY <1>1, <1>2 DEF AtRest
<1>4. p \in ended'
  BY <1>2, <1>3 DEF Prepare
<1>5. QED BY <1>1, <1>2, <1>4 DEF AtRest

LEMMA EmptyStays ==
  ASSUME ReleaseInv, NEW p \in Producers, Call(p)
  PROVE  EmptyAtFirst'
<1> SUFFICES ASSUME ~begun'
             PROVE  EmptyAtFirst'
  BY DEF EmptyAtFirst
<1> USE DEF Running, packet
<1>1. EmptyAtFirst /\ ~begun
  BY CallMoves DEF ReleaseInv
<1>2. pc[p] \in {"idle", "prepared", "rejected", "copying"}
      /\ pc \in [Producers -> Stages]
  BY <1>1 DEF EmptyAtFirst, ReleaseInv, ReleaseTypeOK, StagesOK
<1>3. CASE Prepare(p)
  BY <1>1, <1>2, <1>3 DEF Prepare, EmptyAtFirst, Goto
<1>4. CASE Produce(p)
  BY <1>1, <1>2, <1>4 DEF Produce, EmptyAtFirst, Goto
<1>5. CASE Fails(p)
  BY <1>1, <1>2, <1>5 DEF Fails, EmptyAtFirst
<1>6. ~LookForCopy(p)
  BY DEF LookForCopy
<1>7. ~OpenCopy(p) /\ ~FillCopy(p) /\ ~MeasureCopy(p) /\ ~WriteManifest(p) /\ ~RecordManifest(p)
  BY <1>2 DEF OpenCopy, FillCopy, MeasureCopy, WriteManifest, RecordManifest
<1>8. ~WriteRaw(p) /\ ~RecordRaw(p) /\ ~RecordRawFails(p) /\ ~CheckHead(p)
  BY <1>2 DEF WriteRaw, RecordRaw, RecordRawFails, CheckHead
<1>9. ~Decide(p) /\ ~WriteDecision(p) /\ ~FailsWriting(p)
  BY <1>2 DEF Decide, WriteDecision, FailsWriting, CutManifest, CutRaw, CutDecision
<1>10. QED BY <1>3, <1>4, <1>5, <1>6, <1>7, <1>8, <1>9 DEF Call

\* Only creating the manifest takes a call past it.
LEMMA OnlyManifestPasses ==
  ASSUME ReleaseInv, NEW p \in Producers, Call(p), ~Past(p), Past(p)'
  PROVE  WriteManifest(p) /\ MayCreateManifest
<1> USE DEF Past, PastManifest, Packaging
<1>0. pc \in [Producers -> Stages]
  BY DEF ReleaseInv, ReleaseTypeOK, StagesOK
<1>1. ~Prepare(p) /\ ~Produce(p)
  BY <1>0 DEF Prepare, Produce, Goto
<1>2. ~LookForCopy(p) /\ ~OpenCopy(p)
  BY <1>0 DEF LookForCopy, OpenCopy, Goto
<1>3. ~FillCopy(p) /\ ~MeasureCopy(p)
  BY <1>0 DEF FillCopy, MeasureCopy, Goto
<1>4. ~RecordManifest(p) /\ ~WriteRaw(p) /\ ~RecordRaw(p) /\ ~RecordRawFails(p) /\ ~CheckHead(p)
  BY DEF RecordManifest, WriteRaw, RecordRaw, RecordRawFails, CheckHead, Running
<1>5. ~Decide(p) /\ ~WriteDecision(p) /\ ~Fails(p) /\ ~FailsWriting(p)
  BY DEF Decide, WriteDecision, Fails, FailsWriting, Running
<1>6. WriteManifest(p)
  BY <1>1, <1>2, <1>3, <1>4, <1>5 DEF Call
<1>7. QED BY <1>6 DEF WriteManifest

\* Whoever may create the manifest is the first past it.
LEMMA NobodyPast ==
  ASSUME ReleaseInv, NEW p \in Producers, Running(p, "manifest"), MayCreateManifest
  PROVE  \A q \in Producers : ~Past(q)
<1>1. damages = 0
  BY AtWork DEF Running
<1>2. ASSUME NEW q \in Producers, Past(q)
      PROVE  FALSE
  <2>1. manifest = [by |-> q, files |-> seen[q]]
    BY <1>1, <1>2 DEF ReleaseInv, LogOfCall
  <2>2. seen[q] \in [Files -> Looks]
    BY DEF ReleaseInv, ReleaseTypeOK
  <2>3. manifest \in Manifests
    BY <2>1, <2>2 DEF Manifests
  <2>4. QED BY <2>3, MissingIsNothing DEF MayCreateManifest
<1>3. QED BY <1>2

LEMMA OneWriterStays ==
  ASSUME ReleaseInv, NEW p \in Producers, Call(p)
  PROVE  OneWriter'
<1>0. OneWriter
  BY DEF ReleaseInv
<1>1. \A q \in Producers : pc'[q] = "released" => q \notin ended'
  BY <1>0, CallMoves DEF OneWriter
<1>2. \A q \in Producers \ {p} : Past(q)' <=> Past(q)
  BY CallMoves DEF Past
<1>3. CASE Past(p) \/ ~Past(p)'
  <2>1. \A q \in Producers : Past(q)' => Past(q)
    BY <1>2, <1>3
  <2>2. QED BY <1>0, <1>1, <2>1 DEF OneWriter
<1>4. CASE ~Past(p) /\ Past(p)'
  <2>1. \A q \in Producers : ~Past(q)
    BY <1>4, OnlyManifestPasses, NobodyPast DEF WriteManifest
  <2>2. QED BY <1>1, <1>2, <2>1 DEF OneWriter
<1>5. QED BY <1>3, <1>4

-----------------------------------------------------------------------------
(***************************************************************************)
(* The log: who may append, and what is appended.                          *)
(***************************************************************************)
LEMMA Places == Last2 = 20 /\ Len(Scenarios) = 18
  BY ScenarioOrder DEF Last2

LEMMA LogIsOfPast ==
  ASSUME ReleaseInv, \A q \in Producers : ~Past(q)
  PROVE  log = <<>>
<1>1. log \in Seq(Entries)
  BY DEF ReleaseInv, ReleaseTypeOK
<1>2. \A i \in DOMAIN log : log[i] \in Entries /\ Past(log[i].by)
  BY <1>1 DEF ReleaseInv, LogInOrder
<1>3. DOMAIN log = {}
  BY <1>2 DEF Entries, RecordsBy
<1>4. QED BY <1>1, <1>3

LEMMA ManifestKept ==
  ASSUME ReleaseInv, NEW p \in Producers, Call(p), NEW q \in Producers, Past(q)
  PROVE  manifest' = manifest
<1> USE DEF packet
<1>1. ~(Running(p, "manifest") /\ MayCreateManifest)
  BY NobodyPast
<1>2. CASE WriteManifest(p)
  BY <1>1, <1>2 DEF WriteManifest
<1>3. CASE FailsWriting(p)
  BY <1>1, <1>3 DEF FailsWriting, CutManifest, Running
<1>4. CASE ~WriteManifest(p) /\ ~FailsWriting(p)
  BY <1>4 DEF Call, Prepare, Produce, LookForCopy, OpenCopy, FillCopy, MeasureCopy, RecordManifest,
       WriteRaw, RecordRaw, RecordRawFails, CheckHead, Decide, WriteDecision, Fails
<1>5. QED BY <1>2, <1>3, <1>4

LEMMA LogKept ==
  ASSUME NEW p \in Producers, Call(p)
  PROVE  log' = log \/ RecordManifest(p) \/ RecordRaw(p) \/ RecordRawFails(p) \/ Decide(p)
  BY DEF Call, Prepare, Produce, LookForCopy, OpenCopy, FillCopy, MeasureCopy, WriteManifest,
       WriteRaw, CheckHead, WriteDecision, Fails, FailsWriting, packet

\* What the call records is what belongs at its place of the log.
LEMMA Recorded ==
  ASSUME ReleaseInv, NEW p \in Producers, Call(p), log' # log
  PROVE  \E e \in Entries :
           /\ log' = Append(log, e) /\ AsWritten(e) /\ e.by = p /\ e.at = Len(log) + 1
           /\ e.at = 1 => e.digest = manifest
           /\ e.at = Last2 => e.digest = Conclusion
           /\ Past(p) /\ Len(log) = Appended(p)
<1> USE DEF Running, Past, PastManifest, Packaging
<1>1. ASSUME Past(p), p \notin ended, pc[p] # "released"
      PROVE  Len(log) = Appended(p)
  BY <1>1, AtWork
<1>2. CASE RecordManifest(p)
  <2> DEFINE e == Entry(p, "manifest", "manifest", manifest)
  <2>1. log' = Append(log, e) /\ Past(p) /\ p \notin ended /\ pc[p] = "manifest record"
    BY <1>2 DEF RecordManifest
  <2>2. Len(log) = Appended(p) /\ Appended(p) = 0
    BY <1>1, <2>1 DEF Appended
  <2>3. e.at = 1 /\ e.kind = "manifest" /\ e.by = p /\ e.digest = manifest
    BY <2>2 DEF Entry
  <2>4. e \in Entries
    <3>1. manifest \in Manifests
      BY <2>1, AtWork
    <3>2. QED BY <3>1, EntryTypes DEF ReleaseInv
  <2>5. AsWritten(e) /\ e.at = Len(log) + 1 /\ e.at # Last2
    BY <2>2, <2>3, Places DEF AsWritten
  <2>6. QED BY <2>1, <2>2, <2>3, <2>4, <2>5
<1>3. CASE RecordRaw(p) \/ RecordRawFails(p)
  <2> DEFINE e == Entry(p, "scenario", Scenario(p), raw[Scenario(p)])
  <2>1. log' = Append(log, e) /\ Past(p) /\ p \notin ended /\ pc[p] = "raw record"
    BY <1>3 DEF RecordRaw, RecordRawFails
  <2>2. Len(log) = Appended(p) /\ Appended(p) = step[p]
    BY <1>1, <2>1 DEF Appended
  <2>3. /\ step[p] \in 1..18 /\ Scenario(p) \in RequiredScenarios
        /\ raw[Scenario(p)] = AsProduced(Scenario(p))
    BY <2>1, AtPackaging
  <2>4. e.at = Len(log) + 1 /\ e.kind = "scenario" /\ e.by = p /\ e.digest = AsProduced(Scenario(p))
        /\ e.subject = Scenario(p)
    BY <2>3 DEF Entry
  <2>5. e \in Entries
    BY <2>3, RawAsProduced, EntryTypes DEF ReleaseInv
  <2>6. e.at \in 2..19 /\ e.at - 1 = step[p]
    <3>1. \A k \in 1..18 : k + 1 \in 2..19 /\ k + 1 - 1 = k
      OBVIOUS
    <3>2. e.at = step[p] + 1
      BY <2>2, <2>4
    <3>3. QED BY <2>3, <3>1, <3>2
  <2>7. AsWritten(e) /\ e.at # 1 /\ e.at # Last2
    <3>1. e.at # 1 /\ e.at # 20 /\ e.at \in 1..20
      BY <2>6
    <3>2. e.subject = Scenarios[e.at - 1] /\ e.digest = AsProduced(Scenarios[e.at - 1])
      BY <2>4, <2>6 DEF Scenario
    <3>3. QED BY <2>4, <3>1, <3>2, Places DEF AsWritten
  <2>8. QED BY <2>1, <2>2, <2>4, <2>5, <2>7
<1>4. CASE Decide(p)
  <2> DEFINE e == Entry(p, "decision", "decision", Conclusion)
  <2>1. log' = Append(log, e) /\ Past(p) /\ p \notin ended /\ pc[p] = "decide"
    BY <1>4 DEF Decide, Conclusion
  <2>2. Len(log) = Appended(p) /\ Appended(p) = Last2 - 1
    BY <1>1, <2>1 DEF Appended
  <2>3. e.at = 20 /\ e.kind = "decision" /\ e.by = p /\ e.digest = Conclusion
    BY <2>2, Places DEF Entry
  <2>4. e \in Entries
    <3>1. Conclusion \in Verdicts
      BY <2>1, AtWork, VerdictTypes
    <3>2. QED BY <3>1, EntryTypes DEF ReleaseInv
  <2>5. AsWritten(e) /\ e.at = Len(log) + 1
    BY <2>2, <2>3, Places DEF AsWritten
  <2>6. QED BY <2>1, <2>2, <2>3, <2>4, <2>5
<1>5. QED BY <1>2, <1>3, <1>4, LogKept

LEMMA Appending ==
  ASSUME NEW S, NEW s \in Seq(S), NEW e \in S
  PROVE  /\ Len(s) \in Nat /\ DOMAIN s = 1..Len(s) /\ DOMAIN Append(s, e) = 1..Len(s) + 1
         /\ Len(Append(s, e)) = Len(s) + 1
         /\ \A i \in DOMAIN s : Append(s, e)[i] = s[i]
         /\ Append(s, e)[Len(s) + 1] = e
  OBVIOUS

LEMMA LogInOrderStays ==
  ASSUME ReleaseInv, NEW p \in Producers, Call(p)
  PROVE  LogInOrder'
<1>0. LogInOrder /\ log \in Seq(Entries)
  BY DEF ReleaseInv, ReleaseTypeOK
<1>1. \A q \in Producers : Past(q) => Past(q)'
  BY CallMoves DEF Past
<1>2. \A i \in DOMAIN log : log[i].by \in Producers
  <2>1. \A i \in DOMAIN log : log[i] \in Entries
    BY <1>0
  <2>2. \A e \in Entries : e.by \in Producers
    BY DEF Entries, RecordsBy
  <2>3. QED BY <2>1, <2>2
<1>3. CASE log' = log
  BY <1>0, <1>1, <1>2, <1>3 DEF LogInOrder, AsWritten
<1>4. CASE log' # log
  <2>1. PICK e \in Entries :
          /\ log' = Append(log, e) /\ AsWritten(e) /\ e.by = p /\ e.at = Len(log) + 1
          /\ Past(p)
    BY <1>4, Recorded
  <2>2. p \notin ended /\ pc[p] # "released" /\ pc[p] # "idle"
    BY <2>1, CallMoves DEF Past, PastManifest, Packaging
  <2>3. damages = 0
    BY <2>2, AtWork
  <2>4. \A i \in DOMAIN log : log[i].at = i
    BY <2>3 DEF ReleaseInv, LogOfCall
  <2>5. /\ Len(log) \in Nat /\ DOMAIN log = 1..Len(log) /\ DOMAIN log' = 1..Len(log) + 1
        /\ \A i \in DOMAIN log : log'[i] = log[i]
        /\ log'[Len(log) + 1] = e
    BY <1>0, <2>1, Appending
  <2>6. \A i \in DOMAIN log' : log'[i].at = i
    BY <2>1, <2>4, <2>5
  <2>7. ASSUME NEW i \in DOMAIN log'
        PROVE  AsWritten(log'[i]) /\ pc'[log'[i].by] \in PastManifest
    <3>1. CASE i \in DOMAIN log
      <4>1. AsWritten(log[i]) /\ Past(log[i].by) /\ log[i].by \in Producers /\ log'[i] = log[i]
        BY <1>0, <1>2, <2>5, <3>1 DEF LogInOrder
      <4>2. QED BY <1>1, <4>1 DEF Past
    <3>2. CASE i = Len(log) + 1
      <4>1. log'[i] = e
        BY <2>5, <3>2
      <4>2. QED BY <1>1, <2>1, <4>1 DEF Past
    <3>3. QED BY <2>5, <3>1, <3>2
  <2>8. \A i, j \in DOMAIN log' : i < j => log'[i].at < log'[j].at
    BY <2>6
  <2>9. QED BY <2>7, <2>8 DEF LogInOrder, Past
<1>5. QED BY <1>3, <1>4

\* How far the call itself has come after its step.
LEMMA AppendedNow ==
  ASSUME ReleaseInv, NEW p \in Producers, Call(p), Past(p)', p \notin ended'
  PROVE  Len(log') = Appended(p)'
<1> USE DEF Running, Goto, packet
<1>0. pc \in [Producers -> Stages] /\ step \in [Producers -> Nat] /\ log \in Seq(Entries)
  BY DEF ReleaseInv, ReleaseTypeOK, StagesOK
<1>1. p \notin ended /\ pc[p] # "released"
  BY CallMoves
<1>2. CASE ~Past(p)
  <2>1. WriteManifest(p) /\ MayCreateManifest
    BY <1>2, OnlyManifestPasses
  <2>2. log = <<>>
    BY <2>1, NobodyPast, LogIsOfPast DEF WriteManifest
  <2>3. log' = log /\ pc'[p] = "manifest record"
    BY <1>0, <2>1 DEF WriteManifest
  <2>4. QED BY <2>2, <2>3 DEF Appended
<1>3. CASE Past(p)
  <2>1. Len(log) = Appended(p)
    BY <1>1, <1>3, AtWork DEF Past, PastManifest, Packaging
  <2>2. \A e : Len(Append(log, e)) = Len(log) + 1
    BY <1>0
  <2>3. Len(log) \in Nat /\ step[p] \in Nat
    BY <1>0
  <2>4. CASE RecordManifest(p)
    <3>1. Len(log') = Len(log) + 1 /\ pc[p] = "manifest record" /\ pc'[p] = "raw" /\ step' = step
      BY <1>0, <2>2, <2>4 DEF RecordManifest
    <3>2. step[p] = 1
      BY <3>1 DEF ReleaseInv, ReleaseTypeOK, StagesOK
    <3>3. Appended(p) = 0 /\ Appended(p)' = step'[p]
      BY <3>1 DEF Appended, Packaging
    <3>4. Len(log') = 1 /\ step'[p] = 1
      <4>1. Len(log) = 0
        BY <2>1, <3>3
      <4>2. step'[p] = 1
        BY <3>1, <3>2
      <4>3. Len(log') = Len(log) + 1
        BY <3>1
      <4>4. Len(log') = 1
        BY <4>1, <4>3
      <4>5. QED BY <4>2, <4>4
    <3>5. QED BY <3>3, <3>4
  <2>5. CASE WriteRaw(p)
    <3>1. log' = log /\ pc[p] = "raw" /\ pc'[p] = "raw record" /\ step' = step
      BY <1>0, <2>5 DEF WriteRaw
    <3>2. Appended(p) = step[p] /\ Appended(p)' = step'[p]
      BY <3>1 DEF Appended, Packaging
    <3>3. QED BY <2>1, <3>1, <3>2
  <2>6. CASE RecordRaw(p)
    <3>1. Len(log') = Len(log) + 1 /\ pc[p] = "raw record" /\ pc'[p] = "head" /\ step' = step
      BY <1>0, <2>2, <2>6 DEF RecordRaw
    <3>2. Appended(p) = step[p] /\ Appended(p)' = step'[p] + 1
      BY <3>1 DEF Appended, Packaging
    <3>3. QED BY <2>1, <3>1, <3>2
  <2>7. CASE CheckHead(p)
    <3>1. log' = log /\ pc[p] = "head" /\ Appended(p) = step[p] + 1
      BY <2>7 DEF CheckHead, Appended
    <3>2. CASE step[p] = Len(Scenarios) /\ pc'[p] = "decide"
      BY <2>1, <3>1, <3>2, Places DEF Appended, Packaging
    <3>3. CASE pc'[p] = "raw" /\ step'[p] = step[p] + 1
      BY <2>1, <3>1, <3>3 DEF Appended, Packaging
    <3>4. QED BY <1>0, <1>1, <2>7, <3>2, <3>3 DEF CheckHead
  <2>8. CASE Decide(p)
    <3>1. Len(log') = Len(log) + 1 /\ pc[p] = "decide" /\ pc'[p] = "decision"
      BY <1>0, <2>2, <2>8 DEF Decide
    <3>2. Appended(p) = Last2 - 1 /\ Appended(p)' = Last2
      BY <3>1 DEF Appended, Packaging
    <3>3. QED BY <2>1, <3>1, <3>2, Places
  <2>9. CASE WriteDecision(p)
    <3>1. log' = log /\ pc[p] = "decision" /\ pc'[p] = "released"
      BY <1>0, <2>9 DEF WriteDecision
    <3>2. Appended(p) = Last2 /\ Appended(p)' = Last2
      BY <3>1 DEF Appended, Packaging
    <3>3. QED BY <2>1, <3>1, <3>2
  <2>10. ~Prepare(p) /\ ~Produce(p) /\ ~LookForCopy(p) /\ ~OpenCopy(p) /\ ~FillCopy(p)
         /\ ~MeasureCopy(p) /\ ~WriteManifest(p)
    BY <1>3 DEF Past, PastManifest, Packaging, Prepare, Produce, LookForCopy, OpenCopy, FillCopy,
                MeasureCopy, WriteManifest
  <2>11. ~RecordRawFails(p) /\ ~Fails(p) /\ ~FailsWriting(p)
    BY <1>1 DEF RecordRawFails, Fails, FailsWriting
  <2>12. QED
    BY <2>4, <2>5, <2>6, <2>7, <2>8, <2>9, <2>10, <2>11 DEF Call
<1>4. QED BY <1>2, <1>3

LEMMA LogOfCallStays ==
  ASSUME ReleaseInv, NEW p \in Producers, Call(p)
  PROVE  LogOfCall'
<1> SUFFICES ASSUME damages' = 0
             PROVE  LogOfCall'
  BY DEF LogOfCall
<1>0. LogOfCall /\ log \in Seq(Entries) /\ damages = 0
      /\ pc \in [Producers -> Stages] /\ step \in [Producers -> Nat]
  BY CallMoves DEF ReleaseInv, ReleaseTypeOK, StagesOK
<1>1. log # <<>> => manifest' = manifest
  <2>1. log # <<>> => \E q \in Producers : Past(q)
    BY LogIsOfPast
  <2>2. QED BY <2>1, ManifestKept
<1>2. /\ \A i \in DOMAIN log' : log'[i].at = i
      /\ \A i \in DOMAIN log' : log'[i].at = 1 => log'[i].digest = manifest'
      /\ \A i \in DOMAIN log' : log'[i].at = Last2 => log'[i].digest = Conclusion'
  <2>1. CASE log' = log /\ log = <<>>
    BY <2>1
  <2>2. CASE log' = log /\ log # <<>>
    <3>1. manifest' = manifest /\ Conclusion' = Conclusion
      BY <1>1, <2>2 DEF Conclusion, Verdict
    <3>2. QED BY <1>0, <2>2, <3>1 DEF LogOfCall
  <2>3. CASE log' # log
    <3>1. PICK e \in Entries :
            /\ log' = Append(log, e) /\ e.at = Len(log) + 1
            /\ e.at = 1 => e.digest = manifest
            /\ e.at = Last2 => e.digest = Conclusion
            /\ Past(p)
      BY <2>3, Recorded
    <3>2. manifest' = manifest /\ Conclusion' = Conclusion
      BY <3>1, ManifestKept DEF Conclusion, Verdict
    <3>3. /\ Len(log) \in Nat /\ DOMAIN log = 1..Len(log) /\ DOMAIN log' = 1..Len(log) + 1
          /\ \A i \in DOMAIN log : log'[i] = log[i]
          /\ log'[Len(log) + 1] = e
      BY <1>0, <3>1, Appending
    <3>4. ASSUME NEW i \in DOMAIN log'
          PROVE  /\ log'[i].at = i
                 /\ log'[i].at = 1 => log'[i].digest = manifest'
                 /\ log'[i].at = Last2 => log'[i].digest = Conclusion'
      <4>1. CASE i \in DOMAIN log
        BY <1>0, <3>2, <3>3, <4>1 DEF LogOfCall
      <4>2. CASE i = Len(log) + 1
        BY <3>1, <3>2, <3>3, <4>2
      <4>3. QED BY <3>3, <4>1, <4>2
    <3>5. QED BY <3>4
  <2>4. QED BY <2>1, <2>2, <2>3
<1>3. ASSUME NEW q \in Producers, Past(q)'
      PROVE  manifest' = [by |-> q, files |-> seen'[q]]
  <2>1. CASE Past(q)
    <3>1. manifest' = manifest /\ manifest = [by |-> q, files |-> seen[q]]
      BY <1>0, <2>1, ManifestKept DEF LogOfCall
    <3>2. seen'[q] = seen[q]
      <4>1. CASE q # p
        BY <4>1, CallMoves
      <4>2. CASE q = p
        <5>1. ~MeasureCopy(p)
          BY <2>1, <4>2 DEF MeasureCopy, Running, Past, PastManifest, Packaging
        <5>2. seen' = seen
          BY <5>1 DEF Call, Prepare, Produce, LookForCopy, OpenCopy, FillCopy, WriteManifest,
             RecordManifest, WriteRaw, RecordRaw, RecordRawFails, CheckHead, Decide, WriteDecision,
             Fails, FailsWriting
        <5>3. QED BY <4>2, <5>2
      <4>3. QED BY <4>1, <4>2
    <3>3. QED BY <3>1, <3>2
  <2>2. CASE ~Past(q)
    <3>1. q = p
      BY <1>3, <2>2, CallMoves DEF Past
    <3>2. WriteManifest(p) /\ MayCreateManifest
      BY <1>3, <2>2, <3>1, OnlyManifestPasses
    <3>3. QED BY <3>1, <3>2 DEF WriteManifest
  <2>3. QED BY <2>1, <2>2
<1>4. ASSUME NEW q \in Producers, Past(q)', q \notin ended'
      PROVE  Len(log') = Appended(q)'
  <2>1. CASE q = p
    BY <1>4, <2>1, AppendedNow
  <2>2. CASE q # p
    <3>1. pc'[q] = pc[q] /\ step'[q] = step[q] /\ Past(q) /\ q \notin ended
      BY <1>4, <2>2, CallMoves DEF Past
    <3>2. Len(log) = Appended(q)
      BY <1>0, <3>1 DEF LogOfCall
    <3>3. ~Past(p)
      BY <2>2, <3>1 DEF ReleaseInv, OneWriter
    <3>4. log' = log
      BY <3>3, Recorded
    <3>5. Appended(q)' = Appended(q)
      BY <3>1 DEF Appended
    <3>6. QED BY <3>2, <3>4, <3>5
  <2>3. QED BY <2>1, <2>2
<1>5. QED BY <1>2, <1>3, <1>4 DEF LogOfCall

-----------------------------------------------------------------------------
(***************************************************************************)
(* The raw files and the decision.                                         *)
(***************************************************************************)
LEMMA PackageKept ==
  ASSUME NEW p \in Producers, Call(p)
  PROVE  /\ raw' = raw \/ WriteRaw(p) \/ RecordRawFails(p) \/ FailsWriting(p)
         /\ decision' = decision \/ WriteDecision(p) \/ FailsWriting(p)
<1>1. raw' = raw \/ WriteRaw(p) \/ RecordRawFails(p) \/ FailsWriting(p)
  BY DEF Call, Prepare, Produce, LookForCopy, OpenCopy, FillCopy, MeasureCopy, WriteManifest,
       RecordManifest, RecordRaw, CheckHead, Decide, WriteDecision, Fails, packet
<1>2. decision' = decision \/ WriteDecision(p) \/ FailsWriting(p)
  BY DEF Call, Prepare, Produce, LookForCopy, OpenCopy, FillCopy, MeasureCopy, WriteManifest,
       RecordManifest, WriteRaw, RecordRaw, RecordRawFails, CheckHead, Decide, Fails, packet
<1>3. QED BY <1>1, <1>2

LEMMA OnlyThePastPackage ==
  ASSUME NEW p \in Producers, Call(p), ~Past(p)
  PROVE  raw' = raw /\ decision' = decision
<1> USE DEF Past, PastManifest, Packaging, Running
<1>1. ~WriteRaw(p) /\ ~RecordRawFails(p) /\ ~WriteDecision(p)
  BY DEF WriteRaw, RecordRawFails, WriteDecision
<1>2. FailsWriting(p) => raw' = raw /\ decision' = decision
  BY DEF FailsWriting, CutRaw, CutDecision
<1>3. QED BY <1>1, <1>2, PackageKept

LEMMA RawKinds ==
  ASSUME ReleaseInv, NEW p \in Producers, Call(p), damages = 0
  PROVE  \A s \in RequiredScenarios : raw'[s] \in {None, Cut, AsProduced(s)}
<1>0. /\ raw \in [RequiredScenarios -> {None, Cut} \cup RawFiles]
      /\ \A s \in RequiredScenarios : raw[s] \in {None, Cut, AsProduced(s)}
  BY DEF ReleaseInv, ReleaseTypeOK, RawOfCall
<1>1. CASE WriteRaw(p)
  BY <1>0, <1>1 DEF WriteRaw
<1>2. CASE RecordRawFails(p)
  BY <1>0, <1>2 DEF RecordRawFails
<1>3. CASE FailsWriting(p)
  BY <1>0, <1>3 DEF FailsWriting
<1>4. CASE raw' = raw
  BY <1>0, <1>4
<1>5. QED BY <1>1, <1>2, <1>3, <1>4, PackageKept

LEMMA PackedNow ==
  ASSUME ReleaseInv, NEW p \in Producers, Call(p), Past(p)', p \notin ended', damages = 0
  PROVE  \A i \in 1..Packed(p)' : raw'[Scenarios[i]] = AsProduced(Scenarios[i])
<1> USE DEF Running, Goto, packet
<1>0. /\ pc \in [Producers -> Stages] /\ step \in [Producers -> Nat]
      /\ raw \in [RequiredScenarios -> {None, Cut} \cup RawFiles]
  BY DEF ReleaseInv, ReleaseTypeOK, StagesOK
<1>1. p \notin ended /\ pc[p] # "released"
  BY CallMoves
<1>2. Past(p) => \A i \in 1..Packed(p) : raw[Scenarios[i]] = AsProduced(Scenarios[i])
  BY <1>1 DEF ReleaseInv, RawOfCall
<1>3. CASE ~Past(p)
  <2>1. WriteManifest(p) /\ MayCreateManifest
    BY <1>3, OnlyManifestPasses
  <2>2. pc'[p] = "manifest record"
    BY <1>0, <2>1 DEF WriteManifest
  <2>3. Packed(p)' = 0
    BY <2>2 DEF Packed
  <2>4. QED BY <2>3
<1>4. CASE Past(p)
  <2>1. CASE RecordManifest(p)
    <3>1. pc[p] = "manifest record" /\ pc'[p] = "raw" /\ step' = step
      BY <1>0, <2>1 DEF RecordManifest
    <3>2. step[p] = 1
      BY <3>1 DEF ReleaseInv, ReleaseTypeOK, StagesOK
    <3>3. Packed(p)' = step'[p] - 1
      BY <3>1 DEF Packed
    <3>4. step'[p] - 1 = 0
      <4>1. step'[p] = 1
        BY <3>1, <3>2
      <4>2. QED BY <4>1
    <3>5. QED BY <3>3, <3>4
  <2>2. CASE WriteRaw(p)
    <3>1. /\ pc[p] = "raw" /\ pc'[p] = "raw record" /\ step' = step
          /\ raw' = [raw EXCEPT ![Scenario(p)] = AsProduced(Scenario(p))]
      BY <1>0, <1>1, <2>2 DEF WriteRaw
    <3>2. step[p] \in 1..18
      BY <1>1, <3>1, AtPackaging DEF Packaging
    <3>3. Packed(p) = step[p] - 1 /\ Packed(p)' = step'[p]
      BY <3>1 DEF Packed, Packaging
    <3>4. Packed(p)' = step[p]
      BY <3>1, <3>3
    <3>5. ASSUME NEW i \in 1..step[p]
          PROVE  raw'[Scenarios[i]] = AsProduced(Scenarios[i])
      <4>1. Scenarios[i] \in RequiredScenarios
        BY <3>2, ScenarioOrder
      <4>2. CASE Scenarios[i] = Scenario(p)
        BY <1>0, <3>1, <4>1, <4>2
      <4>3. CASE Scenarios[i] # Scenario(p)
        <5>1. i # step[p]
          BY <4>3 DEF Scenario
        <5>2. i \in 1..step[p] - 1
          BY <3>2, <5>1
        <5>3. raw[Scenarios[i]] = AsProduced(Scenarios[i])
          BY <1>2, <1>4, <3>3, <5>2
        <5>4. QED BY <1>0, <3>1, <4>1, <4>3, <5>3
      <4>4. QED BY <4>2, <4>3
    <3>6. QED BY <3>4, <3>5
  <2>3. CASE RecordRaw(p)
    <3>1. pc[p] = "raw record" /\ pc'[p] = "head" /\ step' = step /\ raw' = raw
      BY <1>0, <2>3 DEF RecordRaw
    <3>2. Packed(p) = step[p] /\ Packed(p)' = step'[p]
      BY <3>1 DEF Packed, Packaging
    <3>3. QED BY <1>2, <1>4, <3>1, <3>2
  <2>4. CASE CheckHead(p)
    <3>1. raw' = raw /\ pc[p] = "head" /\ Packed(p) = step[p] /\ step[p] \in Nat
      BY <1>0, <2>4 DEF CheckHead, Packed, Packaging
    <3>2. CASE step[p] = Len(Scenarios) /\ pc'[p] = "decide"
      <4>1. Packed(p)' = Len(Scenarios)
        BY <3>2 DEF Packed, Packaging
      <4>2. QED BY <1>2, <1>4, <3>1, <3>2, <4>1
    <3>3. CASE pc'[p] = "raw" /\ step'[p] = step[p] + 1
      <4>1. Packed(p)' = step'[p] - 1
        BY <3>3 DEF Packed, Packaging
      <4>2. step'[p] - 1 = step[p]
        BY <3>1, <3>3
      <4>3. QED BY <1>2, <1>4, <3>1, <4>1, <4>2
    <3>4. QED BY <1>0, <1>1, <2>4, <3>2, <3>3 DEF CheckHead
  <2>5. CASE Decide(p) \/ WriteDecision(p)
    <3>1. raw' = raw /\ pc[p] \in {"decide", "decision"} /\ pc'[p] \in {"decision", "released"}
      <4>1. CASE Decide(p)
        BY <1>0, <4>1 DEF Decide
      <4>2. CASE WriteDecision(p)
        BY <1>0, <1>1, <4>2 DEF WriteDecision
      <4>3. QED BY <2>5, <4>1, <4>2
    <3>2. Packed(p) = Len(Scenarios) /\ Packed(p)' = Len(Scenarios)
      BY <3>1 DEF Packed, Packaging
    <3>3. QED BY <1>2, <1>4, <3>1, <3>2
  <2>6. ~Prepare(p) /\ ~Produce(p) /\ ~LookForCopy(p) /\ ~OpenCopy(p) /\ ~FillCopy(p)
         /\ ~MeasureCopy(p) /\ ~WriteManifest(p)
    BY <1>4 DEF Past, PastManifest, Packaging, Prepare, Produce, LookForCopy, OpenCopy, FillCopy,
                MeasureCopy, WriteManifest
  <2>7. ~RecordRawFails(p) /\ ~Fails(p) /\ ~FailsWriting(p)
    BY <1>1 DEF RecordRawFails, Fails, FailsWriting
  <2>8. QED BY <2>1, <2>2, <2>3, <2>4, <2>5, <2>6, <2>7 DEF Call
<1>5. QED BY <1>3, <1>4

LEMMA RawOfCallStays ==
  ASSUME ReleaseInv, NEW p \in Producers, Call(p)
  PROVE  RawOfCall'
<1> SUFFICES ASSUME damages' = 0
             PROVE  RawOfCall'
  BY DEF RawOfCall
<1>0. damages = 0
  BY CallMoves
<1>1. ASSUME NEW q \in Producers, Past(q)', q \notin ended'
      PROVE  \A i \in 1..Packed(q)' : raw'[Scenarios[i]] = AsProduced(Scenarios[i])
  <2>1. CASE q = p
    BY <1>0, <1>1, <2>1, PackedNow
  <2>2. CASE q # p
    <3>1. pc'[q] = pc[q] /\ step'[q] = step[q] /\ Past(q) /\ q \notin ended
      BY <1>1, <2>2, CallMoves DEF Past
    <3>2. ~Past(p)
      BY <2>2, <3>1 DEF ReleaseInv, OneWriter
    <3>3. raw' = raw /\ Packed(q)' = Packed(q)
      BY <3>1, <3>2, OnlyThePastPackage DEF Packed
    <3>4. QED BY <1>0, <3>1, <3>3 DEF ReleaseInv, RawOfCall
  <2>3. QED BY <2>1, <2>2
<1>2. QED BY <1>0, <1>1, RawKinds DEF RawOfCall

LEMMA DecisionOfCallStays ==
  ASSUME ReleaseInv, NEW p \in Producers, Call(p)
  PROVE  DecisionOfCall'
<1> SUFFICES ASSUME damages' = 0, NEW q \in Producers, pc'[q] = "released"
             PROVE  decision' = [verdict |-> Conclusion', count |-> Last2,
                                 head |-> log'[Last2], recorded |-> log'[Last2]]
  BY DEF DecisionOfCall
<1> USE DEF Running, Goto, Past, PastManifest, Packaging
<1>0. damages = 0 /\ pc \in [Producers -> Stages]
  BY CallMoves DEF ReleaseInv, ReleaseTypeOK, StagesOK
<1>1. CASE pc[q] = "released"
  <2>1. q # p /\ Past(q)
    BY <1>1, CallMoves
  <2>2. ~Past(p)
    BY <2>1 DEF ReleaseInv, OneWriter
  <2>3. decision' = decision /\ log' = log /\ manifest' = manifest
    BY <2>1, <2>2, OnlyThePastPackage, Recorded, ManifestKept
  <2>4. Conclusion' = Conclusion
    BY <2>3 DEF Conclusion, Verdict
  <2>5. QED BY <1>0, <1>1, <2>3, <2>4 DEF ReleaseInv, DecisionOfCall
<1>2. CASE pc[q] # "released"
  <2>1. q = p /\ p \notin ended /\ p \notin ended'
    BY <1>2, CallMoves
  <2>2. WriteDecision(p)
    <3>1. ~Prepare(p) /\ ~Produce(p) /\ ~LookForCopy(p) /\ ~OpenCopy(p) /\ ~FillCopy(p)
      BY <1>0, <2>1 DEF Prepare, Produce, LookForCopy, OpenCopy, FillCopy
    <3>2. ~MeasureCopy(p) /\ ~WriteManifest(p) /\ ~RecordManifest(p) /\ ~WriteRaw(p)
      BY <1>0, <2>1 DEF MeasureCopy, WriteManifest, RecordManifest, WriteRaw
    <3>3. ~RecordRaw(p) /\ ~RecordRawFails(p) /\ ~CheckHead(p) /\ ~Decide(p)
      BY <1>0, <2>1 DEF RecordRaw, RecordRawFails, CheckHead, Decide
    <3>4. ~Fails(p) /\ ~FailsWriting(p)
      BY <2>1 DEF Fails, FailsWriting
    <3>5. QED BY <3>1, <3>2, <3>3, <3>4 DEF Call
  <2>3. /\ decision' = [verdict |-> Conclusion, count |-> Len(log), head |-> Last(log),
                        recorded |-> Last(log)]
        /\ pc[p] = "decision" /\ UNCHANGED <<log, manifest>>
    BY <1>0, <2>1, <2>2 DEF WriteDecision, Conclusion
  <2>4. Len(log) = Last2 /\ Conclusion' = Conclusion
    BY <2>1, <2>3, AtWork DEF Appended, Conclusion, Verdict
  <2>5. QED BY <2>3, <2>4 DEF Last
<1>3. QED BY <1>1, <1>2

-----------------------------------------------------------------------------
(***************************************************************************)
(* The copies of a call nobody came between.                               *)
(***************************************************************************)
LEMMA AloneBefore ==
  ASSUME ReleaseInv, NEW p \in Producers, Call(p), ~Contended'
  PROVE  /\ ~Contended
         /\ \A q \in Producers \ {p} : pc[q] # "idle" => Prepare(p) /\ UNCHANGED packet
<1>1. /\ \A q \in Producers \ {p} : pc'[q] = pc[q]
      /\ pc[p] # "idle" => pc'[p] # "idle"
      /\ pc[p] = "idle" => Prepare(p)
  BY CallMoves
<1>2. ~Contended
  BY <1>1 DEF Contended
<1>3. ASSUME NEW q \in Producers \ {p}, pc[q] # "idle"
      PROVE  Prepare(p) /\ UNCHANGED packet
  <2>1. pc'[p] = "idle"
    BY <1>1, <1>3 DEF Contended
  <2>2. QED BY <1>1, <2>1 DEF Prepare
<1>4. QED BY <1>2, <1>3

LEMMA CopiesNow ==
  ASSUME ReleaseInv, NEW p \in Producers, Call(p), p \notin ended', CopiesOfCall(p)
  PROVE  CopiesOfCall(p)'
<1> USE DEF Running, Goto, Past, PastManifest, Packaging, Copying
<1>0. /\ pc \in [Producers -> Stages] /\ step \in [Producers -> Nat]
      /\ seen \in [Producers -> [Files -> Looks]]
      /\ snapshot \in [Files -> {"absent", "whole", "damaged"} \cup Producers]
      /\ p \notin ended
  BY CallMoves DEF ReleaseInv, ReleaseTypeOK, StagesOK
<1>1. pc[p] \in Copying => step[p] \in DOMAIN FileOrder /\ File(p) \in Files
  BY <1>0, FilesInOrder DEF ReleaseInv, ReleaseTypeOK, StagesOK, File
<1>2. ASSUME pc[p] \in Copying, NEW i \in 1..step[p] - 1
      PROVE  i \in DOMAIN FileOrder /\ FileOrder[i] \in Files /\ FileOrder[i] # File(p)
  <2>1. step[p] \in 1..Len(FileOrder) /\ Len(FileOrder) \in Nat
    BY <1>1, <1>2, FilesInOrder
  <2>2. i \in 1..Len(FileOrder) /\ i # step[p]
    BY <2>1
  <2>3. i \in DOMAIN FileOrder
    BY <2>2, FilesInOrder
  <2>4. QED BY <1>1, <1>2, <2>2, <2>3, FilesInOrder DEF File
<1>3. CASE Prepare(p)
  <2>1. pc'[p] = "prepared"
    BY <1>0, <1>3 DEF Prepare
  <2>2. QED BY <2>1 DEF CopiesOfCall
<1>4. CASE Produce(p)
  <2>1. pc'[p] = "copying" /\ step'[p] = step[p] /\ pc[p] = "prepared"
    BY <1>0, <1>4 DEF Produce
  <2>2. step[p] = 1
    BY <2>1 DEF ReleaseInv, ReleaseTypeOK, StagesOK
  <2>3. 1..step'[p] - 1 = {}
    <3>1. step'[p] = 1
      BY <2>1, <2>2
    <3>2. QED BY <3>1
  <2>4. QED BY <2>1, <2>3 DEF CopiesOfCall
<1>5. CASE LookForCopy(p)
  <2>1. pc[p] = "copying" /\ pc'[p] = "opening" /\ UNCHANGED <<step, seen, snapshot>>
    BY <1>0, <1>5 DEF LookForCopy
  <2>2. QED BY <2>1 DEF CopiesOfCall, Copied
<1>6. CASE OpenCopy(p)
  <2>1. /\ pc[p] = "opening" /\ pc'[p] = "filling" /\ UNCHANGED <<step, seen>>
        /\ snapshot' = [snapshot EXCEPT ![File(p)] = p]
    BY <1>0, <1>6 DEF OpenCopy
  <2>2. snapshot'[File(p)] = p /\ File(p)' = File(p)
    BY <1>0, <1>1, <2>1 DEF File
  <2>3. \A i \in 1..step[p] - 1 : Copied(p, i)'
    BY <1>0, <1>2, <2>1 DEF CopiesOfCall, Copied
  <2>4. QED BY <2>1, <2>2, <2>3 DEF CopiesOfCall
<1>7. CASE FillCopy(p)
  <2>1. pc[p] = "filling" /\ pc'[p] = "measuring" /\ UNCHANGED <<step, seen>>
    BY <1>0, <1>7 DEF FillCopy
  <2>2. snapshot[File(p)] = p
    BY <2>1 DEF CopiesOfCall
  <2>3. snapshot' = [snapshot EXCEPT ![File(p)] = "whole"]
    BY <1>7, <2>2 DEF FillCopy
  <2>4. snapshot'[File(p)] = "whole" /\ File(p)' = File(p)
    BY <1>0, <1>1, <2>1, <2>3 DEF File
  <2>5. \A i \in 1..step[p] - 1 : Copied(p, i)'
    BY <1>0, <1>2, <2>1, <2>3 DEF CopiesOfCall, Copied
  <2>6. QED BY <2>1, <2>4, <2>5 DEF CopiesOfCall
<1>8. CASE MeasureCopy(p)
  <2>1. /\ pc[p] = "measuring" /\ snapshot' = snapshot
        /\ seen' = [seen EXCEPT ![p][File(p)] = Look(File(p))]
    BY <1>8 DEF MeasureCopy, packet
  <2>2. snapshot[File(p)] = "whole" /\ Look(File(p)) = "whole"
    BY <2>1 DEF CopiesOfCall, Look
  <2>3. /\ seen'[p][File(p)] = "whole"
        /\ \A f \in Files \ {File(p)} : seen'[p][f] = seen[p][f]
    BY <1>0, <1>1, <2>1, <2>2
  <2>4. \A i \in 1..step[p] - 1 : Copied(p, i)'
    BY <1>2, <2>1, <2>3 DEF CopiesOfCall, Copied
  <2>5. snapshot'[FileOrder[step[p]]] = "whole" /\ seen'[p][FileOrder[step[p]]] = "whole"
    BY <2>1, <2>2, <2>3 DEF File
  <2>6. step[p] \in 1..Len(FileOrder) /\ Len(FileOrder) \in Nat
    BY <1>1, <2>1, FilesInOrder
  <2>7. \A i \in 1..step[p] : Copied(p, i)'
    <3> TAKE i \in 1..step[p]
    <3>1. CASE i = step[p]
      BY <2>5, <3>1 DEF Copied
    <3>2. CASE i # step[p]
      <4>1. i \in 1..step[p] - 1
        BY <2>6, <3>2
      <4>2. QED BY <2>4, <4>1
    <3>3. QED BY <3>1, <3>2
  <2>8. CASE step[p] = Len(FileOrder)
    <3>1. pc'[p] = "manifest"
      BY <1>0, <1>8, <2>8 DEF MeasureCopy
    <3>2. \A i \in DOMAIN FileOrder : Copied(p, i)'
      BY <2>7, <2>8, FilesInOrder
    <3>3. QED BY <3>1, <3>2 DEF CopiesOfCall
  <2>9. CASE step[p] # Len(FileOrder)
    <3>1. pc'[p] = "copying" /\ step'[p] = step[p] + 1
      BY <1>0, <1>8, <2>9 DEF MeasureCopy
    <3>2. step'[p] - 1 = step[p]
      BY <2>6, <3>1
    <3>3. QED BY <2>7, <3>1, <3>2 DEF CopiesOfCall
  <2>10. QED BY <2>8, <2>9
<1>9. CASE pc[p] = "manifest" \/ Past(p)
  <2>1. \A i \in DOMAIN FileOrder : Copied(p, i)
    BY <1>9 DEF CopiesOfCall
  <2>2. snapshot' = snapshot /\ seen' = seen
    <3>1. ~LookForCopy(p) /\ ~OpenCopy(p) /\ ~FillCopy(p) /\ ~MeasureCopy(p)
      BY <1>9 DEF LookForCopy, OpenCopy, FillCopy, MeasureCopy
    <3>2. QED
      BY <3>1 DEF Call, Prepare, Produce, WriteManifest, RecordManifest, WriteRaw, RecordRaw,
         RecordRawFails, CheckHead, Decide, WriteDecision, Fails, FailsWriting, packet
  <2>3. \A i \in DOMAIN FileOrder : Copied(p, i)'
    BY <2>1, <2>2 DEF Copied
  <2>4. pc'[p] = "manifest" \/ Past(p)'
    <3>1. CASE Past(p)
      BY <3>1, CallMoves
    <3>2. CASE pc[p] = "manifest"
      <4>1. WriteManifest(p) \/ FailsWriting(p) \/ Fails(p)
        BY <3>2 DEF Call, Prepare, Produce, LookForCopy, OpenCopy, FillCopy, MeasureCopy,
           RecordManifest, WriteRaw, RecordRaw, RecordRawFails, CheckHead, Decide, WriteDecision
      <4>2. QED BY <1>0, <3>2, <4>1 DEF WriteManifest, FailsWriting, Fails
    <3>3. QED BY <1>9, <3>1, <3>2
  <2>5. pc'[p] \notin Copying
    BY <2>4
  <2>6. QED BY <2>3, <2>4, <2>5 DEF CopiesOfCall
<1>10. QED
  <2>1. Prepare(p) \/ Produce(p) \/ LookForCopy(p) \/ OpenCopy(p) \/ FillCopy(p) \/ MeasureCopy(p)
        \/ pc[p] = "manifest" \/ Past(p)
    <3>1. WriteManifest(p) \/ RecordManifest(p) \/ WriteRaw(p) \/ RecordRaw(p) \/ RecordRawFails(p)
          \/ CheckHead(p) \/ Decide(p) \/ WriteDecision(p)
          => pc[p] = "manifest" \/ Past(p)
      BY DEF WriteManifest, RecordManifest, WriteRaw, RecordRaw, RecordRawFails, CheckHead, Decide,
         WriteDecision
    <3>2. ~Fails(p) /\ ~FailsWriting(p)
      BY DEF Fails, FailsWriting
    <3>3. QED BY <3>1, <3>2 DEF Call
  <2>2. QED BY <1>3, <1>4, <1>5, <1>6, <1>7, <1>8, <1>9, <2>1

LEMMA CopiesWholeStays ==
  ASSUME ReleaseInv, NEW p \in Producers, Call(p)
  PROVE  CopiesWhole'
<1> SUFFICES ASSUME ~Contended'
             PROVE  CopiesWhole'
  BY DEF CopiesWhole
<1>1. /\ ~Contended
      /\ \A q \in Producers \ {p} : pc[q] # "idle" => Prepare(p) /\ UNCHANGED packet
  BY AloneBefore
<1>2. /\ manifest \in Manifests => \A f \in Files : manifest.files[f] = "whole"
      /\ damages = 0 => \A q \in Producers \ ended : CopiesOfCall(q)
  BY <1>1 DEF ReleaseInv, CopiesWhole
<1>3. ASSUME manifest' \in Manifests, NEW f \in Files
      PROVE  manifest'.files[f] = "whole"
  <2>1. CASE WriteManifest(p) /\ MayCreateManifest
    <3>1. pc[p] = "manifest" /\ p \notin ended /\ manifest' = [by |-> p, files |-> seen[p]]
      BY <2>1 DEF WriteManifest, Running
    <3>2. CopiesOfCall(p)
      BY <1>2, <3>1, AtWork
    <3>3. PICK i \in DOMAIN FileOrder : FileOrder[i] = f
      BY FilesInOrder
    <3>4. seen[p][f] = "whole"
      BY <3>1, <3>2, <3>3 DEF CopiesOfCall, Copied
    <3>5. QED BY <3>1, <3>4
  <2>2. CASE ~(WriteManifest(p) /\ MayCreateManifest)
    <3>1. CASE manifest' = manifest
      BY <1>2, <1>3, <3>1
    <3>2. CASE manifest' = Cut
      BY <1>3, <3>2, MissingIsNothing
    <3>3. manifest' = manifest \/ manifest' = Cut
      <4>1. CASE WriteManifest(p)
        BY <2>2, <4>1 DEF WriteManifest
      <4>2. CASE FailsWriting(p)
        BY <4>2 DEF FailsWriting
      <4>3. CASE ~WriteManifest(p) /\ ~FailsWriting(p)
        BY <4>3 DEF Call, Prepare, Produce, LookForCopy, OpenCopy, FillCopy, MeasureCopy,
           RecordManifest, WriteRaw, RecordRaw, RecordRawFails, CheckHead, Decide, WriteDecision,
           Fails, packet
      <4>4. QED BY <4>1, <4>2, <4>3
    <3>4. QED BY <3>1, <3>2, <3>3
  <2>3. QED BY <2>1, <2>2
<1>4. ASSUME damages' = 0, NEW q \in Producers \ ended'
      PROVE  CopiesOfCall(q)'
  <2>1. damages = 0 /\ q \notin ended /\ CopiesOfCall(q)
    BY <1>2, <1>4, CallMoves
  <2>2. CASE q = p
    BY <1>4, <2>1, <2>2, CopiesNow
  <2>3. CASE q # p
    <3>1. pc'[q] = pc[q] /\ step'[q] = step[q] /\ seen'[q] = seen[q]
      BY <2>3, CallMoves
    <3>2. CASE pc[q] = "idle"
      BY <3>1, <3>2 DEF CopiesOfCall, Copying, Past, PastManifest, Packaging
    <3>3. CASE pc[q] # "idle"
      <4>1. snapshot' = snapshot
        BY <1>1, <2>3, <3>3 DEF packet
      <4>2. QED BY <2>1, <3>1, <4>1 DEF CopiesOfCall, Copied, Past, File
    <3>4. QED BY <3>2, <3>3
  <2>4. QED BY <2>2, <2>3
<1>5. QED BY <1>3, <1>4 DEF CopiesWhole

-----------------------------------------------------------------------------
(***************************************************************************)
(* Damage takes a record out of the log and leaves the others in order,    *)
(* each still saying the place it was written at.                          *)
(***************************************************************************)
LEMMA LogInOrderDamaged ==
  ASSUME ReleaseInv, Damage
  PROVE  LogInOrder'
<1>0. LogInOrder /\ log \in Seq(Entries) /\ pc' = pc
  BY DamageMoves DEF ReleaseInv, ReleaseTypeOK
<1>1. CASE log' = log
  BY <1>0, <1>1 DEF LogInOrder, Past
<1>2. CASE DamageLog
  <2>1. PICK i \in 1..Len(log) : log' = RemoveAt(log, i)
    BY <1>2 DEF DamageLog
  <2>2. /\ log' \in Seq(Entries)
        /\ \A k \in DOMAIN log' :
             \E j \in DOMAIN log : j = (IF k < i THEN k ELSE k + 1) /\ log'[k] = log[j]
    BY <1>0, <2>1, RecordLost
  <2>3. ASSUME NEW k \in DOMAIN log'
        PROVE  AsWritten(log'[k]) /\ pc[log'[k].by] \in PastManifest
    BY <1>0, <2>2 DEF LogInOrder, Past
  <2>4. ASSUME NEW k \in DOMAIN log', NEW l \in DOMAIN log', k < l
        PROVE  log'[k].at < log'[l].at
    <3>1. PICK m \in DOMAIN log : m = (IF k < i THEN k ELSE k + 1) /\ log'[k] = log[m]
      BY <2>2
    <3>2. PICK n \in DOMAIN log : n = (IF l < i THEN l ELSE l + 1) /\ log'[l] = log[n]
      BY <2>2
    <3>3. k \in Nat /\ l \in Nat /\ i \in Nat
      <4>1. DOMAIN log' = 1..Len(log') /\ Len(log') \in Nat /\ Len(log) \in Nat
        BY <1>0, <2>2
      <4>2. QED BY <4>1
    <3>4. m < n
      BY <2>4, <3>1, <3>2, <3>3
    <3>5. QED BY <1>0, <3>1, <3>2, <3>4 DEF LogInOrder
  <2>5. \A k \in DOMAIN log' : pc'[log'[k].by] \in PastManifest
    BY <1>0, <2>3 DEF Past
  <2>6. QED BY <2>3, <2>4, <2>5 DEF LogInOrder, AsWritten, Past
<1>3. log' = log \/ DamageLog
  BY DEF Damage, DamageRaw, DamageManifest, DamageDecision, DamageSnapshot
<1>4. QED BY <1>1, <1>2, <1>3

LEMMA DamageKeepsInv ==
  ASSUME ReleaseInv, Damage
  PROVE  ReleaseInv'
<1>1. UNCHANGED <<pc, ended, step, seen, begun>> /\ AtRest /\ damages' > 0 /\ begun
  BY DamageMoves
<1>2. damages' # 0
  BY <1>1
<1>3. ReleaseTypeOK'
  BY DamageTypes DEF ReleaseInv, Damage
<1>4. RestWhenDamaged' /\ EmptyAtFirst'
  BY <1>1 DEF RestWhenDamaged, EmptyAtFirst, AtRest
<1>5. OneWriter'
  BY <1>1 DEF ReleaseInv, OneWriter, Past
<1>6. LogOfCall' /\ RawOfCall' /\ DecisionOfCall'
  BY <1>2 DEF LogOfCall, RawOfCall, DecisionOfCall
<1>7. CopiesWhole'
  <2>1. manifest' = manifest \/ manifest' = None
    BY DEF Damage, DamageRaw, DamageLog, DamageManifest, DamageDecision, DamageSnapshot
  <2>2. Contended' = Contended
    BY <1>1 DEF Contended
  <2>3. ~Contended /\ manifest' \in Manifests => \A f \in Files : manifest'.files[f] = "whole"
    <3>1. CASE manifest' = manifest
      BY <3>1 DEF ReleaseInv, CopiesWhole
    <3>2. CASE manifest' = None
      BY <3>2, MissingIsNothing
    <3>3. QED BY <2>1, <3>1, <3>2
  <2>4. QED BY <1>2, <2>2, <2>3 DEF CopiesWhole
<1>8. QED BY <1>3, <1>4, <1>5, <1>6, <1>7, LogInOrderDamaged DEF ReleaseInv

-----------------------------------------------------------------------------
LEMMA ReleaseInvInit == Init => ReleaseInv
<1> SUFFICES ASSUME Init
             PROVE  ReleaseInv
  OBVIOUS
<1> USE DEF Init
<1>1. StagesOK
  BY DEF StagesOK, Stages, Copying, Packaging
<1>2. PacketTypes
  <2>1. damages \in 0..MaxDamages
    BY ReleaseAssumption
  <2>2. log \in Seq(Entries)
    OBVIOUS
  <2>3. QED BY <2>1, <2>2 DEF PacketTypes
<1>3. ReleaseTypeOK
  BY <1>1, <1>2 DEF ReleaseTypeOK, PacketTypes, Looks
<1>4. \A p \in Producers : ~Past(p) /\ pc[p] = "idle"
  BY DEF Past, PastManifest, Packaging
<1>5. RestWhenDamaged /\ EmptyAtFirst /\ OneWriter
  BY <1>4 DEF RestWhenDamaged, EmptyAtFirst, OneWriter
<1>6. LogInOrder /\ LogOfCall
  BY <1>4 DEF LogInOrder, LogOfCall
<1>7. RawOfCall /\ DecisionOfCall
  BY <1>4 DEF RawOfCall, DecisionOfCall
<1>8. CopiesWhole
  <2>1. manifest \notin Manifests
    BY MissingIsNothing
  <2>2. \A p \in Producers : CopiesOfCall(p)
    BY <1>4 DEF CopiesOfCall, Copying
  <2>3. QED BY <2>1, <2>2 DEF CopiesWhole
<1>9. QED BY <1>3, <1>5, <1>6, <1>7, <1>8 DEF ReleaseInv

LEMMA ReleaseInvStep == ReleaseInv /\ [Next]_vars => ReleaseInv'
<1> SUFFICES ASSUME ReleaseInv, [Next]_vars
             PROVE  ReleaseInv'
  OBVIOUS
<1>1. ASSUME NEW p \in Producers, Call(p)
      PROVE  ReleaseInv'
  BY <1>1, ReleaseTypesStep, CallTypes, RestStays, EmptyStays, OneWriterStays, LogInOrderStays,
     LogOfCallStays, RawOfCallStays, DecisionOfCallStays, CopiesWholeStays DEF ReleaseInv
<1>2. CASE Damage
  BY <1>2, DamageKeepsInv
<1>3. CASE UNCHANGED vars
  <2> USE <1>3 DEF vars, calls, packet
  <2>1. ReleaseTypeOK' /\ RestWhenDamaged' /\ EmptyAtFirst' /\ OneWriter'
    BY DEF ReleaseInv, ReleaseTypeOK, StagesOK, RestWhenDamaged, AtRest, EmptyAtFirst, OneWriter,
           Past
  <2>2. LogInOrder'
    BY DEF ReleaseInv, LogInOrder, AsWritten, Past
  <2>3. LogOfCall'
    BY DEF ReleaseInv, LogOfCall, Conclusion, Verdict, Appended, Past
  <2>4. RawOfCall' /\ DecisionOfCall'
    BY DEF ReleaseInv, RawOfCall, Packed, Past, DecisionOfCall, Conclusion, Verdict
  <2>5. CopiesWhole'
    BY DEF ReleaseInv, CopiesWhole, Contended, CopiesOfCall, Copied, File, Past
  <2>6. QED BY <2>1, <2>2, <2>3, <2>4, <2>5 DEF ReleaseInv
<1>4. QED BY <1>1, <1>2, <1>3 DEF Next, Damage

LEMMA ReleaseInvariance == Spec => []ReleaseInv
  BY ReleaseInvInit, ReleaseInvStep, PTL DEF Spec

(***************************************************************************)
(* The types of a release, and where each call may stand.                  *)
(***************************************************************************)
THEOREM ReleaseTypes == Spec => []ReleaseTypeOK
<1>1. ReleaseInv => ReleaseTypeOK
  BY DEF ReleaseInv
<1>2. QED BY <1>1, ReleaseInvariance, PTL

(***************************************************************************)
(* Two calls that both took the directory for empty cannot both write what *)
(* follows the manifest, and the records of a log are all of one call.     *)
(***************************************************************************)
THEOREM OneCallWritesAlone == Spec => []OneCallWrites
<1>1. ReleaseInv => OneCallWrites
  <2> SUFFICES ASSUME ReleaseInv
               PROVE  OneCallWrites
    OBVIOUS
  <2>1. \A i \in 1..Len(log) : log[i].by \in Producers /\ Past(log[i].by)
    <3>1. log \in Seq(Entries) /\ DOMAIN log = 1..Len(log)
      BY DEF ReleaseInv, ReleaseTypeOK
    <3>2. \A i \in 1..Len(log) : log[i] \in Entries
      BY <3>1
    <3>3. QED BY <3>1, <3>2 DEF ReleaseInv, LogInOrder, Entries, RecordsBy
  <2>2. QED BY <2>1 DEF ReleaseInv, OneWriter, OneCallWrites
<1>2. QED BY <1>1, ReleaseInvariance, PTL

-----------------------------------------------------------------------------
(***************************************************************************)
(* What the records of a log that agrees with itself are.                  *)
(***************************************************************************)
LEMMA RecordsInPlace ==
  ASSUME ReleaseInv, \A i \in 1..Len(log) : log[i].at = i
  PROVE  \A i \in 1..Len(log) :
           /\ i \in 1..20
           /\ log[i].kind = "manifest" <=> i = 1
           /\ log[i].kind = "decision" <=> i = 20
           /\ log[i].kind = "scenario" =>
                /\ i - 1 \in 1..18 /\ log[i].subject = Scenarios[i - 1]
                /\ log[i].digest = AsProduced(Scenarios[i - 1])
           /\ i \in 2..19 => log[i].kind = "scenario"
<1>1. log \in Seq(Entries) /\ DOMAIN log = 1..Len(log)
  BY DEF ReleaseInv, ReleaseTypeOK
<1>2. ASSUME NEW i \in 1..Len(log)
      PROVE  /\ i \in 1..20
             /\ log[i].kind = "manifest" <=> i = 1
             /\ log[i].kind = "decision" <=> i = 20
             /\ log[i].kind = "scenario" =>
                  /\ i - 1 \in 1..18 /\ log[i].subject = Scenarios[i - 1]
                  /\ log[i].digest = AsProduced(Scenarios[i - 1])
             /\ i \in 2..19 => log[i].kind = "scenario"
  <2>1. AsWritten(log[i]) /\ log[i].at = i
    BY <1>1 DEF ReleaseInv, LogInOrder
  <2>2. /\ i \in 1..20
        /\ i = 1 => log[i].kind = "manifest"
        /\ i = 20 => log[i].kind = "decision"
        /\ i \in 2..19 => log[i].kind = "scenario" /\ log[i].subject = Scenarios[i - 1]
                          /\ log[i].digest = AsProduced(Scenarios[i - 1])
    BY <2>1, Places DEF AsWritten
  <2>3. i = 1 \/ i = 20 \/ (i \in 2..19 /\ i - 1 \in 1..18 /\ i # 1 /\ i # 20)
    BY <2>2
  <2>4. QED BY <2>2, <2>3
<1>3. QED BY <1>2

\* The one record of a scenario, if the log holds it.
LEMMA RecordOfScenario ==
  ASSUME ReleaseInv, \A i \in 1..Len(log) : log[i].at = i,
         NEW s \in RequiredScenarios, RecordsOf(s) # {}
  PROVE  /\ Cardinality(RecordsOf(s)) = 1
         /\ log[Max(RecordsOf(s))].digest = AsProduced(s)
<1>1. PICK i \in RecordsOf(s) : TRUE
  OBVIOUS
<1>2. ASSUME NEW j \in RecordsOf(s)
      PROVE  /\ j \in Nat /\ j - 1 \in 1..18 /\ Scenarios[j - 1] = s
             /\ log[j].digest = AsProduced(s)
  <2>1. j \in 1..Len(log) /\ log[j].kind = "scenario" /\ log[j].subject = s
    BY DEF RecordsOf, Records
  <2>2. j - 1 \in 1..18 /\ log[j].subject = Scenarios[j - 1]
        /\ log[j].digest = AsProduced(Scenarios[j - 1])
    BY <2>1, RecordsInPlace
  <2>3. QED BY <2>1, <2>2
<1>3. ASSUME NEW j \in RecordsOf(s)
      PROVE  j = i
  <2>1. /\ j \in Nat /\ j - 1 \in 1..18 /\ Scenarios[j - 1] = s
        /\ i \in Nat /\ i - 1 \in 1..18 /\ Scenarios[i - 1] = s
    BY <1>1, <1>2
  <2>2. j - 1 = i - 1
    BY <2>1, ScenarioOrder
  <2>3. QED BY <2>1, <2>2
<1>4. RecordsOf(s) = {i}
  BY <1>3
<1>5. Max(RecordsOf(s)) = i
  BY <1>2, <1>4 DEF Max
<1>6. QED BY <1>2, <1>4, <1>5, FS_Singleton

(***************************************************************************)
(* A raw file kept as it was produced holds the packet that was produced.  *)
(***************************************************************************)
LEMMA ContentAsProduced ==
  \A s \in RequiredScenarios : Content(AsProduced(s)) = Fault!Produced[s]
  BY DEF Content, AsProduced

(***************************************************************************)
(* A packet that verifies as a GO holds what every scenario was run to,    *)
(* and proves all of its invariants: whatever was cut off, lost or mixed   *)
(* up, the records of the log and the verifier leave nothing else to hold. *)
(***************************************************************************)
THEOREM ValidIsProven == Spec => []ValidMeansProven
<1>1. ASSUME ReleaseInv, Valid, decision.verdict.go
      PROVE  /\ \A s \in RequiredScenarios :
                  /\ Content(raw[s]) = Fault!Produced[s] /\ AllFacts(Content(raw[s]))
                  /\ Cardinality(RecordsOf(s)) = 1
             /\ Contended \/ \A f \in Files : snapshot[f] = "whole"
  <2>1. /\ Written(manifest) /\ Written(decision) /\ ArtifactsAgree
        /\ \A i \in 1..Len(log) : log[i].at = i
        /\ EvidenceAgrees /\ Go(RetainedResults)
    BY <1>1 DEF Valid, LogAgrees, VerdictAgrees
  <2>2. manifest \in Manifests /\ decision.verdict.evidence = RequiredScenarios
    <3>1. manifest \in Manifests /\ decision \in Decisions
      BY <1>1, <2>1 DEF ReleaseInv, ReleaseTypeOK, Written
    <3>2. QED BY <3>1 DEF Decisions, Verdicts
  <2>3. ASSUME NEW s \in RequiredScenarios
        PROVE  /\ Content(raw[s]) = Fault!Produced[s]
               /\ Cardinality(RecordsOf(s)) = 1
    <3>1. RecordsOf(s) # {} /\ Content(log[Max(RecordsOf(s))].digest) = Content(raw[s])
      BY <2>1, <2>2 DEF EvidenceAgrees
    <3>2. Cardinality(RecordsOf(s)) = 1 /\ log[Max(RecordsOf(s))].digest = AsProduced(s)
      BY <1>1, <2>1, <3>1, RecordOfScenario
    <3>3. QED BY <3>1, <3>2, ContentAsProduced
  <2>4. ASSUME NEW s \in RequiredScenarios
        PROVE  AllFacts(Content(raw[s]))
    <3>1. PICK i \in 1..18 : Scenarios[i] = s
      BY ScenarioOrder
    <3>2. /\ Len(RetainedResults) = 18
          /\ RetainedResults[i] = Result(Scenarios[i], Content(raw[Scenarios[i]]))
      BY ScenarioOrder DEF RetainedResults
    <3>3. RetainedResults[i].passed
      BY <2>1, <3>2 DEF Go, Acceptable
    <3>4. QED BY <3>1, <3>2, <3>3 DEF Result
  <2>5. ASSUME ~Contended, NEW f \in Files
        PROVE  snapshot[f] = "whole"
    <3>1. manifest.files[f] = "whole"
      BY <1>1, <2>2, <2>5 DEF ReleaseInv, CopiesWhole
    <3>2. Look(f) = manifest.files[f]
      BY <2>1 DEF ArtifactsAgree
    <3>3. QED BY <3>1, <3>2 DEF Look
  <2>6. QED BY <2>3, <2>4, <2>5
<1>2. ReleaseInv => ValidMeansProven
  BY <1>1 DEF ValidMeansProven
<1>3. QED BY <1>2, ReleaseInvariance, PTL

-----------------------------------------------------------------------------
NobodyRejected == \A p \in Producers : pc[p] # "rejected"

LEMMA NobodyRejectedStays ==
  ASSUME Producible, ReleaseInv, NobodyRejected, [Next]_vars
  PROVE  NobodyRejected'
<1>1. ASSUME NEW p \in Producers, Call(p)
      PROVE  NobodyRejected'
  <2>1. \A q \in Producers \ {p} : pc'[q] = pc[q]
    BY <1>1, CallMoves
  <2>2. pc \in [Producers -> Stages]
    BY DEF ReleaseInv, ReleaseTypeOK, StagesOK
  <2>3. pc'[p] # "rejected"
    <3> USE <2>2 DEF Goto, NobodyRejected
    <3>1. CASE Prepare(p) \/ Produce(p) \/ LookForCopy(p) \/ OpenCopy(p) \/ FillCopy(p)
      BY <3>1 DEF Prepare, Produce, LookForCopy, OpenCopy, FillCopy
    <3>2. CASE MeasureCopy(p) \/ WriteManifest(p) \/ RecordManifest(p) \/ WriteRaw(p)
      BY <3>2 DEF MeasureCopy, WriteManifest, RecordManifest, WriteRaw
    <3>3. CASE RecordRaw(p) \/ RecordRawFails(p) \/ CheckHead(p) \/ Decide(p)
      BY <3>3 DEF RecordRaw, RecordRawFails, CheckHead, Decide
    <3>4. CASE WriteDecision(p) \/ Fails(p) \/ FailsWriting(p)
      BY <3>4 DEF WriteDecision, Fails, FailsWriting
    <3>5. QED BY <1>1, <3>1, <3>2, <3>3, <3>4 DEF Call
  <2>4. QED BY <2>1, <2>3 DEF NobodyRejected
<1>2. CASE Damage
  BY <1>2, DamageMoves DEF NobodyRejected
<1>3. CASE UNCHANGED vars
  BY <1>3 DEF vars, calls, NobodyRejected
<1>4. QED BY <1>1, <1>2, <1>3 DEF Next, Damage

(***************************************************************************)
(* The packet of a call that returned and that nobody came between.        *)
(***************************************************************************)
LEMMA FinishedPacket ==
  ASSUME ReleaseInv, NEW p \in Producers, pc[p] = "released", damages = 0
  PROVE  /\ manifest \in Manifests /\ decision \in Decisions
         /\ decision = [verdict |-> Conclusion, count |-> 20, head |-> log[20],
                        recorded |-> log[20]]
         /\ Len(log) = 20 /\ Last(log) = log[20] /\ log \in Seq(Entries)
         /\ \A i \in 1..Len(log) : log[i].at = i
         /\ log[1].digest = manifest /\ log[20].digest = Conclusion
         /\ \A s \in RequiredScenarios : raw[s] = AsProduced(s)
<1>1. Past(p) /\ p \notin ended
  BY DEF Past, PastManifest, ReleaseInv, OneWriter
<1>2. /\ manifest = [by |-> p, files |-> seen[p]] /\ Len(log) = Appended(p)
      /\ \A i \in DOMAIN log : log[i].at = i
      /\ \A i \in DOMAIN log : log[i].at = 1 => log[i].digest = manifest
      /\ \A i \in DOMAIN log : log[i].at = Last2 => log[i].digest = Conclusion
  BY <1>1 DEF ReleaseInv, LogOfCall
<1>3. Appended(p) = 20 /\ Packed(p) = 18 /\ Last2 = 20
  BY Places DEF Appended, Packed, Packaging
<1>4. log \in Seq(Entries) /\ seen[p] \in [Files -> Looks]
  BY DEF ReleaseInv, ReleaseTypeOK
<1>5. Len(log) = 20 /\ DOMAIN log = 1..20
  BY <1>2, <1>3, <1>4
<1>6. manifest \in Manifests
  BY <1>2, <1>4 DEF Manifests
<1>7. log[1].digest = manifest /\ log[20].digest = Conclusion
  BY <1>2, <1>3, <1>5
<1>8. decision = [verdict |-> Conclusion, count |-> 20, head |-> log[20], recorded |-> log[20]]
  BY <1>3 DEF ReleaseInv, DecisionOfCall
<1>9. decision \in Decisions
  <2>1. Conclusion \in Verdicts
    BY <1>6, VerdictTypes
  <2>2. log[20] \in Entries
    <3>1. log \in Seq(Entries) /\ 20 \in 1..Len(log)
      BY <1>4, <1>5
    <3>2. QED BY <3>1
  <2>3. Entries \subseteq RecordsBy(Producers \cup {None})
    BY DEF Entries, RecordsBy
  <2>4. QED BY <1>8, <2>1, <2>2, <2>3 DEF Decisions
<1>10. ASSUME NEW s \in RequiredScenarios
       PROVE  raw[s] = AsProduced(s)
  <2>1. PICK i \in 1..18 : Scenarios[i] = s
    BY ScenarioOrder
  <2>2. \A j \in 1..Packed(p) : raw[Scenarios[j]] = AsProduced(Scenarios[j])
    BY <1>1 DEF ReleaseInv, RawOfCall
  <2>3. QED BY <1>3, <2>1, <2>2
<1>11. Last(log) = log[20] /\ \A i \in 1..Len(log) : log[i].at = i
  BY <1>2, <1>5 DEF Last
<1>12. QED BY <1>4, <1>5, <1>6, <1>7, <1>8, <1>9, <1>10, <1>11

LEMMA FinishedIsValid ==
  ASSUME ScenariosProven, ReleaseInv, NEW p \in Producers, pc[p] = "released", damages = 0,
         ~Contended
  PROVE  Valid
<1>1. /\ manifest \in Manifests /\ decision \in Decisions
      /\ decision = [verdict |-> Conclusion, count |-> 20, head |-> log[20],
                     recorded |-> log[20]]
      /\ Len(log) = 20 /\ Last(log) = log[20] /\ log \in Seq(Entries)
      /\ \A i \in 1..Len(log) : log[i].at = i
      /\ log[1].digest = manifest /\ log[20].digest = Conclusion
      /\ \A s \in RequiredScenarios : raw[s] = AsProduced(s)
  BY FinishedPacket
<1>2. Written(manifest) /\ Written(decision)
  BY <1>1, MissingIsNothing DEF Written
<1>3. \A i \in 1..20 : /\ log[i].kind = "manifest" <=> i = 1
                       /\ log[i].kind = "decision" <=> i = 20
                       /\ log[i].kind = "scenario" => log[i].subject = Scenarios[i - 1]
                       /\ i \in 2..19 => log[i].kind = "scenario"
  BY <1>1, RecordsInPlace
<1>4. Records("manifest") = {1} /\ Records("decision") = {20}
  BY <1>1, <1>3 DEF Records
<1>5. ArtifactsAgree
  <2>1. Past(p) /\ p \notin ended
    BY DEF Past, PastManifest, ReleaseInv, OneWriter
  <2>2. ASSUME NEW f \in Files
        PROVE  snapshot[f] = "whole" /\ manifest.files[f] = "whole"
    <3>1. PICK i \in DOMAIN FileOrder : FileOrder[i] = f
      BY FilesInOrder
    <3>2. CopiesOfCall(p)
      BY <2>1 DEF ReleaseInv, CopiesWhole
    <3>3. QED BY <1>1, <2>1, <3>1, <3>2 DEF ReleaseInv, CopiesWhole, CopiesOfCall, Copied
  <2>3. QED BY <2>2 DEF ArtifactsAgree, Look
<1>6. LogAgrees
  <2>1. log # <<>>
    <3>1. log = <<>> => Len(log) = 0
      OBVIOUS
    <3>2. QED BY <1>1, <3>1
  <2>2. QED BY <1>1, <2>1 DEF LogAgrees
<1>7. ManifestAgrees
  BY <1>1, <1>4, FS_Singleton DEF ManifestAgrees, Conclusion, Verdict
<1>8. EvidenceAgrees
  <2>1. decision.verdict.evidence = RequiredScenarios
    BY <1>1 DEF Conclusion, Verdict
  <2>2. ASSUME NEW s \in RequiredScenarios
        PROVE  /\ Written(raw[s]) /\ RecordsOf(s) # {}
               /\ Content(log[Max(RecordsOf(s))].digest) = Content(raw[s])
               /\ ~Refused(Content(raw[s]), s)
    <3>1. raw[s] = AsProduced(s) /\ Written(raw[s])
      BY <1>1, RawAsProduced, MissingIsNothing DEF Written
    <3>2. RecordsOf(s) # {}
      <4>1. PICK i \in 1..18 : Scenarios[i] = s
        BY ScenarioOrder
      <4>2. i + 1 \in 2..19 /\ i + 1 \in 1..20 /\ (i + 1) - 1 = i
        OBVIOUS
      <4>3. log[i + 1].kind = "scenario" /\ log[i + 1].subject = Scenarios[(i + 1) - 1]
        BY <1>3, <4>2
      <4>4. i + 1 \in RecordsOf(s)
        BY <1>1, <4>1, <4>2, <4>3 DEF RecordsOf, Records
      <4>5. QED BY <4>4
    <3>3. Content(log[Max(RecordsOf(s))].digest) = Content(raw[s])
      BY <1>1, <3>1, <3>2, RecordOfScenario
    <3>4. ~Refused(Content(raw[s]), s)
      BY <3>1, ContentAsProduced DEF ScenariosProven, Producible
    <3>5. QED BY <3>1, <3>2, <3>3, <3>4
  <2>3. QED BY <2>1, <2>2 DEF EvidenceAgrees
<1>9. VerdictAgrees
  <2>1. RetainedResults = ProducedResults
    <3>1. ASSUME NEW i \in 1..Len(Scenarios)
          PROVE  Content(raw[Scenarios[i]]) = Fault!Produced[Scenarios[i]]
      BY <1>1, <3>1, ScenarioOrder, ContentAsProduced
    <3>2. QED BY <3>1 DEF RetainedResults, ProducedResults
  <2>2. Go(RetainedResults) = decision.verdict.go
    BY <1>1, <2>1 DEF Conclusion, Verdict
  <2>3. QED BY <1>1, <1>4, <2>2, FS_Singleton DEF VerdictAgrees
<1>10. QED BY <1>2, <1>5, <1>6, <1>7, <1>8, <1>9 DEF Valid

(***************************************************************************)
(* When the eighteen scenarios run to packets their own verifier accepts   *)
(* and gate B takes for a GO, no call is turned down for them, a call that *)
(* returned has decided GO, and what it wrote verifies unless another call *)
(* took the directory for empty too.                                       *)
(***************************************************************************)
THEOREM FinishedVerifies == ScenariosProven => (Spec => []FinishedReleaseVerifies)
<1> SUFFICES ASSUME ScenariosProven
             PROVE  Spec => []FinishedReleaseVerifies
  OBVIOUS
<1>1. Init => NobodyRejected
  BY DEF Init, NobodyRejected
<1>2. ReleaseInv /\ NobodyRejected /\ [Next]_vars => NobodyRejected'
  BY NobodyRejectedStays DEF ScenariosProven
<1>3. ReleaseInv /\ NobodyRejected => FinishedReleaseVerifies
  <2> SUFFICES ASSUME ReleaseInv, NobodyRejected, NEW p \in Producers,
                      pc[p] = "released", damages = 0
               PROVE  decision.verdict.go /\ (Contended \/ Valid)
    BY DEF NobodyRejected, FinishedReleaseVerifies
  <2>1. decision.verdict = Conclusion
    BY FinishedPacket
  <2>2. decision.verdict.go
    BY <2>1 DEF Conclusion, Verdict, ScenariosProven
  <2>3. QED BY <2>2, FinishedIsValid
<1>4. QED BY <1>1, <1>2, <1>3, ReleaseInvariance, PTL DEF Spec

-----------------------------------------------------------------------------
(***************************************************************************)
(* The ledgers of a scenario are sequences, whatever the harness was run   *)
(* through.                                                                *)
(***************************************************************************)
IsSequence(x) == \E S : x \in Seq(S)

Harness(h) ==
    /\ {"trace", "mutations", "events", "state", "cursor", "pending", "consumed", "cap",
        "critical"} \subseteq DOMAIN h
    /\ IsSequence(h.trace) /\ IsSequence(h.mutations) /\ IsSequence(h.consumed)

LEMMA OneMore ==
  ASSUME NEW x, IsSequence(x), NEW e
  PROVE  IsSequence(Append(x, e))
<1>1. PICK S : x \in Seq(S)
  BY DEF IsSequence
<1>2. Append(x, e) \in Seq(S \cup {e})
  <2>1. x \in Seq(S \cup {e})
    BY <1>1
  <2>2. QED BY <2>1
<1>3. QED BY <1>2 DEF IsSequence

LEMMA HarnessBuilt ==
  ASSUME NEW kind
  PROVE  Harness(Fault!Built(kind))
<1> DEFINE h == Fault!Built(kind)
<1>1. h.trace \in Seq({}) /\ h.mutations \in Seq({}) /\ h.consumed \in Seq({kind})
  BY DEF Fault!Built
<1>2. {"trace", "mutations", "events", "state", "cursor", "pending", "consumed", "cap",
       "critical"} \subseteq DOMAIN h
  BY DEF Fault!Built
<1>3. QED BY <1>1, <1>2 DEF Harness, IsSequence

LEMMA HarnessSteps ==
  ASSUME NEW h, Harness(h), NEW phase, NEW outcome, NEW evidence, NEW kind, NEW event,
         NEW cursor
  PROVE  /\ Harness(Fault!Traced(h, phase, outcome, evidence))
         /\ Harness(Fault!Emitted(h, event))
         /\ Harness(Fault!Triggered(h, kind))
         /\ Harness([h EXCEPT !.cursor = cursor])
         /\ Harness([h EXCEPT !.state = cursor])
<1>1. Harness(Fault!Traced(h, phase, outcome, evidence))
  BY OneMore DEF Harness, Fault!Traced
<1>2. Harness(Fault!Emitted(h, event))
  BY DEF Harness, Fault!Emitted
<1>3. Harness(Fault!Triggered(h, kind))
  BY OneMore DEF Harness, Fault!Triggered
<1>4. Harness([h EXCEPT !.cursor = cursor]) /\ Harness([h EXCEPT !.state = cursor])
  BY DEF Harness
<1>5. QED BY <1>1, <1>2, <1>3, <1>4

LEMMA HarnessHolds ==
  ASSUME NEW h, Harness(h), NEW why
  PROVE  Harness(Fault!Hold(h, why))
<1>1. Harness([Fault!Emitted(h, "safe_hold_entered") EXCEPT !.state = "safe_hold"])
  BY HarnessSteps
<1>2. QED BY <1>1, HarnessSteps DEF Fault!Hold

LEMMA HarnessCarries ==
  ASSUME NEW h, Harness(h), NEW action
  PROVE  Harness(Fault!Carried(h, action))
<1> DEFINE m == [reason |-> action.reason, observed |-> TRUE]
           g == [h EXCEPT !.cap = action.value, !.mutations = Append(@, m)]
<1>1. Harness(g)
  BY OneMore DEF Harness
<1>2. QED BY <1>1, HarnessSteps DEF Fault!Carried

\* run_cycle, from its last stage to its first.
LEMMA HarnessActs ==
  ASSUME NEW h, Harness(h), NEW action, NEW auditFails
  PROVE  Harness(Fault!Acted(h, action, auditFails))
<1>1. ASSUME NEW g, Harness(g)
      PROVE  Harness(Fault!Executed(g, action))
  <2>1. CASE g.pending \cap (Fault!SchedulerFaults \cup Fault!AdapterFaults) = {}
    BY <1>1, <2>1, HarnessCarries DEF Fault!Executed
  <2>2. CASE g.pending \cap (Fault!SchedulerFaults \cup Fault!AdapterFaults) # {}
    <3> DEFINE k == CHOOSE k \in g.pending \cap (Fault!SchedulerFaults \cup Fault!AdapterFaults) :
                      TRUE
    <3>1. Fault!Executed(g, action)
            = Fault!Hold(Fault!Triggered(g, k), {Fault!BoundaryFault[k]})
      BY <2>2 DEF Fault!Executed
    <3> HIDE DEF k
    <3>2. Harness(Fault!Triggered(g, k))
      BY <1>1, HarnessSteps
    <3>3. QED BY <3>1, <3>2, HarnessHolds
  <2>3. QED BY <2>1, <2>2
<1>2. QED BY <1>1, HarnessSteps, HarnessHolds DEF Fault!Acted

LEMMA HarnessPlans ==
  ASSUME NEW h, Harness(h), NEW action, NEW auditFails
  PROVE  Harness(Fault!Planned(h, action, auditFails))
<1>1. ASSUME NEW g, Harness(g), NEW a
      PROVE  Harness(Fault!Checked(g, a, auditFails))
  BY <1>1, HarnessSteps, HarnessHolds, HarnessActs DEF Fault!Checked
<1>2. ASSUME NEW g, Harness(g), NEW a
      PROVE  Harness(Fault!Complete(g, a, auditFails))
  BY <1>1, <1>2, HarnessSteps DEF Fault!Complete
<1>3. CASE Fault!Injected(h, "optimizer_timeout")
  BY <1>2, <1>3, HarnessSteps DEF Fault!Planned
<1>4. CASE ~Fault!Injected(h, "optimizer_timeout")
  BY <1>2, <1>4, HarnessSteps, HarnessHolds DEF Fault!Planned
<1>5. QED BY <1>3, <1>4

LEMMA HarnessCycles ==
  ASSUME NEW h, Harness(h), NEW m, NEW action, NEW auditFails
  PROVE  Harness(Fault!RunCycle(h, m, action, auditFails))
<1> DEFINE g == Fault!Authorized(Fault!Traced([h EXCEPT !.cursor = m.sequence],
                                   "meter", "accepted", {"authoritative_meter_reconciled"}))
<1>1. Harness(g)
  BY HarnessSteps DEF Fault!Authorized
<1>2. Harness(Fault!Planned(g, action, auditFails))
  BY <1>1, HarnessPlans
<1>3. QED BY <1>2, HarnessHolds DEF Fault!RunCycle

LEMMA HarnessRan ==
  ASSUME NEW kind
  PROVE  Harness(Fault!Ran(kind))
<1> DEFINE h == Fault!Built(kind)
<1>1. Harness(h)
  BY HarnessBuilt
<1>2. \A m, action, auditFails : Harness(Fault!RunCycle(h, m, action, auditFails))
  BY <1>1, HarnessCycles
<1>3. \A m, n, action, auditFails :
        Harness(Fault!RunCycle(Fault!Primed(h, m), n, action, auditFails))
  BY <1>1, HarnessSteps, HarnessCycles DEF Fault!Primed
<1>4. \A event : Harness(Fault!Restarted(Fault!Emitted(h, event)))
  <2> TAKE event
  <2>1. Harness(Fault!Emitted(Fault!Emitted(h, event), "session_reconstructed"))
    BY <1>1, HarnessSteps
  <2>2. QED BY <2>1, HarnessSteps DEF Fault!Restarted
<1>5. \A why : Harness(Fault!Hold(h, why))
  BY <1>1, HarnessHolds
<1>6. \A why, again, event : Harness(Fault!Hold(Fault!Emitted(Fault!Hold(h, why), event), again))
  BY <1>5, HarnessSteps, HarnessHolds
<1> HIDE DEF h
<1>7. CASE kind \in {"meter_duplicate", "meter_reorder"}
  BY <1>3, <1>7 DEF Fault!Ran, h
<1>8. CASE kind = "controller_restart"
  BY <1>4, <1>8 DEF Fault!Ran, h
<1>9. CASE kind \in {"split_brain", "manual_conflict"}
  <2>1. kind = "split_brain" =>
          Fault!Ran(kind) = Fault!Hold(h, {IF Fault!Fenced("b", 2, "a", 1)
                                           THEN "stale_controller_fenced"
                                           ELSE "active_lease_verified"})
    BY DEF Fault!Ran, h
  <2>2. kind = "manual_conflict" =>
          Fault!Ran(kind) = Fault!Hold(h, {"stricter_manual_or_optimizer_limit_selected",
                                IF Fault!Stricter(1100, 1200) = 1100 THEN "1100" ELSE "1200"})
    BY DEF Fault!Ran, h
  <2>3. QED BY <1>5, <1>9, <2>1, <2>2
<1>10. CASE kind = "interrupted_recovery"
  BY <1>6, <1>10 DEF Fault!Ran, h
<1>11. CASE kind = "protected_mislabel_attempt"
  BY <1>2, <1>11 DEF Fault!Ran, h
<1>12. CASE kind \notin {"meter_duplicate", "meter_reorder", "controller_restart", "split_brain",
                        "manual_conflict", "interrupted_recovery", "protected_mislabel_attempt"}
  BY <1>2, <1>12 DEF Fault!Ran, h
<1>13. QED BY <1>7, <1>8, <1>9, <1>10, <1>11, <1>12

-----------------------------------------------------------------------------
(***************************************************************************)
(* What a ledger is after its rows were lost, repeated or swapped.         *)
(***************************************************************************)
LEMMA NumberedRows ==
  ASSUME NEW x, IsSequence(x)
  PROVE  IsSequence(Fault!Numbered(x))
<1>1. PICK S : x \in Seq(S)
  BY DEF IsSequence
<1>2. Fault!Numbered(x) \in Seq([sequence : Int, row : S])
  BY <1>1 DEF Fault!Numbered
<1>3. QED BY <1>2 DEF IsSequence

LEMMA AlteredRows ==
  ASSUME NEW rows, IsSequence(rows), NEW how \in Alterations, Rows(rows, how) # rows
  PROVE  /\ IsSequence(Rows(rows, how)) /\ Len(rows) \in Nat /\ Len(Rows(rows, how)) \in Nat
         /\ \/ Len(Rows(rows, how)) = Len(rows) - 1
            \/ /\ Len(Rows(rows, how)) = Len(rows) + 1 /\ Len(rows) > 0
               /\ Rows(rows, how)[Len(rows) + 1] = rows[Len(rows)]
            \/ /\ Len(Rows(rows, how)) = Len(rows) /\ Len(rows) > 1
               /\ Rows(rows, how)[1] = rows[2]
<1>1. PICK S : rows \in Seq(S)
  BY DEF IsSequence
<1>2. Len(rows) \in Nat
  BY <1>1
<1>3. CASE how = "row lost"
  <2>1. rows # <<>> /\ Rows(rows, how) = Front(rows)
    BY <1>3 DEF Rows
  <2>2. Front(rows) = SubSeq(rows, 1, Len(rows) - 1) /\ Len(rows) # 0
    BY <1>1, <2>1 DEF Front
  <2>3. Front(rows) \in Seq(S) /\ Len(Front(rows)) = Len(rows) - 1
    <3>1. \A i \in 1 .. Len(rows) - 1 : rows[i] \in S
      BY <1>1
    <3>2. /\ SubSeq(rows, 1, Len(rows) - 1) \in Seq(S)
          /\ Len(SubSeq(rows, 1, Len(rows) - 1))
               = IF 1 <= Len(rows) - 1 THEN Len(rows) - 1 - 1 + 1 ELSE 0
      BY <1>1, <1>2, <3>1, SubSeqProperties
    <3>3. \A n \in Nat \ {0} : (IF 1 <= n - 1 THEN n - 1 - 1 + 1 ELSE 0) = n - 1
      OBVIOUS
    <3>4. Len(rows) \in Nat \ {0}
      BY <1>2, <2>2
    <3>5. Len(SubSeq(rows, 1, Len(rows) - 1)) = Len(rows) - 1
      BY <3>2, <3>3, <3>4
    <3> QED BY <2>2, <3>2, <3>5
  <2>4. IsSequence(Rows(rows, how)) /\ Len(Rows(rows, how)) = Len(rows) - 1
    BY <2>1, <2>3 DEF IsSequence
  <2>5. Len(rows) - 1 \in Nat
    BY <1>2, <2>2
  <2> QED BY <1>2, <2>4, <2>5
<1>4. CASE how = "row twice"
  <2>1. rows # <<>> /\ Rows(rows, how) = Append(rows, rows[Len(rows)])
    BY <1>4 DEF Rows, Last
  <2>2. Len(rows) > 0
    BY <1>1, <2>1
  <2>3. rows[Len(rows)] \in S
    BY <1>1, <2>2
  <2>4. /\ Append(rows, rows[Len(rows)]) \in Seq(S)
        /\ Len(Append(rows, rows[Len(rows)])) = Len(rows) + 1
        /\ Append(rows, rows[Len(rows)])[Len(rows) + 1] = rows[Len(rows)]
    BY <1>1, <2>3
  <2>5. QED BY <1>2, <2>1, <2>2, <2>4 DEF IsSequence
<1>5. CASE how = "rows swapped"
  <2>1. Len(rows) > 1 /\ Rows(rows, how) = <<rows[2], rows[1]>> \o SubSeq(rows, 3, Len(rows))
    BY <1>5 DEF Rows
  <2> DEFINE a == <<rows[2], rows[1]>>
             b == SubSeq(rows, 3, Len(rows))
  <2>2. a \in Seq(S) /\ Len(a) = 2 /\ a[1] = rows[2]
    <3>1. rows[1] \in S /\ rows[2] \in S
      BY <1>1, <2>1
    <3>2. QED BY <3>1
  <2>3. b \in Seq(S) /\ Len(b) = Len(rows) - 2
    <3>1. \A i \in 3 .. Len(rows) : rows[i] \in S
      BY <1>1
    <3>2. b \in Seq(S) /\ Len(b) = IF 3 <= Len(rows) THEN Len(rows) - 3 + 1 ELSE 0
      BY <1>1, <1>2, <3>1, SubSeqProperties
    <3>3. \A n \in Nat : n > 1 => (IF 3 <= n THEN n - 3 + 1 ELSE 0) = n - 2
      OBVIOUS
    <3>4. QED BY <1>2, <2>1, <3>2, <3>3
  <2> HIDE DEF a, b
  <2>4. /\ a \o b \in Seq(S) /\ Len(a \o b) = Len(a) + Len(b)
        /\ (a \o b)[1] = a[1]
    <3>1. 1 \in 1 .. Len(a) + Len(b) /\ 1 <= Len(a)
      <4>1. Len(b) \in Nat /\ Len(a) = 2
        BY <2>2, <2>3
      <4>2. QED BY <4>1
    <3>2. /\ a \o b \in Seq(S) /\ Len(a \o b) = Len(a) + Len(b)
          /\ \A i \in 1 .. Len(a) + Len(b) :
               (a \o b)[i] = IF i <= Len(a) THEN a[i] ELSE b[i - Len(a)]
      BY <2>2, <2>3, ConcatProperties
    <3>3. (a \o b)[1] = IF 1 <= Len(a) THEN a[1] ELSE b[1 - Len(a)]
      BY <3>1, <3>2
    <3>4. QED BY <3>1, <3>2, <3>3
  <2>5. Len(a \o b) = Len(rows)
    BY <1>2, <2>1, <2>2, <2>3, <2>4
  <2>6. Rows(rows, how) = a \o b
    BY <2>1 DEF a, b
  <2>7. QED BY <1>2, <2>1, <2>2, <2>4, <2>5, <2>6 DEF IsSequence
<1>6. QED BY <1>3, <1>4, <1>5 DEF Alterations

-----------------------------------------------------------------------------
(***************************************************************************)
(* The packets of the scenarios: each says which one it is of, and keeps   *)
(* its ledgers as sequences.                                               *)
(***************************************************************************)
LEMMA ProducedPackets ==
  ASSUME Producible, NEW s \in RequiredScenarios
  PROVE  \/ s = "stale_meter" /\ Fault!Produced[s] = Fault!StaleMeterPacket
         \/ s # "stale_meter" /\ Fault!Produced[s] = Fault!Packet(s)
<1>1. s \in DOMAIN Fault!Produced
  BY DEF Producible
<1>2. s \in Fault!FaultKinds \cup {"stale_meter"}
  BY <1>1 DEF Fault!Produced
<1>3. QED BY <1>2 DEF Fault!Produced

LEMMA FaultPacket ==
  ASSUME NEW s
  PROVE  /\ Fault!Packet(s).scenario = s
         /\ IsSequence(Fault!Packet(s).trace) /\ IsSequence(Fault!Packet(s).injections)
         /\ IsSequence(Fault!Packet(s).mutations)
         /\ {"scenario", "trace", "injections", "mutations", "events"}
              \subseteq DOMAIN Fault!Packet(s)
<1> DEFINE h == Fault!Ran(s)
<1>1. Harness(h)
  BY HarnessRan
<1>2. /\ IsSequence(Fault!Numbered(h.trace)) /\ IsSequence(Fault!Numbered(h.consumed))
      /\ IsSequence(Fault!Numbered(h.mutations))
  BY <1>1, NumberedRows DEF Harness
<1>3. /\ Fault!Packet(s).scenario = s
      /\ Fault!Packet(s).trace = Fault!Numbered(h.trace)
      /\ Fault!Packet(s).injections = Fault!Numbered(h.consumed)
      /\ Fault!Packet(s).mutations = Fault!Numbered(h.mutations)
      /\ {"scenario", "trace", "injections", "mutations", "events"}
           \subseteq DOMAIN Fault!Packet(s)
  BY DEF Fault!Packet
<1>4. QED BY <1>2, <1>3

LEMMA StalePacket ==
  /\ Fault!StaleMeterPacket.scenario = "stale_meter"
  /\ IsSequence(Fault!StaleMeterPacket.trace) /\ Len(Fault!StaleMeterPacket.trace) = 2
  /\ Fault!StaleMeterPacket.trace[2].type = "eligibility_decision"
  /\ Fault!StaleMeterPacket.mutations = <<>>
  /\ {"scenario", "trace", "mutations"} \subseteq DOMAIN Fault!StaleMeterPacket
  /\ "injections" \notin DOMAIN Fault!StaleMeterPacket
<1> DEFINE m == [Fault!GoodReading EXCEPT !.age = 5001, !.latency = 50]
           reasons == Fault!MeterReasons(m)
           first == [type |-> "meter_observation", age |-> m.age]
           second == [type |-> "eligibility_decision", eligible |-> reasons = {},
                      reasons |-> reasons,
                      next |-> IF reasons = {} THEN "AUTOMATIC" ELSE "SAFE_HOLD",
                      actuations |-> IF reasons = {} THEN 1 ELSE 0]
<1>1. /\ Fault!StaleMeterPacket.scenario = "stale_meter"
      /\ Fault!StaleMeterPacket.trace = <<first, second>>
      /\ Fault!StaleMeterPacket.mutations = <<>>
      /\ {"scenario", "trace", "mutations"} \subseteq DOMAIN Fault!StaleMeterPacket
      /\ "injections" \notin DOMAIN Fault!StaleMeterPacket
  <2> HIDE DEF m
  <2> QED BY DEF Fault!StaleMeterPacket, m
<1>2. second.type = "eligibility_decision"
  OBVIOUS
<1> HIDE DEF first, second
<1>3. <<first, second>> \in Seq({first, second}) /\ Len(<<first, second>>) = 2
      /\ <<first, second>>[2] = second
  OBVIOUS
<1>4. QED BY <1>1, <1>2, <1>3 DEF IsSequence

(***************************************************************************)
(* A ledger whose rows were lost, repeated or swapped, and thereby became  *)
(* another, is refused: the trace by its signature and its numbers, the    *)
(* injections and the mutations by their length.                           *)
(***************************************************************************)
LEMMA AlteredFaultRefused ==
  ASSUME NEW s, s # "stale_meter", NEW f, WellFormed(f), f.scenario = s,
         IsSequence(f.trace), IsSequence(f.injections), IsSequence(f.mutations),
         {"scenario", "trace", "injections", "mutations", "events"} \subseteq DOMAIN f,
         NEW l \in {"trace", "injections", "mutations"}, NEW how \in Alterations,
         Rows(f[l], how) # f[l]
  PROVE  Refused([f EXCEPT ![l] = Rows(f[l], how)], s)
<1> DEFINE g == Rows(f[l], how)
           p == [f EXCEPT ![l] = g]
<1>1. /\ IsSequence(f[l]) /\ IsSequence(g) /\ Len(f[l]) \in Nat /\ Len(g) \in Nat
      /\ \/ Len(g) = Len(f[l]) - 1
         \/ Len(g) = Len(f[l]) + 1
         \/ Len(g) = Len(f[l]) /\ Len(f[l]) > 1 /\ g[1] = f[l][2]
  <2>1. IsSequence(f[l])
    BY Zenon
  <2>2. QED BY <2>1, AlteredRows
<1> HIDE DEF g
<1>2. p[l] = g /\ p.scenario = s
  OBVIOUS
<1> HIDE DEF p
<1> SUFFICES ASSUME WellFormed(p)
             PROVE  FALSE
  BY DEF Refused, p, g
<1>3. CASE l = "trace"
  <2>1. Signed(p) = Signed(f)
    BY <1>2 DEF WellFormed
  <2>2. DOMAIN Signed(p) = 1..Len(g) /\ DOMAIN Signed(f) = 1..Len(f.trace)
    BY <1>2, <1>3 DEF Signed
  <2>3. \A m, n \in Nat : 1..m = 1..n => m = n
    <3> SUFFICES ASSUME NEW m \in Nat, NEW n \in Nat, 1..m = 1..n, m # n
                 PROVE  FALSE
      OBVIOUS
    <3>1. CASE m < n
      <4>1. n \in 1..n /\ n \notin 1..m
        BY <3>1
      <4>2. QED BY <4>1
    <3>2. CASE n < m
      <4>1. m \in 1..m /\ m \notin 1..n
        BY <3>2
      <4>2. QED BY <4>1
    <3>3. QED BY <3>1, <3>2
  <2>4. 1..Len(g) = 1..Len(f.trace)
    BY <2>1, <2>2
  <2>5. Len(g) = Len(f.trace)
    BY <1>1, <1>3, <2>3, <2>4
  <2>6. Len(f.trace) > 1 /\ g[1] = f.trace[2]
    BY <1>1, <1>3, <2>5
  <2>7. f.trace[2].sequence = 1
    <3>1. 2 \in 1..Len(f.trace)
      BY <1>1, <1>3, <2>6
    <3>2. f.trace[2].sequence = 2 - 1
      BY <3>1 DEF WellFormed, Contiguous
    <3>3. QED BY <3>2
  <2>8. g[1].sequence = 0
    <3>1. 1 \in 1..Len(p.trace)
      BY <1>1, <1>2, <1>3, <2>5, <2>6
    <3>2. p.trace[1].sequence = 1 - 1
      BY <3>1 DEF WellFormed, Contiguous
    <3>3. QED BY <1>2, <1>3, <3>2
  <2>9. QED BY <2>6, <2>7, <2>8
<1>4. CASE l = "injections"
  <2>1. Len(g) = 1 /\ Len(f[l]) = 1
    BY <1>2, <1>4 DEF WellFormed
  <2>2. QED BY <1>1, <2>1
<1>5. CASE l = "mutations"
  <2>1. Len(g) = MutationsAllowed(s) /\ Len(f[l]) = MutationsAllowed(s)
    BY <1>2, <1>5 DEF WellFormed
  <2>2. MutationsAllowed(s) \in {0, 1}
    BY DEF MutationsAllowed
  <2>3. QED BY <1>1, <2>1, <2>2
<1>6. QED BY <1>3, <1>4, <1>5

LEMMA AlteredStaleRefused ==
  ASSUME NEW l \in {"trace", "mutations"}, NEW how \in Alterations,
         Rows(Fault!StaleMeterPacket[l], how) # Fault!StaleMeterPacket[l]
  PROVE  Refused([Fault!StaleMeterPacket EXCEPT ![l] = Rows(Fault!StaleMeterPacket[l], how)],
                 "stale_meter")
<1> DEFINE f == Fault!StaleMeterPacket
           g == Rows(f[l], how)
           p == [f EXCEPT ![l] = g]
<1>1. /\ IsSequence(f.trace) /\ Len(f.trace) = 2 /\ f.trace[2].type = "eligibility_decision"
      /\ f.mutations = <<>> /\ {"scenario", "trace", "mutations"} \subseteq DOMAIN f
  BY StalePacket
<1> HIDE DEF f
<1>2. CASE l = "mutations"
  <2>1. f[l] = <<>>
    BY <1>1, <1>2
  <2>2. Len(<<>>) = 0 /\ IsSequence(<<>>)
    BY <<>> \in Seq({}) DEF IsSequence
  <2>3. Rows(<<>>, how) = <<>>
    <3> SUFFICES ASSUME Rows(<<>>, how) # <<>>
                 PROVE  FALSE
      OBVIOUS
    <3> QED BY <2>2, AlteredRows
  <2>4. QED BY <2>1, <2>3 DEF f
<1>3. CASE l = "trace"
  <2>1. \/ Len(g) = Len(f[l]) - 1
        \/ Len(g) = Len(f[l]) + 1
        \/ Len(g) = Len(f[l]) /\ g[1] = f[l][2]
    <3>1. IsSequence(f[l]) /\ Rows(f[l], how) # f[l]
      BY <1>1, <1>3 DEF f
    <3>2. QED BY <3>1, AlteredRows
  <2> HIDE DEF g
  <2>2. p[l] = g
    BY <1>1, <1>3
  <2> HIDE DEF p
  <2>3. Len(g) = 2 => g[1].type = "eligibility_decision"
    <3>1. f[l] = f.trace
      BY <1>3
    <3>2. Len(f[l]) = 2
      BY <1>1, <3>1
    <3>3. Len(g) = 2 => g[1] = f[l][2]
      BY <2>1, <3>2
    <3>4. QED BY <1>1, <3>1, <3>3
  <2>4. ~StaleWellFormed(p)
    BY <1>3, <2>2, <2>3 DEF StaleWellFormed
  <2>5. Refused(p, "stale_meter")
    BY <2>4 DEF Refused
  <2>6. QED BY <2>5 DEF p, g, f
<1>4. QED BY <1>2, <1>3

LEMMA AlteredRefused ==
  ASSUME Producible, NEW s \in RequiredScenarios, NEW r \in RawFiles, r.of = s,
         r.how # "kept", r.ledger # "events", r.ledger \in DOMAIN Fault!Produced[s],
         Rows(Fault!Produced[s][r.ledger], r.how) # Fault!Produced[s][r.ledger]
  PROVE  Refused(Content(r), s)
<1> DEFINE f == Fault!Produced[s]
           l == r.ledger
<1>1. Content(r) = [f EXCEPT ![l] = Rows(f[l], r.how)]
  BY DEF Content
<1>2. r.how \in Alterations /\ l \in {"trace", "injections", "mutations"}
  BY DEF RawFiles, Ledgers
<1>3. ~Refused(f, s)
  BY DEF Producible
<1>4. CASE s # "stale_meter"
  <2>1. f = Fault!Packet(s)
    BY <1>4, ProducedPackets
  <2>2. f.scenario = s /\ WellFormed(f)
    BY <1>3, <1>4 DEF Refused
  <2>3. /\ IsSequence(f.trace) /\ IsSequence(f.injections) /\ IsSequence(f.mutations)
        /\ {"scenario", "trace", "injections", "mutations", "events"} \subseteq DOMAIN f
    BY <2>1, FaultPacket, Zenon
  <2> HIDE DEF f, l
  <2>4. Rows(f[l], r.how) # f[l]
    BY DEF f, l
  <2>5. Refused([f EXCEPT ![l] = Rows(f[l], r.how)], s)
    BY <1>2, <1>4, <2>2, <2>3, <2>4, AlteredFaultRefused
  <2>6. QED BY <1>1, <2>5
<1>5. CASE s = "stale_meter"
  <2>1. f = Fault!StaleMeterPacket
    BY <1>5, ProducedPackets
  <2>2. l \in {"trace", "mutations"}
    BY <1>2, <2>1, StalePacket
  <2> HIDE DEF f, l
  <2>3. Rows(f[l], r.how) # f[l]
    BY DEF f, l
  <2>4. Refused([f EXCEPT ![l] = Rows(f[l], r.how)], "stale_meter")
    BY <1>2, <2>1, <2>2, <2>3, AlteredStaleRefused
  <2>5. QED BY <1>1, <1>5, <2>4
<1>6. QED BY <1>4, <1>5

\* A raw file names the scenario it is of, altered or not.
LEMMA ContentNamed ==
  ASSUME Producible, NEW r \in RawFiles
  PROVE  Content(r).scenario = r.of
<1>1. r.of \in RequiredScenarios /\ r.ledger # "scenario"
  BY DEF RawFiles, Ledgers
<1>2. Fault!Produced[r.of].scenario = r.of /\ "scenario" \in DOMAIN Fault!Produced[r.of]
  BY <1>1, ProducedPackets, FaultPacket, StalePacket
<1>3. QED BY <1>1, <1>2 DEF Content

(***************************************************************************)
(* The digests aside, the verifier by itself turns down a raw file of      *)
(* another scenario and one with an altered trace, injection or mutation   *)
(* ledger, in whatever packet a call, a crash or damage leaves behind.     *)
(***************************************************************************)
THEOREM AlteredAreRefused == Producible => (Spec => []IndependentlyRefused)
<1> SUFFICES ASSUME Producible
             PROVE  Spec => []IndependentlyRefused
  OBVIOUS
<1>1. ReleaseInv => IndependentlyRefused
  <2> SUFFICES ASSUME ReleaseInv, NEW s \in RequiredScenarios, Written(raw[s]),
                      NEW l \in Ledgers \ {"events"},
                      ~(/\ raw[s].of = s
                        /\ l \in DOMAIN Content(raw[s]) =>
                             Content(raw[s])[l] = Fault!Produced[s][l])
               PROVE  Refused(Content(raw[s]), s)
    BY DEF IndependentlyRefused
  <2> DEFINE r == raw[s]
  <2>1. r \in RawFiles
    BY DEF ReleaseInv, ReleaseTypeOK, Written
  <2> HIDE DEF r
  <2>2. CASE r.of # s
    BY <2>1, <2>2, ContentNamed DEF Refused, r
  <2>3. CASE r.of = s
    <3>1. l \in DOMAIN Content(r) /\ Content(r)[l] # Fault!Produced[s][l]
      BY <2>3 DEF r
    <3>2. r.how # "kept"
      BY <2>3, <3>1 DEF Content
    <3>3. Content(r) = [Fault!Produced[s] EXCEPT
                          ![r.ledger] = Rows(Fault!Produced[s][r.ledger], r.how)]
      BY <2>3, <3>2 DEF Content
    <3>4. DOMAIN Content(r) = DOMAIN Fault!Produced[s]
      BY <3>3
    <3>5. l = r.ledger /\ Rows(Fault!Produced[s][l], r.how) # Fault!Produced[s][l]
      BY <3>1, <3>3, <3>4
    <3>6. Refused(Content(r), s)
      BY <2>1, <2>3, <3>1, <3>2, <3>4, <3>5, AlteredRefused
    <3>7. QED BY <3>6 DEF r
  <2>4. QED BY <2>2, <2>3
<1>2. QED BY <1>1, ReleaseInvariance, PTL DEF Spec
=============================================================================
