----------------------- MODULE ConcurrentTrialsProofs -----------------------
(***************************************************************************)
(* Proofs about ConcurrentTrials, for any number of launches, directories, *)
(* approvals and caps.  The argument: the exclusive creations (`samples',  *)
(* the claim file) elect one launch per directory and one per nonce; the   *)
(* flock then makes that launch and the supervisors of its directory       *)
(* exclude each other, so a journal stays open under a cap; and whoever    *)
(* closes a journal has seen the original limit since it was last moved    *)
(* from under another open one.                                            *)
(***************************************************************************)
EXTENDS ConcurrentTrials, TLAPS

\* A nonce is spent by the one claimant whose file it is.
ClaimsOK ==
    /\ \A n \in Nonces : spent[n] <= 1 /\ (spent[n] = 1 => claim[n] = "kept")
    /\ \A t \in Launches : pc[t] = "claiming" =>
          claim[nonce[t]] = "created" /\ spent[nonce[t]] = 0
    /\ \A t, u \in Launches : t # u /\ nonce[t] = nonce[u] =>
          ~(pc[t] = "claiming" /\ pc[u] = "claiming")

\* A directory that a launch began in has its samples, and is its alone.
DirectoriesOK ==
    /\ \A t \in Launches : Begun(t) => dir[t] \in samples
    /\ OneTrialPerDirectory

\* The flock of a directory has one holder.
LocksOK ==
    /\ \A t, u \in Launches : dir[t] = dir[u] => ~(pc[t] \in Holding /\ sup[u] \in Reconciling)
    /\ \A t, u \in Launches : t # u /\ dir[t] = dir[u] =>
          ~(sup[t] \in Reconciling /\ sup[u] \in Reconciling)

\* The stages of a controller before its journal, and before any closure.
Unjournaled == {"locked", "matching", "ready"}
StillOpen == {"journaled"} \cup (Capping \ {"restoring", "rewritten"})

JournalsOK ==
    \A t \in Launches :
        /\ pc[t] \in Holding \ Unjournaled => journal[dir[t]] # "absent"
        /\ pc[t] \in StillOpen => journal[dir[t]] = "open"

\* Nobody of directory d is about to close its journal.
NobodyCloses(d) ==
    \A t \in Launches : dir[t] = d => pc[t] # "closing" /\ sup[t] # "closing"

OwedOK ==
    limit # Original => \E d \in Directories : journal[d] = "open" /\ NobodyCloses(d)

TrialsInv ==
    /\ ConcurrentTypeOK
    /\ ClaimsOK
    /\ DirectoriesOK
    /\ LocksOK
    /\ JournalsOK
    /\ OwedOK
    /\ CapKeptWithinDirectory

(***************************************************************************)
(* What a step of launch t may do to what the parts above relate.          *)
(***************************************************************************)
OthersStay(t) ==
    /\ UNCHANGED settings
    /\ \A u \in Launches \ {t} : pc'[u] = pc[u] /\ sup'[u] = sup[u]

\* Only an exclusive creation begins a trial or makes a claimant.
BeginsAlone(t) ==
    /\ samples \subseteq samples'
    /\ Begun(t)' => Begun(t) \/ dir[t] \in samples' \ samples
    /\ \/ Claim(t)
       \/ Claimed(t)
       \/ UNCHANGED claimVars /\ (pc'[t] = "claiming" => pc[t] = "claiming")

LocksAlone(t) ==
    /\ pc'[t] \in Holding /\ pc[t] \notin Holding => ~Locked(dir[t]) /\ sup' = sup
    /\ sup'[t] \in Reconciling /\ sup[t] \notin Reconciling => ~Locked(dir[t]) /\ pc' = pc

Closing(t) == pc[t] = "closing" \/ sup[t] = "closing"

WritesOwnJournal(t) ==
    /\ \A d \in Directories : \/ journal'[d] = journal[d]
                              \/ d = dir[t] /\ journal'[d] = "open"
                              \/ d = dir[t] /\ Closing(t) /\ journal'[d] # "absent"
    /\ pc'[t] \in Holding \ Unjournaled =>
          pc[t] \in Holding \ Unjournaled \/ journal'[dir[t]] = "open"
    /\ pc'[t] \in StillOpen =>
          (pc[t] \in StillOpen /\ journal' = journal) \/ journal'[dir[t]] = "open"

MovesLimit(t) ==
    /\ \/ limit' = limit
       \/ limit' = Original /\ pc[t] \in Holding \ Unjournaled
       \/ limit' = Original /\ sup[t] \in Reconciling /\ journal[dir[t]] = "open"
       \/ /\ limit' = Target[nonce[t]] /\ pc[t] = "screened" /\ pc'[t] = "written"
          /\ UNCHANGED <<sup, journal>>
    /\ Closing(t)' /\ ~Closing(t) => limit' = Original
    /\ Closing(t)' /\ Closing(t) => UNCHANGED <<limit, journal>>
    /\ pc'[t] = "capped" => (pc[t] = "capped" /\ limit' = limit) \/ limit' = Target[nonce[t]]

StepOf(t) ==
    OthersStay(t) /\ BeginsAlone(t) /\ LocksAlone(t) /\ WritesOwnJournal(t) /\ MovesLimit(t)

-----------------------------------------------------------------------------
(* Types.                                                                  *)

LEMMA TrialsInit == Init => TrialsInv
<1> SUFFICES ASSUME Init PROVE TrialsInv
  OBVIOUS
<1> USE DEF Init, ClaimInit
<1>1. ConcurrentTypeOK
  BY DEF ConcurrentTypeOK, ClaimTypeOK, Stages, Gone, SupStages, Watts
<1>2. \A t \in Launches : ~Begun(t) /\ pc[t] \notin Holding /\ sup[t] \notin Reconciling
  BY DEF Begun, Holding, Reconciling
<1>3. ClaimsOK
  BY DEF ClaimsOK
<1>4. DirectoriesOK /\ LocksOK /\ JournalsOK
  BY <1>2 DEF DirectoriesOK, OneTrialPerDirectory, LocksOK, JournalsOK, StillOpen, Capping
<1>5. OwedOK /\ CapKeptWithinDirectory
  BY DEF OwedOK, CapKeptWithinDirectory
<1> QED
  BY <1>1, <1>3, <1>4, <1>5 DEF TrialsInv

\* The controller's steps keep the types.
LEMMA ControllerTypes ==
    ASSUME ConcurrentTypeOK, NEW t \in Launches, Controller(t)
    PROVE  ConcurrentTypeOK'
<1> USE DEF ConcurrentTypeOK, Stages, Gone, Holding, Watts, settings, sharedVars, contents, Goto
<1> USE DEF claimVars, ClaimTypeOK, RestoreFails
<1>0. CASE FindEmpty(t)
  BY <1>0 DEF FindEmpty
<1>1. CASE Prepare(t)
  BY <1>1 DEF Prepare
<1>2. CASE Claim(t)
  BY <1>2 DEF Claim, ClaimCreated
<1>3. CASE Claimed(t)
  BY <1>3 DEF Claimed, ClaimKept
<1>4. CASE AcquireLock(t)
  BY <1>4 DEF AcquireLock
<1>5. CASE Preflight(t)
  BY <1>5 DEF Preflight
<1>6. CASE Match(t)
  BY <1>6 DEF Match
<1>7. CASE Leave(t)
  BY <1>7 DEF Leave
<1>8. CASE CreateJournal(t)
  BY <1>8 DEF CreateJournal
<1>9. CASE Screen(t)
  BY <1>9 DEF Screen
<1>10. CASE CapWrite(t)
  BY <1>10, LaunchAssumption DEF CapWrite
<1>11. CASE CapReadback(t)
  BY <1>11 DEF CapReadback
<1>12. CASE Measured(t)
  BY <1>12 DEF Measured
<1>13. CASE CapFails(t)
  BY <1>13 DEF CapFails
<1>14. CASE UntriedCheck(t)
  BY <1>14 DEF UntriedCheck
<1>15. CASE RestoreWrite(t)
  BY <1>15 DEF RestoreWrite
<1>16. CASE RestoreExact(t)
  BY <1>16 DEF RestoreExact
<1>17. CASE Close(t)
  BY <1>17 DEF Close
<1> QED
  BY <1>0, <1>1, <1>2, <1>3, <1>4, <1>5, <1>6, <1>7, <1>8, <1>9, <1>10, <1>11, <1>12,
     <1>13, <1>14, <1>15, <1>16, <1>17 DEF Controller

\* So do the supervisor's ...
LEMMA SupervisorTypes ==
    ASSUME ConcurrentTypeOK, NEW t \in Launches, Supervisor(t)
    PROVE  ConcurrentTypeOK'
<1> USE DEF ConcurrentTypeOK, SupStages, Reconciling, Watts, settings, sharedVars, contents, SupGoto
<1> USE DEF claimVars, ClaimTypeOK, SupEnds
<1>1. CASE Launch(t)
  BY <1>1 DEF Launch, Goto, Stages
<1>2. CASE ReadJournal(t)
  <2>1. \/ evidence' = evidence /\ sup' = [sup EXCEPT ![t] = "opened"]
        \/ evidence' \in {evidence, evidence \cup {dir[t]}} /\ sup' = [sup EXCEPT ![t] = "over"]
    BY <1>2 DEF ReadJournal
  <2>2. UNCHANGED <<dir, nonce, pc, turn, captured, limit, samples, journal, intent, key, claim, spent>>
    BY <1>2 DEF ReadJournal
  <2>3. evidence' \subseteq Directories /\ sup' \in [Launches -> SupStages]
    BY <2>1
  <2> QED
    BY <2>2, <2>3
<1>3. CASE ReconcileLock(t)
  BY <1>3 DEF ReconcileLock
<1>4. CASE Observe(t)
  BY <1>4 DEF Observe
<1>5. CASE Broker(t)
  BY <1>5 DEF Broker
<1>6. CASE Reobserve(t)
  BY <1>6 DEF Reobserve
<1>7. CASE ReconcileClose(t)
  BY <1>7 DEF ReconcileClose
<1>8. CASE SupervisorFails(t)
  BY <1>8 DEF SupervisorFails
<1>9. CASE AttendedSession(t)
  BY <1>9 DEF AttendedSession
<1> QED
  BY <1>1, <1>2, <1>3, <1>4, <1>5, <1>6, <1>7, <1>8, <1>9 DEF Supervisor

\* ... and the failures and the initialization of the authority.
LEMMA OtherTypes ==
    ASSUME ConcurrentTypeOK,
           Initialize \/ PowerLoss \/ (\E t \in Launches : Dies(t) \/ SupervisorDies(t))
    PROVE  ConcurrentTypeOK'
<1> USE DEF ConcurrentTypeOK, settings, sharedVars, contents, launchVars, claimVars, ClaimTypeOK
<1>1. CASE Initialize
  BY <1>1 DEF Initialize, KeyCreated, KeyWritten
<1>2. CASE PowerLoss
  <2>1. key' \in {"absent", "partial", "whole"} /\ spent' = spent
    BY <1>2 DEF PowerLoss, ClaimsLost
  <2>2. PICK gone \in SUBSET {n \in Nonces : claim[n] = "created"} :
            claim' = [n \in Nonces |-> IF n \in gone THEN "absent" ELSE claim[n]]
    BY <1>2 DEF PowerLoss, ClaimsLost
  <2>3. claim' \in [Nonces -> {"absent", "created", "kept"}]
    BY <2>2
  <2>4. pc' \in [Launches -> Stages] /\ sup' \in [Launches -> SupStages] /\ limit' \in Watts
    BY <1>2 DEF PowerLoss, Stages, Gone, SupStages, Watts
  <2> QED
    BY <1>2, <2>1, <2>3, <2>4 DEF PowerLoss
<1>3. ASSUME NEW t \in Launches, Dies(t) \/ SupervisorDies(t)
      PROVE  ConcurrentTypeOK'
  BY <1>3 DEF Dies, SupervisorDies, Goto, SupGoto, Stages, Gone, SupStages
<1> QED
  BY <1>1, <1>2, <1>3

-----------------------------------------------------------------------------
(* Every action of a launch is such a step.                                *)

LEMMA ControllerSteps ==
    ASSUME ConcurrentTypeOK, LocksOK, NEW t \in Launches, Controller(t)
    PROVE  StepOf(t)
<1>1. /\ DOMAIN pc = Launches /\ DOMAIN sup = Launches /\ DOMAIN journal = Directories
      /\ dir[t] \in Directories
      /\ ~(pc[t] \in Holding /\ sup[t] \in Reconciling)
  BY DEF ConcurrentTypeOK, LocksOK
<1> USE <1>1 DEF StepOf, OthersStay, BeginsAlone, LocksAlone, WritesOwnJournal, MovesLimit
<1> USE DEF Closing, Begun, Holding, Unjournaled, StillOpen, Capping, Reconciling
<1> USE DEF settings, sharedVars, contents, Goto, RestoreFails
<1>0. CASE FindEmpty(t)
  BY <1>0 DEF FindEmpty
<1>2. CASE Prepare(t)
  BY <1>2 DEF Prepare
<1>3. CASE Claim(t)
  BY <1>3 DEF Claim
<1>4. CASE Claimed(t)
  BY <1>4 DEF Claimed
<1>5. CASE AcquireLock(t)
  BY <1>5 DEF AcquireLock
<1>6. CASE Preflight(t)
  BY <1>6 DEF Preflight
<1>7. CASE Match(t)
  BY <1>7 DEF Match
<1>8. CASE Leave(t)
  BY <1>8 DEF Leave
<1>9. CASE CreateJournal(t)
  BY <1>9 DEF CreateJournal
<1>10. CASE Screen(t)
  BY <1>10 DEF Screen
<1>11. CASE CapWrite(t)
  BY <1>11 DEF CapWrite
<1>12. CASE CapReadback(t)
  BY <1>12 DEF CapReadback
<1>13. CASE Measured(t)
  BY <1>13 DEF Measured
<1>14. CASE CapFails(t)
  BY <1>14 DEF CapFails
<1>15. CASE UntriedCheck(t)
  BY <1>15 DEF UntriedCheck
<1>16. CASE RestoreWrite(t)
  BY <1>16 DEF RestoreWrite
<1>17. CASE RestoreExact(t)
  BY <1>17 DEF RestoreExact
<1>18. CASE Close(t)
  BY <1>18 DEF Close
<1> QED
  BY <1>0, <1>2, <1>3, <1>4, <1>5, <1>6, <1>7, <1>8, <1>9, <1>10, <1>11, <1>12, <1>13,
     <1>14, <1>15, <1>16, <1>17, <1>18 DEF Controller

LEMMA SupervisorSteps ==
    ASSUME ConcurrentTypeOK, LocksOK, NEW t \in Launches,
           Supervisor(t) \/ Dies(t) \/ SupervisorDies(t)
    PROVE  StepOf(t)
<1>1. /\ DOMAIN pc = Launches /\ DOMAIN sup = Launches /\ DOMAIN journal = Directories
      /\ dir[t] \in Directories
      /\ ~(pc[t] \in Holding /\ sup[t] \in Reconciling)
  BY DEF ConcurrentTypeOK, LocksOK
<1> USE <1>1 DEF StepOf, OthersStay, BeginsAlone, LocksAlone, WritesOwnJournal, MovesLimit
<1> USE DEF Closing, Begun, Holding, Unjournaled, StillOpen, Capping, Reconciling, Gone
<1> USE DEF settings, sharedVars, contents, Goto, SupGoto, SupEnds
<1>2. CASE Launch(t)
  BY <1>2 DEF Launch
<1>3. CASE ReadJournal(t)
  BY <1>3 DEF ReadJournal
<1>4. CASE ReconcileLock(t)
  BY <1>4 DEF ReconcileLock
<1>5. CASE Observe(t)
  BY <1>5 DEF Observe
<1>6. CASE Broker(t)
  BY <1>6 DEF Broker
<1>7. CASE Reobserve(t)
  BY <1>7 DEF Reobserve
<1>8. CASE ReconcileClose(t)
  BY <1>8 DEF ReconcileClose
<1>9. CASE SupervisorFails(t)
  BY <1>9 DEF SupervisorFails
<1>10. CASE AttendedSession(t)
  BY <1>10 DEF AttendedSession
<1>11. CASE Dies(t)
  BY <1>11 DEF Dies
<1>12. CASE SupervisorDies(t)
  BY <1>12 DEF SupervisorDies
<1> QED
  BY <1>2, <1>3, <1>4, <1>5, <1>6, <1>7, <1>8, <1>9, <1>10, <1>11, <1>12 DEF Supervisor

-----------------------------------------------------------------------------
(* Such a step keeps the invariant.                                        *)

\* One claimant per nonce, and one use.
LEMMA StepClaims ==
    ASSUME TrialsInv, NEW t \in Launches, StepOf(t)
    PROVE  ClaimsOK'
<1>1. /\ dir' = dir /\ nonce' = nonce /\ nonce[t] \in Nonces
      /\ \A u \in Launches \ {t} : pc'[u] = pc[u]
      /\ claim \in [Nonces -> {"absent", "created", "kept"}] /\ spent \in [Nonces -> Nat]
      /\ DOMAIN pc = Launches
      /\ \A u \in Launches : nonce[u] \in Nonces
  BY DEF StepOf, OthersStay, settings, TrialsInv, ConcurrentTypeOK, ClaimTypeOK
<1>2. ClaimsOK
  BY DEF TrialsInv
<1>3. CASE Claim(t)
  <2>1. /\ pc'[t] = "claiming" /\ claim[nonce[t]] = "absent" /\ spent' = spent
        /\ claim'[nonce[t]] = "created"
        /\ \A n \in Nonces \ {nonce[t]} : claim'[n] = claim[n]
    BY <1>1, <1>3 DEF Claim, ClaimCreated, Goto
  <2>2. spent[nonce[t]] = 0
    BY <1>1, <1>2, <2>1 DEF ClaimsOK
  <2>3. \A u \in Launches : pc[u] = "claiming" => nonce[u] # nonce[t]
    BY <1>2, <2>1 DEF ClaimsOK
  <2>4. \A n \in Nonces : spent'[n] <= 1 /\ (spent'[n] = 1 => claim'[n] = "kept")
    BY <1>1, <1>2, <2>1, <2>2 DEF ClaimsOK
  <2>5. \A u \in Launches : pc'[u] = "claiming" =>
            claim'[nonce[u]] = "created" /\ spent'[nonce[u]] = 0
    BY <1>1, <1>2, <2>1, <2>2, <2>3 DEF ClaimsOK
  <2>6. \A u, v \in Launches : u # v /\ nonce[u] = nonce[v] =>
            ~(pc'[u] = "claiming" /\ pc'[v] = "claiming")
    BY <1>1, <1>2, <2>3 DEF ClaimsOK
  <2> QED
    BY <1>1, <2>4, <2>5, <2>6 DEF ClaimsOK
<1>4. CASE Claimed(t)
  <2>1. /\ pc[t] = "claiming" /\ pc'[t] = "claimed"
        /\ claim'[nonce[t]] = "kept" /\ spent'[nonce[t]] = spent[nonce[t]] + 1
        /\ \A n \in Nonces \ {nonce[t]} : claim'[n] = claim[n] /\ spent'[n] = spent[n]
    BY <1>1, <1>4 DEF Claimed, ClaimKept, Goto
  <2>2. spent[nonce[t]] = 0 /\ \A u \in Launches \ {t} : pc[u] = "claiming" => nonce[u] # nonce[t]
    BY <1>2, <2>1 DEF ClaimsOK
  <2>3. \A n \in Nonces : spent'[n] <= 1 /\ (spent'[n] = 1 => claim'[n] = "kept")
    BY <1>1, <1>2, <2>1, <2>2 DEF ClaimsOK
  <2>4. \A u \in Launches : pc'[u] = "claiming" =>
            claim'[nonce[u]] = "created" /\ spent'[nonce[u]] = 0
    BY <1>1, <1>2, <2>1, <2>2 DEF ClaimsOK
  <2>5. \A u \in Launches : pc'[u] = "claiming" => pc[u] = "claiming"
    BY <1>1, <2>1
  <2> QED
    BY <1>1, <1>2, <2>3, <2>4, <2>5 DEF ClaimsOK
<1>5. CASE UNCHANGED claimVars /\ (pc'[t] = "claiming" => pc[t] = "claiming")
  <2>1. \A u \in Launches : pc'[u] = "claiming" => pc[u] = "claiming"
    BY <1>1, <1>5
  <2> QED
    BY <1>1, <1>2, <1>5, <2>1 DEF ClaimsOK, claimVars
<1> QED
  BY <1>3, <1>4, <1>5 DEF StepOf, BeginsAlone

\* One trial per directory, and one holder of its flock.
LEMMA StepDirectories ==
    ASSUME TrialsInv, NEW t \in Launches, StepOf(t)
    PROVE  DirectoriesOK'
<1>1. /\ dir' = dir /\ samples \subseteq samples'
      /\ \A u \in Launches \ {t} : Begun(u)' <=> Begun(u)
      /\ Begun(t)' => Begun(t) \/ dir[t] \in samples' \ samples
  BY DEF StepOf, OthersStay, BeginsAlone, settings, Begun
<1>2. /\ \A u \in Launches : Begun(u) => dir[u] \in samples
      /\ \A u, v \in Launches : u # v /\ dir[u] = dir[v] => ~(Begun(u) /\ Begun(v))
  BY DEF TrialsInv, DirectoriesOK, OneTrialPerDirectory
<1>3. \A u \in Launches : Begun(u)' => dir'[u] \in samples'
  BY <1>1, <1>2
<1>4. ASSUME NEW u \in Launches, NEW v \in Launches, u # v, dir[u] = dir[v],
             Begun(u)', Begun(v)'
      PROVE  FALSE
  <2>1. CASE u = t
    BY <1>1, <1>2, <1>4, <2>1
  <2>2. CASE v = t
    BY <1>1, <1>2, <1>4, <2>2
  <2>3. CASE u # t /\ v # t
    BY <1>1, <1>2, <1>4, <2>3
  <2> QED
    BY <2>1, <2>2, <2>3
<1>5. OneTrialPerDirectory'
  BY <1>1, <1>4 DEF OneTrialPerDirectory
<1> QED
  BY <1>3, <1>5 DEF DirectoriesOK

LEMMA StepLocks ==
    ASSUME TrialsInv, NEW t \in Launches, StepOf(t)
    PROVE  LocksOK'
<1>1. /\ dir' = dir
      /\ \A u \in Launches \ {t} : pc'[u] = pc[u] /\ sup'[u] = sup[u]
      /\ pc'[t] \in Holding /\ pc[t] \notin Holding => ~Locked(dir[t]) /\ sup' = sup
      /\ sup'[t] \in Reconciling /\ sup[t] \notin Reconciling => ~Locked(dir[t]) /\ pc' = pc
  BY DEF StepOf, OthersStay, LocksAlone, settings
<1>2. LocksOK
  BY DEF TrialsInv
<1>3. ASSUME ~Locked(dir[t]), NEW u \in Launches, dir[u] = dir[t]
      PROVE  pc[u] \notin Holding /\ sup[u] \notin Reconciling
  BY <1>3 DEF Locked
<1>4. ASSUME NEW u \in Launches, NEW v \in Launches, dir[u] = dir[v],
             pc'[u] \in Holding, sup'[v] \in Reconciling
      PROVE  FALSE
  BY <1>1, <1>2, <1>3, <1>4 DEF LocksOK
<1>5. ASSUME NEW u \in Launches, NEW v \in Launches, u # v, dir[u] = dir[v],
             sup'[u] \in Reconciling, sup'[v] \in Reconciling
      PROVE  FALSE
  BY <1>1, <1>2, <1>3, <1>5 DEF LocksOK
<1> QED
  BY <1>1, <1>4, <1>5 DEF LocksOK

\* Nobody of t's directory but t is in a stage that holds the flock when t is.
LEMMA Excluded ==
    ASSUME TrialsInv, NEW t \in Launches, NEW u \in Launches, u # t, dir[u] = dir[t],
           pc[t] \in Holding \/ sup[t] \in Reconciling
    PROVE  pc[u] \notin Holding /\ sup[u] \notin Reconciling
  BY DEF TrialsInv, LocksOK, DirectoriesOK, OneTrialPerDirectory, Begun

LEMMA ClosingHolds ==
    ASSUME NEW t \in Launches
    PROVE  Closing(t) => pc[t] \in Holding \/ sup[t] \in Reconciling
  BY DEF Closing, Holding, Reconciling

LEMMA StepJournals ==
    ASSUME TrialsInv, NEW t \in Launches, StepOf(t)
    PROVE  JournalsOK'
<1>1. /\ dir' = dir
      /\ \A u \in Launches \ {t} : pc'[u] = pc[u]
      /\ \A u \in Launches : dir[u] \in Directories
  BY DEF StepOf, OthersStay, settings, TrialsInv, ConcurrentTypeOK
<1>2. WritesOwnJournal(t) /\ JournalsOK
  BY DEF StepOf, TrialsInv
<1>3. \A d \in Directories : journal[d] # "absent" => journal'[d] # "absent"
  BY <1>2 DEF WritesOwnJournal
<1>4. ASSUME NEW u \in Launches
      PROVE  /\ pc'[u] \in Holding \ Unjournaled => journal'[dir[u]] # "absent"
             /\ pc'[u] \in StillOpen => journal'[dir[u]] = "open"
  <2>1. CASE u = t
    BY <1>1, <1>2, <1>3, <2>1 DEF JournalsOK, WritesOwnJournal
  <2>2. CASE u # t
    <3>1. pc[u] \in StillOpen => pc[u] \in Holding
      BY DEF StillOpen, Capping, Holding
    <3>2. pc[u] \in StillOpen /\ dir[u] = dir[t] => ~Closing(t)
      BY <2>2, <3>1, Excluded, ClosingHolds
    <3> QED
      BY <1>1, <1>2, <1>3, <2>2, <3>2 DEF JournalsOK, WritesOwnJournal
  <2> QED
    BY <2>1, <2>2
<1> QED
  BY <1>1, <1>4 DEF JournalsOK

\* A cap is written under the launch's own open journal, which nobody closes;
\* otherwise the journal that is owed to stays as it is.
LEMMA StepOwed ==
    ASSUME TrialsInv, NEW t \in Launches, StepOf(t)
    PROVE  OwedOK'
<1> SUFFICES ASSUME limit' # Original
             PROVE  \E d \in Directories : journal'[d] = "open" /\ NobodyCloses(d)'
  BY DEF OwedOK
<1>1. /\ dir' = dir /\ dir[t] \in Directories
      /\ \A u \in Launches \ {t} : pc'[u] = pc[u] /\ sup'[u] = sup[u]
  BY DEF StepOf, OthersStay, settings, TrialsInv, ConcurrentTypeOK
<1>2. WritesOwnJournal(t) /\ MovesLimit(t)
  BY DEF StepOf
<1>3. CASE limit' = limit
  <2>1. PICK d \in Directories : journal[d] = "open" /\ NobodyCloses(d)
    BY <1>3 DEF TrialsInv, OwedOK
  <2>2. dir[t] = d => ~Closing(t) /\ ~Closing(t)'
    BY <1>2, <2>1 DEF NobodyCloses, Closing, MovesLimit
  <2>3. NobodyCloses(d)'
    BY <1>1, <2>1, <2>2 DEF NobodyCloses, Closing
  <2>4. journal'[d] = "open"
    BY <1>2, <2>1, <2>2 DEF WritesOwnJournal
  <2> QED
    BY <2>3, <2>4
<1>4. CASE limit' # limit
  <2>1. /\ pc[t] = "screened" /\ pc'[t] = "written" /\ sup' = sup /\ journal' = journal
    BY <1>2, <1>4 DEF MovesLimit
  <2>2. pc[t] \in Holding /\ journal[dir[t]] = "open"
    BY <2>1 DEF TrialsInv, JournalsOK, StillOpen, Capping, Holding
  <2>3. ASSUME NEW u \in Launches, dir[u] = dir[t]
        PROVE  pc'[u] # "closing" /\ sup'[u] # "closing"
    <3>1. sup[u] \notin Reconciling
      BY <2>2, <2>3 DEF TrialsInv, LocksOK
    <3>2. u # t => pc[u] \notin Holding
      BY <2>2, <2>3, Excluded
    <3> QED
      BY <1>1, <2>1, <3>1, <3>2 DEF Holding, Reconciling
  <2>4. NobodyCloses(dir[t])'
    BY <1>1, <2>3 DEF NobodyCloses
  <2> QED
    BY <1>1, <2>1, <2>2, <2>4
<1> QED
  BY <1>3, <1>4

\* Whoever moves the limit under somebody's cap has a journal elsewhere.
LEMMA StepCapKept ==
    ASSUME TrialsInv, NEW t \in Launches, StepOf(t)
    PROVE  CapKeptWithinDirectory'
<1>1. /\ dir' = dir /\ nonce' = nonce
      /\ \A u \in Launches \ {t} : pc'[u] = pc[u]
      /\ \A u \in Launches : dir[u] \in Directories
  BY DEF StepOf, OthersStay, settings, TrialsInv, ConcurrentTypeOK
<1>2. WritesOwnJournal(t) /\ MovesLimit(t) /\ JournalsOK
  BY DEF StepOf, TrialsInv
<1>3. \A d \in Directories : journal[d] # "absent" => journal'[d] # "absent"
  BY <1>2 DEF WritesOwnJournal
<1>4. ASSUME NEW u \in Launches, pc'[u] = "capped", limit' # Target[nonce[u]]
      PROVE  \E d \in Directories \ {dir[u]} : journal'[d] # "absent"
  <2>1. pc[u] = "capped" /\ (u = t => limit' = limit)
    BY <1>1, <1>2, <1>4 DEF MovesLimit
  <2>2. CASE limit' = limit
    BY <1>3, <1>4, <2>1, <2>2 DEF TrialsInv, CapKeptWithinDirectory
  <2>3. CASE limit' # limit
    <3>1. /\ pc[t] \in Holding \/ sup[t] \in Reconciling
          /\ journal[dir[t]] # "absent"
      <4>1. \/ pc[t] \in Holding \ Unjournaled
            \/ sup[t] \in Reconciling /\ journal[dir[t]] = "open"
            \/ pc[t] = "screened"
        BY <1>2, <2>3 DEF MovesLimit
      <4>2. "screened" \in Holding \ Unjournaled
        BY DEF Holding, Unjournaled
      <4> QED
        BY <1>2, <4>1, <4>2 DEF JournalsOK
    <3>2. u # t /\ pc[u] \in Holding
      BY <2>1, <2>3 DEF Holding
    <3>3. dir[t] # dir[u]
      BY <3>1, <3>2, Excluded
    <3> QED
      BY <1>1, <1>3, <3>1, <3>3
  <2> QED
    BY <2>2, <2>3
<1> QED
  BY <1>1, <1>4 DEF CapKeptWithinDirectory

-----------------------------------------------------------------------------
(* The steps of no launch.                                                 *)

LEMMA KeyKept ==
    ASSUME TrialsInv, Initialize
    PROVE  TrialsInv'
<1>1. UNCHANGED <<dir, nonce, pc, sup, turn, captured, limit, samples, evidence, journal, intent, claim, spent>>
  BY DEF Initialize, KeyCreated, KeyWritten, settings, launchVars, sharedVars, contents
<1>2. ConcurrentTypeOK'
  BY OtherTypes DEF TrialsInv
<1>3. ClaimsOK'
  BY <1>1 DEF TrialsInv, ClaimsOK
<1>4. DirectoriesOK' /\ LocksOK' /\ JournalsOK' /\ OwedOK' /\ CapKeptWithinDirectory'
  BY <1>1 DEF TrialsInv, DirectoriesOK, OneTrialPerDirectory, Begun, LocksOK, JournalsOK,
              OwedOK, NobodyCloses, CapKeptWithinDirectory
<1> QED
  BY <1>2, <1>3, <1>4 DEF TrialsInv

LEMMA PowerLost ==
    ASSUME TrialsInv, PowerLoss
    PROVE  TrialsInv'
<1>1. /\ UNCHANGED <<dir, nonce, journal, intent>> /\ limit' \in {limit, Original}
      /\ \A t \in Launches : /\ (pc'[t] = pc[t] /\ pc[t] \in Gone) \/ pc'[t] = "dead"
                             /\ sup'[t] \in {"idle", "over"}
      /\ spent' = spent
      /\ \A n \in Nonces : claim[n] = "kept" => claim'[n] = "kept"
  <2>1. PICK gone \in SUBSET {n \in Nonces : claim[n] = "created"} :
            claim' = [n \in Nonces |-> IF n \in gone THEN "absent" ELSE claim[n]]
    BY DEF PowerLoss, ClaimsLost
  <2> QED
    BY <2>1 DEF PowerLoss, ClaimsLost, settings
<1>2. \A t \in Launches : /\ pc'[t] \notin Holding /\ ~Begun(t)' /\ sup'[t] \notin Reconciling
                          /\ pc'[t] # "claiming" /\ pc'[t] # "closing" /\ pc'[t] # "capped"
                          /\ sup'[t] # "closing"
  BY <1>1 DEF Gone, Holding, Begun, Reconciling
<1>3. ConcurrentTypeOK'
  BY OtherTypes DEF TrialsInv
<1>4. ClaimsOK'
  BY <1>1, <1>2 DEF TrialsInv, ClaimsOK
<1>5. DirectoriesOK' /\ LocksOK' /\ JournalsOK'
  BY <1>2 DEF DirectoriesOK, OneTrialPerDirectory, LocksOK, JournalsOK, StillOpen, Capping, Holding
<1>6. CapKeptWithinDirectory'
  BY <1>2 DEF CapKeptWithinDirectory
<1>7. OwedOK'
  BY <1>1, <1>2 DEF TrialsInv, OwedOK, NobodyCloses
<1> QED
  BY <1>3, <1>4, <1>5, <1>6, <1>7 DEF TrialsInv

-----------------------------------------------------------------------------
(* The theorems.                                                           *)

\* Init and every step keep the invariant.
THEOREM TrialsInvariant == Spec => []TrialsInv
<1>1. Init => TrialsInv
  BY TrialsInit
<1>2. TrialsInv /\ [Next]_vars => TrialsInv'
  <2> SUFFICES ASSUME TrialsInv, [Next]_vars
               PROVE  TrialsInv'
    OBVIOUS
  <2>1. ASSUME NEW t \in Launches, Controller(t) \/ Supervisor(t) \/ Dies(t) \/ SupervisorDies(t)
        PROVE  TrialsInv'
    <3>1. ConcurrentTypeOK /\ LocksOK
      BY DEF TrialsInv
    <3>2. StepOf(t)
      BY <2>1, <3>1, ControllerSteps, SupervisorSteps
    <3>3. ConcurrentTypeOK'
      BY <2>1, <3>1, ControllerTypes, SupervisorTypes, OtherTypes
    <3> QED
      BY <3>2, <3>3, StepClaims, StepDirectories, StepLocks, StepJournals, StepOwed,
         StepCapKept DEF TrialsInv
  <2>2. CASE Initialize \/ PowerLoss
    BY <2>2, KeyKept, PowerLost
  <2>3. CASE UNCHANGED vars
    <3>1. UNCHANGED <<dir, nonce, pc, sup, turn, captured, limit, samples, evidence, journal, intent>>
          /\ UNCHANGED <<key, claim, spent>>
      BY <2>3 DEF vars, settings, launchVars, sharedVars, contents, claimVars
    <3>2. ConcurrentTypeOK' /\ ClaimsOK'
      BY <3>1 DEF TrialsInv, ConcurrentTypeOK, ClaimTypeOK, ClaimsOK
    <3>3. DirectoriesOK' /\ LocksOK' /\ JournalsOK' /\ OwedOK' /\ CapKeptWithinDirectory'
      BY <3>1 DEF TrialsInv, DirectoriesOK, OneTrialPerDirectory, Begun, LocksOK, JournalsOK,
                  OwedOK, NobodyCloses, CapKeptWithinDirectory
    <3> QED
      BY <3>2, <3>3 DEF TrialsInv
  <2> QED
    BY <2>1, <2>2, <2>3 DEF Next
<1> QED
  BY <1>1, <1>2, PTL DEF Spec

\* The types of what launches share and keep.
THEOREM TrialsTypes == Spec => []ConcurrentTypeOK
<1>1. TrialsInv => ConcurrentTypeOK
  BY DEF TrialsInv
<1> QED
  BY <1>1, TrialsInvariant, PTL

\* However many launches race for however many directories, a limit that is
\* not the original has an open journal to be restored from
\* (journaled_power.py, attended_reconciliation.py).
THEOREM RestorationIsOwed == Spec => []OwedRestoration
<1>1. TrialsInv => OwedRestoration
  BY DEF TrialsInv, OwedOK, OwedRestoration
<1> QED
  BY <1>1, TrialsInvariant, PTL

\* No race, crash or loss of power makes local_approval.py accept a nonce twice.
THEOREM ApprovalsAreSpentOnce == Spec => []SpentOnce
<1>1. TrialsInv => SpentOnce
  BY DEF TrialsInv, ClaimsOK, SpentOnce
<1> QED
  BY <1>1, TrialsInvariant, PTL

\* No two launches run a trial in the same run directory at once.
THEOREM DirectoriesAreExclusive == Spec => []OneTrialPerDirectory
<1>1. TrialsInv => OneTrialPerDirectory
  BY DEF TrialsInv, DirectoriesOK
<1> QED
  BY <1>1, TrialsInvariant, PTL

\* While a trial measures under its cap, only trials of other directories can
\* have moved the limit: the lock of its own excludes everybody else there.
THEOREM CapsAreKept == Spec => []CapKeptWithinDirectory
<1>1. TrialsInv => CapKeptWithinDirectory
  BY DEF TrialsInv
<1> QED
  BY <1>1, TrialsInvariant, PTL

=============================================================================
