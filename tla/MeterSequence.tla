--------------------------- MODULE MeterSequence ---------------------------
(***************************************************************************)
(* SourceSequenceReconciler of telemetry.py: which meter samples a         *)
(* controller may use, when samples are duplicated, delayed or reordered   *)
(* on their way and a meter restarts its numbering.  A sample is a source, *)
(* the epoch it counts in and its number; the samples delivered are any at *)
(* all, since the code trusts nothing about their arrival.                 *)
(*                                                                         *)
(* `uses' belongs to no code: it counts how often a sample was accepted.   *)
(***************************************************************************)
EXTENDS Naturals

CONSTANTS Sources,       \* source_id of the meters
          Epochs,        \* names of numbering epochs
          MaxSequence,   \* bound on monotonic_sequence
          NoEpoch        \* the absence of an epoch (None, a missing key)

ASSUME EpochAssumption == NoEpoch \notin Epochs
ASSUME SequenceAssumption == MaxSequence \in Nat

VARIABLES cursor,    \* _cursors: the last accepted sample of each source
          pending,   \* _pending_epochs: the declared, not yet seen, epoch
          retired,   \* _retired_epochs: epochs that were replaced
          uses       \* how often each sample was accepted

sequenceVars == <<cursor, pending, retired, uses>>

SequenceNumbers == 0 .. MaxSequence
Samples == [source : Sources, epoch : Epochs, sequence : SequenceNumbers]
Cursors == [epoch : Epochs \cup {NoEpoch}, sequence : SequenceNumbers]

\* A source of which no sample was accepted.
Unseen == [epoch |-> NoEpoch, sequence |-> 0]

FreshReconciler ==
    /\ cursor = [s \in Sources |-> Unseen]
    /\ pending = [s \in Sources |-> NoEpoch]
    /\ retired = [s \in Sources |-> {}]

SequenceInit == FreshReconciler /\ uses = [x \in Samples |-> 0]

\* assess: a sample of the current epoch must be ahead of the cursor, one of
\* another epoch must be of the epoch declared for a restart.
InCurrentEpoch(x) == x.epoch = cursor[x.source].epoch

AheadOfCursor(x) == x.sequence > cursor[x.source].sequence

OfDeclaredEpoch(x) ==
    /\ x.epoch \notin retired[x.source]
    /\ pending[x.source] = x.epoch

Acceptable(x) ==
    \/ cursor[x.source] = Unseen
    \/ InCurrentEpoch(x) /\ AheadOfCursor(x)
    \/ ~InCurrentEpoch(x) /\ OfDeclaredEpoch(x)

\* Faulty variant of Retirement: the replaced epoch is not remembered.
RetirementForgets(x) ==
    /\ pending' = IF InCurrentEpoch(x) THEN pending
                  ELSE [pending EXCEPT ![x.source] = NoEpoch]
    /\ UNCHANGED retired

\* An accepted sample of another epoch retires the one it replaces and
\* consumes the declaration.
Retirement(x) ==
    IF cursor[x.source] # Unseen /\ ~InCurrentEpoch(x)
    THEN /\ retired' = [retired EXCEPT ![x.source] = @ \cup {cursor[x.source].epoch}]
         /\ pending' = [pending EXCEPT ![x.source] = NoEpoch]
    ELSE UNCHANGED <<retired, pending>>

Accept(x) ==
    /\ Acceptable(x)
    /\ Retirement(x)
    /\ cursor' = [cursor EXCEPT
                    ![x.source] = [epoch |-> x.epoch, sequence |-> x.sequence]]
    /\ uses' = [uses EXCEPT ![x] = @ + 1]

\* declare_restart_epoch: the operator names the epoch a restarted source
\* will count in; a second declaration may only repeat the first.
DeclareRestart(s, e) ==
    /\ cursor[s] # Unseen
    /\ e # cursor[s].epoch
    /\ e \notin retired[s]
    /\ pending[s] \in {NoEpoch, e}
    /\ pending' = [pending EXCEPT ![s] = e]
    /\ UNCHANGED <<cursor, retired, uses>>

SequenceNext ==
    \/ \E x \in Samples : Accept(x)
    \/ \E s \in Sources, e \in Epochs : DeclareRestart(s, e)

SequenceSpec == SequenceInit /\ [][SequenceNext]_sequenceVars

-----------------------------------------------------------------------------

SequenceTypeOK ==
    /\ cursor \in [Sources -> Cursors]
    /\ pending \in [Sources -> Epochs \cup {NoEpoch}]
    /\ retired \in [Sources -> SUBSET Epochs]
    /\ uses \in [Samples -> Nat]

(***************************************************************************)
(* No sample is accepted twice, however often and however late it is       *)
(* delivered and whatever epochs were declared in between: the promise of  *)
(* SourceSequenceReconciler, "an epoch is retired and cannot be replayed". *)
(***************************************************************************)
NeverReplayed == \A x \in Samples : uses[x] <= 1

(***************************************************************************)
(* The samples one reconciler accepts of a source only move forward:       *)
(* within an epoch the numbers increase, and an epoch that was left is     *)
(* never returned to.  A new reconciler has seen nothing.                  *)
(***************************************************************************)
Advances(s) ==
    \/ cursor[s] = Unseen
    \/ cursor'[s].epoch = cursor[s].epoch /\ cursor'[s].sequence > cursor[s].sequence
    \/ cursor'[s].epoch # cursor[s].epoch /\ \A n \in SequenceNumbers :
            uses[[source |-> s, epoch |-> cursor'[s].epoch, sequence |-> n]] = 0

OnlyForward ==
    [][\A s \in Sources : cursor'[s] # cursor[s] =>
           cursor'[s] = Unseen \/ Advances(s)]_sequenceVars
=============================================================================
