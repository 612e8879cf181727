----------------------- MODULE SupervisoryCycleProofs -----------------------
(***************************************************************************)
(* Proofs about a supervisory cycle and the two components it is made of.  *)
(* They come in three parts, each with the inductive invariant of its own  *)
(* component: the reconciliation of the meter's sequence (MeterSequence),  *)
(* the control session and its record (ControlSession), and the cycle      *)
(* (SupervisoryCycle), which takes the first two as they stand, since each *)
(* step of a cycle is a step of the session and, restarts apart, one of    *)
(* the reconciler.                                                         *)
(***************************************************************************)
EXTENDS SupervisoryCycle, FiniteSetTheorems, TLAPS

-----------------------------------------------------------------------------
(***************************************************************************)
(* The meter reconciler never lets a sample through twice and never moves  *)
(* a source backwards, for any sources, epochs and numbers.                *)
(*                                                                         *)
(* Neither fact is inductive.  A sample may be refused only because its    *)
(* epoch is retired or because the cursor of its epoch has passed it, so   *)
(* the invariant says that every used sample is behind in one of the two   *)
(* ways; and for a new epoch to be really new, the retired, the current    *)
(* and the declared epoch of a source must stay apart.                     *)
(***************************************************************************)

EpochsApart ==
    \A s \in Sources :
        /\ cursor[s].epoch \notin retired[s]
        /\ pending[s] # NoEpoch =>
            pending[s] \notin retired[s] /\ pending[s] # cursor[s].epoch
        /\ cursor[s].epoch = NoEpoch =>
            cursor[s] = Unseen /\ pending[s] = NoEpoch /\ retired[s] = {}

Behind(x) ==
    \/ x.epoch \in retired[x.source]
    \/ InCurrentEpoch(x) /\ x.sequence <= cursor[x.source].sequence

UsedOnce == \A x \in Samples : uses[x] = 0 \/ (uses[x] = 1 /\ Behind(x))

SequenceInv == SequenceTypeOK /\ EpochsApart /\ UsedOnce

-----------------------------------------------------------------------------

LEMMA SequenceInvInit == SequenceInit => SequenceInv
  BY EpochAssumption, SequenceAssumption
     DEF SequenceInit, FreshReconciler, SequenceInv, SequenceTypeOK, EpochsApart,
         UsedOnce, Unseen, Cursors, SequenceNumbers

(***************************************************************************)
(* A sample of an epoch that is neither current nor retired was never used. *)
(***************************************************************************)
LEMMA NewIsUnused ==
  ASSUME SequenceInv, NEW x \in Samples, Acceptable(x)
  PROVE  uses[x] = 0
<1>1. CASE cursor[x.source] = Unseen
  BY <1>1, EpochAssumption
     DEF SequenceInv, EpochsApart, UsedOnce, Behind, InCurrentEpoch, Unseen, Samples
<1>2. CASE InCurrentEpoch(x) /\ AheadOfCursor(x)
  BY <1>2 DEF SequenceInv, SequenceTypeOK, EpochsApart, UsedOnce, Behind, InCurrentEpoch,
             AheadOfCursor, Samples, Cursors, SequenceNumbers
<1>3. CASE ~InCurrentEpoch(x) /\ OfDeclaredEpoch(x)
  BY <1>3 DEF SequenceInv, UsedOnce, Behind, OfDeclaredEpoch
<1>4. QED BY <1>1, <1>2, <1>3 DEF Acceptable

LEMMA AcceptPreserves ==
  ASSUME SequenceInv, NEW x \in Samples, Accept(x)
  PROVE  SequenceInv'
<1> DEFINE s == x.source
<1>1. s \in Sources /\ x.epoch \in Epochs /\ x.sequence \in SequenceNumbers
  BY DEF Samples
<1>2. uses[x] = 0 /\ Acceptable(x)
  BY NewIsUnused DEF Accept
<1>3. SequenceTypeOK'
  <2>1. retired' \in [Sources -> SUBSET Epochs]
        /\ pending' \in [Sources -> Epochs \cup {NoEpoch}]
    <3>1. CASE cursor[s] # Unseen /\ ~InCurrentEpoch(x)
      <4>1. cursor[s].epoch \in Epochs
        BY <1>1, <3>1 DEF SequenceInv, SequenceTypeOK, EpochsApart, Cursors
      <4>2. QED BY <1>1, <3>1, <4>1 DEF Accept, Retirement, SequenceInv, SequenceTypeOK
    <3>2. CASE ~(cursor[s] # Unseen /\ ~InCurrentEpoch(x))
      BY <3>2 DEF Accept, Retirement, SequenceInv, SequenceTypeOK
    <3>3. QED BY <3>1, <3>2
  <2>2. cursor' \in [Sources -> Cursors]
    BY <1>1 DEF Accept, SequenceInv, SequenceTypeOK, Cursors
  <2>3. uses' \in [Samples -> Nat]
    BY DEF Accept, SequenceInv, SequenceTypeOK
  <2>4. QED BY <2>1, <2>2, <2>3 DEF SequenceTypeOK
<1>4. EpochsApart'
  <2> SUFFICES ASSUME NEW t \in Sources
               PROVE  /\ cursor'[t].epoch \notin retired'[t]
                      /\ pending'[t] # NoEpoch =>
                           pending'[t] \notin retired'[t] /\ pending'[t] # cursor'[t].epoch
                      /\ cursor'[t].epoch = NoEpoch =>
                           cursor'[t] = Unseen /\ pending'[t] = NoEpoch /\ retired'[t] = {}
    BY DEF EpochsApart
  <2>1. CASE t # s
    BY <2>1 DEF Accept, Retirement, SequenceInv, SequenceTypeOK, EpochsApart
  <2>2. CASE t = s /\ cursor[s] = Unseen
    BY <1>1, <2>2, EpochAssumption
       DEF Accept, Retirement, SequenceInv, SequenceTypeOK, EpochsApart, Unseen
  <2>3. CASE t = s /\ cursor[s] # Unseen /\ InCurrentEpoch(x)
    BY <1>1, <2>3, EpochAssumption
       DEF Accept, Retirement, InCurrentEpoch, SequenceInv, SequenceTypeOK, EpochsApart
  <2>4. CASE t = s /\ cursor[s] # Unseen /\ ~InCurrentEpoch(x)
    BY <1>1, <1>2, <2>4, EpochAssumption
       DEF Accept, Retirement, Acceptable, InCurrentEpoch, OfDeclaredEpoch, SequenceInv,
           SequenceTypeOK, EpochsApart
  <2>5. QED BY <2>1, <2>2, <2>3, <2>4
<1>5. UsedOnce'
  <2> SUFFICES ASSUME NEW y \in Samples
               PROVE  uses'[y] = 0 \/ (uses'[y] = 1 /\ Behind(y)')
    BY DEF UsedOnce
  <2>0. cursor'[s] = [epoch |-> x.epoch, sequence |-> x.sequence]
    BY <1>1 DEF Accept, SequenceInv, SequenceTypeOK
  <2>1. CASE y = x
    BY <1>1, <1>2, <2>0, <2>1
       DEF Accept, Behind, InCurrentEpoch, SequenceInv, SequenceTypeOK, SequenceNumbers
  <2>2. CASE y # x /\ uses[y] = 0
    BY <2>2 DEF Accept, SequenceInv, SequenceTypeOK
  <2>3. CASE y # x /\ uses[y] # 0
    <3>1. uses'[y] = 1 /\ Behind(y)
      BY <2>3 DEF Accept, SequenceInv, SequenceTypeOK, UsedOnce
    <3>2. Behind(y)'
      <4>1. CASE y.source # s
        BY <3>1, <4>1 DEF Accept, Retirement, Behind, InCurrentEpoch, SequenceInv,
                          SequenceTypeOK, Samples
      <4>2. CASE y.source = s /\ y.epoch \in retired[s]
        BY <1>1, <4>2 DEF Accept, Retirement, Behind, SequenceInv, SequenceTypeOK
      <4>3. CASE y.source = s /\ InCurrentEpoch(y) /\ y.sequence <= cursor[s].sequence
        <5>1. cursor[s] # Unseen
          BY <4>3, EpochAssumption DEF InCurrentEpoch, Unseen, Samples
        <5>2. CASE InCurrentEpoch(x)
          BY <1>1, <1>2, <2>0, <4>3, <5>1, <5>2
             DEF Acceptable, AheadOfCursor, Behind, InCurrentEpoch, SequenceInv,
                 SequenceTypeOK, Samples, Cursors, SequenceNumbers
        <5>3. CASE ~InCurrentEpoch(x)
          BY <1>1, <4>3, <5>1, <5>3
             DEF Accept, Retirement, Behind, InCurrentEpoch, SequenceInv, SequenceTypeOK
        <5>4. QED BY <5>2, <5>3
      <4>4. QED BY <3>1, <4>1, <4>2, <4>3 DEF Behind
    <3>3. QED BY <3>1, <3>2
  <2>4. QED BY <2>1, <2>2, <2>3
<1>6. QED BY <1>3, <1>4, <1>5 DEF SequenceInv

LEMMA DeclarePreserves ==
  ASSUME SequenceInv, NEW s \in Sources, NEW e \in Epochs, DeclareRestart(s, e)
  PROVE  SequenceInv'
<1>1. SequenceTypeOK'
  BY DEF DeclareRestart, SequenceInv, SequenceTypeOK
<1>2. EpochsApart'
  BY EpochAssumption
     DEF DeclareRestart, SequenceInv, SequenceTypeOK, EpochsApart, Unseen
<1>3. UsedOnce'
  BY DEF DeclareRestart, SequenceInv, UsedOnce, Behind, InCurrentEpoch
<1>4. QED BY <1>1, <1>2, <1>3 DEF SequenceInv

LEMMA SequenceInvStep == SequenceInv /\ [SequenceNext]_sequenceVars => SequenceInv'
<1> SUFFICES ASSUME SequenceInv, [SequenceNext]_sequenceVars
             PROVE  SequenceInv'
  OBVIOUS
<1>1. CASE UNCHANGED sequenceVars
  BY <1>1 DEF sequenceVars, SequenceInv, SequenceTypeOK, EpochsApart, UsedOnce, Behind,
              InCurrentEpoch
<1>2. CASE \E x \in Samples : Accept(x)
  BY <1>2, AcceptPreserves
<1>3. CASE \E s \in Sources, e \in Epochs : DeclareRestart(s, e)
  BY <1>3, DeclarePreserves
<1>4. QED BY <1>1, <1>2, <1>3 DEF SequenceNext

LEMMA SequenceInvariance == SequenceSpec => []SequenceInv
  BY SequenceInvInit, SequenceInvStep, PTL DEF SequenceSpec

(***************************************************************************)
(* SourceSequenceReconciler accepts no sample twice, however samples are   *)
(* repeated and reordered and whatever restarts are declared.              *)
(***************************************************************************)
THEOREM SamplesNeverReplayed == SequenceSpec => []NeverReplayed
<1>1. SequenceInv => NeverReplayed
  BY DEF SequenceInv, UsedOnce, NeverReplayed
<1>2. QED BY <1>1, SequenceInvariance, PTL

\* What a step of the reconciler does to a cursor.
LEMMA ForwardStep ==
  ASSUME SequenceInv, [SequenceNext]_sequenceVars, NEW s \in Sources, cursor'[s] # cursor[s]
  PROVE  Advances(s)
<1>1. CASE UNCHANGED sequenceVars
  BY <1>1 DEF sequenceVars
<1>2. ASSUME NEW x \in Samples, Accept(x)
      PROVE  Advances(s)
  <2>1. s = x.source /\ cursor'[s] = [epoch |-> x.epoch, sequence |-> x.sequence]
    BY <1>2 DEF Accept, SequenceInv, SequenceTypeOK, Samples
  <2>2. CASE InCurrentEpoch(x)
    BY <1>2, <2>1, <2>2 DEF Accept, Acceptable, AheadOfCursor, InCurrentEpoch, Advances
  <2>3. CASE ~InCurrentEpoch(x) /\ cursor[s] # Unseen
    <3>1. ASSUME NEW y \in Samples, y.source = s, y.epoch = x.epoch
          PROVE  uses[y] = 0
      <4>1. x.epoch \notin retired[s]
        BY <1>2, <2>1, <2>3 DEF Accept, Acceptable, OfDeclaredEpoch
      <4>2. ~Behind(y)
        BY <2>1, <2>3, <3>1, <4>1 DEF Behind, InCurrentEpoch
      <4>3. QED BY <3>1, <4>2 DEF SequenceInv, UsedOnce
    <3>2. \A n \in SequenceNumbers :
            LET y == [source |-> s, epoch |-> x.epoch, sequence |-> n]
            IN  y \in Samples /\ y.source = s /\ y.epoch = x.epoch
      BY <2>1 DEF Samples
    <3>3. cursor'[s].epoch = x.epoch /\ cursor'[s].epoch # cursor[s].epoch
      BY <2>1, <2>3 DEF InCurrentEpoch
    <3>4. QED BY <3>1, <3>2, <3>3 DEF Advances
  <2>4. CASE cursor[s] = Unseen
    BY <2>4 DEF Advances
  <2>5. QED BY <2>2, <2>3, <2>4
<1>3. CASE \E r \in Sources, e \in Epochs : DeclareRestart(r, e)
  BY <1>3 DEF DeclareRestart
<1>4. QED BY <1>1, <1>2, <1>3 DEF SequenceNext

(***************************************************************************)
(* The cursor of a source only moves to a higher number of its epoch or to *)
(* an epoch no sample of which was ever used.                              *)
(***************************************************************************)
THEOREM SourcesOnlyAdvance == SequenceSpec => OnlyForward
<1>1. ASSUME SequenceInv, [SequenceNext]_sequenceVars
      PROVE  [\A s \in Sources : cursor'[s] # cursor[s] =>
                cursor'[s] = Unseen \/ Advances(s)]_sequenceVars
  BY <1>1, ForwardStep
<1>2. QED BY <1>1, SequenceInvariance, PTL DEF SequenceSpec, OnlyForward
-----------------------------------------------------------------------------
(***************************************************************************)
(* What the record of a control session guarantees, for any proposals,     *)
(* approvals, executions, approvers and lifetimes and any number of events *)
(* and crashes: every authorization lies in one unbroken, approved window; *)
(* a proposal opens one window; an execution_id is authorized once between *)
(* two restarts.                                                           *)
(*                                                                         *)
(* The three statements are about the record alone.  What makes them       *)
(* inductive is how the session's state points into the record: supervised *)
(* means that the last window is still open, `proposals' names every       *)
(* proposal on record, and `executions' every execution_id since the last  *)
(* restart.  A change whose call raised is in `events' as any other, only  *)
(* not recorded; what a restart rests on, that approvals, authorizations   *)
(* and recoveries are always recorded and that a session that never        *)
(* recovered had one proposal at most, is part of the invariant.           *)
(***************************************************************************)

\* The event at i opened the current window, and nothing interrupted it.
Opened(i) ==
    /\ EventIs(i, "envelope_proposed") /\ events[i].proposal = proposal
    /\ \A l \in i + 1 .. Len(events) : events[l].type \notin Interrupts

\* The event at j granted the current approval.
Granted(j) ==
    /\ EventIs(j, "envelope_approved") /\ events[j].recorded
    /\ events[j].proposal = proposal
    /\ events[j].approval = approval /\ approval.by \in Operators

WindowOpen ==
    sState = "supervised" =>
        \E i \in 1 .. Len(events) :
            /\ Opened(i)
            /\ approval.proposal # NoOne =>
                approval.proposal = proposal /\ \E j \in i + 1 .. Len(events) : Granted(j)

\* What AuthorizedWithinWindow says of the authorization at k.
Backed(k) ==
    LET p == events[k].proposal IN
    /\ events[k].recorded
    /\ Effective[p] <= events[k].at /\ events[k].at < Expires[p]
    /\ \E i \in 1 .. k - 1, j \in 1 .. k - 1 :
        /\ i < j
        /\ EventIs(i, "envelope_proposed") /\ events[i].proposal = p
        /\ EventIs(j, "envelope_approved") /\ events[j].recorded
        /\ events[j].proposal = p
        /\ events[j].approval = events[k].approval
        /\ events[j].approval.by \in Operators
        /\ \A l \in i + 1 .. k : events[l].type \notin Interrupts

ProposalsKnown ==
    \A i \in Of(events, "envelope_proposed") : events[i].proposal \in proposals

RestartedAfter(i) ==
    \E l \in i .. Len(events) : EventIs(l, "session_reconstructed")

ExecutionsKnown ==
    \A i \in Of(events, "execution_authorized") :
        executions[events[i].execution] # NoOne \/ RestartedAfter(i)

\* The calls that cannot raise once they have changed the session.
CallsRecorded ==
    \A i \in DOMAIN events :
        events[i].type \in {"envelope_approved", "execution_authorized", "recovery_started"} =>
            events[i].recorded

Unrecovered == Of(events, "recovery_started") = {}

OneWindow ==
    Unrecovered =>
        /\ sState # "recovery" /\ Of(events, "recovery_completed") = {}
        /\ sState = "observe" => Of(events, "envelope_proposed") = {}
        /\ \A i, j \in Of(events, "envelope_proposed") : i = j

SessionInv ==
    /\ SessionTypeOK
    /\ WindowOpen /\ AuthorizedWithinWindow
    /\ ProposalsKnown /\ ProposedOnce
    /\ ExecutionsKnown /\ ExecutedOncePerRun
    /\ CallsRecorded /\ OneWindow

-----------------------------------------------------------------------------
(* One event more.                                                         *)

Grows(event) ==
    /\ events' \in Seq(Events)
    /\ Len(events) \in Nat /\ Len(events') = Len(events) + 1
    /\ DOMAIN events = 1 .. Len(events) /\ DOMAIN events' = 1 .. Len(events')
    /\ \A i \in 1 .. Len(events) : events'[i] = events[i]
    /\ events'[Len(events')] = event

LEMMA EmitGrows ==
  ASSUME events \in Seq(Events), NEW event \in Events, Emit(event)
  PROVE  Grows(event)
BY DEF Emit, Grows

LEMMA EventIsEvent ==
  ASSUME SessionTypeOK, NEW type \in EventTypes, NEW p \in Proposals \cup {NoOne},
         NEW a \in ApprovalRecords, NEW e \in Executions \cup {NoOne}
  PROVE  Event(type, p, a, e) \in Events
BY DEF SessionTypeOK, Event, Events

\* A call that raises leaves the same change, less its record.
LEMMA RaisedIsEmitted ==
  ASSUME NEW event \in Events, EmitOrRaise(event)
  PROVE  \E emitted \in Events :
            /\ Emit(emitted) /\ emitted.type = event.type
            /\ emitted.proposal = event.proposal /\ emitted.approval = event.approval
<1>1. CASE Emit(event)
  BY <1>1
<1>2. CASE Raise(event)
  <2> DEFINE raised == [event EXCEPT !.recorded = FALSE]
  <2>1. raised \in Events
    BY DEF Events
  <2>2. raised.type = event.type /\ raised.proposal = event.proposal
        /\ raised.approval = event.approval
    BY DEF Events
  <2>3. Emit(raised)
    BY <1>2 DEF Raise
  <2>4. QED BY <2>1, <2>2, <2>3
<1>3. QED BY <1>1, <1>2 DEF EmitOrRaise

LEMMA NoteIsEvent ==
  ASSUME SessionTypeOK, NEW type \in EventTypes
  PROVE  Note(type) \in Events /\ Note(type).type = type /\ Note(type).recorded
<1>1. Note(type) \in Events
  BY EventIsEvent DEF Note, SessionTypeOK, ApprovalRecords
<1>2. QED BY <1>1 DEF Note, Event

LEMMA NotesGrow ==
  ASSUME SessionTypeOK, NEW type \in EventTypes, Notes(type)
  PROVE  Grows(Note(type))
BY NoteIsEvent, EmitGrows DEF Notes, SessionTypeOK

LEMMA RaisedNoteGrows ==
  ASSUME SessionTypeOK, NEW type \in EventTypes, EmitOrRaise(Note(type))
  PROVE  \E event \in Events : Grows(event) /\ event.type = type
BY NoteIsEvent, RaisedIsEmitted, EmitGrows DEF SessionTypeOK

LEMMA OfGrows ==
  ASSUME NEW event, Grows(event), NEW type
  PROVE  \A i : i \in Of(events', type) <=>
              \/ i \in Of(events, type)
              \/ i = Len(events') /\ event.type = type
<1> SUFFICES ASSUME NEW i
             PROVE  i \in Of(events', type) <=>
                        \/ i \in Of(events, type)
                        \/ i = Len(events') /\ event.type = type
  OBVIOUS
<1>1. i \in DOMAIN events' <=> i \in DOMAIN events \/ i = Len(events')
  BY DEF Grows
<1>2. i \in DOMAIN events => events'[i] = events[i] /\ i # Len(events')
  BY DEF Grows
<1>3. events'[Len(events')] = event
  BY DEF Grows
<1>4. QED BY <1>1, <1>2, <1>3 DEF Of

LEMMA OfStays ==
  ASSUME NEW event, Grows(event), NEW type, event.type # type
  PROVE  Of(events', type) = Of(events, type)
<1>1. \A i : i \in Of(events', type) <=> i \in Of(events, type)
  BY OfGrows
<1>2. QED BY <1>1

LEMMA OfRange ==
  ASSUME events \in Seq(Events), NEW type, NEW i \in Of(events, type)
  PROVE  i \in 1 .. Len(events) /\ events[i] \in Events /\ EventIs(i, type)
BY DEF Of, EventIs

(***************************************************************************)
(* What survives when an event is added that is not about the part of the  *)
(* record a statement speaks of.                                           *)
(***************************************************************************)
LEMMA BackingKept ==
  ASSUME events \in Seq(Events), NEW event, Grows(event),
         NEW k \in Of(events, "execution_authorized"), Backed(k)
  PROVE  Backed(k)'
<1>1. k \in 1 .. Len(events) /\ events'[k] = events[k]
  BY OfRange DEF Grows
<1>2. PICK i \in 1 .. k - 1, j \in 1 .. k - 1 :
        /\ i < j
        /\ EventIs(i, "envelope_proposed") /\ events[i].proposal = events[k].proposal
        /\ EventIs(j, "envelope_approved") /\ events[j].recorded
        /\ events[j].proposal = events[k].proposal
        /\ events[j].approval = events[k].approval
        /\ events[j].approval.by \in Operators
        /\ \A l \in i + 1 .. k : events[l].type \notin Interrupts
  BY DEF Backed
<1>3. \A l \in 1 .. k : events'[l] = events[l]
  BY <1>1 DEF Grows
<1>4. \A l \in i + 1 .. k : events'[l].type \notin Interrupts
  BY <1>1, <1>2, <1>3
<1>5. events'[i] = events[i] /\ events'[j] = events[j]
  BY <1>1, <1>2, <1>3
<1>6. QED BY <1>1, <1>2, <1>4, <1>5 DEF EventIs, Backed

LEMMA WindowsKept ==
  ASSUME events \in Seq(Events), NEW event, Grows(event),
         event.type # "execution_authorized", AuthorizedWithinWindow
  PROVE  AuthorizedWithinWindow'
<1>1. ASSUME NEW k \in Of(events', "execution_authorized") PROVE Backed(k)'
  <2>1. k \in Of(events, "execution_authorized")
    BY OfGrows
  <2>2. Backed(k)
    BY <2>1 DEF AuthorizedWithinWindow, Backed
  <2>3. QED BY <2>1, <2>2, BackingKept
<1>2. QED BY <1>1 DEF AuthorizedWithinWindow, Backed

LEMMA ProposalsKept ==
  ASSUME events \in Seq(Events), NEW event, Grows(event),
         event.type # "envelope_proposed"
  PROVE  /\ ProposedOnce => ProposedOnce'
         /\ ProposalsKnown /\ proposals \subseteq proposals' => ProposalsKnown'
<1>1. \A i \in Of(events', "envelope_proposed") :
        i \in Of(events, "envelope_proposed") /\ events'[i] = events[i]
  <2> TAKE i \in Of(events', "envelope_proposed")
  <2>1. i \in Of(events, "envelope_proposed")
    BY OfGrows
  <2>2. QED BY <2>1, OfRange DEF Grows
<1>2. QED BY <1>1 DEF ProposedOnce, ProposalsKnown

LEMMA ExecutionsKept ==
  ASSUME events \in Seq(Events), NEW event, Grows(event),
         event.type # "execution_authorized"
  PROVE  /\ ExecutedOncePerRun => ExecutedOncePerRun'
         /\ ExecutionsKnown /\ executions' = executions => ExecutionsKnown'
<1>1. \A i \in Of(events', "execution_authorized") :
        /\ i \in Of(events, "execution_authorized")
        /\ i \in 1 .. Len(events) /\ events'[i] = events[i]
  <2> TAKE i \in Of(events', "execution_authorized")
  <2>1. i \in Of(events, "execution_authorized")
    BY OfGrows
  <2>2. QED BY <2>1, OfRange DEF Grows
<1>2. \A l \in 1 .. Len(events) : EventIs(l, "session_reconstructed")' <=>
                                EventIs(l, "session_reconstructed")
  BY DEF Grows, EventIs
<1>3. ASSUME ExecutedOncePerRun PROVE ExecutedOncePerRun'
  <2> SUFFICES ASSUME NEW i \in Of(events', "execution_authorized"),
                      NEW j \in Of(events', "execution_authorized"),
                      events'[i].execution = events'[j].execution, i < j
               PROVE  \E l \in i .. j : EventIs(l, "session_reconstructed")'
    BY DEF ExecutedOncePerRun
  <2>1. PICK l \in i .. j : EventIs(l, "session_reconstructed")
    BY <1>1, <1>3 DEF ExecutedOncePerRun
  <2>2. l \in 1 .. Len(events)
    BY <1>1 DEF Grows
  <2>3. QED BY <1>2, <2>1, <2>2
<1>4. ASSUME ExecutionsKnown, executions' = executions PROVE ExecutionsKnown'
  <2> SUFFICES ASSUME NEW i \in Of(events', "execution_authorized")
               PROVE  executions'[events'[i].execution] # NoOne \/ RestartedAfter(i)'
    BY DEF ExecutionsKnown
  <2>1. CASE executions[events[i].execution] # NoOne
    BY <1>1, <1>4, <2>1
  <2>2. CASE RestartedAfter(i)
    <3>1. PICK l \in i .. Len(events) : EventIs(l, "session_reconstructed")
      BY <2>2 DEF RestartedAfter
    <3>2. l \in 1 .. Len(events) /\ l \in i .. Len(events')
      BY <1>1 DEF Grows
    <3>3. QED BY <1>2, <3>1, <3>2 DEF RestartedAfter
  <2>3. QED BY <1>1, <1>4, <2>1, <2>2 DEF ExecutionsKnown
<1>5. QED BY <1>3, <1>4

LEMMA CallsRecordedKept ==
  ASSUME events \in Seq(Events), NEW event, Grows(event), CallsRecorded,
         event.type \in {"envelope_approved", "execution_authorized", "recovery_started"} =>
            event.recorded
  PROVE  CallsRecorded'
<1> SUFFICES ASSUME NEW i \in DOMAIN events',
                    events'[i].type \in {"envelope_approved", "execution_authorized",
                                         "recovery_started"}
             PROVE  events'[i].recorded
  BY DEF CallsRecorded
<1>1. CASE i \in DOMAIN events
  <2>1. events'[i] = events[i]
    BY <1>1 DEF Grows
  <2>2. QED BY <1>1, <2>1 DEF CallsRecorded
<1>2. CASE i \notin DOMAIN events
  <2>1. i = Len(events')
    BY <1>2 DEF Grows
  <2>2. QED BY <2>1 DEF Grows
<1>3. QED BY <1>1, <1>2

LEMMA OneWindowKept ==
  ASSUME events \in Seq(Events), NEW event, Grows(event), OneWindow,
         event.type \notin {"envelope_proposed", "recovery_completed"},
         sState' \in {"observe", "recovery"} => sState' = sState \/ event.type = "recovery_started"
  PROVE  OneWindow'
<1>1. CASE event.type = "recovery_started"
  <2>1. Len(events') \in Of(events', "recovery_started")
    BY <1>1, OfGrows
  <2>2. QED BY <2>1 DEF OneWindow, Unrecovered
<1>2. CASE event.type # "recovery_started"
  <2>1. /\ Of(events', "recovery_started") = Of(events, "recovery_started")
        /\ Of(events', "recovery_completed") = Of(events, "recovery_completed")
        /\ Of(events', "envelope_proposed") = Of(events, "envelope_proposed")
    BY <1>2, OfStays
  <2>2. QED BY <1>2, <2>1 DEF OneWindow, Unrecovered
<1>3. QED BY <1>1, <1>2

\* An event that interrupts nothing leaves the current window open.
LEMMA WindowStaysOpen ==
  ASSUME events \in Seq(Events), NEW event, Grows(event), event.type \notin Interrupts,
         UNCHANGED <<sState, proposal, approval>>, WindowOpen
  PROVE  WindowOpen'
<1> SUFFICES ASSUME sState = "supervised"
             PROVE  \E i \in 1 .. Len(events') :
                      /\ Opened(i)'
                      /\ approval.proposal # NoOne =>
                          /\ approval.proposal = proposal
                          /\ \E j \in i + 1 .. Len(events') : Granted(j)'
  BY DEF WindowOpen
<1>1. PICK i \in 1 .. Len(events) :
        /\ Opened(i)
        /\ approval.proposal # NoOne =>
            approval.proposal = proposal /\ \E j \in i + 1 .. Len(events) : Granted(j)
  BY DEF WindowOpen
<1>2. i \in 1 .. Len(events') /\ Opened(i)'
  <2>1. EventIs(i, "envelope_proposed")' /\ events'[i].proposal = proposal'
    BY <1>1 DEF Opened, EventIs, Grows
  <2>2. ASSUME NEW l \in i + 1 .. Len(events') PROVE events'[l].type \notin Interrupts
    <3>1. CASE l = Len(events')
      BY <3>1 DEF Grows
    <3>2. CASE l # Len(events')
      <4>1. l \in i + 1 .. Len(events) /\ l \in 1 .. Len(events)
        BY <1>1, <3>2 DEF Grows
      <4>2. QED BY <1>1, <4>1 DEF Opened, Grows
    <3>3. QED BY <3>1, <3>2
  <2>3. QED BY <1>1, <2>1, <2>2 DEF Opened, Grows
<1>3. ASSUME NEW j \in i + 1 .. Len(events), Granted(j)
      PROVE  j \in i + 1 .. Len(events') /\ Granted(j)'
  <2>1. j \in 1 .. Len(events) /\ j \in i + 1 .. Len(events')
    BY <1>1 DEF Grows
  <2>2. QED BY <1>3, <2>1 DEF Granted, EventIs, Grows
<1>4. QED BY <1>1, <1>2, <1>3

-----------------------------------------------------------------------------
(* Type correctness, action by action.                                     *)

\* A history that can be replayed holds one recorded approval.
LEMMA ReplayedApproval ==
  ASSUME SessionTypeOK, Replayable(events)
  PROVE  /\ RecordedOf(events, "envelope_approved") = {TheApproval}
         /\ TheApproval \in Of(events, "envelope_approved")
         /\ events[TheApproval] \in Events
         /\ events[TheApproval].approval.by \in Operators
<1>1. PICK k \in RecordedOf(events, "envelope_approved") :
        /\ RecordedOf(events, "envelope_approved") = {k}
        /\ events[k].approval.by \in Operators
  BY DEF Replayable
<1>2. TheApproval = k
  BY <1>1 DEF TheApproval
<1>3. k \in Of(events, "envelope_approved")
  BY <1>1 DEF RecordedOf
<1>4. QED
  BY <1>1, <1>2, <1>3, OfRange DEF SessionTypeOK

LEMMA TypesStep ==
  ASSUME SessionTypeOK, [SessionNext]_sessionVars
  PROVE  SessionTypeOK'
<1> USE DEF SessionTypeOK
<1>0. CASE UNCHANGED sessionVars
  BY <1>0 DEF sessionVars
<1>1. ASSUME NEW type \in EventTypes, Notes(type) PROVE events' \in Seq(Events)
  BY <1>1, NotesGrow DEF Grows
<1>1a. ASSUME NEW type \in EventTypes, EmitOrRaise(Note(type)) PROVE events' \in Seq(Events)
  BY <1>1a, RaisedNoteGrows DEF Grows
<1>2. ASSUME NEW type \in EventTypes, Repeats(type) PROVE SessionTypeOK'
  <2>1. events' \in Seq(Events)
    BY <1>1, <1>2 DEF Repeats
  <2>2. QED BY <1>2, <2>1 DEF Repeats, Notes, Emit
<1>3. ASSUME SafeHold \/ SafeHoldRaises PROVE SessionTypeOK'
  <2>1. EmitOrRaise(Note("safe_hold_entered")) /\ Holding
    BY <1>3 DEF SafeHold, SafeHoldRaises, Notes, EmitOrRaise
  <2>2. events' \in Seq(Events)
    BY <1>1a, <2>1 DEF EventTypes
  <2>3. QED BY <2>1, <2>2 DEF Holding, EmitOrRaise, Raise, Emit
<1>4. ASSUME NEW p \in Proposals, Propose(p) PROVE SessionTypeOK'
  <2>1. Event("envelope_proposed", p, NoApproval, NoOne) \in Events
    BY EventIsEvent DEF EventTypes, ApprovalRecords
  <2>2. events' \in Seq(Events)
    BY <1>4, <2>1, RaisedIsEmitted, EmitGrows DEF Propose, Grows
  <2>3. QED BY <1>4, <2>2 DEF Propose, EmitOrRaise, Raise, Emit, ApprovalRecords
<1>5. ASSUME NEW p \in Proposals, ProposeAgain(p) PROVE SessionTypeOK'
  BY <1>2, <1>5 DEF ProposeAgain, EventTypes
<1>6. ASSUME NEW p \in Proposals, NEW a \in Approvals, NEW o \in Operators, Approve(p, a, o)
      PROVE  SessionTypeOK'
  <2>1. approval' \in ApprovalRecords
    BY <1>6 DEF Approve, ApprovalRecords
  <2>2. Event("envelope_approved", p, approval', NoOne) \in Events
    BY <2>1, EventIsEvent DEF EventTypes
  <2>3. events' \in Seq(Events)
    BY <1>6, <2>2, EmitGrows DEF Approve, Grows
  <2>4. QED BY <1>6, <2>1, <2>3 DEF Approve, Emit
<1>7. ASSUME NEW p \in Proposals, NEW a \in Approvals, NEW o \in Operators, ApproveAgain(p, a, o)
      PROVE  SessionTypeOK'
  BY <1>2, <1>7 DEF ApproveAgain, EventTypes
<1>8. ASSUME BeginRecovery PROVE SessionTypeOK'
  <2>1. events' \in Seq(Events)
    BY <1>1, <1>8 DEF BeginRecovery, EventTypes
  <2>2. QED BY <1>8, <2>1 DEF BeginRecovery, Notes, Emit
<1>9. ASSUME CompleteRecovery PROVE SessionTypeOK'
  <2>1. events' \in Seq(Events)
    BY <1>1a, <1>9 DEF CompleteRecovery, EventTypes
  <2>2. QED BY <1>9, <2>1 DEF CompleteRecovery, EmitOrRaise, Raise, Emit, ApprovalRecords
<1>10. ASSUME NEW p \in Proposals, NEW e \in Executions, AuthorizeExecution(p, e)
       PROVE  SessionTypeOK'
  <2>1. Event("execution_authorized", p, approval, e) \in Events
    BY EventIsEvent DEF EventTypes
  <2>2. events' \in Seq(Events)
    BY <1>10, <2>1, EmitGrows DEF AuthorizeExecution, Grows
  <2>3. QED BY <1>10, <2>2 DEF AuthorizeExecution, Emit
<1>11. ASSUME Crash PROVE SessionTypeOK'
  BY <1>11 DEF Crash
<1>12. ASSUME Reconstruct PROVE SessionTypeOK'
  <2> DEFINE a == events[TheApproval].approval
  <2>1. Replayable(events)
    BY <1>12 DEF Reconstruct, Rebuild
  <2>2. events[TheApproval] \in Events /\ a.by \in Operators
    BY <2>1, ReplayedApproval
  <2>3. a \in [id : Approvals, proposal : Proposals, by : Operators]
    BY <2>2, NoOneAssumption DEF Events, ApprovalRecords, NoApproval
  <2>4. Event("session_reconstructed", a.proposal, a, NoOne) \in Events
    BY <2>3, EventIsEvent DEF EventTypes, ApprovalRecords
  <2>5. events' \in Seq(Events)
    BY <1>12, <2>4, EmitGrows DEF Reconstruct, Rebuild, Grows
  <2>6. proposal' = a.proposal /\ approval' = a /\ proposals' = {a.proposal}
    BY <1>12 DEF Reconstruct, Rebuild, TheProposal
  <2>7. approvals' \in [Approvals -> [proposal : Proposals, by : Operators] \cup {Unused}]
    BY <1>12, <2>3 DEF Reconstruct, Rebuild
  <2>8. sState' = "safe_hold" /\ executions' = NothingExecuted /\ UNCHANGED <<now, crashes>>
    BY <1>12 DEF Reconstruct, Rebuild, Emit
  <2>9. QED BY <2>3, <2>5, <2>6, <2>7, <2>8 DEF ApprovalRecords, NothingExecuted
<1>13. ASSUME Tick PROVE SessionTypeOK'
  BY <1>13 DEF Tick
<1>14. QED
  BY <1>0, <1>3, <1>4, <1>5, <1>6, <1>7, <1>8, <1>9, <1>10, <1>11, <1>12, <1>13
     DEF SessionNext, OperatorStep, AuthorizeStep, ApproveTooLate, RecoveryIneligible,
         AuthorizeTooLate, AuthorizeIneligible, AuthorizeHoldRaises

-----------------------------------------------------------------------------
(* The rest of the invariant, action by action.                            *)

LEMMA InitInv == SessionInit => SessionInv
<1> SUFFICES ASSUME SessionInit PROVE SessionInv
  OBVIOUS
<1>1. SessionTypeOK
  BY DEF SessionInit, SessionTypeOK, ApprovalRecords
<1>2. \A type : Of(events, type) = {}
  BY DEF SessionInit, Of
<1>3. WindowOpen
  BY DEF SessionInit, WindowOpen
<1>4. CallsRecorded /\ OneWindow
  BY <1>2 DEF SessionInit, CallsRecorded, OneWindow
<1>5. QED BY <1>1, <1>2, <1>3, <1>4
     DEF SessionInv, AuthorizedWithinWindow, ProposalsKnown, ProposedOnce,
         ExecutionsKnown, ExecutedOncePerRun

\* An event that is neither a proposal nor an authorization, when the session
\* does not become supervised by it.
LEMMA QuietStep ==
  ASSUME SessionInv, SessionTypeOK', NEW event, Grows(event),
         event.type \notin {"envelope_proposed", "execution_authorized"},
         event.type \in {"envelope_approved", "recovery_started"} => event.recorded,
         proposals' = proposals, executions' = executions, WindowOpen', OneWindow'
  PROVE  SessionInv'
<1>1. events \in Seq(Events)
  BY DEF SessionInv, SessionTypeOK
<1>2. AuthorizedWithinWindow'
  BY <1>1, WindowsKept DEF SessionInv
<1>3. ProposedOnce' /\ ProposalsKnown'
  BY <1>1, ProposalsKept DEF SessionInv
<1>4. ExecutedOncePerRun' /\ ExecutionsKnown'
  BY <1>1, ExecutionsKept DEF SessionInv
<1>5. CallsRecorded'
  BY <1>1, CallsRecordedKept DEF SessionInv
<1>6. QED BY <1>2, <1>3, <1>4, <1>5 DEF SessionInv

LEMMA SafeHoldStep ==
  SessionInv /\ SessionTypeOK' /\ (SafeHold \/ SafeHoldRaises) => SessionInv'
<1> SUFFICES ASSUME SessionInv, SessionTypeOK', SafeHold \/ SafeHoldRaises PROVE SessionInv'
  OBVIOUS
<1>1. EmitOrRaise(Note("safe_hold_entered")) /\ Holding
  BY DEF SafeHold, SafeHoldRaises, Notes, EmitOrRaise
<1>2. PICK event \in Events : Grows(event) /\ event.type = "safe_hold_entered"
  BY <1>1, RaisedNoteGrows DEF SessionInv, EventTypes
<1>3. WindowOpen'
  BY <1>1 DEF Holding, WindowOpen
<1>4. OneWindow'
  BY <1>1, <1>2, OneWindowKept DEF Holding, SessionInv, SessionTypeOK
<1>5. QED BY <1>1, <1>2, <1>3, <1>4, QuietStep DEF Holding

LEMMA RepeatsStep ==
  ASSUME SessionInv, SessionTypeOK',
         NEW type \in {"envelope_proposal_duplicate", "approval_duplicate"}, Repeats(type)
  PROVE  SessionInv'
<1> DEFINE event == Note(type)
<1>1. Grows(event) /\ event.type = type
  BY NotesGrow, NoteIsEvent DEF Repeats, SessionInv, EventTypes
<1> HIDE DEF event
<1>2. WindowOpen'
  BY <1>1, WindowStaysOpen DEF Repeats, SessionInv, SessionTypeOK, Interrupts
<1>3. OneWindow'
  BY <1>1, OneWindowKept DEF Repeats, SessionInv, SessionTypeOK
<1>4. QED BY <1>1, <1>2, <1>3, QuietStep DEF Repeats

LEMMA RecoveryStep ==
  SessionInv /\ SessionTypeOK' /\ (BeginRecovery \/ CompleteRecovery) => SessionInv'
<1>1. ASSUME SessionInv, SessionTypeOK', BeginRecovery PROVE SessionInv'
  <2> DEFINE event == Note("recovery_started")
  <2>1. Grows(event) /\ event.type = "recovery_started" /\ event.recorded
    BY <1>1, NotesGrow, NoteIsEvent DEF BeginRecovery, SessionInv, EventTypes
  <2> HIDE DEF event
  <2>2. WindowOpen'
    BY <1>1 DEF BeginRecovery, WindowOpen
  <2>3. OneWindow'
    BY <1>1, <2>1, OneWindowKept DEF SessionInv, SessionTypeOK
  <2>4. QED BY <1>1, <2>1, <2>2, <2>3, QuietStep DEF BeginRecovery
<1>2. ASSUME SessionInv, SessionTypeOK', CompleteRecovery PROVE SessionInv'
  <2>1. PICK event \in Events : Grows(event) /\ event.type = "recovery_completed"
    BY <1>2, RaisedNoteGrows DEF CompleteRecovery, SessionInv, EventTypes
  <2>2. WindowOpen'
    BY <1>2 DEF CompleteRecovery, WindowOpen
  <2>3. OneWindow'
    <3>1. ~Unrecovered
      BY <1>2 DEF CompleteRecovery, SessionInv, OneWindow
    <3>2. ~Unrecovered'
      BY <2>1, <3>1, OfGrows DEF Unrecovered
    <3>3. QED BY <3>2 DEF OneWindow
  <2>4. QED BY <1>2, <2>1, <2>2, <2>3, QuietStep DEF CompleteRecovery
<1>3. QED BY <1>1, <1>2

LEMMA ApproveStep ==
  ASSUME SessionInv, SessionTypeOK', NEW p \in Proposals, NEW a \in Approvals,
         NEW o \in Operators, Approve(p, a, o)
  PROVE  SessionInv'
<1> DEFINE event == Event("envelope_approved", p, approval', NoOne)
<1>1. approval' = [id |-> a, proposal |-> p, by |-> o] /\ approval' \in ApprovalRecords
  BY DEF Approve, ApprovalRecords
<1>2. event \in Events
  BY <1>1, EventIsEvent DEF SessionInv, EventTypes
<1>3. Grows(event)
  BY <1>2, EmitGrows DEF Approve, SessionInv, SessionTypeOK
<1>4. WindowOpen'
  <2>1. PICK i \in 1 .. Len(events) : Opened(i)
    BY DEF Approve, SessionInv, WindowOpen
  <2>2. PICK n \in i + 1 .. Len(events') : n = Len(events')
    BY <1>3, <2>1 DEF Grows
  <2>3. Opened(i)'
    <3>1. ASSUME NEW l \in i + 1 .. Len(events') PROVE events'[l].type \notin Interrupts
      <4>1. CASE l = Len(events')
        BY <1>3, <4>1 DEF Grows, Event, Interrupts
      <4>2. CASE l # Len(events')
        <5>1. l \in i + 1 .. Len(events) /\ l \in 1 .. Len(events)
          BY <1>3, <2>1, <4>2 DEF Grows
        <5>2. QED BY <1>3, <2>1, <5>1 DEF Opened, Grows
      <4>3. QED BY <4>1, <4>2
    <3>2. QED BY <1>3, <2>1, <3>1 DEF Opened, Grows, EventIs, Approve
  <2>4. Granted(n)'
    BY <1>1, <1>3, <2>2 DEF Granted, Grows, EventIs, Event, Approve
  <2>5. approval'.proposal = proposal' /\ i \in 1 .. Len(events')
    BY <1>1, <1>3, <2>1 DEF Approve, Grows
  <2>6. QED BY <2>2, <2>3, <2>4, <2>5 DEF WindowOpen
<1>5. event.type = "envelope_approved" /\ event.recorded
  BY DEF Event
<1> HIDE DEF event
<1>6. OneWindow'
  BY <1>3, <1>5, OneWindowKept DEF Approve, SessionInv, SessionTypeOK
<1>7. QED BY <1>3, <1>4, <1>5, <1>6, QuietStep DEF Approve

LEMMA ProposeStep ==
  ASSUME SessionInv, SessionTypeOK', NEW p \in Proposals, Propose(p)
  PROVE  SessionInv'
<1> DEFINE n == Len(events')
<1>0. events \in Seq(Events)
  BY DEF SessionInv, SessionTypeOK
<1>1. PICK event \in Events :
        Emit(event) /\ event.type = "envelope_proposed" /\ event.proposal = p
  <2> DEFINE named == Event("envelope_proposed", p, NoApproval, NoOne)
  <2>1. named \in Events /\ named.type = "envelope_proposed" /\ named.proposal = p
    <3>1. named \in Events
      BY EventIsEvent DEF SessionInv, EventTypes, ApprovalRecords
    <3>2. QED BY <3>1 DEF Event
  <2>2. EmitOrRaise(named)
    BY DEF Propose
  <2> HIDE DEF named
  <2>3. QED BY <2>1, <2>2, RaisedIsEmitted
<1>2. Grows(event)
  BY <1>0, <1>1, EmitGrows
<1>3. event.type = "envelope_proposed" /\ event.proposal = p
  BY <1>1
<1>4. AuthorizedWithinWindow'
  BY <1>0, <1>2, <1>3, WindowsKept DEF SessionInv
<1>5. ExecutedOncePerRun' /\ ExecutionsKnown'
  BY <1>0, <1>2, <1>3, ExecutionsKept DEF SessionInv, Propose
<1>6. \A i \in Of(events', "envelope_proposed") :
        \/ /\ i \in Of(events, "envelope_proposed") /\ events'[i] = events[i]
           /\ events[i].proposal # p
        \/ i = n /\ events'[i].proposal = p
  <2> TAKE i \in Of(events', "envelope_proposed")
  <2>1. CASE i \in Of(events, "envelope_proposed")
    <3>1. events'[i] = events[i]
      BY <1>0, <1>2, <2>1, OfRange DEF Grows
    <3>2. events[i].proposal # p
      BY <2>1 DEF SessionInv, ProposalsKnown, Propose
    <3>3. QED BY <2>1, <3>1, <3>2
  <2>2. CASE i = n
    BY <1>2, <1>3, <2>2 DEF Grows
  <2>3. QED BY <1>2, <2>1, <2>2, OfGrows
<1>7. ProposalsKnown'
  BY <1>6 DEF SessionInv, ProposalsKnown, Propose
<1>8. ProposedOnce'
  BY <1>6 DEF SessionInv, ProposedOnce
<1>9. WindowOpen'
  <2>1. PICK i \in 1 .. Len(events') : i = Len(events') /\ \A l \in i + 1 .. i : FALSE
    BY <1>2 DEF Grows
  <2>2. Opened(i)'
    BY <1>2, <1>3, <2>1 DEF Grows, Opened, EventIs, Propose
  <2>3. approval'.proposal = NoOne
    BY DEF Propose, NoApproval
  <2>4. QED BY <2>1, <2>2, <2>3 DEF WindowOpen
<1>10. CallsRecorded'
  BY <1>0, <1>2, <1>3, CallsRecordedKept DEF SessionInv
<1>11. OneWindow'
  <2> SUFFICES ASSUME Unrecovered' PROVE OneWindow'
    BY DEF OneWindow
  <2>1. Of(events', "recovery_started") = Of(events, "recovery_started")
        /\ Of(events', "recovery_completed") = Of(events, "recovery_completed")
    BY <1>2, <1>3, OfStays
  <2>2. Of(events, "envelope_proposed") = {} /\ Of(events, "recovery_completed") = {}
    BY <2>1 DEF Propose, SessionInv, OneWindow, Unrecovered
  <2>3. \A i \in Of(events', "envelope_proposed") : i = n
    BY <1>6, <2>2
  <2>4. sState' = "supervised"
    BY DEF Propose
  <2>5. QED BY <2>1, <2>2, <2>3, <2>4 DEF OneWindow
<1>12. QED BY <1>4, <1>5, <1>7, <1>8, <1>9, <1>10, <1>11 DEF SessionInv

LEMMA AuthorizeOnceStep ==
  ASSUME SessionInv, SessionTypeOK', NEW p \in Proposals, NEW e \in Executions,
         AuthorizeExecution(p, e)
  PROVE  SessionInv'
<1> DEFINE event == Event("execution_authorized", p, approval, e)
           n == Len(events')
<1>0. events \in Seq(Events)
  BY DEF SessionInv, SessionTypeOK
<1>1. event \in Events
  BY EventIsEvent DEF SessionInv, SessionTypeOK, EventTypes
<1>2. Grows(event)
  BY <1>0, <1>1, EmitGrows DEF AuthorizeExecution
<1>3. /\ event.type = "execution_authorized" /\ event.proposal = p /\ event.at = now
      /\ event.approval = approval /\ event.execution = e /\ event.recorded
  BY DEF Event
<1>4. WindowOpen'
  BY <1>2, <1>3, WindowStaysOpen DEF AuthorizeExecution, SessionInv, SessionTypeOK, Interrupts
<1>5. ProposedOnce' /\ ProposalsKnown'
  BY <1>0, <1>2, <1>3, ProposalsKept DEF SessionInv, AuthorizeExecution
<1>6. \A i \in Of(events', "execution_authorized") :
        \/ /\ i \in Of(events, "execution_authorized") /\ events'[i] = events[i]
           /\ i \in 1 .. Len(events)
        \/ i = n /\ events'[i] = event
  <2> TAKE i \in Of(events', "execution_authorized")
  <2>1. CASE i \in Of(events, "execution_authorized")
    BY <1>0, <1>2, <2>1, OfRange DEF Grows
  <2>2. CASE i = n
    BY <1>2, <2>2 DEF Grows
  <2>3. QED BY <1>2, <2>1, <2>2, OfGrows
<1>7. AuthorizedWithinWindow'
  <2>1. ASSUME NEW k \in Of(events, "execution_authorized") PROVE Backed(k)'
    <3>1. Backed(k)
      BY DEF SessionInv, AuthorizedWithinWindow, Backed
    <3>2. QED BY <1>0, <1>2, <3>1, BackingKept
  <2>2. PICK i \in 1 .. Len(events) :
            Opened(i) /\ \E j \in i + 1 .. Len(events) : Granted(j)
    <3>1. sState = "supervised" /\ approval.proposal = p /\ proposal = p /\ p # NoOne
      BY NoOneAssumption DEF AuthorizeExecution, Approved
    <3>2. QED BY <3>1 DEF SessionInv, WindowOpen
  <2>3. PICK j \in i + 1 .. Len(events) : Granted(j)
    BY <2>2
  <2>4. PICK k \in 1 .. Len(events') : k = Len(events') /\ events'[k] = event
    BY <1>2 DEF Grows
  <2>5. i \in 1 .. k - 1 /\ j \in 1 .. k - 1 /\ i < j
    BY <1>2, <2>2, <2>4 DEF Grows
  <2>6. events'[i] = events[i] /\ events'[j] = events[j]
    BY <1>2, <2>4, <2>5 DEF Grows
  <2>7. \A l \in i + 1 .. k : events'[l].type \notin Interrupts
    <3> TAKE l \in i + 1 .. k
    <3>1. CASE l = k
      BY <1>3, <2>4, <3>1 DEF Interrupts
    <3>2. CASE l # k
      <4>1. l \in i + 1 .. Len(events) /\ l \in 1 .. Len(events)
        BY <1>2, <2>2, <2>4, <3>2 DEF Grows
      <4>2. QED BY <1>2, <2>2, <4>1 DEF Opened, Grows
    <3>3. QED BY <3>1, <3>2
  <2>8. Effective[p] <= now /\ now < Expires[p] /\ proposal = p
    <3>1. now \in Nat /\ Expires[p] \in Nat /\ Effective[p] \in Nat
      BY LifetimeAssumption DEF SessionInv, SessionTypeOK
    <3>2. now >= Effective[p] /\ ~(now >= Expires[p]) /\ proposal = p
      BY DEF AuthorizeExecution, Approved, Expired
    <3>3. QED BY <3>1, <3>2
  <2>9. Backed(k)'
    <3>1. EventIs(i, "envelope_proposed")' /\ events'[i].proposal = p
      BY <2>2, <2>6, <2>8 DEF Opened, EventIs
    <3>2. /\ EventIs(j, "envelope_approved")' /\ events'[j].recorded
          /\ events'[j].proposal = p
          /\ events'[j].approval = events'[k].approval
          /\ events'[j].approval.by \in Operators
      BY <1>3, <2>3, <2>4, <2>6, <2>8 DEF Granted, EventIs
    <3>3. events'[k].proposal = p /\ events'[k].at = now /\ events'[k].recorded
      BY <1>3, <2>4
    <3>4. QED BY <2>5, <2>7, <2>8, <3>1, <3>2, <3>3 DEF Backed
  <2>10. QED BY <1>6, <2>1, <2>4, <2>9 DEF AuthorizedWithinWindow, Backed
<1>8. ExecutionsKnown'
  <2> SUFFICES ASSUME NEW i \in Of(events', "execution_authorized")
               PROVE  executions'[events'[i].execution] # NoOne \/ RestartedAfter(i)'
    BY DEF ExecutionsKnown
  <2>1. p # NoOne /\ executions \in [Executions -> Proposals \cup {NoOne}]
        /\ executions' = [executions EXCEPT ![e] = p]
    BY NoOneAssumption DEF AuthorizeExecution, SessionInv, SessionTypeOK
  <2>2. CASE i = n /\ events'[i] = event
    BY <1>3, <2>1, <2>2
  <2>3. CASE /\ i \in Of(events, "execution_authorized") /\ events'[i] = events[i]
             /\ i \in 1 .. Len(events)
    <3>1. CASE executions[events[i].execution] # NoOne
      <4>1. executions'[events[i].execution] # NoOne
        BY <2>1, <3>1
      <4>2. QED BY <2>3, <4>1
    <3>2. CASE RestartedAfter(i)
      <4>1. PICK l \in i .. Len(events) : EventIs(l, "session_reconstructed")
        BY <3>2 DEF RestartedAfter
      <4>2. l \in i .. Len(events') /\ events'[l] = events[l]
        BY <1>2, <2>3, <4>1 DEF Grows
      <4>3. QED BY <4>1, <4>2 DEF RestartedAfter, EventIs
    <3>3. QED BY <2>3, <3>1, <3>2 DEF SessionInv, ExecutionsKnown
  <2>4. QED BY <1>6, <2>2, <2>3
<1>9. ExecutedOncePerRun'
  <2> SUFFICES ASSUME NEW i \in Of(events', "execution_authorized"),
                      NEW j \in Of(events', "execution_authorized"),
                      events'[i].execution = events'[j].execution, i < j
               PROVE  \E l \in i .. j : EventIs(l, "session_reconstructed")'
    BY DEF ExecutedOncePerRun
  <2>1. /\ i \in Of(events, "execution_authorized") /\ events'[i] = events[i]
        /\ i \in 1 .. Len(events)
    <3>1. j \in 1 .. n /\ n \in Nat
      BY <1>2, <1>6 DEF Grows
    <3>2. i # n
      BY <3>1
    <3>3. QED BY <1>6, <3>2
  <2>2. \A l \in 1 .. Len(events) : EventIs(l, "session_reconstructed")' <=>
                                  EventIs(l, "session_reconstructed")
    BY <1>2 DEF Grows, EventIs
  <2>3. CASE j = n /\ events'[j] = event
    <3>1. executions[events[i].execution] = NoOne
      BY <1>3, <2>1, <2>3 DEF AuthorizeExecution
    <3>2. RestartedAfter(i)
      BY <2>1, <3>1 DEF SessionInv, ExecutionsKnown
    <3>3. PICK l \in i .. Len(events) : EventIs(l, "session_reconstructed")
      BY <3>2 DEF RestartedAfter
    <3>4. l \in i .. j /\ l \in 1 .. Len(events)
      BY <1>2, <2>1, <2>3, <3>3 DEF Grows
    <3>5. QED BY <2>2, <3>3, <3>4
  <2>4. CASE /\ j \in Of(events, "execution_authorized") /\ events'[j] = events[j]
             /\ j \in 1 .. Len(events)
    <3>1. PICK l \in i .. j : EventIs(l, "session_reconstructed")
      BY <2>1, <2>4 DEF SessionInv, ExecutedOncePerRun
    <3>2. l \in 1 .. Len(events)
      BY <2>1, <2>4, <3>1
    <3>3. QED BY <2>2, <3>1, <3>2
  <2>5. QED BY <1>6, <2>3, <2>4
<1> HIDE DEF event
<1>10. CallsRecorded'
  BY <1>0, <1>2, <1>3, CallsRecordedKept DEF SessionInv
<1>11. OneWindow'
  BY <1>0, <1>2, <1>3, OneWindowKept DEF SessionInv, AuthorizeExecution
<1>12. QED BY <1>4, <1>5, <1>7, <1>8, <1>9, <1>10, <1>11 DEF SessionInv

\* What a history that can be replayed says, the changes it does not record
\* included: one proposal, one approval of it later, no recovery.
LEMMA ReplayedHistory ==
  ASSUME SessionInv, Replayable(events)
  PROVE  \E f \in 1 .. TheApproval - 1 :
            /\ Of(events, "envelope_proposed") = {f}
            /\ Of(events, "envelope_approved") = {TheApproval}
            /\ Of(events, "recovery_completed") = {}
            /\ events[f].proposal = TheProposal
<1>0. /\ SessionTypeOK /\ events \in Seq(Events)
      /\ DOMAIN events = 1 .. Len(events) /\ Len(events) \in Nat
  BY DEF SessionInv, SessionTypeOK
<1>1. PICK f \in RecordedOf(events, "envelope_proposed"),
           k \in RecordedOf(events, "envelope_approved") :
        /\ RecordedOf(events, "envelope_approved") = {k}
        /\ \A i \in Recorded(events) : f <= i
        /\ events[k].approval.proposal = events[f].proposal
  BY DEF Replayable
<1>2. k = TheApproval
  BY <1>0, <1>1, ReplayedApproval
<1>3. Unrecovered
  BY DEF Replayable, Recorded, ReplayedTypes, SessionInv, CallsRecorded, Unrecovered, Of
<1>4. Of(events, "envelope_proposed") = {f} /\ Of(events, "recovery_completed") = {}
  BY <1>1, <1>3 DEF SessionInv, OneWindow, RecordedOf
<1>5. Of(events, "envelope_approved") = {k}
  BY <1>1 DEF SessionInv, CallsRecorded, RecordedOf, Recorded, Of
<1>6. f \in 1 .. k - 1
  <2>1. f \in 1 .. Len(events) /\ k \in 1 .. Len(events) /\ f <= k
    BY <1>0, <1>1 DEF RecordedOf, Of
  <2>2. events[f].type = "envelope_proposed" /\ events[k].type = "envelope_approved"
    BY <1>1 DEF RecordedOf, Of
  <2>3. f # k
    BY <2>2
  <2>4. QED BY <1>0, <2>1, <2>3
<1>7. events[f].proposal = TheProposal
  BY <1>1, <1>2 DEF TheProposal
<1>8. QED BY <1>2, <1>4, <1>5, <1>6, <1>7

\* The session starts again with the one proposal the history opens with, and
\* without any execution_id.
LEMMA ReconstructStep == SessionInv /\ SessionTypeOK' /\ Reconstruct => SessionInv'
<1> SUFFICES ASSUME SessionInv, SessionTypeOK', Reconstruct PROVE SessionInv'
  OBVIOUS
<1> DEFINE a == events[TheApproval].approval
           event == Event("session_reconstructed", a.proposal, a, NoOne)
           n == Len(events')
<1>0. events \in Seq(Events) /\ SessionTypeOK
  BY DEF SessionInv, SessionTypeOK
<1>1. Replayable(events)
  BY DEF Reconstruct, Rebuild
<1>2. events[TheApproval] \in Events /\ a.by \in Operators
  BY <1>0, <1>1, ReplayedApproval
<1>3. a \in [id : Approvals, proposal : Proposals, by : Operators]
  BY <1>2, NoOneAssumption DEF Events, ApprovalRecords, NoApproval
<1>4. event \in Events
  BY <1>0, <1>3, EventIsEvent DEF EventTypes, ApprovalRecords
<1>5. Grows(event)
  BY <1>0, <1>4, EmitGrows DEF Reconstruct, Rebuild
<1>6. event.type = "session_reconstructed"
  BY DEF Event
<1>7. WindowOpen'
  BY DEF Reconstruct, Rebuild, WindowOpen
<1>8. AuthorizedWithinWindow'
  BY <1>0, <1>5, <1>6, WindowsKept DEF SessionInv
<1>9. ProposedOnce'
  BY <1>0, <1>5, <1>6, ProposalsKept DEF SessionInv
<1>10. ProposalsKnown'
  <2>1. \A i \in Of(events', "envelope_proposed") : events'[i].proposal = TheProposal
    <3> TAKE i \in Of(events', "envelope_proposed")
    <3>1. i \in Of(events, "envelope_proposed")
      BY <1>5, <1>6, OfGrows
    <3>2. events'[i] = events[i]
      BY <1>0, <1>5, <3>1, OfRange DEF Grows
    <3>3. QED BY <1>1, <3>1, <3>2, ReplayedHistory
  <2>2. proposals' = {TheProposal}
    BY DEF Reconstruct, Rebuild
  <2>3. QED BY <2>1, <2>2 DEF ProposalsKnown
<1>11. ExecutedOncePerRun'
  BY <1>0, <1>5, <1>6, ExecutionsKept DEF SessionInv
<1>12. ExecutionsKnown'
  <2> SUFFICES ASSUME NEW i \in Of(events', "execution_authorized")
               PROVE  RestartedAfter(i)'
    BY DEF ExecutionsKnown
  <2>1. i \in Of(events, "execution_authorized")
    BY <1>5, <1>6, OfGrows
  <2>2. i \in 1 .. Len(events) /\ n \in i .. n /\ events'[n] = event
    BY <1>0, <1>5, <2>1, OfRange DEF Grows
  <2>3. QED BY <1>6, <2>2 DEF RestartedAfter, EventIs
<1>13. sState' = "safe_hold"
  BY DEF Reconstruct, Rebuild
<1> HIDE DEF event
<1>14. CallsRecorded' /\ OneWindow'
  BY <1>0, <1>5, <1>6, <1>13, CallsRecordedKept, OneWindowKept DEF SessionInv
<1>15. QED BY <1>7, <1>8, <1>9, <1>10, <1>11, <1>12, <1>14 DEF SessionInv

\* A crash and the passing of time leave the record alone.
LEMMA RecordKept ==
  ASSUME SessionInv, SessionTypeOK', UNCHANGED <<proposals, executions, events>>, WindowOpen',
         sState' \in {"lost", sState}
  PROVE  SessionInv'
BY DEF SessionInv, AuthorizedWithinWindow, ProposalsKnown, ProposedOnce, ExecutionsKnown,
       ExecutedOncePerRun, RestartedAfter, EventIs, Of, CallsRecorded, OneWindow, Unrecovered

LEMMA IdleStep ==
  SessionInv /\ SessionTypeOK' /\ (Crash \/ Tick \/ UNCHANGED sessionVars) => SessionInv'
<1> SUFFICES ASSUME SessionInv, SessionTypeOK', Crash \/ Tick \/ UNCHANGED sessionVars
             PROVE  SessionInv'
  OBVIOUS
<1>1. UNCHANGED <<proposals, executions, events, proposal, approval>>
      /\ (sState' = "lost" \/ sState' = sState)
  BY DEF Crash, Tick, sessionVars
<1>2. WindowOpen'
  BY <1>1 DEF SessionInv, WindowOpen, Opened, Granted, EventIs
<1>3. QED BY <1>1, <1>2, RecordKept

-----------------------------------------------------------------------------

LEMMA SessionInvStep == SessionInv /\ [SessionNext]_sessionVars => SessionInv'
<1> SUFFICES ASSUME SessionInv, [SessionNext]_sessionVars PROVE SessionInv'
  OBVIOUS
<1>0. SessionTypeOK'
  BY TypesStep DEF SessionInv
<1>1. CASE OperatorStep
  <2>1. ASSUME NEW p \in Proposals, Propose(p) PROVE SessionInv'
    BY <1>0, <2>1, ProposeStep
  <2>2. ASSUME NEW p \in Proposals, ProposeAgain(p) PROVE SessionInv'
    BY <1>0, <2>2, RepeatsStep DEF ProposeAgain
  <2>3. ASSUME NEW p \in Proposals, NEW a \in Approvals, NEW o \in Operators, Approve(p, a, o)
        PROVE  SessionInv'
    BY <1>0, <2>3, ApproveStep
  <2>4. ASSUME NEW p \in Proposals, NEW a \in Approvals, NEW o \in Operators,
               ApproveAgain(p, a, o)
        PROVE  SessionInv'
    BY <1>0, <2>4, RepeatsStep DEF ApproveAgain
  <2>5. ASSUME SafeHold \/ SafeHoldRaises PROVE SessionInv'
    BY <1>0, <2>5, SafeHoldStep
  <2>6. ASSUME BeginRecovery \/ CompleteRecovery PROVE SessionInv'
    BY <1>0, <2>6, RecoveryStep
  <2>7. QED
    BY <1>1, <2>1, <2>2, <2>3, <2>4, <2>5, <2>6
       DEF OperatorStep, ApproveTooLate, RecoveryIneligible
<1>2. CASE AuthorizeStep
  <2>1. ASSUME NEW p \in Proposals, NEW e \in Executions, AuthorizeExecution(p, e)
        PROVE  SessionInv'
    BY <1>0, <2>1, AuthorizeOnceStep
  <2>2. ASSUME SafeHold \/ SafeHoldRaises PROVE SessionInv'
    BY <1>0, <2>2, SafeHoldStep
  <2>3. QED
    BY <1>2, <2>1, <2>2
       DEF AuthorizeStep, AuthorizeTooLate, AuthorizeIneligible, AuthorizeHoldRaises
<1>3. CASE Reconstruct
  BY <1>0, <1>3, ReconstructStep
<1>4. CASE Crash \/ Tick \/ UNCHANGED sessionVars
  BY <1>0, <1>4, IdleStep
<1>5. QED BY <1>1, <1>2, <1>3, <1>4 DEF SessionNext

LEMMA SessionInvariance == SessionSpec => []SessionInv
BY InitInv, SessionInvStep, PTL DEF SessionSpec

(***************************************************************************)
(* Every field of the session and every event keeps the form its dataclass *)
(* gives it: in particular an approval taken back from a record by         *)
(* reconstruct_for_operator_resume is an approval of a known proposal by   *)
(* an authorized approver.                                                 *)
(***************************************************************************)
THEOREM SessionTypeCorrect == SessionSpec => []SessionTypeOK
BY SessionInvariance, PTL DEF SessionInv

(***************************************************************************)
(* Each execution_authorized event of session.py has an unbroken, approved *)
(* window behind it and lies within the proposal's lifetime.               *)
(***************************************************************************)
THEOREM WindowsAreUnbroken == SessionSpec => []AuthorizedWithinWindow
BY SessionInvariance, PTL DEF SessionInv

(***************************************************************************)
(* No sequence of holds, recoveries and restarts opens a second window for *)
(* a proposal_id: `_proposals' always covers the record.                   *)
(***************************************************************************)
THEOREM ProposalsOpenOnce == SessionSpec => []ProposedOnce
BY SessionInvariance, PTL DEF SessionInv

(***************************************************************************)
(* Two authorizations of one execution_id have a restart between them: the *)
(* idempotency of authorize_execution loses nothing else.                  *)
(***************************************************************************)
THEOREM ExecutionsOncePerRun == SessionSpec => []ExecutedOncePerRun
BY SessionInvariance, PTL DEF SessionInv

(***************************************************************************)
(* Proposals and executions together.                                      *)
(***************************************************************************)
THEOREM NothingHappensTwice == SessionSpec => []NothingTwice
<1>1. SessionInv => NothingTwice
  BY DEF SessionInv, NothingTwice
<1>. QED
  BY <1>1, SessionInvariance, PTL
-----------------------------------------------------------------------------
(***************************************************************************)
(* The record explains the session.  The state, the proposal and the       *)
(* approval that the last changes speak of follow the events one by one,   *)
(* whether their calls raised or not, and no history is needed for a       *)
(* restart: what reconstruct_for_operator_resume accepts leaves one        *)
(* reading only, since a session that never recovered had one proposal.    *)
(* Where the last change is recorded, the record alone says as much.       *)
(***************************************************************************)
Moves == DOMAIN Leaves
Openings == {"envelope_proposed", "recovery_completed"}
Grants == {"envelope_approved", "envelope_proposed", "recovery_completed"}

LastState == StateAfter(LastOf(Moves))
LastProposal == ProposalAfter(LastOf(Openings))
LastApproval == ApprovalAfter(LastOf(Grants))

Explained ==
    /\ sState = LastState
    /\ proposal = LastProposal
    /\ approval = LastApproval

\* The last event of these types is one, or there is none.
LastIsOne(types) ==
    LastOf(types) = 0 \/ LastOf(types) \in 1 .. Len(events)

LastsAreEvents == LastIsOne(Moves) /\ LastIsOne(Openings) /\ LastIsOne(Grants)

RecordInv == LastsAreEvents /\ (Running => Explained)

LEMMA ExplainedByRecord == RecordInv => RecordExplainsSession
BY DEF RecordInv, RecordExplainsSession, Explained, LastState, LastProposal, LastApproval,
       Moves, Openings, Grants

LEMMA LastGrows ==
  ASSUME NEW event, Grows(event), NEW types, LastIsOne(types)
  PROVE  /\ LastIsOne(types)'
         /\ event.type \in types => LastOf(types)' = Len(events') /\ Len(events') # 0
         /\ event.type \notin types => LastOf(types)' = LastOf(types)
<1> DEFINE at(history) == {i \in DOMAIN history : history[i].type \in types}
           n == Len(events')
<1>1. n \in Nat \ {0} /\ \A j \in at(events') : j \in Nat /\ j <= n
  BY DEF Grows
<1>2. CASE event.type \in types
  <2>1. n \in at(events')
    BY <1>1, <1>2 DEF Grows
  <2>2. \A i \in at(events') : (\A j \in at(events') : j <= i) => i = n
    BY <1>1, <2>1
  <2>3. LastOf(types)' = n
    BY <1>1, <2>1, <2>2 DEF LastOf
  <2>4. QED BY <1>1, <1>2, <2>3 DEF LastIsOne
<1>3. CASE event.type \notin types
  <2>1. at(events') = at(events)
    BY <1>3 DEF Grows
  <2>2. LastOf(types)' = LastOf(types)
    <3> DEFINE last(s) == IF s = {} THEN 0 ELSE CHOOSE i \in s : \A j \in s : j <= i
    <3>1. LastOf(types) = last(at(events)) /\ LastOf(types)' = last(at(events'))
      BY DEF LastOf
    <3> HIDE DEF last, at
    <3>2. QED BY <2>1, <3>1
  <2>3. QED BY <1>3, <2>2 DEF LastIsOne, Grows
<1>4. QED BY <1>2, <1>3

LEMMA RecordGrows ==
  ASSUME NEW event, Grows(event), LastsAreEvents
  PROVE  /\ LastsAreEvents'
         /\ LastState' = IF event.type \in Moves THEN Leaves[event.type] ELSE LastState
         /\ LastProposal' = IF event.type \in Openings
                                THEN IF event.type = "envelope_proposed" THEN event.proposal ELSE NoOne
                                ELSE LastProposal
         /\ LastApproval' = IF event.type \in Grants
                                THEN IF event.type = "envelope_approved" THEN event.approval ELSE NoApproval
                                ELSE LastApproval
<1>1. events'[Len(events')] = event /\ \A i \in 1 .. Len(events) : events'[i] = events[i]
  BY DEF Grows
<1>2. LastsAreEvents'
  BY LastGrows DEF LastsAreEvents
<1>3. LastState' = IF event.type \in Moves THEN Leaves[event.type] ELSE LastState
  BY <1>1, LastGrows DEF LastsAreEvents, LastIsOne, LastState, StateAfter
<1>4. LastProposal' = IF event.type \in Openings
                          THEN IF event.type = "envelope_proposed" THEN event.proposal ELSE NoOne
                          ELSE LastProposal
  BY <1>1, LastGrows DEF LastsAreEvents, LastIsOne, LastProposal, ProposalAfter, EventIs
<1>5. LastApproval' = IF event.type \in Grants
                          THEN IF event.type = "envelope_approved" THEN event.approval ELSE NoApproval
                          ELSE LastApproval
  BY <1>1, LastGrows DEF LastsAreEvents, LastIsOne, LastApproval, ApprovalAfter, EventIs
<1>6. QED BY <1>2, <1>3, <1>4, <1>5

LEMMA EmitExplains ==
  ASSUME SessionInv, RecordInv, NEW event \in Events, Emit(event)
  PROVE  /\ LastsAreEvents'
         /\ LastState' = IF event.type \in Moves THEN Leaves[event.type] ELSE LastState
         /\ LastProposal' = IF event.type \in Openings
                                THEN IF event.type = "envelope_proposed" THEN event.proposal ELSE NoOne
                                ELSE LastProposal
         /\ LastApproval' = IF event.type \in Grants
                                THEN IF event.type = "envelope_approved" THEN event.approval ELSE NoApproval
                                ELSE LastApproval
BY EmitGrows, RecordGrows DEF SessionInv, SessionTypeOK, RecordInv

\* A note names no approval and no execution, whether its call raises or not.
LEMMA NoteExplains ==
  ASSUME SessionInv, RecordInv, NEW type \in EventTypes, EmitOrRaise(Note(type))
  PROVE  /\ LastsAreEvents'
         /\ LastState' = IF type \in Moves THEN Leaves[type] ELSE LastState
         /\ type \notin Openings => LastProposal' = LastProposal
         /\ type \notin Grants => LastApproval' = LastApproval
         /\ type = "recovery_completed" => LastProposal' = NoOne /\ LastApproval' = NoApproval
<1>1. Note(type) \in Events /\ Note(type).type = type
  BY NoteIsEvent DEF SessionInv
<1>2. PICK event \in Events : Emit(event) /\ event.type = type
  BY <1>1, RaisedIsEmitted
<1>3. QED
  BY <1>2, EmitExplains DEF Openings, Grants

LEMMA OperatorExplains ==
  ASSUME SessionInv, RecordInv, OperatorStep \/ AuthorizeStep
  PROVE  RecordInv'
<1>0. Running => Explained
  BY DEF RecordInv
<1>1. ASSUME LastsAreEvents', Explained' PROVE RecordInv'
  BY <1>1 DEF RecordInv
<1>2. Moves = {"envelope_proposed", "safe_hold_entered", "recovery_started",
               "recovery_completed", "session_reconstructed"}
      /\ Leaves["envelope_proposed"] = "supervised" /\ Leaves["recovery_started"] = "recovery"
      /\ Leaves["recovery_completed"] = "observe" /\ Leaves["safe_hold_entered"] = "safe_hold"
      /\ Leaves["session_reconstructed"] = "safe_hold"
  BY DEF Moves, Leaves
<1>3. ASSUME NEW p \in Proposals, Propose(p) PROVE RecordInv'
  <2> DEFINE named == Event("envelope_proposed", p, NoApproval, NoOne)
  <2>1. named \in Events /\ named.type = "envelope_proposed" /\ named.proposal = p
    <3>1. named \in Events
      BY EventIsEvent DEF SessionInv, ApprovalRecords, EventTypes
    <3>2. QED BY <3>1 DEF Event
  <2>2. EmitOrRaise(named) /\ sState' = "supervised" /\ proposal' = p /\ approval' = NoApproval
    BY <1>3 DEF Propose
  <2> HIDE DEF named
  <2>3. PICK event \in Events :
          Emit(event) /\ event.type = "envelope_proposed" /\ event.proposal = p
    BY <2>1, <2>2, RaisedIsEmitted
  <2>4. QED
    BY <1>1, <1>2, <2>2, <2>3, EmitExplains DEF Openings, Grants, Explained
<1>4. ASSUME NEW p \in Proposals, NEW a \in Approvals, NEW o \in Operators, Approve(p, a, o)
      PROVE  RecordInv'
  <2> DEFINE event == Event("envelope_approved", p, approval', NoOne)
  <2>1. event \in Events /\ event.type = "envelope_approved" /\ event.approval = approval'
    <3>1. event \in Events
      BY <1>4, EventIsEvent DEF Approve, SessionInv, ApprovalRecords, EventTypes
    <3>2. QED BY <3>1 DEF Event
  <2>2. Emit(event) /\ Running /\ UNCHANGED <<sState, proposal>>
    BY <1>4 DEF Approve, Running
  <2> HIDE DEF event
  <2>3. QED
    BY <1>0, <1>1, <1>2, <2>1, <2>2, EmitExplains DEF Openings, Grants, Explained
<1>5. ASSUME NEW p \in Proposals, NEW e \in Executions, AuthorizeExecution(p, e)
      PROVE  RecordInv'
  <2> DEFINE event == Event("execution_authorized", p, approval, e)
  <2>1. event \in Events /\ event.type = "execution_authorized"
    <3>1. event \in Events
      BY EventIsEvent DEF SessionInv, SessionTypeOK, EventTypes
    <3>2. QED BY <3>1 DEF Event
  <2>2. Emit(event) /\ Running /\ UNCHANGED <<sState, proposal, approval>>
    BY <1>5 DEF AuthorizeExecution, Approved, Running
  <2> HIDE DEF event
  <2>3. QED
    BY <1>0, <1>1, <1>2, <2>1, <2>2, EmitExplains DEF Openings, Grants, Explained
<1>6. ASSUME NEW type \in {"envelope_proposal_duplicate", "approval_duplicate"}, Repeats(type)
      PROVE  RecordInv'
  BY <1>0, <1>1, <1>2, <1>6, NoteExplains DEF Repeats, Notes, EmitOrRaise, EventTypes,
       Openings, Grants, Explained
<1>7. CASE SafeHold \/ SafeHoldRaises
  <2>1. EmitOrRaise(Note("safe_hold_entered")) /\ Holding
    BY <1>7 DEF SafeHold, SafeHoldRaises, Notes, EmitOrRaise
  <2>2. QED
    BY <1>0, <1>1, <1>2, <2>1, NoteExplains DEF Holding, EventTypes, Openings, Grants, Explained
<1>8. CASE BeginRecovery
  BY <1>0, <1>1, <1>2, <1>8, NoteExplains DEF BeginRecovery, Notes, EmitOrRaise, Running,
       EventTypes, Openings, Grants, Explained
<1>9. CASE CompleteRecovery
  BY <1>1, <1>2, <1>9, NoteExplains DEF CompleteRecovery, EventTypes, Explained
<1>10. QED
  BY <1>3, <1>4, <1>5, <1>6, <1>7, <1>8, <1>9
     DEF OperatorStep, AuthorizeStep, ProposeAgain, ApproveAgain, ApproveTooLate,
         RecoveryIneligible, AuthorizeTooLate, AuthorizeIneligible, AuthorizeHoldRaises

\* So the last changes are those the operator resumes with.
LEMMA ReplayedRecord ==
  ASSUME SessionInv, Replayable(events)
  PROVE  /\ LastProposal = TheProposal
         /\ LastApproval = events[TheApproval].approval
<1> DEFINE k == TheApproval
<1>1. PICK f \in 1 .. k - 1 :
        /\ Of(events, "envelope_proposed") = {f} /\ Of(events, "envelope_approved") = {k}
        /\ Of(events, "recovery_completed") = {} /\ events[f].proposal = TheProposal
  BY ReplayedHistory
<1>2. /\ DOMAIN events = 1 .. Len(events) /\ Len(events) \in Nat
      /\ f \in DOMAIN events /\ k \in DOMAIN events
      /\ events[f].type = "envelope_proposed" /\ events[k].type = "envelope_approved"
  <2>1. DOMAIN events = 1 .. Len(events) /\ Len(events) \in Nat
    BY DEF SessionInv, SessionTypeOK
  <2>2. QED BY <1>1, <2>1 DEF Of
<1> HIDE DEF k
<1>3. f \in Nat /\ k \in Nat /\ f < k /\ f # 0 /\ k # 0
  BY <1>1, <1>2
<1>4. {i \in DOMAIN events : events[i].type \in Openings} = {f}
  BY <1>1 DEF Of, Openings
<1>5. {i \in DOMAIN events : events[i].type \in Grants} = {f, k}
  BY <1>1 DEF Of, Grants
<1>6. LastOf(Openings) = f
  BY <1>3, <1>4 DEF LastOf
<1>7. LastOf(Grants) = k
  <2>1. k \in {f, k} /\ \A j \in {f, k} : j <= k
    BY <1>3
  <2>2. \A i \in {f, k} : (\A j \in {f, k} : j <= i) => i = k
    BY <1>3
  <2>3. QED BY <1>5, <2>1, <2>2 DEF LastOf
<1>8. QED
  BY <1>1, <1>2, <1>3, <1>6, <1>7
     DEF k, LastProposal, LastApproval, ProposalAfter, ApprovalAfter, EventIs

LEMMA ReconstructExplains ==
  ASSUME SessionInv, RecordInv, Reconstruct
  PROVE  RecordInv'
<1> DEFINE a == events[TheApproval].approval
           event == Event("session_reconstructed", a.proposal, a, NoOne)
<1>1. Replayable(events) /\ SessionTypeOK
  BY DEF Reconstruct, Rebuild, SessionInv
<1>2. LastProposal = a.proposal /\ LastApproval = a
  BY <1>1, ReplayedRecord DEF TheProposal
<1>3. event \in Events /\ event.type = "session_reconstructed"
  <2>1. events[TheApproval] \in Events /\ a.by \in Operators
    BY <1>1, ReplayedApproval
  <2>2. a \in [id : Approvals, proposal : Proposals, by : Operators]
    BY <2>1, NoOneAssumption DEF Events, ApprovalRecords, NoApproval
  <2>3. event \in Events
    BY <2>2, EventIsEvent DEF SessionInv, EventTypes, ApprovalRecords
  <2>4. QED BY <2>3 DEF Event
<1>4. Emit(event) /\ sState' = "safe_hold" /\ proposal' = a.proposal /\ approval' = a
  BY DEF Reconstruct, Rebuild
<1> HIDE DEF event, a
<1>5. LastsAreEvents' /\ LastState' = "safe_hold"
      /\ LastProposal' = LastProposal /\ LastApproval' = LastApproval
  BY <1>3, <1>4, EmitExplains DEF Moves, Openings, Grants, Leaves
<1>6. Explained'
  BY <1>2, <1>4, <1>5 DEF Explained
<1>7. QED
  BY <1>5, <1>6 DEF RecordInv

(***************************************************************************)
(* "Audit replay reconstructs every event and command", as far as the code *)
(* keeps to it: the state, the proposal and the approval of a running      *)
(* session are those the last events say, whatever was refused, repeated,  *)
(* held or restarted, unless the call that changed that part last raised   *)
(* in _emit and left no event.                                             *)
(***************************************************************************)
THEOREM RecordIsComplete == SessionSpec => []RecordExplainsSession
<1>1. SessionInit => RecordInv
  BY DEF SessionInit, RecordInv, LastsAreEvents, LastIsOne, LastOf, Explained, LastState,
     LastProposal, LastApproval, StateAfter, ProposalAfter, ApprovalAfter
<1>2. SessionInv /\ RecordInv /\ [SessionNext]_sessionVars => RecordInv'
  <2> SUFFICES ASSUME SessionInv, RecordInv, [SessionNext]_sessionVars PROVE RecordInv'
    OBVIOUS
  <2>1. CASE OperatorStep \/ AuthorizeStep
    BY <2>1, OperatorExplains
  <2>2. CASE Reconstruct
    BY <2>2, ReconstructExplains
  <2>3. CASE Crash
    BY <2>3 DEF Crash, RecordInv, LastsAreEvents, LastIsOne, LastOf, Running
  <2>4. CASE Tick \/ UNCHANGED sessionVars
    <3>1. UNCHANGED <<sState, proposal, approval, events>>
      BY <2>4 DEF Tick, sessionVars
    <3>2. UNCHANGED <<LastOf(Moves), LastOf(Openings), LastOf(Grants)>>
      BY <3>1 DEF LastOf
    <3>3. LastsAreEvents' /\ (Running' => Running)
      BY <3>1, <3>2 DEF RecordInv, LastsAreEvents, LastIsOne, Running
    <3>4. UNCHANGED <<LastState, LastProposal, LastApproval>>
      BY <3>1, <3>2 DEF LastState, LastProposal, LastApproval, StateAfter, ProposalAfter,
         ApprovalAfter, EventIs
    <3>5. Running' => Explained'
      BY <3>1, <3>3, <3>4 DEF RecordInv, Explained
    <3>6. QED
      BY <3>3, <3>5 DEF RecordInv
  <2>5. QED BY <2>1, <2>2, <2>3, <2>4 DEF SessionNext
<1>3. QED
  BY <1>1, <1>2, ExplainedByRecord, SessionInvariance, PTL DEF SessionSpec
-----------------------------------------------------------------------------
(***************************************************************************)
(* Proofs about SupervisoryCycle, for any workloads, floors, caps, plans,  *)
(* proposals and meters.  The invariants of the session and of the         *)
(* reconciler are those proved above, since every step of a cycle          *)
(* is a step of the session and, restarts apart, one of the reconciler.    *)
(* What is added relates the cycle to them: an execution_id the session    *)
(* knows was authorized by this controller, and what is left of a plan is  *)
(* still valid against the caps although the plan was validated once.      *)
(***************************************************************************)

Cycles == [proposal : Proposals, execution : Executions]
Acting == {"acting", "intended", "mutated"}

\* A cycle has its identities and a live controller, and a plan to carry out.
CycleOpen ==
    /\ phase # "idle" => cycle \in Cycles /\ Running
    /\ phase \in Acting => todo # <<>>

\* Execution e is on record for proposal p, authorized by this controller.
RecordedFor(p, e) ==
    \E k \in OwnAuthorizations : events[k].execution = e /\ events[k].proposal = p

ExecutionsRecorded ==
    \A p \in Proposals, e \in Executions : executions[e] = p => RecordedFor(p, e)

\* An action that both validators accept against the present caps.
Valid(a) ==
    /\ a.workload \notin Protected
    /\ DeclaredFloor[a.workload] # NoFloor /\ PolicyFloor[a.workload] # NoFloor
    /\ IF a.value = Uncapped THEN caps[a.workload] # Uncapped
       ELSE /\ DeclaredFloor[a.workload] <= a.value /\ a.value <= Nominal[a.workload]
            /\ AboveFloors(a.workload, a.value)
    /\ IF recovering
       THEN caps[a.workload] # Uncapped /\ (a.value # Uncapped => Draw(a.workload) <= a.value)
       ELSE a.value # Uncapped /\ a.value < Draw(a.workload)

\* What is left of the plan: one action per workload, each still valid.
PlanLeft ==
    phase \in Acting =>
        /\ \A i, j \in DOMAIN todo : todo[i].workload = todo[j].workload => i = j
        /\ \A i \in DOMAIN todo : (phase = "mutated" => i # 1) => Valid(todo[i])

InFlight(stage) == IF phase = stage THEN 1 ELSE 0

Counts ==
    /\ mutated + InFlight("intended") <= audit["action_intent"]
    /\ audit["observed"] + InFlight("mutated") <= mutated
    /\ failing # "action_outcome" =>
          audit["action_intent"] <= audit["observed"] + audit["rejected"] + crashes
                                    + InFlight("intended") + InFlight("mutated")

CycleInv ==
    /\ CycleTypeOK
    /\ SessionInv /\ SequenceInv
    /\ CycleOpen
    /\ ExecutionsRecorded /\ ActsOnRecordedAuthorization
    /\ LegalCaps(caps) /\ PlanLeft
    /\ Counts

-----------------------------------------------------------------------------
(* A step of the cycle is a step of the session.                           *)

LEMMA SessionStepOfCycle ==
    ASSUME CycleOpen, [Next]_vars
    PROVE  [SessionNext]_sessionVars
<1> USE DEF SessionNext
<1>1. CASE UNCHANGED vars
  BY <1>1 DEF vars
<1>2. SafeHold \/ SafeHoldRaises => SessionNext
  BY DEF OperatorStep
<1>3. CASE RunCycle
  <2>1. CASE MeterUnusable \/ PlanRejected \/ IntentFails \/ BoundaryFault
    BY <1>2, <2>1 DEF MeterUnusable, PlanRejected, IntentFails, BoundaryFault, Holds, AuditRaises
  <2>2. CASE \E x \in Samples, p \in Proposals, e \in Executions : MeterAccepted(x, p, e)
    BY <2>2 DEF MeterAccepted
  <2>3. CASE Authorized
    <3>1. cycle.proposal \in Proposals /\ cycle.execution \in Executions
      BY <2>3 DEF Authorized, CycleOpen, Cycles
    <3> QED
      BY <2>3, <3>1 DEF Authorized, AuthorizeStep
  <2>4. CASE AuthorizationExpired
    BY <1>2, <2>4 DEF AuthorizationExpired, AuthorizeTooLate
  <2>5. CASE AuthorizationRefused \/ NothingToDo \/ IntentDurable \/ Mutate \/ OutcomeDurable
             \/ OutcomeFails
    BY <2>5 DEF AuthorizationRefused, NothingToDo, IntentDurable, Mutate, OutcomeDurable,
                OutcomeFails, AuditRaises
  <2>6. CASE \E plan \in Plans : PlanAccepted(plan)
    BY <2>6 DEF PlanAccepted
  <2> QED
    BY <1>3, <2>1, <2>2, <2>3, <2>4, <2>5, <2>6 DEF RunCycle
<1>4. CASE BetweenCycles
  BY <1>4 DEF BetweenCycles
<1>5. CASE (\E x \in Samples : PrimeMeter(x)) \/ (\E s \in Sources, e \in Epochs : MeterRestarts(s, e))
  BY <1>5 DEF PrimeMeter, MeterRestarts
<1>6. CASE ControllerCrash \/ ControllerRestart
  BY <1>6 DEF ControllerCrash, ControllerRestart
<1> QED
  BY <1>1, <1>3, <1>4, <1>5, <1>6 DEF Next

\* And one of the reconciler, unless the controller restarts.
LEMMA SequenceStepOfCycle ==
    ASSUME [Next]_vars
    PROVE  [SequenceNext]_sequenceVars \/ ControllerRestart
<1>1. CASE UNCHANGED vars
  BY <1>1 DEF vars
<1>2. CASE RunCycle
  <2>1. CASE \E x \in Samples, p \in Proposals, e \in Executions : MeterAccepted(x, p, e)
    BY <2>1 DEF MeterAccepted, SequenceNext
  <2>2. CASE UNCHANGED sequenceVars
    BY <2>2
  <2> QED
    BY <1>2, <2>1, <2>2 DEF RunCycle, MeterUnusable, Authorized, AuthorizationExpired,
       AuthorizationRefused, PlanAccepted, PlanRejected, NothingToDo, IntentDurable, IntentFails,
       BoundaryFault, Mutate, OutcomeDurable, OutcomeFails, AuditRaises
<1>3. CASE BetweenCycles \/ ControllerCrash
  BY <1>3 DEF BetweenCycles, ControllerCrash
<1>4. CASE (\E x \in Samples : PrimeMeter(x)) \/ (\E s \in Sources, e \in Epochs : MeterRestarts(s, e))
  BY <1>4 DEF PrimeMeter, MeterRestarts, SequenceNext
<1> QED
  BY <1>1, <1>2, <1>3, <1>4 DEF Next

-----------------------------------------------------------------------------
(* The record of authorizations.                                           *)

\* The record grows by one event of another kind than a reconstruction.
LEMMA GrownBy ==
    ASSUME events \in Seq(Events), events' \in Seq(Events), NEW event,
           events' = Append(events, event)
    PROVE  Grows(event)
  BY DEF Grows

LEMMA OwnKept ==
    ASSUME events \in Seq(Events), NEW event, Grows(event), event.type # "session_reconstructed",
           NEW p, NEW e, RecordedFor(p, e)
    PROVE  RecordedFor(p, e)'
<1>1. PICK k \in OwnAuthorizations : events[k].execution = e /\ events[k].proposal = p
  BY DEF RecordedFor
<1>2. k \in 1 .. Len(events) /\ events'[k] = events[k] /\ k \in Of(events', "execution_authorized")
  BY <1>1, OfRange, OfGrows DEF OwnAuthorizations, Grows
<1>3. ASSUME NEW l \in k .. Len(events')
      PROVE  events'[l].type # "session_reconstructed"
  <2>1. CASE l = Len(events')
    BY <2>1 DEF Grows
  <2>2. CASE l # Len(events')
    <3>1. l \in k .. Len(events) /\ l \in 1 .. Len(events)
      BY <1>2, <2>2 DEF Grows
    <3> QED
      BY <1>1, <3>1 DEF OwnAuthorizations, EventIs, Grows
  <2> QED
    BY <2>1, <2>2
<1>4. k \in OwnAuthorizations'
  BY <1>2, <1>3 DEF OwnAuthorizations, EventIs
<1> QED
  BY <1>1, <1>2, <1>4 DEF RecordedFor

LEMMA NewlyAuthorized ==
    ASSUME events \in Seq(Events), NEW event, Grows(event), event.type = "execution_authorized"
    PROVE  RecordedFor(event.proposal, event.execution)'
<1> DEFINE k == Len(events')
<1>1. k \in 1 .. Len(events') /\ events'[k] = event /\ k \in Of(events', "execution_authorized")
  BY OfGrows DEF Grows
<1>2. \A l \in k .. Len(events') : l = k
  BY <1>1
<1>3. k \in OwnAuthorizations'
  BY <1>1, <1>2 DEF OwnAuthorizations, EventIs
<1> QED
  BY <1>1, <1>3 DEF RecordedFor

\* Whether its call raises or not, a change appends one event of its type.
LEMMA ChangeAppends ==
    ASSUME NEW type, NEW p, NEW a, NEW e, EmitOrRaise(Event(type, p, a, e))
    PROVE  /\ crashes' = crashes
           /\ \E event : events' = Append(events, event) /\ event.type = type
<1> DEFINE event == Event(type, p, a, e)
<1>1. event.type = type /\ [event EXCEPT !.recorded = FALSE].type = type
  BY DEF Event
<1> HIDE DEF event
<1>2. QED BY <1>1 DEF EmitOrRaise, Raise, Emit, event

LEMMA NoteAppends ==
    ASSUME NEW type, EmitOrRaise(Note(type))
    PROVE  /\ crashes' = crashes
           /\ \E event : events' = Append(events, event) /\ event.type = type
BY ChangeAppends DEF Note

\* What a step of the session other than a reconstruction adds to the record.
SessionAdds ==
    \/ UNCHANGED <<events, executions>>
    \/ /\ executions' = executions
       /\ \E event : events' = Append(events, event) /\ event.type # "session_reconstructed"
    \/ \E p \in Proposals, e \in Executions :
          /\ executions' = [executions EXCEPT ![e] = p]
          /\ events' = Append(events, Event("execution_authorized", p, approval, e))

LEMMA SessionAdding ==
    ASSUME [SessionNext]_sessionVars, ~Reconstruct
    PROVE  SessionAdds
<1> USE DEF SessionAdds
<1>1. CASE UNCHANGED sessionVars
  BY <1>1 DEF sessionVars
<1>2. ASSUME NEW type, type # "session_reconstructed", EmitOrRaise(Note(type)),
             executions' = executions
      PROVE  SessionAdds
  BY <1>2, NoteAppends
<1>3. CASE SafeHold \/ SafeHoldRaises \/ BeginRecovery \/ CompleteRecovery \/ RecoveryIneligible
  BY <1>2, <1>3 DEF SafeHold, SafeHoldRaises, Holding, Notes, EmitOrRaise, BeginRecovery,
                    CompleteRecovery, RecoveryIneligible
<1>4. ASSUME NEW p \in Proposals, Propose(p)
      PROVE  SessionAdds
  BY <1>4, ChangeAppends DEF Propose
<1>5. ASSUME NEW p \in Proposals, ProposeAgain(p)
      PROVE  SessionAdds
  BY <1>2, <1>5 DEF ProposeAgain, Repeats, Notes, EmitOrRaise
<1>6. ASSUME NEW p \in Proposals, NEW a \in Approvals, NEW o \in Operators, Approve(p, a, o)
      PROVE  SessionAdds
  <2>1. events' = Append(events, Event("envelope_approved", p, approval', NoOne))
        /\ executions' = executions
    BY <1>6 DEF Approve, Emit
  <2>2. Event("envelope_approved", p, approval', NoOne).type # "session_reconstructed"
    BY DEF Event
  <2> QED
    BY <2>1, <2>2
<1>7. ASSUME NEW p \in Proposals, NEW a \in Approvals, NEW o \in Operators, ApproveAgain(p, a, o)
      PROVE  SessionAdds
  BY <1>2, <1>7 DEF ApproveAgain, Repeats, Notes, EmitOrRaise
<1>8. ASSUME NEW p \in Proposals, NEW a \in Approvals, ApproveTooLate(p, a)
      PROVE  SessionAdds
  BY <1>3, <1>8 DEF ApproveTooLate
<1>9. ASSUME NEW p \in Proposals, NEW e \in Executions, AuthorizeExecution(p, e)
      PROVE  SessionAdds
  BY <1>9 DEF AuthorizeExecution, Emit
<1>10. ASSUME NEW p \in Proposals, NEW e \in Executions,
              AuthorizeTooLate(p, e) \/ AuthorizeIneligible(p, e) \/ AuthorizeHoldRaises(p, e)
       PROVE  SessionAdds
  BY <1>3, <1>10 DEF AuthorizeTooLate, AuthorizeIneligible, AuthorizeHoldRaises
<1>11. CASE Crash \/ Tick
  BY <1>11 DEF Crash, Tick
<1> QED
  BY <1>1, <1>3, <1>4, <1>5, <1>6, <1>7, <1>8, <1>9, <1>10, <1>11
     DEF SessionNext, OperatorStep, AuthorizeStep

\* Without a reconstruction no authorization leaves the record, and every
\* execution_id the session knows stays recorded.
LEMMA RecordsStay ==
    ASSUME SessionTypeOK, SessionTypeOK', ExecutionsRecorded, SessionAdds
    PROVE  /\ ExecutionsRecorded'
           /\ \A p, e : RecordedFor(p, e) => RecordedFor(p, e)'
<1>1. events \in Seq(Events) /\ events' \in Seq(Events) /\ DOMAIN executions = Executions
  BY DEF SessionTypeOK
<1>2. CASE UNCHANGED <<events, executions>>
  BY <1>2 DEF ExecutionsRecorded, RecordedFor, OwnAuthorizations, EventIs
<1>3. CASE /\ executions' = executions
           /\ \E event : events' = Append(events, event) /\ event.type # "session_reconstructed"
  <2>1. PICK event : events' = Append(events, event) /\ event.type # "session_reconstructed"
    BY <1>3
  <2>2. \A p, e : RecordedFor(p, e) => RecordedFor(p, e)'
    BY <1>1, <2>1, GrownBy, OwnKept
  <2> QED
    BY <1>3, <2>2 DEF ExecutionsRecorded
<1>4. CASE \E p \in Proposals, e \in Executions :
              /\ executions' = [executions EXCEPT ![e] = p]
              /\ events' = Append(events, Event("execution_authorized", p, approval, e))
  <2>1. PICK p \in Proposals, e \in Executions :
              /\ executions' = [executions EXCEPT ![e] = p]
              /\ events' = Append(events, Event("execution_authorized", p, approval, e))
    BY <1>4
  <2> DEFINE event == Event("execution_authorized", p, approval, e)
  <2>2. event.type = "execution_authorized" /\ event.proposal = p /\ event.execution = e
    BY DEF Event
  <2> HIDE DEF event
  <2>3. Grows(event)
    BY <1>1, <2>1, GrownBy DEF event
  <2>4. \A q, x : RecordedFor(q, x) => RecordedFor(q, x)'
    BY <1>1, <2>2, <2>3, OwnKept
  <2>5. RecordedFor(p, e)'
    BY <1>1, <2>2, <2>3, NewlyAuthorized
  <2>6. \A x \in Executions : executions'[x] = IF x = e THEN p ELSE executions[x]
    BY <1>1, <2>1
  <2>7. ASSUME NEW q \in Proposals, NEW x \in Executions, executions'[x] = q
        PROVE  RecordedFor(q, x)'
    BY <2>4, <2>5, <2>6, <2>7 DEF ExecutionsRecorded
  <2> QED
    BY <2>4, <2>7 DEF ExecutionsRecorded
<1> QED
  BY <1>2, <1>3, <1>4 DEF SessionAdds

-----------------------------------------------------------------------------
(* A step of the harness, whatever the session and the meters do in it.    *)

\* Nothing of the cycle moves: there is none, or the step stutters.
Rests == UNCHANGED <<harnessVars, crashes>> /\ (phase # "idle" => UNCHANGED vars)

\* The cycle ends with nothing written: the sink has failed to take the outcome
\* that is owed, or the process is dead, or no action was in flight.
Ends ==
    /\ CycleEnds
    /\ UNCHANGED <<caps, mutated, audit, configuration>>
    /\ \/ crashes' = crashes /\ phase \notin {"intended", "mutated"}
       \/ crashes' = crashes /\ failing = "action_outcome"
       \/ crashes' = crashes + 1

RejectedOutcome ==
    /\ phase = "intended" /\ CycleEnds
    /\ audit' = [audit EXCEPT !["rejected"] = @ + 1]
    /\ UNCHANGED <<caps, mutated, configuration, crashes>>

HarnessStep ==
    \/ Rests \/ Ends \/ RejectedOutcome
    \/ /\ crashes' = crashes
       /\ \/ \E x \in Samples, p \in Proposals, e \in Executions : MeterAccepted(x, p, e)
          \/ Authorized
          \/ \E plan \in Plans : PlanAccepted(plan)
          \/ IntentDurable \/ Mutate
          \/ OutcomeDurable /\ Len(todo) # 1
    \/ OutcomeDurable /\ Len(todo) = 1 /\ CycleEnds /\ crashes' = crashes

LEMMA HarnessSteps ==
    ASSUME CycleOpen, [Next]_vars
    PROVE  HarnessStep
<1> USE DEF HarnessStep
<1>1. CASE UNCHANGED vars
  BY <1>1 DEF vars, sessionVars, Rests
<1>2. SafeHold \/ SafeHoldRaises => crashes' = crashes
  BY DEF SafeHold, SafeHoldRaises, Raise, Notes, Emit
<1>3. CASE RunCycle
  <2>1. CASE MeterUnusable \/ PlanRejected \/ IntentFails
    <3>1. Ends
      BY <1>2, <2>1 DEF MeterUnusable, PlanRejected, IntentFails, Holds, Ends
    <3> QED
      BY <3>1
  <2>2. CASE AuthorizationExpired \/ AuthorizationRefused
    <3>1. Ends
      BY <1>2, <2>2 DEF AuthorizationExpired, AuthorizationRefused, AuthorizeTooLate, sessionVars, Ends
    <3> QED
      BY <3>1
  <2>3. CASE NothingToDo \/ OutcomeFails
    <3>1. Ends
      BY <2>3 DEF NothingToDo, OutcomeFails, AuditRaises, Writable, sessionVars, Ends
    <3> QED
      BY <3>1
  <2>4. CASE BoundaryFault
    <3>1. Ends \/ RejectedOutcome
      BY <1>2, <2>4 DEF BoundaryFault, AuditRaises, Writes, Writable, Holds, sessionVars, Ends,
                        RejectedOutcome
    <3> QED
      BY <3>1
  <2>5. CASE \E x \in Samples, p \in Proposals, e \in Executions : MeterAccepted(x, p, e)
    BY <2>5 DEF MeterAccepted, sessionVars
  <2>6. CASE Authorized
    BY <2>6 DEF Authorized, AuthorizeExecution, Emit, sessionVars
  <2>7. CASE \E plan \in Plans : PlanAccepted(plan)
    BY <2>7 DEF PlanAccepted, sessionVars
  <2>8. CASE IntentDurable \/ Mutate
    <3>1. crashes' = crashes
      BY <2>8 DEF IntentDurable, Mutate, sessionVars
    <3> QED
      BY <2>8, <3>1
  <2>9. CASE OutcomeDurable
    BY <2>9 DEF OutcomeDurable, sessionVars
  <2> QED
    BY <1>3, <2>1, <2>2, <2>3, <2>4, <2>5, <2>6, <2>7, <2>8, <2>9 DEF RunCycle
<1>4. CASE BetweenCycles
  <2>1. crashes' = crashes
    BY <1>2, <1>4 DEF BetweenCycles, OperatorStep, Tick, Propose, ProposeAgain, Approve, ApproveAgain,
       ApproveTooLate, BeginRecovery, RecoveryIneligible, CompleteRecovery, Repeats, EmitOrRaise,
       Raise, Notes, Emit
  <2>2. Rests
    BY <1>4, <2>1 DEF BetweenCycles, Rests
  <2> QED
    BY <2>2
<1>5. CASE \E x \in Samples : PrimeMeter(x)
  <2>1. Rests
    BY <1>5 DEF PrimeMeter, sessionVars, Rests
  <2> QED
    BY <2>1
<1>6. CASE \E s \in Sources, e \in Epochs : MeterRestarts(s, e)
  <2>1. Rests
    BY <1>6 DEF MeterRestarts, sessionVars, Rests
  <2> QED
    BY <2>1
<1>7. CASE ControllerCrash
  <2>1. Ends
    BY <1>7 DEF ControllerCrash, Crash, Ends
  <2> QED
    BY <2>1
<1>8. CASE ControllerRestart
  <2>1. crashes' = crashes /\ UNCHANGED harnessVars
    BY <1>8 DEF ControllerRestart, Reconstruct, Rebuild, Emit
  <2>2. ASSUME phase # "idle" PROVE FALSE
    BY <1>8, <2>2 DEF ControllerRestart, Reconstruct, Rebuild, CycleOpen, Running
  <2> QED
    BY <2>1, <2>2 DEF Rests
<1> QED
  BY <1>1, <1>3, <1>4, <1>5, <1>6, <1>7, <1>8 DEF Next

\* Plans are sequences of actions.
LEMMA PlansAreSequences ==
    ASSUME NEW plan \in Plans
    PROVE  plan \in Seq(Actions)
<1>1. PICK n \in 0 .. MaxPlan : plan \in [1 .. n -> Actions]
  BY DEF Plans
<1> QED
  BY <1>1

\* The types of the harness's own variables.
HarnessTypeOK ==
    /\ phase \in Phases
    /\ cycle \in Cycles \cup {NoCycle}
    /\ todo \in Seq(Actions)
    /\ caps \in [Workloads -> Caps \cup {Uncapped}]
    /\ mutated \in Nat
    /\ audit \in [RecordKinds -> Nat]
    /\ recovering \in BOOLEAN

LEMMA CycleTypes == CycleTypeOK <=> SessionTypeOK /\ SequenceTypeOK /\ HarnessTypeOK
  BY DEF CycleTypeOK, HarnessTypeOK, Cycles

\* The first of a sequence of actions, and the rest.
LEMMA FirstAction ==
    ASSUME todo \in Seq(Actions), todo # <<>>
    PROVE  /\ Head(todo) = todo[1] /\ 1 \in DOMAIN todo /\ Head(todo) \in Actions
           /\ Tail(todo) \in Seq(Actions)
           /\ Len(todo) # 1 => Tail(todo) # <<>>
           /\ \A i \in DOMAIN Tail(todo) : /\ i + 1 \in DOMAIN todo /\ i + 1 # 1 /\ i \in Nat
                                           /\ Tail(todo)[i] = todo[i + 1]
           /\ \A i \in DOMAIN todo : todo[i] \in Actions
<1>1. /\ Head(todo) = todo[1] /\ Len(todo) \in Nat \ {0} /\ DOMAIN todo = 1 .. Len(todo)
      /\ \A i \in 1 .. Len(todo) : todo[i] \in Actions
      /\ Tail(todo) \in Seq(Actions) /\ Len(Tail(todo)) = Len(todo) - 1
      /\ \A i \in 1 .. Len(todo) - 1 : Tail(todo)[i] = todo[i + 1]
      /\ DOMAIN Tail(todo) = 1 .. Len(todo) - 1
  BY SMTT(30)
<1>2. Len(todo) # 1 => Len(Tail(todo)) # 0
  BY <1>1
<1>3. Len(todo) # 1 => Tail(todo) # <<>>
  BY <1>2
<1>4. ASSUME NEW i \in DOMAIN Tail(todo)
      PROVE  i + 1 \in DOMAIN todo /\ i + 1 # 1 /\ i \in Nat /\ Tail(todo)[i] = todo[i + 1]
  <2>1. i \in 1 .. Len(todo) - 1
    BY <1>1
  <2> QED
    BY <1>1, <2>1
<1>5. 1 \in DOMAIN todo /\ Head(todo) \in Actions /\ \A i \in DOMAIN todo : todo[i] \in Actions
  BY <1>1
<1> QED
  BY <1>1, <1>3, <1>4, <1>5

LEMMA StepTypes ==
    ASSUME HarnessTypeOK, CycleOpen, HarnessStep
    PROVE  HarnessTypeOK'
<1> USE DEF HarnessTypeOK, Phases, RecordKinds
<1>1. CASE Rests
  BY <1>1 DEF Rests, harnessVars, configuration
<1>2. CASE Ends
  BY <1>2 DEF Ends, CycleEnds, configuration
<1>3. CASE RejectedOutcome
  BY <1>3 DEF RejectedOutcome, CycleEnds, configuration
<1>4. ASSUME NEW x \in Samples, NEW p \in Proposals, NEW e \in Executions, MeterAccepted(x, p, e)
      PROVE  HarnessTypeOK'
  BY <1>4 DEF MeterAccepted, configuration, Cycles
<1>5. CASE Authorized
  BY <1>5 DEF Authorized, configuration
<1>6. ASSUME NEW plan \in Plans, PlanAccepted(plan)
      PROVE  HarnessTypeOK'
  BY <1>6, PlansAreSequences DEF PlanAccepted, configuration
<1>7. CASE IntentDurable
  BY <1>7 DEF IntentDurable, Writes, configuration
<1>8. CASE Mutate
  <2>1. Head(todo) \in Actions
    BY <1>8, FirstAction DEF Mutate, CycleOpen, Acting
  <2>2. caps' \in [Workloads -> Caps \cup {Uncapped}]
    BY <1>8, <2>1 DEF Mutate, Actions
  <2> QED
    BY <1>8, <2>2 DEF Mutate, configuration
<1>9. CASE OutcomeDurable
  <2>1. Tail(todo) \in Seq(Actions)
    BY <1>9, FirstAction DEF OutcomeDurable, CycleOpen, Acting
  <2>2. audit' \in [RecordKinds -> Nat]
    BY <1>9 DEF OutcomeDurable, Writes
  <2>3. CASE Len(todo) = 1
    BY <1>9, <2>2, <2>3 DEF OutcomeDurable, CycleEnds, configuration
  <2>4. CASE Len(todo) # 1
    BY <1>9, <2>1, <2>2, <2>4 DEF OutcomeDurable, configuration
  <2> QED
    BY <2>3, <2>4
<1> QED
  BY <1>1, <1>2, <1>3, <1>4, <1>5, <1>6, <1>7, <1>8, <1>9 DEF HarnessStep

\* A cycle keeps its identities, a live controller and what is left to do.
LEMMA StepOpen ==
    ASSUME HarnessTypeOK, CycleOpen, HarnessStep, [Next]_vars
    PROVE  CycleOpen'
<1> USE DEF CycleOpen, Acting
<1>1. CASE Rests
  <2>1. CASE phase = "idle"
    BY <1>1, <2>1 DEF Rests, harnessVars
  <2>2. CASE phase # "idle"
    BY <1>1, <2>2 DEF Rests, vars, harnessVars, sessionVars, Running
  <2> QED
    BY <2>1, <2>2
<1>2. CASE phase' = "idle"
  BY <1>2
<1>3. ASSUME NEW x \in Samples, NEW p \in Proposals, NEW e \in Executions, MeterAccepted(x, p, e)
      PROVE  CycleOpen'
  BY <1>3 DEF MeterAccepted, Cycles, sessionVars, Running
<1>4. CASE Authorized
  BY <1>4 DEF Authorized, AuthorizeExecution, sessionVars, Running
<1>5. ASSUME NEW plan \in Plans, PlanAccepted(plan)
      PROVE  CycleOpen'
  BY <1>5 DEF PlanAccepted, sessionVars, Running
<1>6. CASE IntentDurable
  BY <1>6 DEF IntentDurable, sessionVars, Running
<1>7. CASE Mutate
  BY <1>7 DEF Mutate, sessionVars, Running
<1>8. CASE OutcomeDurable /\ Len(todo) # 1
  <2>1. Tail(todo) # <<>>
    BY <1>8, FirstAction DEF OutcomeDurable, HarnessTypeOK
  <2> QED
    BY <1>8, <2>1 DEF OutcomeDurable, sessionVars, Running
<1> QED
  BY <1>1, <1>2, <1>3, <1>4, <1>5, <1>6, <1>7, <1>8
     DEF HarnessStep, Ends, RejectedOutcome, CycleEnds

\* The audit counts what is made and what came of it.
LEMMA StepCounts ==
    ASSUME HarnessTypeOK, crashes \in Nat, Counts, CycleOpen, HarnessStep
    PROVE  Counts'
<1> USE DEF Counts, InFlight
<1>1. /\ mutated \in Nat /\ audit \in [RecordKinds -> Nat]
      /\ audit["action_intent"] \in Nat /\ audit["observed"] \in Nat /\ audit["rejected"] \in Nat
  BY DEF HarnessTypeOK, RecordKinds
<1>2. CASE Rests
  BY <1>2 DEF Rests, harnessVars, configuration
<1>3. CASE Ends
  BY <1>1, <1>3 DEF Ends, CycleEnds, configuration
<1>4. CASE RejectedOutcome
  <2>1. /\ audit'["action_intent"] = audit["action_intent"]
        /\ audit'["observed"] = audit["observed"]
        /\ audit'["rejected"] = audit["rejected"] + 1
    BY <1>1, <1>4 DEF RejectedOutcome, RecordKinds
  <2> QED
    BY <1>1, <1>4, <2>1 DEF RejectedOutcome, CycleEnds, configuration
<1>5. CASE \/ \E x \in Samples, p \in Proposals, e \in Executions : MeterAccepted(x, p, e)
           \/ Authorized \/ (\E plan \in Plans : PlanAccepted(plan))
  <2>1. /\ UNCHANGED <<mutated, audit, failing>>
        /\ phase \notin {"intended", "mutated"} /\ phase' \notin {"intended", "mutated"}
    BY <1>5 DEF MeterAccepted, Authorized, PlanAccepted, configuration
  <2>2. crashes' = crashes
    BY <1>5 DEF MeterAccepted, Authorized, AuthorizeExecution, Emit, PlanAccepted, sessionVars
  <2> QED
    BY <1>1, <2>1, <2>2
<1>6. CASE IntentDurable /\ crashes' = crashes
  <2>1. /\ audit'["action_intent"] = audit["action_intent"] + 1
        /\ audit'["observed"] = audit["observed"]
        /\ audit'["rejected"] = audit["rejected"]
    BY <1>1, <1>6 DEF IntentDurable, Writes, RecordKinds
  <2> QED
    BY <1>1, <1>6, <2>1 DEF IntentDurable, configuration
<1>7. CASE Mutate /\ crashes' = crashes
  BY <1>1, <1>7 DEF Mutate, configuration
<1>8. CASE OutcomeDurable /\ crashes' = crashes
  <2>1. /\ audit'["action_intent"] = audit["action_intent"]
        /\ audit'["observed"] = audit["observed"] + 1
        /\ audit'["rejected"] = audit["rejected"]
    BY <1>1, <1>8 DEF OutcomeDurable, Writes, RecordKinds
  <2>2. phase = "mutated" /\ phase' \in {"idle", "acting"} /\ mutated' = mutated /\ failing' = failing
    BY <1>8 DEF OutcomeDurable, CycleEnds, configuration
  <2> QED
    BY <1>1, <1>8, <2>1, <2>2
<1> QED
  BY <1>2, <1>3, <1>4, <1>5, <1>6, <1>7, <1>8 DEF HarnessStep

-----------------------------------------------------------------------------
(* What is left of the plan.                                               *)

LEMMA PlanLeftNext ==
    ASSUME phase' \in Acting =>
             /\ \A i, j \in DOMAIN todo' : todo'[i].workload = todo'[j].workload => i = j
             /\ \A i \in DOMAIN todo' : \A a :
                    a = todo'[i] /\ (phase' = "mutated" => i # 1) => Valid(a)'
    PROVE  PlanLeft'
  BY DEF PlanLeft, Valid, AboveFloors, Draw

LEMMA ValidKept ==
    ASSUME UNCHANGED <<caps, recovering>>
    PROVE  \A a : Valid(a) <=> Valid(a)'
  BY DEF Valid, AboveFloors, Draw

\* The two validators together accept nothing else.
LEMMA ValidatedPlan ==
    ASSUME NEW plan \in Plans, Validated(plan)
    PROVE  /\ \A i, j \in DOMAIN plan : plan[i].workload = plan[j].workload => i = j
           /\ \A i \in DOMAIN plan : Valid(plan[i])
<1>1. ASSUME NEW i \in DOMAIN plan
      PROVE  Valid(plan[i])
  <2>1. CASE recovering
    BY <1>1, <2>1 DEF Validated, ControllerAccepts, PolicyAccepts, Valid
  <2>2. CASE ~recovering
    BY <1>1, <2>2 DEF Validated, ControllerAccepts, PolicyAccepts, Valid
  <2> QED
    BY <2>1, <2>2
<1> QED
  BY <1>1 DEF Validated, ControllerAccepts

\* A change is the first action of a plan, and changes nothing the others
\* are about.
LEMMA MutateKeepsPlan ==
    ASSUME HarnessTypeOK, CycleOpen, LegalCaps(caps), PlanLeft, Mutate
    PROVE  LegalCaps(caps') /\ PlanLeft'
<1> DEFINE w == Head(todo).workload
           v == Head(todo).value
<1>1. /\ Head(todo) = todo[1] /\ 1 \in DOMAIN todo /\ Head(todo) \in Actions
      /\ \A i \in DOMAIN todo : todo[i] \in Actions
  BY FirstAction DEF Mutate, CycleOpen, Acting, HarnessTypeOK
<1>2. Valid(Head(todo)) /\ w \in Workloads
  BY <1>1 DEF Mutate, PlanLeft, Acting, Actions
<1>3. \A x \in Workloads : caps'[x] = IF x = w THEN v ELSE caps[x]
  BY DEF Mutate, HarnessTypeOK
<1>4. UNCHANGED <<todo, recovering>> /\ phase' = "mutated" /\ phase = "intended"
  BY DEF Mutate, configuration
<1>5. LegalCaps(caps')
  <2>1. v # Uncapped => DeclaredFloor[w] # NoFloor /\ DeclaredFloor[w] <= v /\ v <= Nominal[w]
    BY <1>2 DEF Valid
  <2> HIDE DEF w, v
  <2> QED
    BY <1>3, <2>1 DEF LegalCaps
<1>6. ASSUME NEW i \in DOMAIN todo', NEW a, a = todo'[i], i # 1
      PROVE  Valid(a)'
  <2>1. Valid(a) /\ a.workload # w /\ a.workload \in Workloads
    BY <1>1, <1>4, <1>6 DEF PlanLeft, Acting, Actions
  <2>2. caps'[a.workload] = caps[a.workload]
    BY <1>3, <2>1
  <2> QED
    BY <1>4, <2>1, <2>2 DEF Valid, AboveFloors, Draw
<1>7. \A i, j \in DOMAIN todo' : todo'[i].workload = todo'[j].workload => i = j
  BY <1>4 DEF PlanLeft, Acting
<1> QED
  BY <1>4, <1>5, <1>6, <1>7, PlanLeftNext

LEMMA StepPlan ==
    ASSUME HarnessTypeOK, CycleOpen, LegalCaps(caps), PlanLeft, HarnessStep
    PROVE  LegalCaps(caps') /\ PlanLeft'
<1>1. CASE Rests
  <2>1. UNCHANGED <<phase, todo, caps, recovering>>
    BY <1>1 DEF Rests, harnessVars, configuration
  <2>2. PlanLeft'
    BY <2>1, ValidKept, PlanLeftNext DEF PlanLeft
  <2> QED
    BY <2>1, <2>2
<1>2. CASE phase' \notin Acting /\ caps' = caps
  BY <1>2 DEF PlanLeft
<1>3. ASSUME NEW plan \in Plans, PlanAccepted(plan)
      PROVE  LegalCaps(caps') /\ PlanLeft'
  <2>1. UNCHANGED <<caps, recovering>> /\ todo' = plan /\ Validated(plan)
    BY <1>3 DEF PlanAccepted, configuration
  <2>2. PlanLeft'
    BY <2>1, ValidatedPlan, ValidKept, PlanLeftNext
  <2> QED
    BY <2>1, <2>2
<1>4. CASE IntentDurable
  <2>1. /\ UNCHANGED <<todo, caps, recovering>>
        /\ phase = "acting" /\ phase' = "intended"
    BY <1>4 DEF IntentDurable, configuration
  <2>2. PlanLeft'
    BY <2>1, ValidKept, PlanLeftNext DEF PlanLeft, Acting
  <2> QED
    BY <2>1, <2>2
<1>5. CASE Mutate
  BY <1>5, MutateKeepsPlan
<1>6. CASE OutcomeDurable /\ Len(todo) # 1
  <2>1. /\ UNCHANGED <<caps, recovering>> /\ todo' = Tail(todo)
        /\ phase = "mutated" /\ phase' = "acting"
    BY <1>6 DEF OutcomeDurable, configuration
  <2>2. \A i \in DOMAIN todo' : /\ i + 1 \in DOMAIN todo /\ i + 1 # 1 /\ i \in Nat
                                /\ todo'[i] = todo[i + 1]
    BY <2>1, FirstAction DEF CycleOpen, Acting, HarnessTypeOK
  <2>3. \A i, j \in DOMAIN todo' : todo'[i].workload = todo'[j].workload => i = j
    <3>1. ASSUME NEW i \in DOMAIN todo', NEW j \in DOMAIN todo',
                 todo'[i].workload = todo'[j].workload
          PROVE  i = j
      <4>1. i + 1 = j + 1
        BY <2>1, <2>2, <3>1 DEF PlanLeft, Acting
      <4> QED
        BY <2>2, <4>1
    <3> QED
      BY <3>1
  <2>4. \A i \in DOMAIN todo' : \A a : a = todo'[i] => Valid(a)'
    BY <2>1, <2>2, ValidKept DEF PlanLeft, Acting
  <2>5. PlanLeft'
    BY <2>3, <2>4, PlanLeftNext
  <2> QED
    BY <2>1, <2>5
<1>7. ASSUME NEW x \in Samples, NEW p \in Proposals, NEW e \in Executions, MeterAccepted(x, p, e)
      PROVE  phase' \notin Acting /\ caps' = caps
  BY <1>7 DEF MeterAccepted, Acting
<1>8. Authorized \/ Ends \/ RejectedOutcome \/ (OutcomeDurable /\ Len(todo) = 1 /\ CycleEnds)
        => phase' \notin Acting /\ caps' = caps
  BY DEF Authorized, Ends, RejectedOutcome, OutcomeDurable, CycleEnds, Acting
<1> QED
  BY <1>1, <1>2, <1>3, <1>4, <1>5, <1>6, <1>7, <1>8 DEF HarnessStep
-----------------------------------------------------------------------------
(* The session, the reconciler and what the cycle acts on.                 *)

\* A restart begins with a new reconciler; all else is a step of its own.
LEMMA StepShared ==
    ASSUME CycleInv, [Next]_vars
    PROVE  SessionInv' /\ SequenceInv'
<1>1. SessionInv'
  BY SessionStepOfCycle, SessionInvStep DEF CycleInv
<1>2. CASE ControllerRestart
  <2>1. SequenceInv'
    BY <1>2, EpochAssumption, SequenceAssumption
       DEF ControllerRestart, SequenceInv, SequenceTypeOK, EpochsApart, UsedOnce, Unseen, Cursors,
           SequenceNumbers
  <2> QED
    BY <1>1, <2>1
<1>3. CASE [SequenceNext]_sequenceVars
  BY <1>1, <1>3, SequenceInvStep DEF CycleInv
<1> QED
  BY <1>2, <1>3, SequenceStepOfCycle

LEMMA ActsNext ==
    ASSUME NEW p, NEW e, cycle'.proposal = p, cycle'.execution = e, RecordedFor(p, e)'
    PROVE  ActsOnRecordedAuthorization'
  BY DEF ActsOnRecordedAuthorization, RecordedFor

\* An authorization is on record before it is acted on and does not leave the
\* record while there is a cycle: only a restart empties it, between cycles.
LEMMA StepRecords ==
    ASSUME CycleInv, SessionTypeOK', [Next]_vars, HarnessStep
    PROVE  ExecutionsRecorded' /\ ActsOnRecordedAuthorization'
<1>1. CASE Reconstruct
  <2>1. \A e \in Executions : executions'[e] = NoOne
    BY <1>1 DEF Reconstruct, Rebuild, NothingExecuted
  <2>2. ExecutionsRecorded'
    BY <2>1, NoOneAssumption DEF ExecutionsRecorded
  <2>3. phase = "idle" /\ ~Running
    BY <1>1 DEF Reconstruct, Rebuild, CycleInv, CycleOpen, Running
  <2>4. phase' = "idle"
    BY <2>3 DEF HarnessStep, Rests, harnessVars, Ends, RejectedOutcome, CycleEnds, MeterAccepted,
                Authorized, PlanAccepted, IntentDurable, Mutate, OutcomeDurable
  <2> QED
    BY <2>2, <2>4 DEF ActsOnRecordedAuthorization
<1>2. CASE ~Reconstruct
  <2>1. SessionAdds
    BY <1>2, SessionStepOfCycle, SessionAdding DEF CycleInv
  <2>2. ExecutionsRecorded' /\ \A p, e : RecordedFor(p, e) => RecordedFor(p, e)'
    BY <2>1, RecordsStay DEF CycleInv, SessionInv
  <2>3. CASE phase' \in {"idle", "metered"}
    BY <2>2, <2>3 DEF ActsOnRecordedAuthorization
  <2>4. CASE Authorized
    <3>1. PICK p \in Proposals, e \in Executions : cycle.proposal = p /\ cycle.execution = e
      BY <2>4 DEF Authorized, CycleInv, CycleOpen, Cycles
    <3>2. executions'[e] = p
      BY <2>4, <3>1 DEF Authorized, AuthorizeExecution, AlreadyAuthorized, sessionVars, CycleInv,
                        SessionInv, SessionTypeOK
    <3>3. RecordedFor(p, e)'
      BY <2>2, <3>2 DEF ExecutionsRecorded
    <3>4. cycle' = cycle
      BY <2>4 DEF Authorized
    <3> QED
      BY <2>2, <3>1, <3>3, <3>4, ActsNext
  <2>5. CASE cycle' = cycle /\ phase \in Phases \ {"idle", "metered"}
    <3>1. PICK p, e : cycle.proposal = p /\ cycle.execution = e
      OBVIOUS
    <3>2. RecordedFor(p, e)
      BY <2>5, <3>1 DEF CycleInv, ActsOnRecordedAuthorization, RecordedFor
    <3> QED
      BY <2>2, <2>5, <3>1, <3>2, ActsNext
  <2>6. \/ phase' \in {"idle", "metered"} \/ Authorized
        \/ cycle' = cycle /\ phase \in Phases \ {"idle", "metered"}
    BY DEF HarnessStep, Rests, harnessVars, Ends, RejectedOutcome, CycleEnds, MeterAccepted,
           PlanAccepted, IntentDurable, Mutate, OutcomeDurable, CycleInv, CycleTypeOK, Phases
  <2> QED
    BY <2>3, <2>4, <2>5, <2>6
<1> QED
  BY <1>1, <1>2

-----------------------------------------------------------------------------
(* The theorems.                                                           *)

LEMMA CycleInit == Init => CycleInv
<1> SUFFICES ASSUME Init
             PROVE  CycleInv
  OBVIOUS
<1>1. SessionInv /\ SequenceInv
  BY InitInv, SequenceInvInit DEF Init
<1>2. CycleTypeOK
  <2>1. HarnessTypeOK
    BY DEF Init, HarnessTypeOK, Phases, RecordKinds
  <2> QED
    BY <1>1, <2>1, CycleTypes DEF SessionInv, SequenceInv
<1>3. phase = "idle" /\ mutated = 0 /\ \A k \in RecordKinds : audit[k] = 0
  BY DEF Init
<1>4. CycleOpen /\ ActsOnRecordedAuthorization /\ PlanLeft /\ LegalCaps(caps)
  BY <1>3 DEF Init, CycleOpen, Acting, ActsOnRecordedAuthorization, PlanLeft
<1>5. ExecutionsRecorded
  BY NoOneAssumption DEF Init, SessionInit, ExecutionsRecorded
<1>6. Counts
  BY <1>1, <1>3 DEF Counts, InFlight, RecordKinds, SessionInv, SessionTypeOK
<1> QED
  BY <1>1, <1>2, <1>4, <1>5, <1>6 DEF CycleInv

LEMMA CycleStep ==
    ASSUME CycleInv, [Next]_vars
    PROVE  CycleInv'
<1>1. HarnessStep /\ HarnessTypeOK
  BY HarnessSteps, CycleTypes DEF CycleInv
<1>2. SessionInv' /\ SequenceInv'
  BY StepShared
<1>3. HarnessTypeOK'
  BY <1>1, StepTypes DEF CycleInv
<1>4. CycleTypeOK'
  BY <1>2, <1>3 DEF CycleTypeOK, HarnessTypeOK, SessionInv, SequenceInv, Cycles
<1>5. CycleOpen'
  BY <1>1, StepOpen DEF CycleInv
<1>6. ExecutionsRecorded' /\ ActsOnRecordedAuthorization'
  BY <1>1, <1>2, StepRecords DEF SessionInv
<1>7. LegalCaps(caps') /\ PlanLeft'
  BY <1>1, StepPlan DEF CycleInv
<1>8. Counts'
  BY <1>1, StepCounts DEF CycleInv, SessionInv, SessionTypeOK
<1> QED
  BY <1>2, <1>4, <1>5, <1>6, <1>7, <1>8 DEF CycleInv

\* Init and every step keep the invariant.
THEOREM CycleInvariant == Spec => []CycleInv
  BY CycleInit, CycleStep, PTL DEF Spec

(***************************************************************************)
(* The cycle's own fields keep their form: the plan it carries out is a    *)
(* sequence of actions however often it is cut short, and every cap is     *)
(* None or one a planner proposed.                                         *)
(***************************************************************************)
THEOREM CycleTypesCorrect == Spec => []CycleTypeOK
<1>1. CycleInv => CycleTypeOK
  BY DEF CycleInv
<1> QED
  BY <1>1, CycleInvariant, PTL

(***************************************************************************)
(* Whatever run_cycle does to its session is one call of the session: the  *)
(* harness implements the session's specification, so all that holds of a  *)
(* session holds of the one it drives.                                     *)
(***************************************************************************)
THEOREM ImplementsSession == Spec => SessionSpec
<1>1. CycleInv /\ [Next]_vars => [SessionNext]_sessionVars
  BY SessionStepOfCycle DEF CycleInv
<1>2. Init => SessionInit
  BY DEF Init
<1> QED
  BY <1>1, <1>2, CycleInvariant, PTL DEF Spec, SessionSpec

(***************************************************************************)
(* From the authorization to the last change the execution_id is on record *)
(* for the cycle's proposal, authorized by this controller.                *)
(***************************************************************************)
THEOREM CyclesActOnTheRecord == Spec => []ActsOnRecordedAuthorization
<1>1. CycleInv => ActsOnRecordedAuthorization
  BY DEF CycleInv
<1> QED
  BY <1>1, CycleInvariant, PTL

(***************************************************************************)
(* Every change has a durable intent; with a working sink every intent has *)
(* an outcome but the one being carried out and those a crash cut off.     *)
(***************************************************************************)
THEOREM AuditAccounts == Spec => []AuditAccountsForChanges
<1>1. CycleInv => AuditAccountsForChanges
  <2> SUFFICES ASSUME CycleInv
               PROVE  AuditAccountsForChanges
    OBVIOUS
  <2>1. /\ mutated \in Nat /\ crashes \in Nat
        /\ audit["action_intent"] \in Nat /\ audit["observed"] \in Nat
        /\ audit["rejected"] \in Nat
    BY DEF CycleInv, CycleTypeOK, SessionTypeOK, RecordKinds
  <2> QED
    BY <2>1 DEF CycleInv, Counts, InFlight, AuditAccountsForChanges
<1> QED
  BY <1>1, CycleInvariant, PTL

\* Only Mutate changes a cap, and it changes one to what is still valid.
LEMMA ChangeInPolicy ==
    ASSUME CycleInv, [Next]_vars, NEW w \in Workloads, caps'[w] # caps[w]
    PROVE  /\ w \notin Protected /\ PolicyFloor[w] # NoFloor
           /\ caps'[w] # Uncapped => AboveFloors(w, caps'[w]) /\ caps'[w] <= Nominal[w]
           /\ IF recovering THEN Draw(w)' >= Draw(w) ELSE Draw(w)' < Draw(w)
<1>1. Mutate
  BY HarnessSteps
     DEF CycleInv, HarnessStep, Rests, harnessVars, Ends, RejectedOutcome, MeterAccepted, Authorized,
         PlanAccepted, IntentDurable, OutcomeDurable
<1> DEFINE v == Head(todo).value
<1>2. /\ Head(todo) = todo[1] /\ 1 \in DOMAIN todo /\ Head(todo) \in Actions
  BY <1>1, FirstAction DEF Mutate, CycleInv, CycleOpen, Acting, CycleTypeOK
<1>3. w = Head(todo).workload /\ caps'[w] = v
  BY <1>1 DEF Mutate, CycleInv, CycleTypeOK
<1>4. Valid(Head(todo))
  BY <1>1, <1>2 DEF Mutate, CycleInv, PlanLeft, Acting
<1>5. v \in Caps \cup {Uncapped} /\ caps[w] \in Caps \cup {Uncapped}
  BY <1>2 DEF Actions, CycleInv, CycleTypeOK
<1> HIDE DEF v
<1>6. /\ w \notin Protected /\ PolicyFloor[w] # NoFloor
      /\ v # Uncapped => AboveFloors(w, v) /\ v <= Nominal[w]
      /\ recovering => caps[w] # Uncapped /\ (v # Uncapped => Draw(w) <= v)
      /\ ~recovering => v # Uncapped /\ v < Draw(w)
  BY <1>3, <1>4 DEF Valid, v
<1>7. Draw(w)' = IF v = Uncapped THEN Nominal[w] ELSE v
  BY <1>3 DEF Draw
<1>8. CASE recovering
  <2>1. Draw(w) \in Nat /\ Nominal[w] \in Nat /\ Draw(w) = caps[w]
    BY <1>5, <1>6, <1>8, WattsAssumption DEF Draw
  <2>2. caps[w] <= Nominal[w]
    BY <1>6, <1>8 DEF CycleInv, LegalCaps
  <2>3. CASE v = Uncapped
    BY <1>3, <1>6, <1>7, <1>8, <2>1, <2>2, <2>3
  <2>4. CASE v # Uncapped
    BY <1>3, <1>5, <1>6, <1>7, <1>8, <2>1, <2>4, WattsAssumption
  <2> QED
    BY <2>3, <2>4
<1>9. CASE ~recovering
  BY <1>3, <1>6, <1>7, <1>9
<1> QED
  BY <1>8, <1>9

(***************************************************************************)
(* A plan is validated before its first action, and each of its changes is *)
(* within the policy when it is made: no protected workload, no cap below  *)
(* a floor, and power moving in the one direction that is authorized.      *)
(***************************************************************************)
THEOREM PolicyIsKept == Spec => ChangesStayInPolicy
<1>1. CycleInv /\ [Next]_vars =>
        [\A w \in Workloads : caps'[w] # caps[w] =>
            /\ w \notin Protected /\ PolicyFloor[w] # NoFloor
            /\ caps'[w] # Uncapped => AboveFloors(w, caps'[w]) /\ caps'[w] <= Nominal[w]
            /\ IF recovering THEN Draw(w)' >= Draw(w) ELSE Draw(w)' < Draw(w)]_vars
  BY ChangeInPolicy
<1> QED
  BY <1>1, CycleInvariant, PTL DEF Spec, ChangesStayInPolicy

(***************************************************************************)
(* The harness's meters only move forward too, until a restarted harness   *)
(* begins with a reconciler that has seen nothing.                         *)
(***************************************************************************)
THEOREM MetersOnlyAdvance == Spec => OnlyForward
<1>1. CycleInv /\ [Next]_vars =>
        [\A s \in Sources : cursor'[s] # cursor[s] =>
            cursor'[s] = Unseen \/ Advances(s)]_sequenceVars
  <2> SUFFICES ASSUME CycleInv, [Next]_vars, NEW s \in Sources, cursor'[s] # cursor[s]
               PROVE  cursor'[s] = Unseen \/ Advances(s)
    OBVIOUS
  <2>1. CASE ControllerRestart
    BY <2>1 DEF ControllerRestart
  <2>2. CASE [SequenceNext]_sequenceVars
    BY <2>2, ForwardStep DEF CycleInv
  <2> QED
    BY <2>1, <2>2, SequenceStepOfCycle
<1> QED
  BY <1>1, CycleInvariant, PTL DEF Spec, OnlyForward

-----------------------------------------------------------------------------
(***************************************************************************)
(* Samples and authorizations.  A cycle that has metered and not yet       *)
(* authorized holds the sample its authorization will be paid with; a      *)
(* crash ends the cycle, so that a successor, which has accepted nothing,  *)
(* also owes nothing.                                                      *)
(***************************************************************************)
SamplesCover ==
    /\ IsFiniteSet(SamplesUsed)
    /\ Cardinality(OwnAuthorizations) + InFlight("metered") <= Cardinality(SamplesUsed)

\* Nothing is added to the record, or neither an authorization nor a restart.
AddsQuietly ==
    \/ events' = events
    \/ \E event : /\ events' = Append(events, event)
                  /\ event.type \notin {"session_reconstructed", "execution_authorized"}

LEMMA NotesQuietly ==
    ASSUME NEW type, type \notin {"session_reconstructed", "execution_authorized"},
           EmitOrRaise(Note(type))
    PROVE  AddsQuietly
  BY NoteAppends DEF AddsQuietly

LEMMA OperatorsQuietly ==
    ASSUME OperatorStep
    PROVE  AddsQuietly
<1>1. CASE SafeHold \/ SafeHoldRaises \/ BeginRecovery \/ CompleteRecovery \/ RecoveryIneligible
  BY <1>1, NotesQuietly DEF SafeHold, SafeHoldRaises, Notes, EmitOrRaise, BeginRecovery,
                            CompleteRecovery, RecoveryIneligible
<1>2. ASSUME NEW p \in Proposals, Propose(p)
      PROVE  AddsQuietly
  BY <1>2, ChangeAppends DEF Propose, AddsQuietly
<1>3. ASSUME NEW p \in Proposals, ProposeAgain(p)
      PROVE  AddsQuietly
  BY <1>3, NotesQuietly DEF ProposeAgain, Repeats, Notes, EmitOrRaise
<1>4. ASSUME NEW p \in Proposals, NEW a \in Approvals, NEW o \in Operators, Approve(p, a, o)
      PROVE  AddsQuietly
  <2>1. events' = Append(events, Event("envelope_approved", p, approval', NoOne))
    BY <1>4 DEF Approve, Emit
  <2>2. QED BY <2>1 DEF AddsQuietly, Event
<1>5. ASSUME NEW p \in Proposals, NEW a \in Approvals, NEW o \in Operators, ApproveAgain(p, a, o)
      PROVE  AddsQuietly
  BY <1>5, NotesQuietly DEF ApproveAgain, Repeats, Notes, EmitOrRaise
<1>6. ASSUME NEW p \in Proposals, NEW a \in Approvals, ApproveTooLate(p, a)
      PROVE  AddsQuietly
  BY <1>1, <1>6 DEF ApproveTooLate
<1>7. QED BY <1>1, <1>2, <1>3, <1>4, <1>5, <1>6 DEF OperatorStep

LEMMA OwnIsFinite ==
    ASSUME events \in Seq(Events)
    PROVE  IsFiniteSet(OwnAuthorizations) /\ Cardinality(OwnAuthorizations) \in Nat
<1>1. Len(events) \in Nat /\ OwnAuthorizations \subseteq 1 .. Len(events)
  BY OfRange DEF OwnAuthorizations
<1>2. IsFiniteSet(1 .. Len(events))
  BY <1>1, FS_Interval
<1>3. QED BY <1>1, <1>2, FS_Subset, FS_CardinalityType

\* What an event more does to the authorizations of the present controller.
LEMMA OwnGrows ==
    ASSUME events \in Seq(Events), NEW event, Grows(event)
    PROVE  OwnAuthorizations' =
             IF event.type = "session_reconstructed" THEN {}
             ELSE IF event.type = "execution_authorized"
             THEN OwnAuthorizations \cup {Len(events')} ELSE OwnAuthorizations
<1> DEFINE n == Len(events')
<1>1. /\ Len(events) \in Nat /\ n = Len(events) + 1 /\ events'[n] = event
      /\ \A i \in 1 .. Len(events) : events'[i] = events[i]
  BY DEF Grows
<1>2. \A k \in Of(events, "execution_authorized") : k \in 1 .. Len(events)
  BY OfRange
<1>3. \A k : k \in Of(events', "execution_authorized") <=>
               \/ k \in Of(events, "execution_authorized")
               \/ k = n /\ event.type = "execution_authorized"
  BY OfGrows
<1>4. OwnAuthorizations' =
        {k \in Of(events', "execution_authorized") :
           \A l \in k .. n : events'[l].type # "session_reconstructed"}
  BY DEF OwnAuthorizations, EventIs
<1>5. OwnAuthorizations =
        {k \in Of(events, "execution_authorized") :
           \A l \in k .. Len(events) : events[l].type # "session_reconstructed"}
  BY DEF OwnAuthorizations, EventIs
<1>6. ASSUME NEW k \in 1 .. n
      PROVE  /\ n \in k .. n
             /\ k \in 1 .. Len(events) => k .. n = (k .. Len(events)) \cup {n}
             /\ k \in 1 .. Len(events) => k .. Len(events) \subseteq 1 .. Len(events)
             /\ k = n => k .. n = {n}
  BY <1>1
<1>7. n \in 1 .. n /\ 1 .. Len(events) \subseteq 1 .. n
  BY <1>1
<1>8. CASE event.type = "session_reconstructed"
  <2>1. ASSUME NEW k \in OwnAuthorizations'
        PROVE  FALSE
    <3>1. k \in 1 .. n
      BY <1>2, <1>3, <1>4, <1>7
    <3>2. QED BY <1>1, <1>4, <1>6, <1>8, <3>1
  <2>2. QED BY <1>8, <2>1
<1>9. CASE event.type # "session_reconstructed"
  <2>1. ASSUME NEW k
        PROVE  k \in OwnAuthorizations' <=>
                 \/ k \in OwnAuthorizations
                 \/ k = n /\ event.type = "execution_authorized"
    <3>1. CASE k \in 1 .. Len(events)
      <4>1. (\A l \in k .. n : events'[l].type # "session_reconstructed")
            <=> (\A l \in k .. Len(events) : events[l].type # "session_reconstructed")
        BY <1>1, <1>6, <1>7, <1>9, <3>1
      <4>2. k # n
        BY <1>1, <3>1
      <4>3. QED BY <1>3, <1>4, <1>5, <4>1, <4>2
    <3>2. CASE k = n
      <4>1. \A l \in k .. n : events'[l].type # "session_reconstructed"
        BY <1>1, <1>6, <1>7, <1>9, <3>2
      <4>2. k \notin Of(events, "execution_authorized")
        BY <1>1, <1>2, <3>2
      <4>3. QED BY <1>3, <1>4, <1>5, <3>2, <4>1, <4>2
    <3>3. CASE k \notin 1 .. Len(events) /\ k # n
      BY <1>2, <1>3, <1>4, <1>5, <3>3
    <3>4. QED BY <3>1, <3>2, <3>3
  <2>2. QED BY <1>9, <2>1
<1>10. QED BY <1>8, <1>9

LEMMA CoverStays ==
    ASSUME CycleInv, SamplesCover, CycleInv', AddsQuietly, uses' = uses,
           phase' = "metered" => phase = "metered"
    PROVE  SamplesCover'
<1>0. events \in Seq(Events) /\ events' \in Seq(Events)
  BY DEF CycleInv, SessionInv, SessionTypeOK
<1>1. OwnAuthorizations' = OwnAuthorizations
  <2>1. CASE events' = events
    BY <2>1 DEF OwnAuthorizations, EventIs
  <2>2. ASSUME NEW event, events' = Append(events, event),
               event.type \notin {"session_reconstructed", "execution_authorized"}
        PROVE  OwnAuthorizations' = OwnAuthorizations
    <3>1. Grows(event)
      BY <1>0, <2>2, GrownBy
    <3>2. QED BY <1>0, <2>2, <3>1, OwnGrows
  <2>3. QED BY <2>1, <2>2 DEF AddsQuietly
<1>2. SamplesUsed' = SamplesUsed
  BY DEF SamplesUsed
<1>3. /\ Cardinality(OwnAuthorizations) \in Nat /\ Cardinality(SamplesUsed) \in Nat
      /\ InFlight("metered")' \in Nat /\ InFlight("metered") \in Nat
      /\ InFlight("metered")' <= InFlight("metered")
  BY <1>0, OwnIsFinite, FS_CardinalityType DEF SamplesCover, InFlight
<1>4. QED BY <1>1, <1>2, <1>3 DEF SamplesCover

\* One sample more is one authorization more that it covers.
LEMMA CoverGrows ==
    ASSUME CycleInv, SamplesCover, NEW x \in Samples, Accept(x), events' = events,
           phase = "idle" \/ phase' = phase
    PROVE  SamplesCover'
<1>1. uses \in [Samples -> Nat] /\ uses[x] = 0
  <2>1. Acceptable(x)
    BY DEF Accept
  <2>2. QED BY <2>1, NewIsUnused DEF CycleInv, SequenceInv, SequenceTypeOK
<1>2. x \notin SamplesUsed /\ SamplesUsed' = SamplesUsed \cup {x}
  BY <1>1 DEF SamplesUsed, Accept
<1>3. /\ IsFiniteSet(SamplesUsed') /\ Cardinality(SamplesUsed) \in Nat
      /\ Cardinality(SamplesUsed') = Cardinality(SamplesUsed) + 1
  BY <1>2, FS_AddElement, FS_CardinalityType DEF SamplesCover
<1>4. OwnAuthorizations' = OwnAuthorizations
  BY DEF OwnAuthorizations, EventIs
<1>5. Cardinality(OwnAuthorizations) \in Nat
  BY OwnIsFinite DEF CycleInv, SessionInv, SessionTypeOK
<1>6. InFlight("metered") \in {0, 1} /\ InFlight("metered")' \in {0, 1}
      /\ (InFlight("metered") = 0 \/ InFlight("metered")' = InFlight("metered"))
  BY DEF InFlight
<1>7. QED BY <1>3, <1>4, <1>5, <1>6 DEF SamplesCover

LEMMA CoverOfAuthorized ==
    ASSUME CycleInv, SamplesCover, CycleInv', Authorized
    PROVE  SamplesCover'
<1>0. events \in Seq(Events) /\ events' \in Seq(Events) /\ cycle \in Cycles
  BY DEF CycleInv, SessionInv, SessionTypeOK, CycleOpen, Authorized
<1>1. phase = "metered" /\ phase' = "authorized" /\ uses' = uses
  BY DEF Authorized, sequenceVars
<1>2. CASE events' = events
  BY <1>1, <1>2, CoverStays DEF AddsQuietly
<1>3. CASE events' # events
  <2>1. events' = Append(events, Event("execution_authorized", cycle.proposal, approval,
                                       cycle.execution))
    BY <1>3 DEF Authorized, AuthorizeExecution, Emit, sessionVars
  <2> DEFINE event == Event("execution_authorized", cycle.proposal, approval, cycle.execution)
             n == Len(events')
  <2>2. event.type = "execution_authorized"
    BY DEF Event
  <2> HIDE DEF event
  <2>3. Grows(event)
    BY <1>0, <2>1, GrownBy DEF event
  <2>4. OwnAuthorizations' = OwnAuthorizations \cup {n}
    BY <1>0, <2>2, <2>3, OwnGrows
  <2>5. n \notin OwnAuthorizations
    <3>1. \A k \in OwnAuthorizations : k \in 1 .. Len(events)
      BY <1>0, OfRange DEF OwnAuthorizations
    <3>2. n \notin 1 .. Len(events)
      BY <2>3 DEF Grows
    <3>3. QED BY <3>1, <3>2
  <2>6. /\ Cardinality(OwnAuthorizations) \in Nat
        /\ Cardinality(OwnAuthorizations') = Cardinality(OwnAuthorizations) + 1
    BY <1>0, <2>4, <2>5, OwnIsFinite, FS_AddElement
  <2>7. SamplesUsed' = SamplesUsed /\ Cardinality(SamplesUsed) \in Nat
    BY <1>1, FS_CardinalityType DEF SamplesUsed, SamplesCover
  <2>8. InFlight("metered") = 1 /\ InFlight("metered")' = 0
    BY <1>1 DEF InFlight
  <2>9. QED BY <2>6, <2>7, <2>8 DEF SamplesCover
<1>4. QED BY <1>2, <1>3

\* A successor has bought nothing and owes nothing.
LEMMA CoverOfRestart ==
    ASSUME CycleInv, CycleInv', ControllerRestart
    PROVE  SamplesCover'
<1>0. events \in Seq(Events) /\ events' \in Seq(Events)
  BY DEF CycleInv, SessionInv, SessionTypeOK
<1>1. sState = "lost" /\ phase' = phase /\ uses' = [x \in Samples |-> 0]
  BY DEF ControllerRestart, Reconstruct, Rebuild, harnessVars
<1>2. PICK event : events' = Append(events, event) /\ event.type = "session_reconstructed"
  <2> DEFINE a == events[TheApproval].approval
             e == Event("session_reconstructed", a.proposal, a, NoOne)
  <2>1. events' = Append(events, e)
    BY DEF ControllerRestart, Reconstruct, Rebuild, Emit
  <2>2. e.type = "session_reconstructed"
    BY DEF Event
  <2>3. QED BY <2>1, <2>2
<1>3. OwnAuthorizations' = {}
  <2>1. Grows(event)
    BY <1>0, <1>2, GrownBy
  <2>2. QED BY <1>0, <1>2, <2>1, OwnGrows
<1>4. SamplesUsed' = {}
  BY <1>1 DEF SamplesUsed
<1>5. InFlight("metered")' = 0
  BY <1>1 DEF CycleInv, CycleOpen, Running, InFlight
<1>6. QED BY <1>3, <1>4, <1>5, FS_EmptySet DEF SamplesCover

LEMMA CoverStep ==
    ASSUME CycleInv, SamplesCover, [Next]_vars
    PROVE  SamplesCover'
<1>0. CycleInv'
  BY CycleStep
<1>1. CASE UNCHANGED vars
  BY <1>0, <1>1, CoverStays DEF vars, sessionVars, sequenceVars, harnessVars, AddsQuietly
<1>2. SafeHold \/ SafeHoldRaises => AddsQuietly
  BY NotesQuietly DEF SafeHold, SafeHoldRaises, Notes, EmitOrRaise
<1>3. CASE RunCycle
  <2>1. ASSUME NEW x \in Samples, NEW p \in Proposals, NEW e \in Executions,
               MeterAccepted(x, p, e)
        PROVE  SamplesCover'
    BY <2>1, CoverGrows DEF MeterAccepted, sessionVars
  <2>2. CASE Authorized
    BY <1>0, <2>2, CoverOfAuthorized
  <2>3. CASE MeterUnusable \/ AuthorizationExpired \/ PlanRejected \/ IntentFails
    BY <1>0, <1>2, <2>3, CoverStays
       DEF MeterUnusable, AuthorizationExpired, AuthorizeTooLate, PlanRejected, IntentFails,
           Holds, CycleEnds, sequenceVars
  <2>4. CASE AuthorizationRefused \/ (\E plan \in Plans : PlanAccepted(plan)) \/ NothingToDo
             \/ OutcomeFails
    BY <1>0, <2>4, CoverStays
       DEF AuthorizationRefused, PlanAccepted, NothingToDo, OutcomeFails, AuditRaises, CycleEnds,
           sequenceVars, sessionVars, AddsQuietly
  <2>5. CASE IntentDurable \/ Mutate \/ OutcomeDurable
    BY <1>0, <2>5, CoverStays
       DEF IntentDurable, Mutate, OutcomeDurable, CycleEnds, sequenceVars, sessionVars,
           AddsQuietly
  <2>6. CASE BoundaryFault
    <3>1. AddsQuietly
      BY <1>2, <2>6 DEF BoundaryFault, Holds, AuditRaises, sessionVars, AddsQuietly
    <3>2. uses' = uses /\ phase' = "idle"
      BY <2>6 DEF BoundaryFault, Holds, AuditRaises, CycleEnds, sequenceVars
    <3>3. QED BY <1>0, <3>1, <3>2, CoverStays
  <2>7. QED BY <1>3, <2>1, <2>2, <2>3, <2>4, <2>5, <2>6 DEF RunCycle
<1>4. CASE BetweenCycles
  <2>1. AddsQuietly
    BY <1>4, OperatorsQuietly DEF BetweenCycles, Tick, AddsQuietly
  <2>2. QED BY <1>0, <1>4, <2>1, CoverStays DEF BetweenCycles, sequenceVars, harnessVars
<1>5. ASSUME NEW x \in Samples, PrimeMeter(x)
      PROVE  SamplesCover'
  BY <1>5, CoverGrows DEF PrimeMeter, sessionVars, harnessVars
<1>6. ASSUME NEW s \in Sources, NEW e \in Epochs, MeterRestarts(s, e)
      PROVE  SamplesCover'
  BY <1>0, <1>6, CoverStays
     DEF MeterRestarts, DeclareRestart, sessionVars, harnessVars, AddsQuietly
<1>7. CASE ControllerCrash
  BY <1>0, <1>7, CoverStays DEF ControllerCrash, Crash, CycleEnds, sequenceVars, AddsQuietly
<1>8. CASE ControllerRestart
  BY <1>0, <1>8, CoverOfRestart
<1>9. QED BY <1>1, <1>3, <1>4, <1>5, <1>6, <1>7, <1>8 DEF Next

(***************************************************************************)
(* Every authorization of a controller has a meter sample of its own       *)
(* behind it, whatever is replayed, restarted and retried.                 *)
(***************************************************************************)
THEOREM SamplesPayForAuthorizations == Spec => []SampleBehindEveryAuthorization
<1>1. Init => SamplesCover
  <2> SUFFICES ASSUME Init
               PROVE  SamplesCover
    OBVIOUS
  <2>1. OwnAuthorizations = {} /\ SamplesUsed = {} /\ InFlight("metered") = 0
    BY DEF Init, SessionInit, SequenceInit, OwnAuthorizations, Of, SamplesUsed, InFlight
  <2>2. QED BY <2>1, FS_EmptySet DEF SamplesCover
<1>2. CycleInv /\ SamplesCover /\ [Next]_vars => SamplesCover'
  BY CoverStep
<1>3. CycleInv /\ SamplesCover => SampleBehindEveryAuthorization
  <2> SUFFICES ASSUME CycleInv, SamplesCover
               PROVE  SampleBehindEveryAuthorization
    OBVIOUS
  <2>1. NeverReplayed
    BY DEF CycleInv, SequenceInv, UsedOnce, NeverReplayed
  <2>2. /\ Cardinality(OwnAuthorizations) \in Nat /\ Cardinality(SamplesUsed) \in Nat
        /\ InFlight("metered") \in Nat
    BY OwnIsFinite, FS_CardinalityType DEF CycleInv, SessionInv, SessionTypeOK, SamplesCover,
       InFlight
  <2>3. QED BY <2>1, <2>2 DEF SamplesCover, SampleBehindEveryAuthorization
<1>4. QED BY <1>1, <1>2, <1>3, CycleInvariant, PTL DEF Spec
=============================================================================
