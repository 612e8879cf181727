--------------------------- MODULE ControlSession ---------------------------
(***************************************************************************)
(* ControlSession of session.py: one supervised power envelope at a time,  *)
(* proposed, approved by an authorized person, authorized for execution    *)
(* against the meter, held, recovered, and rebuilt after a crash from the  *)
(* events it emitted.  Every operation takes `now' from its caller.  A call *)
(* refused without an effect is an action not enabled; one that raises in  *)
(* _emit, after it has changed the session, is an action of its own.       *)
(*                                                                         *)
(* The meter's eligibility (assess_meter_decision_eligibility: source,     *)
(* quality, unit, range, latency and age) is an input of the operations.   *)
(***************************************************************************)
EXTENDS Naturals, Sequences, FiniteSets

CONSTANTS Proposals,     \* proposal_ids
          Approvals,     \* approval_ids
          Executions,    \* execution_ids
          Operators,     \* authorized_approvers
          Effective,     \* effective_at of each proposal
          Expires,       \* expires_at of each proposal
          NoOne,         \* the absence of an identity
          MaxNow,        \* bound on the callers' clock
          MaxEvents,     \* bound on the events a session emits
          MaxRaises,     \* bound on the calls that raise in _emit
          MaxCrashes     \* bound on the crashes of the controller

ASSUME LifetimeAssumption ==
    /\ Effective \in [Proposals -> Nat]
    /\ Expires \in [Proposals -> Nat]
    /\ \A p \in Proposals : Effective[p] < Expires[p]
ASSUME NoOneAssumption ==
    NoOne \notin Proposals \cup Approvals \cup Executions \cup Operators

VARIABLES sState,      \* state; "lost" once the controller has crashed
          proposal,    \* proposal: the current one, or NoOne
          approval,    \* approval: the current one, or NoApproval
          proposals,   \* _proposals: every id ever proposed
          approvals,   \* _approvals: what each used approval_id approved
          executions,  \* _executions: the proposal each execution_id is for
          events,      \* what _emit was called with; see below
          now,         \* the clock the callers read
          crashes

sessionVars == <<sState, proposal, approval, proposals, approvals, executions,
                 events, now, crashes>>

NoApproval == [id |-> NoOne, proposal |-> NoOne, by |-> NoOne]
Unused == [proposal |-> NoOne, by |-> NoOne]

SessionInit ==
    /\ sState = "observe"
    /\ proposal = NoOne
    /\ approval = NoApproval
    /\ proposals = {}
    /\ approvals = [a \in Approvals |-> Unused]
    /\ executions = [e \in Executions |-> NoOne]
    /\ events = <<>>
    /\ now = 0
    /\ crashes = 0

Running == sState # "lost"

-----------------------------------------------------------------------------
(* _emit: the event names what it is about; `at' is its timestamp.  It is  *)
(* called last, when the session has changed already, and raises on an     *)
(* empty actor or a naive timestamp: the change stays, the event is lost.  *)
(* The session's own events are the recorded ones of `events'.             *)

Event(type, p, a, e) ==
    [type |-> type, at |-> now, proposal |-> p, approval |-> a, execution |-> e,
     recorded |-> TRUE]

Emit(event) ==
    /\ Len(events) < MaxEvents
    /\ events' = Append(events, event)
    /\ UNCHANGED <<now, crashes>>

Raise(event) ==
    /\ Cardinality({i \in DOMAIN events : ~events[i].recorded}) < MaxRaises
    /\ Emit([event EXCEPT !.recorded = FALSE])

EmitOrRaise(event) == Emit(event) \/ Raise(event)

Note(type) == Event(type, proposal, NoApproval, NoOne)
Notes(type) == Emit(Note(type))

\* A repeated call that is recorded and changes nothing else.
Repeats(type) ==
    /\ Running
    /\ Notes(type)
    /\ UNCHANGED <<sState, proposal, approval, proposals, approvals, executions>>

Expired(p) == now >= Expires[p]

-----------------------------------------------------------------------------

Propose(p) ==
    /\ p \notin proposals
    /\ ~Expired(p)
    /\ sState = "observe"
    /\ proposals' = proposals \cup {p}
    /\ proposal' = p
    /\ approval' = NoApproval
    /\ sState' = "supervised"
    /\ EmitOrRaise(Event("envelope_proposed", p, NoApproval, NoOne))
    /\ UNCHANGED <<approvals, executions>>

ProposeAgain(p) == p \in proposals /\ Repeats("envelope_proposal_duplicate")

\* _safe_hold: from any state; the proposal and its approval stay.
Holding ==
    /\ Running
    /\ sState' = "safe_hold"
    /\ UNCHANGED <<proposal, approval, proposals, approvals, executions>>

SafeHold == Holding /\ Notes("safe_hold_entered")
SafeHoldRaises == Holding /\ Raise(Note("safe_hold_entered"))

Approve(p, a, o) ==
    /\ approvals[a] = Unused
    /\ proposal = p
    /\ ~Expired(p)
    /\ sState = "supervised"
    /\ approvals' = [approvals EXCEPT ![a] = [proposal |-> p, by |-> o]]
    /\ approval' = [id |-> a, proposal |-> p, by |-> o]
    /\ Emit(Event("envelope_approved", p, approval', NoOne))
    /\ UNCHANGED <<sState, proposal, proposals, executions>>

ApproveAgain(p, a, o) ==
    /\ approvals[a] = [proposal |-> p, by |-> o]
    /\ Repeats("approval_duplicate")

\* An approval that arrives after the expiry holds the session, whatever
\* state it is in; an approver has a name and `now' was looked at.
ApproveTooLate(p, a) ==
    /\ approvals[a] = Unused
    /\ proposal = p
    /\ Expired(p)
    /\ SafeHold

-----------------------------------------------------------------------------
(* authorize_execution.                                                    *)

\* Faulty variant of Approved: the state of the session is not looked at.
ApprovedInAnyState(p) ==
    /\ proposal = p
    /\ approval.proposal = p
    /\ now >= Effective[p]

\* An execution_id already authorized for p returns the earlier event: no
\* check is repeated and nothing is recorded.
AlreadyAuthorized(p, e) == executions[e] = p

Approved(p) ==
    /\ proposal = p
    /\ sState = "supervised"
    /\ approval.proposal = p
    /\ now >= Effective[p]

AuthorizeExecution(p, e) ==
    /\ executions[e] = NoOne
    /\ Approved(p)
    /\ ~Expired(p)
    /\ executions' = [executions EXCEPT ![e] = p]
    /\ Emit(Event("execution_authorized", p, approval, e))
    /\ UNCHANGED <<sState, proposal, approval, proposals, approvals>>

AuthorizeTooLate(p, e) ==
    /\ executions[e] = NoOne
    /\ Approved(p)
    /\ Expired(p)
    /\ SafeHold

AuthorizeIneligible(p, e) ==
    /\ executions[e] = NoOne
    /\ Approved(p)
    /\ ~Expired(p)
    /\ SafeHold

\* Either hold, for a caller without a name.
AuthorizeHoldRaises(p, e) ==
    /\ executions[e] = NoOne
    /\ Approved(p)
    /\ SafeHoldRaises

-----------------------------------------------------------------------------

\* enter_safe_hold is SafeHold or SafeHoldRaises.

\* The approver has a name, and assessing the sample's age raises on a naive
\* `now' before anything has changed.
BeginRecovery ==
    /\ sState = "safe_hold"
    /\ sState' = "recovery"
    /\ Notes("recovery_started")
    /\ UNCHANGED <<proposal, approval, proposals, approvals, executions>>

RecoveryIneligible == sState = "safe_hold" /\ SafeHold

\* Faulty variant of CompleteRecovery: the approval survives.
CompleteRecoveryKeepsApproval ==
    /\ sState = "recovery"
    /\ sState' = "observe"
    /\ proposal' = NoOne
    /\ EmitOrRaise(Note("recovery_completed"))
    /\ UNCHANGED <<approval, proposals, approvals, executions>>

CompleteRecovery ==
    /\ sState = "recovery"
    /\ sState' = "observe"
    /\ proposal' = NoOne
    /\ approval' = NoApproval
    /\ EmitOrRaise(Note("recovery_completed"))
    /\ UNCHANGED <<proposals, approvals, executions>>

-----------------------------------------------------------------------------
(* The controller's process dies; reconstruct_for_operator_resume rebuilds *)
(* the session from the retained events, or refuses to.                    *)

Crash ==
    /\ Running
    /\ crashes < MaxCrashes
    /\ crashes' = crashes + 1
    /\ sState' = "lost"
    /\ UNCHANGED <<proposal, approval, proposals, approvals, executions, events, now>>

Of(history, type) == {i \in DOMAIN history : history[i].type = type}

\* The events there are, those of raising calls left out.
Recorded(history) == {i \in DOMAIN history : history[i].recorded}
RecordedOf(history, type) == Recorded(history) \cap Of(history, type)

ReplayedTypes == {"envelope_proposed", "envelope_approved", "execution_authorized"}

\* The loop over the history: one proposal, first; one approval of it; then
\* authorizations of it under that approval, with distinct execution_ids.
\* (The timestamps of a session's own events are in order and not ahead.)
Replayable(history) ==
    LET runs == RecordedOf(history, "execution_authorized") IN
    /\ \A i \in Recorded(history) : history[i].type \in ReplayedTypes
    /\ \E f \in RecordedOf(history, "envelope_proposed"),
          k \in RecordedOf(history, "envelope_approved") :
        LET p == history[f].proposal
            a == history[k].approval IN
        /\ RecordedOf(history, "envelope_proposed") = {f}
        /\ RecordedOf(history, "envelope_approved") = {k}
        /\ \A i \in Recorded(history) : f <= i
        /\ a.proposal = p /\ a.by \in Operators
        /\ history[f].at < Expires[p] /\ history[k].at < Expires[p]
        /\ \A i \in runs :
            /\ i > k
            /\ history[i].proposal = p /\ history[i].approval = a
            /\ history[i].at >= Effective[p] /\ history[i].at < Expires[p]
    /\ \A i, j \in runs : history[i].execution = history[j].execution => i = j

TheApproval == CHOOSE k \in RecordedOf(events, "envelope_approved") : TRUE
TheProposal == events[TheApproval].approval.proposal

\* What was proposed and approved is taken back; what was executed is only
\* counted, in the event; an operator must resume.
Rebuild(known, executed) ==
    LET a == events[TheApproval].approval IN
    /\ sState = "lost"
    /\ Replayable(events)
    /\ sState' = "safe_hold"
    /\ proposal' = a.proposal
    /\ approval' = a
    /\ proposals' = known
    /\ approvals' = [x \in Approvals |->
            IF x = a.id THEN [proposal |-> a.proposal, by |-> a.by] ELSE Unused]
    /\ executions' = executed
    /\ Emit(Event("session_reconstructed", a.proposal, a, NoOne))

NothingExecuted == [e \in Executions |-> NoOne]

\* Faulty variants of Reconstruct: the proposal's id is free again; the
\* execution_ids of the crashed controller still count as authorized.
ReconstructForgetsProposal == Rebuild({}, NothingExecuted)
ReconstructReplays == Rebuild({TheProposal}, executions)

Reconstruct == Rebuild({TheProposal}, NothingExecuted)

Tick ==
    /\ now < MaxNow
    /\ now' = now + 1
    /\ UNCHANGED <<sState, proposal, approval, proposals, approvals, executions,
                   events, crashes>>

-----------------------------------------------------------------------------

\* What people do to a session: planners and operators, at any time.
OperatorStep ==
    \/ \E p \in Proposals : Propose(p) \/ ProposeAgain(p)
    \/ \E p \in Proposals, a \in Approvals, o \in Operators :
            Approve(p, a, o) \/ ApproveAgain(p, a, o)
    \/ \E p \in Proposals, a \in Approvals : ApproveTooLate(p, a)
    \/ SafeHold \/ SafeHoldRaises
    \/ BeginRecovery
    \/ RecoveryIneligible
    \/ CompleteRecovery

AuthorizeStep ==
    \E p \in Proposals, e \in Executions :
        \/ AuthorizeExecution(p, e)
        \/ AuthorizeTooLate(p, e)
        \/ AuthorizeIneligible(p, e)
        \/ AuthorizeHoldRaises(p, e)

SessionNext == OperatorStep \/ AuthorizeStep \/ Crash \/ Reconstruct \/ Tick

SessionSpec == SessionInit /\ [][SessionNext]_sessionVars

-----------------------------------------------------------------------------

EventTypes ==
    {"envelope_proposed", "envelope_proposal_duplicate", "envelope_approved",
     "approval_duplicate", "execution_authorized", "safe_hold_entered",
     "recovery_started", "recovery_completed", "session_reconstructed"}

ApprovalRecords ==
    [id : Approvals, proposal : Proposals, by : Operators] \cup {NoApproval}

Events == [type : EventTypes, at : Nat, proposal : Proposals \cup {NoOne},
           approval : ApprovalRecords, execution : Executions \cup {NoOne},
           recorded : BOOLEAN]

SessionTypeOK ==
    /\ sState \in {"observe", "supervised", "safe_hold", "recovery", "lost"}
    /\ proposal \in Proposals \cup {NoOne}
    /\ approval \in ApprovalRecords
    /\ proposals \subseteq Proposals
    /\ approvals \in [Approvals ->
                        [proposal : Proposals, by : Operators] \cup {Unused}]
    /\ executions \in [Executions -> Proposals \cup {NoOne}]
    /\ events \in Seq(Events)
    /\ now \in Nat
    /\ crashes \in Nat

EventIs(i, type) == events[i].type = type

(***************************************************************************)
(* Behind every authorization in the record stands one unbroken window: a  *)
(* proposal, then a recorded approval of it by an authorized approver, and *)
(* since the proposal no hold, recovery or restart, not even one that is   *)
(* not on record; the authorization lies in the lifetime of the proposal   *)
(* and quotes that very approval.  (The proposal is on record too, except  *)
(* where the very call that made it raised.)                               *)
(***************************************************************************)
Interrupts == {"safe_hold_entered", "recovery_started", "recovery_completed",
               "session_reconstructed", "envelope_proposed"}

AuthorizedWithinWindow ==
    \A k \in Of(events, "execution_authorized") :
        LET p == events[k].proposal IN
        /\ events[k].recorded
        /\ Effective[p] <= events[k].at /\ events[k].at < Expires[p]
        /\ \E i \in 1 .. k - 1, j \in 1 .. k - 1 :
            /\ i < j
            /\ EventIs(i, "envelope_proposed") /\ events[i].proposal = p
            /\ EventIs(j, "envelope_approved") /\ events[j].recorded
            /\ events[j].proposal = p
            /\ events[j].approval = events[k].approval
            /\ events[j].approval.by \in Operators
            /\ \A l \in i + 1 .. k : events[l].type \notin Interrupts

(***************************************************************************)
(* The record suffices to rebuild the session ("audit replay reconstructs  *)
(* every event and command"): at any moment its state, its current         *)
(* proposal and its current approval are what the last event about each    *)
(* says.  The exception is a change whose own call raised: until a later   *)
(* recorded change of the same part the record does not tell that part.    *)
(***************************************************************************)
Leaves == [type \in {"envelope_proposed", "safe_hold_entered", "recovery_started",
                     "recovery_completed", "session_reconstructed"} |->
    CASE type = "envelope_proposed" -> "supervised"
      [] type = "recovery_started" -> "recovery"
      [] type = "recovery_completed" -> "observe"
      [] OTHER -> "safe_hold"]

LastOf(types) ==
    LET at == {i \in DOMAIN events : events[i].type \in types} IN
    IF at = {} THEN 0 ELSE CHOOSE i \in at : \A j \in at : j <= i

StateAfter(i) == IF i = 0 THEN "observe" ELSE Leaves[events[i].type]
ProposalAfter(i) ==
    IF i # 0 /\ EventIs(i, "envelope_proposed") THEN events[i].proposal ELSE NoOne
ApprovalAfter(i) ==
    IF i # 0 /\ EventIs(i, "envelope_approved") THEN events[i].approval ELSE NoApproval

Tells(i) == i = 0 \/ events[i].recorded

RecordExplainsSession ==
    LET moved == LastOf(DOMAIN Leaves)
        opened == LastOf({"envelope_proposed", "recovery_completed"})
        granted == LastOf({"envelope_approved", "envelope_proposed", "recovery_completed"})
    IN  Running =>
        /\ Tells(moved) => sState = StateAfter(moved)
        /\ Tells(opened) => proposal = ProposalAfter(opened)
        /\ Tells(granted) => approval = ApprovalAfter(granted)

(***************************************************************************)
(* A proposal opens one window in the life of the record, restarts         *)
(* included: once held, expired or recovered from it cannot be opened      *)
(* again, only be superseded by another proposal_id.                       *)
(***************************************************************************)
ProposedOnce ==
    \A i, j \in Of(events, "envelope_proposed") :
        events[i].proposal = events[j].proposal => i = j

(***************************************************************************)
(* An execution_id is authorized for one proposal and once only, as long   *)
(* as the controller does not restart.                                     *)
(***************************************************************************)
ExecutedOncePerRun ==
    \A i, j \in Of(events, "execution_authorized") :
        events[i].execution = events[j].execution /\ i < j =>
            \E l \in i .. j : EventIs(l, "session_reconstructed")

(***************************************************************************)
(* Both, for whatever is retried: the identifiers of a proposal and of an  *)
(* execution are spent by their first use, whatever happened in between.   *)
(***************************************************************************)
NothingTwice == ProposedOnce /\ ExecutedOncePerRun
=============================================================================
