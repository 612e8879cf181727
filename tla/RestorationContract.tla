------------------------ MODULE RestorationContract ------------------------
(***************************************************************************)
(* What the power-cap trial promises about the GPU it borrows, without its *)
(* processes, locks and files:                                             *)
(*   - the cap is written only under a durable record of the original;     *)
(*   - the record is closed only when the cap is no longer in force, save  *)
(*     for a write that was still pending;                                 *)
(*   - after the verdict "restored" the cap never comes back.              *)
(***************************************************************************)
VARIABLES
  record,  \* the durable record: "none", "open" or "closed"
  capped,  \* the trial's own cap is in force
  pending, \* a cap command of the trial may still land
  landed,  \* such a command has landed
  verdict  \* "none" or "restored"

contractVars == <<record, capped, pending, landed, verdict>>

Init ==
  /\ record = "none"
  /\ capped = FALSE /\ pending = FALSE /\ landed = FALSE
  /\ verdict = "none"

\* A cap is sent: it takes force at once, is lost, or is left pending.
Cap ==
  /\ record = "open" /\ verdict = "none"
  /\ \/ capped' \in BOOLEAN /\ UNCHANGED pending
     \/ pending' = TRUE /\ UNCHANGED capped
  /\ UNCHANGED <<record, landed, verdict>>

\* A pending command ends, with or without effect, whatever the record says.
PendingEnds ==
  /\ \/ pending /\ pending' = FALSE /\ capped' \in BOOLEAN
     \/ UNCHANGED pending /\ capped' \in {capped, FALSE}
  /\ landed' \in {landed, TRUE}
  /\ UNCHANGED <<record, verdict>>

\* The program, or anybody else, replaces the limit.
Replace ==
  /\ capped' = FALSE
  /\ UNCHANGED <<record, pending, landed, verdict>>

OpenRecord ==
  /\ record = "none" /\ record' = "open"
  /\ UNCHANGED <<capped, pending, landed, verdict>>

CloseRecord ==
  /\ record = "open" /\ record' = "closed"
  /\ ~capped \/ landed
  /\ UNCHANGED <<capped, pending, landed, verdict>>

\* The host loses power: whatever was being written is settled either way.
Outage ==
  /\ record' \in CASE record = "none"   -> {"none", "open", "closed"}
                   [] record = "open"   -> {"open", "closed"}
                   [] record = "closed" -> {"closed"}
  /\ capped' = FALSE /\ pending' = FALSE /\ verdict' = "none"
  /\ UNCHANGED landed

Settle ==
  /\ ~capped /\ ~pending
  /\ verdict' = "restored"
  /\ UNCHANGED <<record, capped, pending, landed>>

Next ==
  Cap \/ PendingEnds \/ Replace \/ OpenRecord \/ CloseRecord \/ Outage \/ Settle

Spec == Init /\ [][Next]_contractVars
=============================================================================
