-------------------------- MODULE RecoveryJournal --------------------------
(***************************************************************************)
(* gridgpu.recovery_journal: one append-only file per trial, an intent     *)
(* record followed at most once by a closure record.  `file' is what a     *)
(* reader sees; `durable' is the set of contents a power loss may leave,   *)
(* which a successful fsync narrows to the present content.  Each process  *)
(* holds its own RecoveryJournal instance with its own flag                *)
(* _closure_uncertain.                                                     *)
(***************************************************************************)
EXTENDS Integers, FiniteSets

VARIABLES
  file,      \* content: a value of Contents
  durable,   \* the contents that may survive a power loss
  uncertain  \* [instance -> BOOLEAN], _closure_uncertain

journalVars == <<file, durable, uncertain>>

Instances == {"controller", "supervisor"}

\* "torn" and "torn_close" end in an incomplete record: _decode refuses both.
Contents == {"absent", "torn", "open", "torn_close", "closed"}

\* The intent record is complete.
HasIntent == {"open", "torn_close", "closed"}

JournalTypeOK ==
  /\ file \in Contents
  /\ durable \subseteq Contents
  /\ uncertain \in [Instances -> BOOLEAN]

JournalInit ==
  /\ file = "absent"
  /\ durable = {"absent"}
  /\ uncertain = [i \in Instances |-> FALSE]

\* RecoveryJournal.read succeeds; the state it returns is `file'.
Readable(i) == ~uncertain[i] /\ file \in {"open", "closed"}

-----------------------------------------------------------------------------
(***************************************************************************)
(* create(): exclusive open, write and fsync of the file, fsync of the     *)
(* directory.                                                              *)
(***************************************************************************)
OpenExclusive ==
  /\ file = "absent"
  /\ file' = "torn"
  /\ durable' = durable \cup {"torn"}
  /\ UNCHANGED uncertain

WriteIntent ==
  /\ file = "torn"
  /\ file' = "open"
  /\ durable' = durable \cup {"open"}
  /\ UNCHANGED uncertain

SyncDirectory ==
  /\ durable' = {file}
  /\ UNCHANGED <<file, uncertain>>

(***************************************************************************)
(* close_restored(): refused unless the record decodes as open; then the   *)
(* closure is appended, and fsynced in a second step.                      *)
(***************************************************************************)
AppendClosure(i) ==
  /\ ~uncertain[i]
  /\ file = "open"
  /\ uncertain' = [uncertain EXCEPT ![i] = TRUE]
  /\ file' = "closed"
  /\ durable' = durable \cup {"torn_close", "closed"}

\* A short write or an I/O error: some prefix of the record is in the file.
AppendClosureFails(i) ==
  /\ ~uncertain[i]
  /\ file = "open"
  /\ uncertain' = [uncertain EXCEPT ![i] = TRUE]
  /\ file' \in {"open", "torn_close", "closed"}
  /\ durable' = durable \cup {"torn_close", "closed"}

\* Only the file is fsynced here: a directory entry that create() failed to
\* sync stays in doubt.
SyncClosure(i) ==
  /\ durable' = {file} \cup (durable \cap {"absent"})
  /\ uncertain' = [uncertain EXCEPT ![i] = FALSE]
  /\ UNCHANGED file

\* A new process opens the journal with a new instance.
FreshInstance(i) ==
  /\ uncertain' = [uncertain EXCEPT ![i] = FALSE]
  /\ UNCHANGED <<file, durable>>

JournalPowerLoss ==
  /\ file' \in durable
  /\ durable' = {file'}
  /\ uncertain' = [i \in Instances |-> FALSE]
=============================================================================
