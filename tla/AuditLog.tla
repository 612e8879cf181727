------------------------------ MODULE AuditLog ------------------------------
(***************************************************************************)
(* AuditLog of audit.py: processes append records to one hash-chained file *)
(* under an advisory lock.  An append verifies the whole chain, writes one *)
(* line through a buffered stream, flushes and fsyncs it, unlocks, and     *)
(* closes the stream; closing writes what a failed flush left in the       *)
(* buffer.  Processes may be killed at any step and the power may fail.    *)
(* The first append creates the file; nobody fsyncs the directory it is    *)
(* in, so that until its entry gets to disk by itself a power loss may     *)
(* take the file with everything in it, fsynced or not.                    *)
(*                                                                         *)
(* A hash names its record, so `prev' is the id of the record before.  A   *)
(* line reaches the file in two pieces.  Threads of one process exclude    *)
(* each other until the stream is closed and count as one.                 *)
(***************************************************************************)
EXTENDS Naturals, Sequences, FiniteSets

CONSTANTS Processes, Nobody,
          MaxRecords,     \* bound on the records composed
          MaxPowerLosses  \* bound on power losses

ASSUME AuditAssumption ==
    /\ MaxRecords \in Nat /\ MaxPowerLosses \in Nat
    /\ Nobody \notin Processes

VARIABLES file,      \* the pieces of lines a reader sees
          synced,    \* how many of them an fsync has made durable
          entry,     \* the file's entry in its directory, see Entries
          lock,      \* who holds the flock
          pc,        \* where each process is in append()
          buffer,    \* the pieces still in the stream of each process
          record,    \* the record a process is appending
          raising,   \* whether its append is about to raise
          composed,  \* how many records were composed
          returned,  \* the records whose append returned
          lost,      \* those a power loss took with the whole file
          losses,    \* power losses so far
          late       \* a close wrote to the file after its unlock

storage == <<file, synced, entry, losses>>
calls == <<lock, pc, buffer, record, raising>>
history == <<composed, returned, lost, late>>
vars == <<storage, calls, history>>

\* There is no file; there is one, whose entry is not on disk yet; it is.
Entries == {"none", "created", "durable"}

Genesis == 0
Records == [id : 1 .. MaxRecords, sequence : Nat, prev : Nat]
NoRecord == [id |-> 0, sequence |-> 0, prev |-> Genesis]
Pieces == [record : Records, part : {"head", "tail"}]

Line(r) == << [record |-> r, part |-> "head"], [record |-> r, part |-> "tail"] >>

\* _verify_stream: whole lines, numbered from one, each naming the one before.
Lines(f) == Len(f) \div 2
Chained(f, n) ==
    \A i \in 1 .. n : LET r == f[2 * i].record IN
        /\ f[2 * i - 1] = Line(r)[1] /\ f[2 * i] = Line(r)[2]
        /\ r.sequence = i
        /\ r.prev = IF i = 1 THEN Genesis ELSE f[2 * i - 2].record.id

\* Faulty variant of Verified: a last line without its newline is skipped.
VerifiedLines(f) == Chained(f, Lines(f))

Verified(f) == Len(f) % 2 = 0 /\ Chained(f, Lines(f))

Init ==
    /\ file = <<>> /\ synced = 0 /\ losses = 0
    /\ entry = "none"
    /\ lock = Nobody
    /\ pc = [p \in Processes |-> "idle"]
    /\ buffer = [p \in Processes |-> <<>>]
    /\ record = [p \in Processes |-> NoRecord]
    /\ raising = [p \in Processes |-> FALSE]
    /\ composed = 0 /\ returned = {} /\ lost = {} /\ late = FALSE

-----------------------------------------------------------------------------
(* append() of process p.                                                  *)

Goes(p, to) == pc' = [pc EXCEPT ![p] = to]
Raises(p) == raising' = [raising EXCEPT ![p] = TRUE]

\* open("a+") makes the file when it is not there.
Lock(p) ==
    /\ pc[p] = "idle" /\ lock = Nobody
    /\ lock' = p
    /\ entry' = IF entry = "none" THEN "created" ELSE entry
    /\ Goes(p, "verify")
    /\ UNCHANGED <<file, synced, losses, buffer, record, raising, history>>

\* The chain verifies: the next record goes into the stream's buffer.
Write(p) ==
    /\ pc[p] = "verify" /\ Verified(file) /\ composed < MaxRecords
    /\ composed' = composed + 1
    /\ LET n == Lines(file)
           r == [id |-> composed + 1, sequence |-> n + 1,
                 prev |-> IF n = 0 THEN Genesis ELSE file[2 * n].record.id]
       IN  /\ record' = [record EXCEPT ![p] = r]
           /\ buffer' = [buffer EXCEPT ![p] = Line(r)]
    /\ Goes(p, "flush")
    /\ UNCHANGED <<storage, lock, raising, returned, lost, late>>

Refuse(p) ==
    /\ pc[p] = "verify" /\ ~Verified(file)
    /\ Raises(p)
    /\ Goes(p, "unlock")
    /\ UNCHANGED <<storage, lock, buffer, record, history>>

\* write(2) of the next piece in p's buffer, at the end of the file.
WritesPiece(p) ==
    /\ buffer[p] # <<>>
    /\ file' = Append(file, Head(buffer[p]))
    /\ buffer' = [buffer EXCEPT ![p] = Tail(@)]

Flush(p) ==
    /\ pc[p] = "flush"
    /\ WritesPiece(p)
    /\ IF Len(buffer[p]) = 1 THEN Goes(p, "fsync") ELSE UNCHANGED pc
    /\ UNCHANGED <<synced, entry, losses, lock, record, raising, history>>

\* Faulty variant of FlushFails: the error is not raised.
FlushErrorIgnored(p) ==
    /\ pc[p] = "flush"
    /\ Goes(p, "unlock")
    /\ UNCHANGED <<storage, lock, buffer, record, raising, history>>

\* flush() raises; the rest stays in the buffer.
FlushFails(p) ==
    /\ pc[p] = "flush"
    /\ Raises(p)
    /\ Goes(p, "unlock")
    /\ UNCHANGED <<storage, lock, buffer, record, history>>

\* Faulty variant of FsyncFails: the error is not raised.
FsyncErrorIgnored(p) ==
    /\ pc[p] = "fsync"
    /\ Goes(p, "unlock")
    /\ UNCHANGED <<storage, lock, buffer, record, raising, history>>

Fsync(p) ==
    /\ pc[p] = "fsync"
    /\ synced' = Len(file)
    /\ Goes(p, "unlock")
    /\ UNCHANGED <<file, entry, losses, lock, buffer, record, raising, history>>

FsyncFails(p) ==
    /\ pc[p] = "fsync"
    /\ Raises(p)
    /\ Goes(p, "unlock")
    /\ UNCHANGED <<storage, lock, buffer, record, history>>

\* _locked_file's finally clause, still inside the `with' of the stream.
Unlock(p) ==
    /\ pc[p] = "unlock"
    /\ lock' = Nobody
    /\ Goes(p, "close")
    /\ UNCHANGED <<storage, buffer, record, raising, history>>

\* close() flushes what is left in the buffer, without the lock.
CloseWrites(p) ==
    /\ pc[p] = "close"
    /\ WritesPiece(p)
    /\ late' = TRUE
    /\ UNCHANGED <<synced, entry, losses, lock, pc, record, raising, composed, returned, lost>>

\* The stream is closed, and append() returns its record or raises; what is in
\* the buffer then could not be written.
Close(p) ==
    /\ pc[p] = "close"
    /\ returned' = IF raising[p] THEN returned ELSE returned \cup {record[p]}
    /\ Goes(p, "idle")
    /\ buffer' = [buffer EXCEPT ![p] = <<>>]
    /\ record' = [record EXCEPT ![p] = NoRecord]
    /\ raising' = [raising EXCEPT ![p] = FALSE]
    /\ UNCHANGED <<storage, lock, composed, lost, late>>

-----------------------------------------------------------------------------
(* Failures from outside.                                                  *)

\* Process p is killed: its buffer and, by the kernel, its lock are gone.
Kill(p) ==
    /\ pc[p] # "idle"
    /\ lock' = IF lock = p THEN Nobody ELSE lock
    /\ Goes(p, "idle")
    /\ buffer' = [buffer EXCEPT ![p] = <<>>]
    /\ record' = [record EXCEPT ![p] = NoRecord]
    /\ raising' = [raising EXCEPT ![p] = FALSE]
    /\ UNCHANGED <<storage, history>>

\* The kernel writes the directory back, or somebody else fsyncs it: the
\* recovery journal of a trial that logs to the same directory.
EntryReachesDisk ==
    /\ entry = "created"
    /\ entry' = "durable"
    /\ UNCHANGED <<file, synced, losses, calls, history>>

\* What a power loss may leave: a prefix of the file with at least what was
\* fsynced; or, while the entry is not on disk, no file at all.
Survives(n) ==
    /\ file' = SubSeq(file, 1, n) /\ synced' = n
    /\ entry' = IF entry = "none" THEN "none" ELSE "durable"
    /\ UNCHANGED lost

FileLost ==
    /\ entry # "durable"
    /\ file' = <<>> /\ synced' = 0
    /\ entry' = "none"
    /\ lost' = returned

PowerLoss ==
    /\ losses < MaxPowerLosses
    /\ losses' = losses + 1
    /\ (\E n \in synced .. Len(file) : Survives(n)) \/ FileLost
    /\ lock' = Nobody
    /\ pc' = [p \in Processes |-> "idle"]
    /\ buffer' = [p \in Processes |-> <<>>]
    /\ record' = [p \in Processes |-> NoRecord]
    /\ raising' = [p \in Processes |-> FALSE]
    /\ UNCHANGED <<composed, returned, late>>

Appending(p) ==
    \/ Lock(p) \/ Write(p) \/ Refuse(p)
    \/ Flush(p) \/ FlushFails(p) \/ Fsync(p) \/ FsyncFails(p)
    \/ Unlock(p) \/ CloseWrites(p) \/ Close(p)

Next == PowerLoss \/ EntryReachesDisk \/ \E p \in Processes : Appending(p) \/ Kill(p)

Spec == Init /\ [][Next]_vars

-----------------------------------------------------------------------------
(* Properties.                                                             *)

\* The types; a process holds the lock from verification to unlocking, has a
\* record while it writes one, and outside append() nothing is left of it.
AuditTypeOK ==
    /\ file \in Seq(Pieces) /\ synced \in 0 .. Len(file) /\ losses \in 0 .. MaxPowerLosses
    /\ lock \in Processes \cup {Nobody}
    /\ pc \in [Processes -> {"idle", "verify", "flush", "fsync", "unlock", "close"}]
    /\ entry \in Entries
    /\ composed \in 0 .. MaxRecords /\ late \in BOOLEAN
    /\ returned \subseteq Records /\ lost \subseteq returned
    /\ \A p \in Processes :
          /\ lock = p <=> pc[p] \in {"verify", "flush", "fsync", "unlock"}
          /\ buffer[p] \in {<<>>, Line(record[p]), Tail(Line(record[p]))}
          /\ pc[p] \in {"flush", "fsync"} => record[p] \in Records /\ ~raising[p]
          /\ pc[p] = "flush" => buffer[p] # <<>>
          /\ pc[p] = "idle" => buffer[p] = <<>> /\ record[p] = NoRecord /\ ~raising[p]

OnRecord(r) ==
    \E n \in 1 .. Lines(file) : Chained(file, n) /\ file[2 * n].record = r

\* Kills and power losses tear no line but the last, so that everything before
\* is one chain (audit.py:94-157), as long as no close wrote after its unlock.
TornOnlyAtEnd == ~late => Chained(file, Lines(file))

\* The records whose append returned, but for those that went with the file.
Kept == returned \ lost

\* A record whose append returned is in the verified part of the log for good,
\* under the same condition: nothing overwrites, reorders or loses it, short of
\* a power loss that takes the new file whole.
ReturnedStayOnRecord == ~late => \A r \in Kept : OnRecord(r)

\* What a power loss at this moment could leave.
AfterPowerLoss ==
    {SubSeq(file, 1, n) : n \in synced .. Len(file)}
        \cup (IF entry = "durable" THEN {} ELSE {<<>>})

\* It is whole on disk in any case (audit.py:218): whatever a power loss now
\* could leave has both its pieces, in order, unless that is no file at all;
\* once the entry of the file is on disk it always is one.
ReturnedAreDurable ==
    \A r \in Kept, f \in AfterPowerLoss :
        \/ f = <<>> /\ entry # "durable"
        \/ \E i, j \in DOMAIN f : i < j /\ f[i] = Line(r)[1] /\ f[j] = Line(r)[2]
=============================================================================
