--------------------------- MODULE AuditLogProofs ---------------------------
(***************************************************************************)
(* Proofs about AuditLog, for any number of processes, records and power   *)
(* losses.  The argument: the flock lets one process at a time be between  *)
(* verification and fsync, so the piece it writes continues the line, and  *)
(* the chain, that its own verification and its own writes left; and what  *)
(* was fsynced is in a prefix of the file that nothing takes away, short   *)
(* of the whole file, when its directory entry is not on disk yet.  The    *)
(* first half needs that no close wrote after its unlock; the second, that *)
(* a returned record is durable, does not.                                 *)
(***************************************************************************)
EXTENDS AuditLog, TLAPS

Inside == {"verify", "flush", "fsync", "unlock"}
States == Inside \cup {"idle", "close"}

HeadOf(r) == [record |-> r, part |-> "head"]
TailOf(r) == [record |-> r, part |-> "tail"]

\* The types of the file and of its history.
FileTypeOK ==
    /\ file \in Seq(Pieces) /\ synced \in 0 .. Len(file) /\ losses \in 0 .. MaxPowerLosses
    /\ entry \in Entries
    /\ composed \in 0 .. MaxRecords /\ late \in BOOLEAN
    /\ returned \subseteq Records /\ lost \subseteq returned

\* Types of what AuditTypeOK bounds process by process.
CallsOK ==
    /\ buffer \in [Processes -> Seq(Pieces)]
    /\ record \in [Processes -> Records \cup {NoRecord}]
    /\ raising \in [Processes -> BOOLEAN]
    /\ \A p \in Processes :
          /\ pc[p] \in {"verify", "fsync"} => buffer[p] = <<>>
          /\ pc[p] = "verify" => ~raising[p]
          /\ buffer[p] # <<>> => record[p] \in Records
          /\ pc[p] \in {"unlock", "close"} /\ ~raising[p] => record[p] \in Records

\* The same of one call that is at `to' with buffer b, record r, raising or not.
CallOK(to, b, r, x) ==
    /\ to \in States /\ r \in Records \cup {NoRecord} /\ x \in BOOLEAN
    /\ b \in {<<>>, Line(r), Tail(Line(r))}
    /\ b # <<>> => r \in Records
    /\ to \in {"verify", "fsync", "idle"} => b = <<>>
    /\ to = "flush" => b # <<>>
    /\ to \in {"flush", "fsync"} => r \in Records /\ ~x
    /\ to \in {"verify", "idle"} => ~x
    /\ to = "idle" => r = NoRecord
    /\ to \in {"unlock", "close"} /\ ~x => r \in Records

\* Record r is the n-th line of the chain, and so are those before, in the
\* first s pieces of file f.
KeptOnRecord(f, s, r) ==
    \E n \in 1 .. s : 2 * n <= s /\ Chained(f, n) /\ f[2 * n].record = r

\* What the holder of the lock has in front of it.
HolderOK(p) ==
    /\ pc[p] = "flush" =>
          /\ record[p].sequence = Lines(file) + 1
          /\ record[p].prev = IF Lines(file) = 0 THEN Genesis
                              ELSE file[2 * Lines(file)].record.id
          /\ buffer[p] = Line(record[p]) => Len(file) = 2 * Lines(file)
          /\ buffer[p] # Line(record[p]) =>
                /\ Len(file) = 2 * Lines(file) + 1
                /\ file[Len(file)] = HeadOf(record[p])
    /\ pc[p] = "fsync" =>
          /\ Lines(file) # 0 /\ Len(file) = 2 * Lines(file)
          /\ file[Len(file)].record = record[p]
    /\ pc[p] \in {"unlock", "close"} /\ ~raising[p] => KeptOnRecord(file, synced, record[p])

ChainOK ==
    ~late => /\ Chained(file, Lines(file))
             /\ \A p \in Processes : HolderOK(p)
             /\ \A r \in Kept : KeptOnRecord(file, synced, r)

\* Both pieces of r are among the first n of file f, in order.
WholeWithin(f, n, r) == \E i, j \in 1 .. n : i < j /\ f[i] = HeadOf(r) /\ f[j] = TailOf(r)

WrittenOK(p) ==
    /\ pc[p] = "flush" /\ buffer[p] # Line(record[p]) =>
          \E i \in 1 .. Len(file) : file[i] = HeadOf(record[p])
    /\ pc[p] = "fsync" => WholeWithin(file, Len(file), record[p])
    /\ pc[p] \in {"unlock", "close"} /\ ~raising[p] => WholeWithin(file, synced, record[p])

DurableOK ==
    /\ \A p \in Processes : WrittenOK(p)
    /\ \A r \in Kept : WholeWithin(file, synced, r)

AuditInv == AuditTypeOK /\ CallsOK /\ ChainOK /\ DurableOK

-----------------------------------------------------------------------------
(* Lines, pieces and prefixes.                                             *)

\* The two pieces of a line.
LEMMA LinePieces ==
    ASSUME NEW r
    PROVE  /\ Line(r) = <<HeadOf(r), TailOf(r)>> /\ Len(Line(r)) = 2
           /\ Line(r)[1] = HeadOf(r) /\ Line(r)[2] = TailOf(r)
           /\ Head(Line(r)) = HeadOf(r) /\ Tail(Line(r)) = <<TailOf(r)>>
           /\ Tail(Line(r)) # Line(r) /\ Tail(Line(r)) # <<>> /\ Line(r) # <<>>
           /\ Len(Tail(Line(r))) = 1
           /\ Head(Tail(Line(r))) = TailOf(r) /\ Tail(Tail(Line(r))) = <<>>
           /\ r \in Records => HeadOf(r) \in Pieces /\ TailOf(r) \in Pieces /\ Line(r) \in Seq(Pieces)
<1>1. Line(r) = <<HeadOf(r), TailOf(r)>>
  BY DEF Line, HeadOf, TailOf
<1>2. Tail(Line(r)) = <<TailOf(r)>> /\ Len(Line(r)) = 2 /\ Len(Tail(Line(r))) = 1
  BY <1>1
<1>3. Tail(Tail(Line(r))) = <<>> /\ Len(<<>>) = 0
  BY <1>2
<1>4. r \in Records => HeadOf(r) \in Pieces /\ TailOf(r) \in Pieces
  BY DEF HeadOf, TailOf, Pieces
<1>5. r \in Records => Line(r) \in Seq(Pieces)
  BY <1>1, <1>4
<1> QED
  BY <1>1, <1>2, <1>3, <1>4, <1>5

\* Lines of a file are half its pieces, rounded down.
LEMMA LinesOf ==
    ASSUME NEW f, Len(f) \in Nat
    PROVE  /\ Lines(f) \in Nat
           /\ Len(f) = 2 * Lines(f) \/ Len(f) = 2 * Lines(f) + 1
           /\ Len(f) % 2 = 0 <=> Len(f) = 2 * Lines(f)
           /\ \A n \in Nat : 2 * n <= Len(f) <=> n <= Lines(f)
  BY DEF Lines

\* The chain up to line n depends on the pieces of those lines only.
LEMMA ChainedLocally ==
    ASSUME NEW f, NEW g, NEW n \in Nat, \A i \in 1 .. 2 * n : f[i] = g[i]
    PROVE  Chained(f, n) <=> Chained(g, n)
<1>1. ASSUME NEW i \in 1 .. n
      PROVE  f[2 * i] = g[2 * i] /\ f[2 * i - 1] = g[2 * i - 1]
             /\ (i # 1 => f[2 * i - 2] = g[2 * i - 2])
  <2>1. 2 * i \in 1 .. 2 * n /\ 2 * i - 1 \in 1 .. 2 * n
    OBVIOUS
  <2>2. i # 1 => 2 * i - 2 \in 1 .. 2 * n
    OBVIOUS
  <2> QED
    BY <2>1, <2>2
<1> QED
  BY <1>1 DEF Chained

\* A shorter chain of a chain.
LEMMA ChainedShorter ==
    ASSUME NEW f, NEW n \in Nat, NEW m \in Nat, m <= n, Chained(f, n)
    PROVE  Chained(f, m)
<1>1. \A i \in 1 .. m : i \in 1 .. n
  OBVIOUS
<1> QED
  BY <1>1 DEF Chained

\* One more line that names the line before continues the chain.
LEMMA ChainedOneMore ==
    ASSUME NEW f, NEW n \in Nat, NEW r, Chained(f, n),
           f[2 * n + 1] = HeadOf(r), f[2 * n + 2] = TailOf(r),
           r.sequence = n + 1,
           r.prev = IF n = 0 THEN Genesis ELSE f[2 * n].record.id
    PROVE  Chained(f, n + 1)
<1> DEFINE Good(i) == LET q == f[2 * i].record IN
             /\ f[2 * i - 1] = Line(q)[1] /\ f[2 * i] = Line(q)[2]
             /\ q.sequence = i
             /\ q.prev = IF i = 1 THEN Genesis ELSE f[2 * i - 2].record.id
<1>1. \A i \in 1 .. n : Good(i)
  BY DEF Chained
<1>2. Good(n + 1)
  <2>1. 2 * (n + 1) = 2 * n + 2 /\ 2 * (n + 1) - 1 = 2 * n + 1 /\ 2 * (n + 1) - 2 = 2 * n
    OBVIOUS
  <2>2. f[2 * (n + 1)].record = r
    BY <2>1 DEF TailOf
  <2>3. n + 1 = 1 <=> n = 0
    OBVIOUS
  <2> QED
    BY <2>1, <2>2, <2>3, LinePieces
<1>3. \A i \in 1 .. n + 1 : i \in 1 .. n \/ i = n + 1
  OBVIOUS
<1>4. \A i \in 1 .. n + 1 : Good(i)
  BY <1>1, <1>2, <1>3
<1> QED
  BY <1>4 DEF Chained

\* What is in a durable prefix stays there when the prefix is kept.
LEMMA KeptLater ==
    ASSUME NEW f, NEW g, NEW s \in Nat, NEW t \in Nat, s <= t,
           \A i \in 1 .. s : f[i] = g[i], NEW r, KeptOnRecord(f, s, r)
    PROVE  KeptOnRecord(g, t, r)
<1>1. PICK n \in 1 .. s : 2 * n <= s /\ Chained(f, n) /\ f[2 * n].record = r
  BY DEF KeptOnRecord
<1>2. Chained(g, n)
  <2>1. \A i \in 1 .. 2 * n : i \in 1 .. s
    BY <1>1
  <2> QED
    BY <1>1, <2>1, ChainedLocally
<1>3. g[2 * n].record = r /\ n \in 1 .. t /\ 2 * n <= t
  BY <1>1
<1> QED
  BY <1>2, <1>3 DEF KeptOnRecord

\* The same of whole lines.
LEMMA WholeLater ==
    ASSUME NEW f, NEW g, NEW s \in Nat, NEW t \in Nat, s <= t,
           \A i \in 1 .. s : f[i] = g[i], NEW r, WholeWithin(f, s, r)
    PROVE  WholeWithin(g, t, r)
<1>1. \A i \in 1 .. s : i \in 1 .. t
  OBVIOUS
<1> QED
  BY <1>1 DEF WholeWithin

\* The last line of a chain that is all durable is on record.
LEMMA LastLineKept ==
    ASSUME NEW f, NEW r, Len(f) \in Nat, Chained(f, Lines(f)), Lines(f) # 0,
           Len(f) = 2 * Lines(f), f[Len(f)].record = r
    PROVE  KeptOnRecord(f, Len(f), r)
<1>1. Lines(f) \in Nat
  BY LinesOf
<1>2. Lines(f) \in 1 .. Len(f)
  BY <1>1
<1> QED
  BY <1>2 DEF KeptOnRecord

\* A file that grows by a piece.
LEMMA Grown ==
    ASSUME NEW f \in Seq(Pieces), NEW e \in Pieces
    PROVE  /\ Append(f, e) \in Seq(Pieces)
           /\ Len(f) \in Nat /\ Len(Append(f, e)) = Len(f) + 1
           /\ \A i \in 1 .. Len(f) : Append(f, e)[i] = f[i]
           /\ Append(f, e)[Len(f) + 1] = e
           /\ Len(f) = 2 * Lines(f) => Lines(Append(f, e)) = Lines(f)
           /\ Len(f) = 2 * Lines(f) + 1 => Lines(Append(f, e)) = Lines(f) + 1
<1>1. /\ Append(f, e) \in Seq(Pieces)
      /\ Len(f) \in Nat /\ Len(Append(f, e)) = Len(f) + 1
      /\ \A i \in 1 .. Len(f) : Append(f, e)[i] = f[i]
      /\ Append(f, e)[Len(f) + 1] = e
  OBVIOUS
<1>2. Len(f) \in Nat /\ Len(Append(f, e)) = Len(f) + 1
  BY <1>1
<1>3. /\ Len(f) = 2 * Lines(f) => Lines(Append(f, e)) = Lines(f)
      /\ Len(f) = 2 * Lines(f) + 1 => Lines(Append(f, e)) = Lines(f) + 1
  BY <1>2 DEF Lines
<1> QED
  BY <1>1, <1>3

-----------------------------------------------------------------------------
(* The invariant.                                                          *)

LEMMA AuditInit == Init => AuditInv
<1> SUFFICES ASSUME Init PROVE AuditInv
  OBVIOUS
<1> USE DEF Init
<1>1. AuditTypeOK
  <2>1. ASSUME NEW p \in Processes
        PROVE  lock # p /\ pc[p] = "idle" /\ buffer[p] = <<>> /\ record[p] = NoRecord /\ ~raising[p]
    BY AuditAssumption
  <2>2. file \in Seq(Pieces) /\ Len(file) = 0
    OBVIOUS
  <2>3. pc \in [Processes -> {"idle", "verify", "flush", "fsync", "unlock", "close"}]
    OBVIOUS
  <2>4. synced \in 0 .. Len(file) /\ losses \in 0 .. MaxPowerLosses /\ composed \in 0 .. MaxRecords
    BY <2>2, AuditAssumption
  <2>5. /\ lock \in Processes \cup {Nobody} /\ late \in BOOLEAN /\ entry \in Entries
        /\ returned \subseteq Records /\ lost \subseteq returned
    BY DEF Entries
  <2> QED
    BY <2>1, <2>2, <2>3, <2>4, <2>5 DEF AuditTypeOK
<1>2. CallsOK
  BY DEF CallsOK
<1>3. ChainOK
  <2>1. Lines(file) = 0
    BY DEF Lines
  <2>2. \A p \in Processes : HolderOK(p)
    BY DEF HolderOK
  <2> QED
    BY <2>1, <2>2 DEF ChainOK, Chained, Kept
<1>4. DurableOK
  BY DEF DurableOK, WrittenOK, Kept
<1> QED
  BY <1>1, <1>2, <1>3, <1>4 DEF AuditInv

\* One process at a time is inside.
LEMMA OneInside ==
    ASSUME AuditTypeOK, NEW p \in Processes, NEW q \in Processes,
           pc[p] \in Inside, pc[q] \in Inside
    PROVE  p = q
  BY DEF AuditTypeOK, Inside

\* The types of a file that may be extended by any process.
LEMMA PieceFromBuffer ==
    ASSUME AuditTypeOK, CallsOK, NEW p \in Processes, buffer[p] # <<>>
    PROVE  /\ record[p] \in Records
           /\ Head(buffer[p]) \in Pieces /\ Tail(buffer[p]) \in Seq(Pieces)
           /\ \/ /\ buffer[p] = Line(record[p]) /\ Len(buffer[p]) = 2
                 /\ Head(buffer[p]) = HeadOf(record[p])
                 /\ Tail(buffer[p]) = Tail(Line(record[p])) /\ Tail(buffer[p]) # Line(record[p])
                 /\ Tail(buffer[p]) # <<>>
              \/ /\ buffer[p] # Line(record[p]) /\ Len(buffer[p]) = 1
                 /\ Head(buffer[p]) = TailOf(record[p])
                 /\ Tail(buffer[p]) = <<>>
<1>1. record[p] \in Records /\ buffer[p] \in {Line(record[p]), Tail(Line(record[p]))}
  BY DEF AuditTypeOK, CallsOK
<1>2. CASE buffer[p] = Line(record[p])
  BY <1>1, <1>2, LinePieces
<1>3. CASE buffer[p] = Tail(Line(record[p]))
  BY <1>1, <1>3, LinePieces
<1> QED
  BY <1>1, <1>2, <1>3

\* A call that leaves the file alone keeps everything but what its own
\* process knows of it.
LEMMA FileKept ==
    ASSUME AuditInv, NEW p \in Processes,
           UNCHANGED <<file, synced, Kept, late>>,
           \A q \in Processes \ {p} : /\ pc'[q] = pc[q] /\ buffer'[q] = buffer[q]
                                      /\ record'[q] = record[q] /\ raising'[q] = raising[q],
           ~late => HolderOK(p)', WrittenOK(p)'
    PROVE  ChainOK' /\ DurableOK'
<1>1. ASSUME NEW q \in Processes, q # p, ~late
      PROVE  HolderOK(q)'
  BY <1>1 DEF HolderOK, AuditInv, ChainOK
<1>2. ASSUME NEW q \in Processes, q # p
      PROVE  WrittenOK(q)'
  BY <1>2 DEF WrittenOK, AuditInv, DurableOK
<1> QED
  BY <1>1, <1>2 DEF AuditInv, ChainOK, DurableOK

\* The types, when only process p and the lock move.
LEMMA CallTypes ==
    ASSUME AuditInv, FileTypeOK', NEW p \in Processes,
           pc' = [pc EXCEPT ![p] = pc'[p]], buffer' = [buffer EXCEPT ![p] = buffer'[p]],
           record' = [record EXCEPT ![p] = record'[p]],
           raising' = [raising EXCEPT ![p] = raising'[p]],
           lock' = IF pc'[p] \in Inside THEN p ELSE IF lock = p THEN Nobody ELSE lock,
           lock \in {p, Nobody} \/ pc'[p] \notin Inside,
           CallOK(pc'[p], buffer'[p], record'[p], raising'[p])
    PROVE  AuditTypeOK' /\ CallsOK'
<1>1. \A q \in Processes \ {p} : /\ pc'[q] = pc[q] /\ buffer'[q] = buffer[q]
                                  /\ record'[q] = record[q] /\ raising'[q] = raising[q]
  BY DEF AuditInv, AuditTypeOK, CallsOK
<1>2. buffer'[p] \in Seq(Pieces)
  <2>1. CASE buffer'[p] = <<>>
    BY <2>1
  <2>2. CASE buffer'[p] # <<>>
    <3>1. record'[p] \in Records /\ buffer'[p] \in {Line(record'[p]), Tail(Line(record'[p]))}
      BY <2>2 DEF CallOK
    <3> QED
      BY <3>1, LinePieces
  <2> QED
    BY <2>1, <2>2
<1>3. CallsOK'
  <2>1. /\ buffer' \in [Processes -> Seq(Pieces)]
        /\ record' \in [Processes -> Records \cup {NoRecord}]
        /\ raising' \in [Processes -> BOOLEAN]
    BY <1>2 DEF AuditInv, CallsOK, CallOK
  <2>2. ASSUME NEW q \in Processes
        PROVE  /\ pc'[q] \in {"verify", "fsync"} => buffer'[q] = <<>>
               /\ pc'[q] = "verify" => ~raising'[q]
               /\ buffer'[q] # <<>> => record'[q] \in Records
               /\ pc'[q] \in {"unlock", "close"} /\ ~raising'[q] => record'[q] \in Records
    <3>1. CASE q = p
      BY <3>1 DEF CallOK
    <3>2. CASE q # p
      BY <3>2, <1>1 DEF AuditInv, CallsOK
    <3> QED
      BY <3>1, <3>2
  <2> QED
    BY <2>1, <2>2 DEF CallsOK
<1>4. ASSUME NEW q \in Processes
      PROVE  /\ lock' = q <=> pc'[q] \in {"verify", "flush", "fsync", "unlock"}
             /\ buffer'[q] \in {<<>>, Line(record'[q]), Tail(Line(record'[q]))}
             /\ pc'[q] \in {"flush", "fsync"} => record'[q] \in Records /\ ~raising'[q]
             /\ pc'[q] = "flush" => buffer'[q] # <<>>
             /\ pc'[q] = "idle" => buffer'[q] = <<>> /\ record'[q] = NoRecord /\ ~raising'[q]
  <2>1. Nobody # q /\ Nobody # p
    BY AuditAssumption
  <2>2. CASE q = p
    BY <2>1, <2>2 DEF Inside, CallOK
  <2>3. CASE q # p
    BY <2>1, <2>3, <1>1 DEF AuditInv, AuditTypeOK, Inside
  <2> QED
    BY <2>2, <2>3
<1>5. pc' \in [Processes -> {"idle", "verify", "flush", "fsync", "unlock", "close"}]
  BY DEF AuditInv, AuditTypeOK, States, Inside, CallOK
<1>6. lock' \in Processes \cup {Nobody}
  BY DEF AuditInv, AuditTypeOK
<1> QED
  BY <1>3, <1>4, <1>5, <1>6 DEF AuditTypeOK, FileTypeOK

\* What the invariant says of the values a call leaves alone.
LEMMA Present ==
    ASSUME AuditInv, NEW p \in Processes
    PROVE  /\ FileTypeOK
           /\ CallOK(pc[p], buffer[p], record[p], raising[p])
           /\ pc[p] \in Inside <=> lock = p
           /\ Len(file) \in Nat /\ synced \in Nat /\ synced <= Len(file) /\ Lines(file) \in Nat
           /\ DOMAIN pc = Processes /\ DOMAIN buffer = Processes
           /\ DOMAIN record = Processes /\ DOMAIN raising = Processes
           /\ pc = [pc EXCEPT ![p] = pc[p]] /\ buffer = [buffer EXCEPT ![p] = buffer[p]]
           /\ record = [record EXCEPT ![p] = record[p]]
           /\ raising = [raising EXCEPT ![p] = raising[p]]
<1>1. Len(file) \in Nat /\ synced \in Nat /\ synced <= Len(file)
  BY DEF AuditInv, AuditTypeOK
<1>2. Lines(file) \in Nat
  BY <1>1, LinesOf
<1>3. CallOK(pc[p], buffer[p], record[p], raising[p])
  BY DEF AuditInv, AuditTypeOK, CallsOK, CallOK, States, Inside
<1>4. /\ DOMAIN pc = Processes /\ DOMAIN buffer = Processes
      /\ DOMAIN record = Processes /\ DOMAIN raising = Processes
  BY DEF AuditInv, AuditTypeOK, CallsOK
<1>5. /\ pc = [pc EXCEPT ![p] = pc[p]] /\ buffer = [buffer EXCEPT ![p] = buffer[p]]
      /\ record = [record EXCEPT ![p] = record[p]]
      /\ raising = [raising EXCEPT ![p] = raising[p]]
  BY DEF AuditInv, AuditTypeOK, CallsOK
<1> QED
  BY <1>1, <1>2, <1>3, <1>4, <1>5 DEF AuditInv, AuditTypeOK, FileTypeOK, Inside

LEMMA AuditLock ==
    ASSUME AuditInv, NEW p \in Processes, Lock(p)
    PROVE  AuditInv'
<1>1. /\ pc[p] = "idle" /\ lock = Nobody /\ lock' = p
      /\ pc' = [pc EXCEPT ![p] = "verify"]
      /\ entry' \in {"created", entry}
      /\ UNCHANGED <<file, synced, losses, buffer, record, raising, history>>
  BY DEF Lock, Goes
<1>2. pc'[p] = "verify" /\ \A q \in Processes \ {p} : pc'[q] = pc[q]
  BY <1>1, Present
<1>3. AuditTypeOK' /\ CallsOK'
  <2>1. FileTypeOK'
    BY <1>1, Present DEF FileTypeOK, Entries, history
  <2>2. CallOK(pc'[p], buffer'[p], record'[p], raising'[p])
    BY <1>1, <1>2, Present DEF CallOK, States, Inside
  <2> QED
    BY <1>1, <1>2, <2>1, <2>2, Present, CallTypes DEF Inside
<1>4. HolderOK(p)' /\ WrittenOK(p)'
  BY <1>2 DEF HolderOK, WrittenOK
<1>5. ChainOK' /\ DurableOK'
  BY <1>1, <1>2, <1>4, FileKept DEF Kept, history
<1> QED
  BY <1>3, <1>5 DEF AuditInv

LEMMA AuditWrite ==
    ASSUME AuditInv, NEW p \in Processes, Write(p)
    PROVE  AuditInv'
<1> DEFINE n == Lines(file)
           r == [id |-> composed + 1, sequence |-> n + 1,
                 prev |-> IF n = 0 THEN Genesis ELSE file[2 * n].record.id]
<1>1. /\ pc[p] = "verify" /\ Len(file) % 2 = 0 /\ composed < MaxRecords
      /\ composed' = composed + 1
      /\ record' = [record EXCEPT ![p] = r]
      /\ buffer' = [buffer EXCEPT ![p] = Line(r)]
      /\ pc' = [pc EXCEPT ![p] = "flush"]
      /\ UNCHANGED <<storage, lock, raising, returned, lost, late>>
  BY DEF Write, Goes, Verified
<1>2. Len(file) = 2 * n /\ n \in Nat
  BY <1>1, Present, LinesOf
<1>3. r \in Records
  <2>1. composed + 1 \in 1 .. MaxRecords
    BY <1>1, AuditAssumption DEF AuditInv, AuditTypeOK
  <2>2. n # 0 => file[2 * n] \in Pieces
    BY <1>2 DEF AuditInv, AuditTypeOK
  <2>3. n # 0 => file[2 * n].record.id \in Nat
    BY <2>2 DEF Pieces, Records
  <2> QED
    BY <1>2, <2>1, <2>3 DEF Records, Genesis
<1> HIDE DEF r
<1>4. /\ pc'[p] = "flush" /\ record'[p] = r /\ buffer'[p] = Line(r) /\ ~raising'[p]
      /\ \A q \in Processes \ {p} : pc'[q] = pc[q] /\ record'[q] = record[q] /\ buffer'[q] = buffer[q]
  BY <1>1, Present DEF CallOK
<1>5. AuditTypeOK' /\ CallsOK'
  <2>1. FileTypeOK'
    BY <1>1, Present, AuditAssumption DEF FileTypeOK, storage
  <2>2. CallOK(pc'[p], buffer'[p], record'[p], raising'[p])
    BY <1>1, <1>3, <1>4, Present, LinePieces DEF CallOK, States, Inside
  <2> QED
    BY <1>1, <1>4, <2>1, <2>2, Present, CallTypes DEF Inside
<1>6. ChainOK' /\ DurableOK'
  <2>1. HolderOK(p)'
    <3>1. r.sequence = n + 1 /\ r.prev = IF n = 0 THEN Genesis ELSE file[2 * n].record.id
      BY DEF r
    <3> QED
      BY <1>1, <1>2, <1>4, <3>1 DEF HolderOK, storage
  <2>2. WrittenOK(p)'
    BY <1>4 DEF WrittenOK
  <2> QED
    BY <1>1, <1>4, <2>1, <2>2, FileKept DEF storage, Kept
<1> QED
  BY <1>5, <1>6 DEF AuditInv

\* Refuse, FlushFails and FsyncFails: the append will raise.
LEMMA AuditRaises ==
    ASSUME AuditInv, NEW p \in Processes, Refuse(p) \/ FlushFails(p) \/ FsyncFails(p)
    PROVE  AuditInv'
<1>1. /\ pc[p] \in {"verify", "flush", "fsync"}
      /\ raising' = [raising EXCEPT ![p] = TRUE]
      /\ pc' = [pc EXCEPT ![p] = "unlock"]
      /\ UNCHANGED <<storage, lock, buffer, record, history>>
  BY DEF Refuse, FlushFails, FsyncFails, Raises, Goes
<1>2. /\ pc'[p] = "unlock" /\ raising'[p] /\ raising'[p] \in BOOLEAN
      /\ \A q \in Processes \ {p} : pc'[q] = pc[q] /\ raising'[q] = raising[q]
  BY <1>1, Present
<1>3. AuditTypeOK' /\ CallsOK'
  <2>1. FileTypeOK'
    BY <1>1, Present DEF FileTypeOK, storage, history
  <2>2. CallOK(pc'[p], buffer'[p], record'[p], raising'[p])
    BY <1>1, <1>2, Present DEF CallOK, States, Inside
  <2> QED
    BY <1>1, <1>2, <2>1, <2>2, Present, CallTypes DEF Inside
<1>4. HolderOK(p)' /\ WrittenOK(p)'
  BY <1>2 DEF HolderOK, WrittenOK
<1>5. ChainOK' /\ DurableOK'
  BY <1>1, <1>2, <1>4, FileKept DEF storage, history, Kept
<1> QED
  BY <1>3, <1>5 DEF AuditInv

LEMMA AuditUnlock ==
    ASSUME AuditInv, NEW p \in Processes, Unlock(p)
    PROVE  AuditInv'
<1>1. /\ pc[p] = "unlock" /\ lock' = Nobody
      /\ pc' = [pc EXCEPT ![p] = "close"]
      /\ UNCHANGED <<storage, buffer, record, raising, history>>
  BY DEF Unlock, Goes
<1>2. pc'[p] = "close" /\ \A q \in Processes \ {p} : pc'[q] = pc[q]
  BY <1>1, Present
<1>3. AuditTypeOK' /\ CallsOK'
  <2>1. FileTypeOK'
    BY <1>1, Present DEF FileTypeOK, storage, history
  <2>2. CallOK(pc'[p], buffer'[p], record'[p], raising'[p])
    BY <1>1, <1>2, Present DEF CallOK, States, Inside
  <2> QED
    BY <1>1, <1>2, <2>1, <2>2, Present, CallTypes DEF Inside
<1>4. ~late => HolderOK(p)'
  BY <1>1, <1>2 DEF HolderOK, AuditInv, ChainOK, storage
<1>5. WrittenOK(p)'
  BY <1>1, <1>2 DEF WrittenOK, AuditInv, DurableOK, storage
<1>6. ChainOK' /\ DurableOK'
  BY <1>1, <1>2, <1>4, <1>5, FileKept DEF storage, history, Kept
<1> QED
  BY <1>3, <1>6 DEF AuditInv

\* A piece at the end of the file takes nothing from anybody.
LEMMA FileGrows ==
    ASSUME AuditInv, NEW p \in Processes, NEW e \in Pieces,
           file' = Append(file, e), UNCHANGED <<synced, Kept>>,
           \A q \in Processes \ {p} : /\ pc'[q] = pc[q] /\ buffer'[q] = buffer[q]
                                      /\ record'[q] = record[q] /\ raising'[q] = raising[q]
    PROVE  /\ \A q \in Processes \ {p} : WrittenOK(q)'
           /\ \A r \in Kept' : WholeWithin(file', synced', r)
           /\ \A r : KeptOnRecord(file, synced, r) => KeptOnRecord(file', synced', r)
           /\ \A r : WholeWithin(file, synced, r) => WholeWithin(file', synced', r)
           /\ \A i \in 1 .. Len(file) : file'[i] = file[i]
           /\ Len(file') = Len(file) + 1
<1>1. /\ Len(file) \in Nat /\ synced \in Nat /\ synced <= Len(file)
      /\ file \in Seq(Pieces)
  BY DEF AuditInv, AuditTypeOK
<1>2. Len(file') = Len(file) + 1 /\ \A i \in 1 .. Len(file) : file'[i] = file[i]
  BY <1>1, Grown
<1>3. /\ \A i \in 1 .. synced : file[i] = file'[i]
      /\ \A i \in 1 .. Len(file) : file[i] = file'[i]
      /\ synced <= synced /\ Len(file) <= Len(file) + 1 /\ Len(file) + 1 \in Nat
  BY <1>1, <1>2
<1>4. ASSUME NEW r
      PROVE  /\ KeptOnRecord(file, synced, r) => KeptOnRecord(file', synced', r)
             /\ WholeWithin(file, synced, r) => WholeWithin(file', synced', r)
             /\ WholeWithin(file, Len(file), r) => WholeWithin(file', Len(file'), r)
  <2>1. KeptOnRecord(file, synced, r) => KeptOnRecord(file', synced, r)
    BY <1>1, <1>3, KeptLater
  <2>2. WholeWithin(file, synced, r) => WholeWithin(file', synced, r)
    BY <1>1, <1>3, WholeLater
  <2>3. WholeWithin(file, Len(file), r) => WholeWithin(file', Len(file) + 1, r)
    <3>1. \A i \in 1 .. Len(file) : i \in 1 .. Len(file) + 1
      BY <1>1
    <3> QED
      BY <1>3, <3>1 DEF WholeWithin
  <2> QED
    BY <2>1, <2>2, <2>3, <1>2
<1>5. ASSUME NEW q \in Processes, q # p
      PROVE  WrittenOK(q)'
  <2>1. /\ pc'[q] = pc[q] /\ buffer'[q] = buffer[q] /\ record'[q] = record[q]
        /\ raising'[q] = raising[q] /\ WrittenOK(q)
    BY <1>5 DEF AuditInv, DurableOK
  <2>2. pc[q] = "flush" /\ buffer[q] # Line(record[q]) =>
            \E i \in 1 .. Len(file') : file'[i] = HeadOf(record[q])
    <3>1. ASSUME NEW i \in 1 .. Len(file)
          PROVE  i \in 1 .. Len(file') /\ file'[i] = file[i]
      BY <1>1, <1>2
    <3> QED
      BY <2>1, <3>1 DEF WrittenOK
  <2> QED
    BY <1>4, <2>1, <2>2 DEF WrittenOK
<1>6. \A r \in Kept' : WholeWithin(file', synced', r)
  BY <1>4 DEF AuditInv, DurableOK
<1> QED
  BY <1>2, <1>4, <1>5, <1>6

\* While p has the lock, nobody else is told anything by the end of the file.
LEMMA OthersHold ==
    ASSUME AuditInv, ~late, NEW p \in Processes, pc[p] \in Inside, UNCHANGED Kept,
           \A q \in Processes \ {p} : /\ pc'[q] = pc[q] /\ buffer'[q] = buffer[q]
                                      /\ record'[q] = record[q] /\ raising'[q] = raising[q],
           \A r : KeptOnRecord(file, synced, r) => KeptOnRecord(file', synced', r)
    PROVE  /\ \A q \in Processes \ {p} : HolderOK(q)'
           /\ \A r \in Kept' : KeptOnRecord(file', synced', r)
<1>1. ASSUME NEW q \in Processes, q # p
      PROVE  HolderOK(q)'
  <2>1. pc'[q] = pc[q] /\ record'[q] = record[q] /\ raising'[q] = raising[q] /\ HolderOK(q)
    BY <1>1 DEF AuditInv, ChainOK
  <2>2. pc[q] \notin Inside
    BY <1>1, OneInside DEF AuditInv
  <2> QED
    BY <2>1, <2>2 DEF HolderOK, Inside
<1> QED
  BY <1>1 DEF AuditInv, ChainOK

LEMMA AuditFlush ==
    ASSUME AuditInv, NEW p \in Processes, Flush(p)
    PROVE  AuditInv'
<1> DEFINE r == record[p]
           e == Head(buffer[p])
           n == Lines(file)
<1>1. /\ pc[p] = "flush" /\ buffer[p] # <<>>
      /\ file' = Append(file, e)
      /\ buffer' = [buffer EXCEPT ![p] = Tail(buffer[p])]
      /\ IF Len(buffer[p]) = 1 THEN pc' = [pc EXCEPT ![p] = "fsync"] ELSE pc' = pc
      /\ UNCHANGED <<synced, entry, losses, lock, record, raising, history>>
  BY DEF Flush, WritesPiece, Goes
<1>2. r \in Records /\ e \in Pieces /\ ~raising[p]
  BY <1>1, PieceFromBuffer DEF AuditInv, AuditTypeOK
<1>3. file \in Seq(Pieces) /\ n \in Nat /\ Len(file) \in Nat
  BY Present DEF FileTypeOK
<1>4. /\ Len(file') = Len(file) + 1
      /\ \A i \in 1 .. Len(file) : file'[i] = file[i]
      /\ file'[Len(file) + 1] = e
      /\ file' \in Seq(Pieces)
      /\ Len(file) = 2 * n => Lines(file') = n
      /\ Len(file) = 2 * n + 1 => Lines(file') = n + 1
  BY <1>1, <1>2, <1>3, Grown
<1>5. \/ /\ buffer[p] = Line(r) /\ e = HeadOf(r)
         /\ pc'[p] = "flush" /\ buffer'[p] = Tail(Line(r))
         /\ buffer'[p] # Line(r) /\ buffer'[p] # <<>>
      \/ /\ buffer[p] # Line(r) /\ e = TailOf(r)
         /\ pc'[p] = "fsync" /\ buffer'[p] = <<>>
  <2>1. buffer'[p] = Tail(buffer[p])
    BY <1>1, Present
  <2>2. Len(buffer[p]) = 1 => pc'[p] = "fsync"
    BY <1>1, Present
  <2>3. Len(buffer[p]) # 1 => pc'[p] = "flush"
    BY <1>1
  <2>4. CASE buffer[p] = Line(r)
    <3>1. /\ Len(Line(r)) = 2 /\ Head(Line(r)) = HeadOf(r)
          /\ Tail(Line(r)) # Line(r) /\ Tail(Line(r)) # <<>>
      BY LinePieces
    <3>2. Len(buffer[p]) # 1
      BY <2>4, <3>1
    <3>3. pc'[p] = "flush"
      BY <2>3, <3>2
    <3>4. e = HeadOf(r) /\ buffer'[p] = Tail(Line(r))
      BY <2>1, <2>4, <3>1
    <3> QED
      BY <2>4, <3>1, <3>3, <3>4
  <2>5. CASE buffer[p] # Line(r)
    BY <1>1, <2>1, <2>2, <2>5, PieceFromBuffer DEF AuditInv
  <2> QED
    BY <2>4, <2>5
<1>6. \A q \in Processes \ {p} : /\ pc'[q] = pc[q] /\ buffer'[q] = buffer[q]
                                  /\ record'[q] = record[q] /\ raising'[q] = raising[q]
  BY <1>1, Present
<1>7. record'[p] = r /\ raising'[p] = raising[p] /\ synced' = synced
  BY <1>1
<1>8. AuditTypeOK' /\ CallsOK'
  <2>1. FileTypeOK'
    <3>1. synced \in 0 .. Len(file')
      BY <1>4, Present
    <3> QED
      BY <1>1, <1>4, <3>1, Present DEF FileTypeOK, history
  <2>2. CallOK(pc'[p], buffer'[p], record'[p], raising'[p])
    BY <1>2, <1>5, <1>7, Present DEF CallOK, States, Inside
  <2>3. lock = p /\ lock' = lock /\ pc'[p] \in Inside
    BY <1>1, <1>5, Present DEF Inside
  <2>4. /\ pc' = [pc EXCEPT ![p] = pc'[p]] /\ buffer' = [buffer EXCEPT ![p] = buffer'[p]]
        /\ record' = [record EXCEPT ![p] = record'[p]] /\ raising' = [raising EXCEPT ![p] = raising'[p]]
    BY <1>1, Present
  <2> QED
    BY <2>1, <2>2, <2>3, <2>4, CallTypes
<1>9. /\ \A q \in Processes \ {p} : WrittenOK(q)'
      /\ \A x \in Kept' : WholeWithin(file', synced', x)
      /\ \A x : KeptOnRecord(file, synced, x) => KeptOnRecord(file', synced', x)
  BY <1>1, <1>2, <1>6, FileGrows DEF history, Kept
<1>10. WrittenOK(p)'
  <2>1. CASE pc'[p] = "flush"
    <3>1. file'[Len(file) + 1] = HeadOf(record'[p]) /\ Len(file) + 1 \in 1 .. Len(file')
      BY <1>3, <1>4, <1>5, <1>7, <2>1
    <3> QED
      BY <2>1, <3>1 DEF WrittenOK
  <2>2. CASE pc'[p] = "fsync"
    <3>1. PICK i \in 1 .. Len(file) : file[i] = HeadOf(r)
      BY <1>1, <1>5, <2>2 DEF AuditInv, DurableOK, WrittenOK
    <3>2. /\ i \in 1 .. Len(file') /\ Len(file) + 1 \in 1 .. Len(file') /\ i < Len(file) + 1
          /\ file'[i] = HeadOf(r) /\ file'[Len(file) + 1] = TailOf(r)
      BY <1>3, <1>4, <1>5, <2>2, <3>1
    <3>3. WholeWithin(file', Len(file'), r)
      BY <3>2 DEF WholeWithin
    <3> QED
      BY <1>7, <2>2, <3>3 DEF WrittenOK
  <2> QED
    BY <1>5, <2>1, <2>2
<1>11. ChainOK'
  <2> SUFFICES ASSUME ~late
               PROVE  /\ Chained(file', Lines(file'))
                      /\ \A q \in Processes : HolderOK(q)'
                      /\ \A x \in Kept' : KeptOnRecord(file', synced', x)
    BY <1>1 DEF ChainOK, history
  <2>1. HolderOK(p) /\ Chained(file, n)
    BY DEF AuditInv, ChainOK
  <2>2. Chained(file', n)
    <3>1. \A i \in 1 .. 2 * n : file[i] = file'[i]
      BY <1>3, <1>4, LinesOf
    <3> QED
      BY <1>3, <2>1, <3>1, ChainedLocally
  <2>3. /\ \A q \in Processes \ {p} : HolderOK(q)'
        /\ \A x \in Kept' : KeptOnRecord(file', synced', x)
    BY <1>1, <1>6, <1>9, OthersHold DEF Inside, history, Kept
  <2>4. CASE buffer[p] = Line(r)
    <3>1. Len(file) = 2 * n /\ Lines(file') = n /\ pc'[p] = "flush" /\ buffer'[p] # Line(record'[p])
      BY <1>1, <1>4, <1>5, <1>7, <2>1, <2>4 DEF HolderOK
    <3>2. n # 0 => file'[2 * n] = file[2 * n]
      BY <1>3, <1>4, <3>1
    <3>3. file'[Len(file')] = HeadOf(record'[p]) /\ Len(file') = 2 * n + 1
      BY <1>4, <1>5, <1>7, <2>4, <3>1
    <3>4. HolderOK(p)'
      BY <1>1, <1>7, <2>1, <3>1, <3>2, <3>3 DEF HolderOK
    <3> QED
      BY <2>2, <2>3, <3>1, <3>4
  <2>5. CASE buffer[p] # Line(r)
    <3>1. /\ Len(file) = 2 * n + 1 /\ Lines(file') = n + 1 /\ pc'[p] = "fsync"
          /\ file[Len(file)] = HeadOf(r)
          /\ r.sequence = n + 1 /\ r.prev = IF n = 0 THEN Genesis ELSE file[2 * n].record.id
      BY <1>1, <1>4, <1>5, <2>1, <2>5 DEF HolderOK
    <3>2. /\ file'[2 * n + 1] = HeadOf(r) /\ file'[2 * n + 2] = TailOf(r)
          /\ n # 0 => file'[2 * n] = file[2 * n]
      <4>1. /\ 2 * n + 1 \in 1 .. Len(file) /\ 2 * n + 2 = Len(file) + 1
            /\ n # 0 => 2 * n \in 1 .. Len(file)
        BY <1>3, <3>1
      <4>2. file'[2 * n + 1] = file[2 * n + 1] /\ (n # 0 => file'[2 * n] = file[2 * n])
        BY <1>4, <4>1
      <4> QED
        BY <1>4, <1>5, <2>5, <3>1, <4>1, <4>2
    <3>3. Chained(file', n + 1)
      BY <1>3, <2>2, <3>1, <3>2, ChainedOneMore
    <3>4. Len(file') = 2 * (n + 1) /\ Lines(file') # 0 /\ file'[Len(file')].record = record'[p]
      <4>1. Len(file') = 2 * n + 2
        BY <1>3, <1>4, <3>1
      <4>2. TailOf(r).record = r
        BY DEF TailOf
      <4> QED
        BY <1>3, <3>1, <3>2, <4>1, <4>2, <1>7
    <3>5. HolderOK(p)'
      BY <3>1, <3>4 DEF HolderOK
    <3> QED
      BY <2>3, <3>1, <3>3, <3>5
  <2> QED
    BY <2>4, <2>5
<1>12. DurableOK'
  BY <1>9, <1>10 DEF DurableOK
<1> QED
  BY <1>8, <1>11, <1>12 DEF AuditInv

LEMMA AuditFsync ==
    ASSUME AuditInv, NEW p \in Processes, Fsync(p)
    PROVE  AuditInv'
<1>1. /\ pc[p] = "fsync" /\ synced' = Len(file)
      /\ pc' = [pc EXCEPT ![p] = "unlock"]
      /\ UNCHANGED <<file, entry, losses, lock, buffer, record, raising, history>>
  BY DEF Fsync, Goes
<1>2. /\ pc'[p] = "unlock"
      /\ \A q \in Processes \ {p} : /\ pc'[q] = pc[q] /\ buffer'[q] = buffer[q]
                                     /\ record'[q] = record[q] /\ raising'[q] = raising[q]
  BY <1>1, Present
<1>3. Len(file) \in Nat /\ synced \in Nat /\ synced <= Len(file)
  BY Present
<1>4. AuditTypeOK' /\ CallsOK'
  <2>1. FileTypeOK'
    BY <1>1, <1>3, Present DEF FileTypeOK, history
  <2>2. CallOK(pc'[p], buffer'[p], record'[p], raising'[p])
    BY <1>1, <1>2, Present DEF CallOK, States, Inside
  <2> QED
    BY <1>1, <1>2, <2>1, <2>2, Present, CallTypes DEF Inside
<1>5. ASSUME NEW r
      PROVE  /\ KeptOnRecord(file, synced, r) => KeptOnRecord(file', synced', r)
             /\ WholeWithin(file, synced, r) => WholeWithin(file', synced', r)
  <2>1. \A i \in 1 .. synced : i \in 1 .. synced'
    BY <1>1, <1>3
  <2>2. \A m \in 1 .. synced : 2 * m <= synced => 2 * m <= synced'
    BY <1>1, <1>3
  <2>3. file' = file
    BY <1>1
  <2> QED
    BY <2>1, <2>2, <2>3 DEF KeptOnRecord, WholeWithin
<1>6. DurableOK'
  <2>1. ASSUME NEW q \in Processes
        PROVE  WrittenOK(q)'
    <3>1. CASE q = p
      <4>1. WholeWithin(file, Len(file), record[p])
        BY <1>1 DEF AuditInv, DurableOK, WrittenOK
      <4> QED
        BY <1>1, <1>2, <3>1, <4>1 DEF WrittenOK
    <3>2. CASE q # p
      <4>1. WrittenOK(q)
        BY DEF AuditInv, DurableOK
      <4> QED
        BY <1>1, <1>2, <1>5, <3>2, <4>1 DEF WrittenOK
    <3> QED
      BY <3>1, <3>2
  <2>2. \A r \in Kept' : WholeWithin(file', synced', r)
    BY <1>1, <1>5 DEF AuditInv, DurableOK, history, Kept
  <2> QED
    BY <2>1, <2>2 DEF DurableOK
<1>7. ChainOK'
  <2> SUFFICES ASSUME ~late
               PROVE  /\ Chained(file', Lines(file'))
                      /\ \A q \in Processes : HolderOK(q)'
                      /\ \A r \in Kept' : KeptOnRecord(file', synced', r)
    BY <1>1 DEF ChainOK, history
  <2>1. Chained(file, Lines(file)) /\ HolderOK(p)
    BY DEF AuditInv, ChainOK
  <2>2. KeptOnRecord(file, Len(file), record[p])
    BY <1>1, <1>3, <2>1, LastLineKept DEF HolderOK
  <2>3. HolderOK(p)'
    BY <1>1, <1>2, <2>2 DEF HolderOK
  <2>4. /\ \A q \in Processes \ {p} : HolderOK(q)'
        /\ \A r \in Kept' : KeptOnRecord(file', synced', r)
    <3>1. Kept' = Kept /\ pc[p] \in Inside
      BY <1>1 DEF history, Inside, Kept
    <3> QED
      BY <1>2, <1>5, <3>1, OthersHold
  <2> QED
    BY <1>1, <2>1, <2>3, <2>4
<1> QED
  BY <1>4, <1>6, <1>7 DEF AuditInv

LEMMA AuditCloseWrites ==
    ASSUME AuditInv, NEW p \in Processes, CloseWrites(p)
    PROVE  AuditInv'
<1> DEFINE e == Head(buffer[p])
<1>1. /\ pc[p] = "close" /\ buffer[p] # <<>>
      /\ file' = Append(file, e)
      /\ buffer' = [buffer EXCEPT ![p] = Tail(buffer[p])]
      /\ late' = TRUE
      /\ UNCHANGED <<synced, entry, losses, lock, pc, record, raising, composed, returned, lost>>
  BY DEF CloseWrites, WritesPiece
<1>2. record[p] \in Records /\ e \in Pieces
  BY <1>1, PieceFromBuffer DEF AuditInv
<1>3. /\ Len(file') = Len(file) + 1 /\ file' \in Seq(Pieces)
  BY <1>1, <1>2, Present, Grown DEF FileTypeOK
<1>4. /\ buffer'[p] \in {<<>>, Tail(Line(record[p]))}
      /\ \A q \in Processes \ {p} : /\ pc'[q] = pc[q] /\ buffer'[q] = buffer[q]
                                     /\ record'[q] = record[q] /\ raising'[q] = raising[q]
  BY <1>1, Present, PieceFromBuffer DEF AuditInv
<1>5. AuditTypeOK' /\ CallsOK'
  <2>1. FileTypeOK'
    <3>1. synced \in 0 .. Len(file')
      BY <1>3, Present
    <3> QED
      BY <1>1, <1>3, <3>1, Present DEF FileTypeOK
  <2>2. CallOK(pc'[p], buffer'[p], record'[p], raising'[p])
    BY <1>1, <1>2, <1>4, Present DEF CallOK, States, Inside
  <2>3. /\ lock # p /\ lock' = lock /\ pc'[p] \notin Inside
    BY <1>1, Present DEF Inside
  <2>4. /\ pc' = [pc EXCEPT ![p] = pc'[p]] /\ buffer' = [buffer EXCEPT ![p] = buffer'[p]]
        /\ record' = [record EXCEPT ![p] = record'[p]] /\ raising' = [raising EXCEPT ![p] = raising'[p]]
    BY <1>1, Present
  <2> QED
    BY <2>1, <2>2, <2>3, <2>4, CallTypes
<1>6. /\ \A q \in Processes \ {p} : WrittenOK(q)'
      /\ \A r \in Kept' : WholeWithin(file', synced', r)
      /\ \A r : WholeWithin(file, synced, r) => WholeWithin(file', synced', r)
  BY <1>1, <1>2, <1>4, FileGrows DEF Kept
<1>7. WrittenOK(p)'
  <2>1. ~raising[p] => WholeWithin(file, synced, record[p])
    BY <1>1 DEF AuditInv, DurableOK, WrittenOK
  <2> QED
    BY <1>1, <1>6, <2>1 DEF WrittenOK
<1>8. ChainOK' /\ DurableOK'
  BY <1>1, <1>6, <1>7 DEF ChainOK, DurableOK
<1> QED
  BY <1>5, <1>8 DEF AuditInv

\* Close and Kill: the call is over, with or without its record returned.
LEMMA CallOver ==
    ASSUME AuditInv, NEW p \in Processes, FileTypeOK',
           pc' = [pc EXCEPT ![p] = "idle"],
           buffer' = [buffer EXCEPT ![p] = <<>>],
           record' = [record EXCEPT ![p] = NoRecord],
           raising' = [raising EXCEPT ![p] = FALSE],
           lock' = IF lock = p THEN Nobody ELSE lock,
           UNCHANGED <<file, synced, lost, late>>,
           returned' = returned \/
              /\ returned' = returned \cup {record[p]}
              /\ pc[p] = "close" /\ ~raising[p]
    PROVE  AuditInv'
<1>1. /\ pc'[p] = "idle" /\ buffer'[p] = <<>> /\ record'[p] = NoRecord /\ raising'[p] = FALSE
      /\ \A q \in Processes \ {p} : /\ pc'[q] = pc[q] /\ buffer'[q] = buffer[q]
                                     /\ record'[q] = record[q] /\ raising'[q] = raising[q]
  BY Present
<1>2. AuditTypeOK' /\ CallsOK'
  <2>1. CallOK(pc'[p], buffer'[p], record'[p], raising'[p])
    BY <1>1 DEF CallOK, States
  <2>2. pc'[p] \notin Inside
    BY <1>1 DEF Inside
  <2> QED
    BY <1>1, <2>1, <2>2, CallTypes
<1>3. HolderOK(p)' /\ WrittenOK(p)'
  BY <1>1 DEF HolderOK, WrittenOK
<1>4. DurableOK'
  <2>1. \A q \in Processes \ {p} : WrittenOK(q)'
    BY <1>1 DEF WrittenOK, AuditInv, DurableOK
  <2>2. pc[p] = "close" /\ ~raising[p] => WholeWithin(file, synced, record[p])
    BY DEF AuditInv, DurableOK, WrittenOK
  <2>3. \A r \in Kept' : WholeWithin(file', synced', r)
    BY <2>2 DEF AuditInv, DurableOK, Kept
  <2> QED
    BY <1>3, <2>1, <2>3 DEF DurableOK
<1>5. ChainOK'
  <2> SUFFICES ASSUME ~late
               PROVE  /\ Chained(file, Lines(file))
                      /\ \A q \in Processes : HolderOK(q)'
                      /\ \A r \in Kept' : KeptOnRecord(file, synced, r)
    BY DEF ChainOK
  <2>1. \A q \in Processes \ {p} : HolderOK(q)'
    BY <1>1 DEF HolderOK, AuditInv, ChainOK
  <2>2. pc[p] = "close" /\ ~raising[p] => KeptOnRecord(file, synced, record[p])
    BY DEF AuditInv, ChainOK, HolderOK
  <2>3. \A r \in Kept' : KeptOnRecord(file, synced, r)
    BY <2>2 DEF AuditInv, ChainOK, Kept
  <2> QED
    BY <1>3, <2>1, <2>3 DEF AuditInv, ChainOK
<1> QED
  BY <1>2, <1>4, <1>5 DEF AuditInv

LEMMA AuditClose ==
    ASSUME AuditInv, NEW p \in Processes, Close(p)
    PROVE  AuditInv'
<1>1. /\ pc[p] = "close"
      /\ returned' = IF raising[p] THEN returned ELSE returned \cup {record[p]}
      /\ pc' = [pc EXCEPT ![p] = "idle"]
      /\ buffer' = [buffer EXCEPT ![p] = <<>>]
      /\ record' = [record EXCEPT ![p] = NoRecord]
      /\ raising' = [raising EXCEPT ![p] = FALSE]
      /\ UNCHANGED <<storage, lock, composed, lost, late>>
  BY DEF Close, Goes
<1>2. lock # p /\ (~raising[p] => record[p] \in Records)
  BY <1>1, Present DEF CallOK, Inside
<1>3. FileTypeOK'
  BY <1>1, <1>2, Present DEF FileTypeOK, storage
<1>4. lock' = IF lock = p THEN Nobody ELSE lock
  BY <1>1, <1>2
<1>5. /\ UNCHANGED <<file, synced, lost, late>>
      /\ returned' = returned \/ (/\ returned' = returned \cup {record[p]}
                                  /\ pc[p] = "close" /\ ~raising[p])
  BY <1>1 DEF storage
<1> QED
  BY <1>1, <1>3, <1>4, <1>5, CallOver

LEMMA AuditKill ==
    ASSUME AuditInv, NEW p \in Processes, Kill(p)
    PROVE  AuditInv'
<1>1. /\ lock' = IF lock = p THEN Nobody ELSE lock
      /\ pc' = [pc EXCEPT ![p] = "idle"]
      /\ buffer' = [buffer EXCEPT ![p] = <<>>]
      /\ record' = [record EXCEPT ![p] = NoRecord]
      /\ raising' = [raising EXCEPT ![p] = FALSE]
      /\ UNCHANGED <<storage, history>>
  BY DEF Kill, Goes
<1>2. FileTypeOK'
  BY <1>1, Present DEF FileTypeOK, storage, history
<1>3. UNCHANGED <<file, synced, late, returned, lost>>
  BY <1>1 DEF storage, history
<1> QED
  BY <1>1, <1>2, <1>3, CallOver

LEMMA AuditEntry ==
    ASSUME AuditInv, EntryReachesDisk
    PROVE  AuditInv'
<1>1. /\ entry' = "durable"
      /\ UNCHANGED <<file, synced, losses, lock, pc, buffer, record, raising>>
      /\ UNCHANGED <<composed, returned, lost, late>>
  BY DEF EntryReachesDisk, calls, history
<1> QED
  BY <1>1 DEF AuditInv, AuditTypeOK, CallsOK, ChainOK, DurableOK, HolderOK, WrittenOK, Kept, Entries

\* Nobody is in a call; the file keeps its durable part, or goes and takes
\* every returned record along.
LEMMA AuditPowerLoss ==
    ASSUME AuditInv, PowerLoss
    PROVE  AuditInv'
<1>1. PICK n \in 0 .. Len(file) :
        /\ file' = SubSeq(file, 1, n) /\ synced' = n /\ entry' \in Entries
        /\ (synced <= n /\ lost' = lost) \/ lost' = returned
  <2>1. Len(file) \in Nat /\ synced \in Nat /\ file \in Seq(Pieces) /\ entry \in Entries
    BY DEF AuditInv, AuditTypeOK
  <2>2. ASSUME NEW n \in synced .. Len(file), Survives(n)
        PROVE  /\ n \in 0 .. Len(file) /\ synced <= n /\ lost' = lost
               /\ file' = SubSeq(file, 1, n) /\ synced' = n /\ entry' \in Entries
    BY <2>1, <2>2 DEF Survives, Entries
  <2>3. CASE FileLost
    <3>1. SubSeq(file, 1, 0) = <<>> /\ 0 \in 0 .. Len(file)
      BY <2>1
    <3> QED
      BY <2>3, <3>1 DEF FileLost, Entries
  <2> QED
    BY <2>2, <2>3 DEF PowerLoss
<1>2. /\ losses < MaxPowerLosses /\ losses' = losses + 1 /\ lock' = Nobody
      /\ pc' = [p \in Processes |-> "idle"] /\ buffer' = [p \in Processes |-> <<>>]
      /\ record' = [p \in Processes |-> NoRecord] /\ raising' = [p \in Processes |-> FALSE]
      /\ UNCHANGED <<composed, returned, late>>
  BY DEF PowerLoss
<1>3. file \in Seq(Pieces) /\ Len(file) \in Nat /\ synced \in Nat /\ n \in Nat
      /\ n <= Len(file)
  BY <1>1 DEF AuditInv, AuditTypeOK
<1>4. file' \in Seq(Pieces) /\ Len(file') = n /\ \A i \in 1 .. n : file[i] = file'[i]
  BY <1>1, <1>3
<1>5. AuditTypeOK' /\ CallsOK'
  <2>1. FileTypeOK'
    <3>1. losses' \in 0 .. MaxPowerLosses
      BY <1>2, AuditAssumption DEF AuditInv, AuditTypeOK
    <3>2. synced' \in 0 .. Len(file')
      BY <1>1, <1>3, <1>4
    <3>3. returned' \subseteq Records /\ lost' \subseteq returned'
      BY <1>1, <1>2 DEF AuditInv, AuditTypeOK
    <3> QED
      BY <1>1, <1>2, <1>4, <3>1, <3>2, <3>3 DEF FileTypeOK, AuditInv, AuditTypeOK
  <2>2. CallsOK'
    BY <1>2 DEF CallsOK
  <2>3. ASSUME NEW p \in Processes
        PROVE  /\ lock' # p /\ pc'[p] = "idle" /\ buffer'[p] = <<>> /\ record'[p] = NoRecord
               /\ ~raising'[p]
    BY <1>2, AuditAssumption
  <2>4. pc' \in [Processes -> {"idle", "verify", "flush", "fsync", "unlock", "close"}]
        /\ lock' \in Processes \cup {Nobody}
    BY <1>2
  <2> QED
    BY <2>1, <2>2, <2>3, <2>4 DEF AuditTypeOK, FileTypeOK
<1>6. \A p \in Processes : HolderOK(p)' /\ WrittenOK(p)'
  BY <1>2 DEF HolderOK, WrittenOK
<1>7. ASSUME NEW r \in Kept'
      PROVE  r \in Kept /\ synced <= n /\ \A i \in 1 .. synced : file[i] = file'[i]
  <2>1. lost' # returned
    BY <1>2, <1>7 DEF Kept
  <2>2. synced <= n /\ lost' = lost
    BY <1>1, <2>1
  <2> QED
    BY <1>2, <1>3, <1>4, <1>7, <2>2 DEF Kept
<1>8. DurableOK'
  <2>1. ASSUME NEW r \in Kept'
        PROVE  WholeWithin(file', synced', r)
    <3>1. WholeWithin(file, synced, r)
      BY <1>7 DEF AuditInv, DurableOK
    <3> QED
      BY <1>1, <1>3, <1>7, <3>1, WholeLater
  <2> QED
    BY <1>6, <2>1 DEF DurableOK
<1>9. ChainOK'
  <2> SUFFICES ASSUME ~late
               PROVE  /\ Chained(file', Lines(file'))
                      /\ \A r \in Kept' : KeptOnRecord(file', synced', r)
    BY <1>2, <1>6 DEF ChainOK
  <2>1. Chained(file, Lines(file)) /\ \A r \in Kept : KeptOnRecord(file, synced, r)
    BY DEF AuditInv, ChainOK
  <2>2. ASSUME NEW r \in Kept'
        PROVE  KeptOnRecord(file', synced', r)
    BY <1>1, <1>3, <1>7, <2>1, KeptLater
  <2>3. /\ Lines(file') \in Nat /\ Lines(file) \in Nat
        /\ 2 * Lines(file') <= n /\ Lines(file') <= Lines(file)
    BY <1>3, <1>4 DEF Lines
  <2>4. Chained(file, Lines(file'))
    BY <2>1, <2>3, ChainedShorter
  <2>5. \A i \in 1 .. 2 * Lines(file') : file[i] = file'[i]
    BY <1>3, <1>4, <2>3
  <2>6. Chained(file', Lines(file'))
    BY <2>3, <2>4, <2>5, ChainedLocally
  <2> QED
    BY <2>2, <2>6
<1> QED
  BY <1>5, <1>8, <1>9 DEF AuditInv

-----------------------------------------------------------------------------
(* The theorems.                                                           *)

\* Init and every step keep the invariant.
THEOREM AuditInvariant == Spec => []AuditInv
<1>1. Init => AuditInv
  BY AuditInit
<1>2. AuditInv /\ [Next]_vars => AuditInv'
  <2> SUFFICES ASSUME AuditInv, [Next]_vars
               PROVE  AuditInv'
    OBVIOUS
  <2>1. CASE PowerLoss
    BY <2>1, AuditPowerLoss
  <2>1a. CASE EntryReachesDisk
    BY <2>1a, AuditEntry
  <2>2. ASSUME NEW p \in Processes, Appending(p)
        PROVE  AuditInv'
    BY <2>2, AuditLock, AuditWrite, AuditRaises, AuditFlush, AuditFsync, AuditUnlock,
       AuditCloseWrites, AuditClose DEF Appending
  <2>3. ASSUME NEW p \in Processes, Kill(p)
        PROVE  AuditInv'
    BY <2>3, AuditKill
  <2>4. CASE UNCHANGED vars
    <3>1. /\ UNCHANGED <<file, synced, entry, losses, lock, pc, buffer, record, raising>>
          /\ UNCHANGED <<composed, returned, lost, late>>
      BY <2>4 DEF vars, storage, calls, history
    <3> QED
      BY <3>1 DEF AuditInv, AuditTypeOK, CallsOK, ChainOK, DurableOK, HolderOK, WrittenOK, Kept
  <2> QED
    BY <2>1, <2>1a, <2>2, <2>3, <2>4 DEF Next
<1> QED
  BY <1>1, <1>2, PTL DEF Spec

\* The types; the lock is held exactly from verification to unlocking, and
\* nothing of a call survives it (audit.py, AuditLog.append).
THEOREM AuditTypes == Spec => []AuditTypeOK
<1>1. AuditInv => AuditTypeOK
  BY DEF AuditInv
<1> QED
  BY <1>1, AuditInvariant, PTL

\* Whatever is killed, fails or is lost with the power, the whole lines of the
\* log are one chain as long as no close wrote after its unlock (audit.py:94-157).
THEOREM OnlyTheEndIsTorn == Spec => []TornOnlyAtEnd
<1>1. AuditInv => TornOnlyAtEnd
  BY DEF AuditInv, ChainOK, TornOnlyAtEnd
<1> QED
  BY <1>1, AuditInvariant, PTL

\* Under the same condition a record whose append returned is, for good, in
\* the part of the log that verifies: only a power loss that takes the whole
\* file, before its directory entry is on disk, takes it.
THEOREM ReturnedRemain == Spec => []ReturnedStayOnRecord
<1>1. AuditInv => ReturnedStayOnRecord
  <2> SUFFICES ASSUME AuditInv, ~late, NEW r \in Kept
               PROVE  OnRecord(r)
    BY DEF ReturnedStayOnRecord
  <2>1. PICK n \in 1 .. synced : /\ 2 * n <= synced /\ Chained(file, n)
                                 /\ file[2 * n].record = r
    BY DEF AuditInv, ChainOK, KeptOnRecord
  <2>2. Len(file) \in Nat /\ synced \in Nat /\ synced <= Len(file)
    BY DEF AuditInv, AuditTypeOK
  <2>3. n \in 1 .. Lines(file)
    BY <2>1, <2>2 DEF Lines
  <2> QED
    BY <2>1, <2>3 DEF OnRecord
<1> QED
  BY <1>1, AuditInvariant, PTL

\* Without that condition it survives any power loss whole: the fsync of
\* audit.py:218 came back before append returned.  The exception is the same.
THEOREM ReturnedDurable == Spec => []ReturnedAreDurable
<1>1. AuditInv => ReturnedAreDurable
  <2> SUFFICES ASSUME AuditInv, NEW r \in Kept, NEW f \in AfterPowerLoss,
                      ~(f = <<>> /\ entry # "durable")
               PROVE  \E i, j \in DOMAIN f : i < j /\ f[i] = Line(r)[1] /\ f[j] = Line(r)[2]
    BY DEF ReturnedAreDurable
  <2>1. file \in Seq(Pieces) /\ Len(file) \in Nat /\ synced \in Nat
    BY DEF AuditInv, AuditTypeOK
  <2>2. PICK n \in synced .. Len(file) : f = SubSeq(file, 1, n)
    BY DEF AfterPowerLoss
  <2>3. DOMAIN f = 1 .. n /\ \A i \in 1 .. n : f[i] = file[i]
    BY <2>1, <2>2
  <2>4. PICK i, j \in 1 .. synced : i < j /\ file[i] = HeadOf(r) /\ file[j] = TailOf(r)
    BY DEF AuditInv, DurableOK, WholeWithin
  <2>5. i \in 1 .. n /\ j \in 1 .. n
    BY <2>1, <2>2, <2>4
  <2> QED
    BY <2>3, <2>4, <2>5, LinePieces
<1> QED
  BY <1>1, AuditInvariant, PTL

=============================================================================
