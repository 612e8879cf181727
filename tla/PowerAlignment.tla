--------------------------- MODULE PowerAlignment ---------------------------
(***************************************************************************)
(* alignment.py: pairing the readings of a meter with those of a GPU by    *)
(* their timestamps, and judging the result.                               *)
(*                                                                         *)
(* A reading is a record with at least its timestamp `at', the time        *)
(* `ingested' at which it was complete, both by the wall clock, and its    *)
(* sequence number `seq'.  Identities, qualities and validation tokens are *)
(* those the collection of module Qualification gives every reading; the   *)
(* second check of each reading's age repeats the one made when it was     *)
(* collected, with the same limits, and is left to that module.            *)
(***************************************************************************)
EXTENDS Integers, Sequences, FiniteSets

CONSTANTS
  MaxSkew,      \* maximum_skew_seconds of the policy
  MinCoverage,  \* minimum_coverage, in per cent
  MaxLatency    \* maximum_ingest_latency_ms, in the unit of the clock

ASSUME PolicyAssumption ==
  MaxSkew \in Nat \ {0} /\ MinCoverage \in 0 .. 100 /\ MaxLatency \in Nat

Apart(a, b) == IF a.at < b.at THEN b.at - a.at ELSE a.at - b.at

\* The stable sort by timestamp: the k-th has k - 1 readings before it.
Before(stream, i, j) ==
  stream[i].at < stream[j].at \/ (stream[i].at = stream[j].at /\ i < j)
InTimeOrder(stream) ==
  [k \in DOMAIN stream |->
     stream[CHOOSE i \in DOMAIN stream :
              Cardinality({j \in DOMAIN stream : Before(stream, j, i)}) = k - 1]]

\* _ordered_stream_valid, of one source and one epoch
OrderedStream(stream) ==
  \A i \in 1 .. Len(stream) - 1 : stream[i].seq < stream[i + 1].seq

\* The unused reading closest in time, the earlier one of two as close.
Nearest(unused, gpus, meter) ==
  CHOOSE g \in unused : \A h \in unused :
    \/ Apart(gpus[g], meter) < Apart(gpus[h], meter)
    \/ /\ Apart(gpus[g], meter) = Apart(gpus[h], meter)
       /\ g <= h

\* One turn of the pairing loop: a meter reading whose closest unused GPU
\* reading is too far away stays alone.
PairNext(gpus, soFar, meter) ==
  LET g == Nearest(soFar.unused, gpus, meter) IN
  IF soFar.unused = {} \/ Apart(gpus[g], meter) > MaxSkew
    THEN soFar
    ELSE [unused |-> soFar.unused \ {g},
          pairs |-> Append(soFar.pairs, [meter |-> meter, gpu |-> gpus[g]])]

\* The loop over the meter readings.
PairingLoop(meters, gpus) ==
  LET soFar[k \in 0 .. Len(meters)] ==
        IF k = 0 THEN [unused |-> DOMAIN gpus, pairs |-> <<>>]
        ELSE PairNext(gpus, soFar[k - 1], meters[k])
  IN  soFar

Pairs(meters, gpus) ==
  PairingLoop(InTimeOrder(meters), InTimeOrder(gpus))[Len(meters)].pairs

Latency(reading) == reading.ingested - reading.at

\* Mutant: the pairs required are rounded down.
CoveredRoundedDown(pairs, meters, gpus) ==
  \A n \in {Len(meters), Len(gpus)} : Len(pairs) >= (MinCoverage * n) \div 100

\* The longer of the two streams counts.
Covered(pairs, meters, gpus) ==
  \A n \in {Len(meters), Len(gpus)} : 100 * Len(pairs) >= MinCoverage * n

\* No reason to refuse; `calibrated' says that every pair's difference of
\* meter and GPU power is within the calibrated overhead of the host.
Accepted(meters, gpus, pairs, calibrated) ==
  /\ OrderedStream(InTimeOrder(meters))
  /\ OrderedStream(InTimeOrder(gpus))
  /\ pairs # <<>>
  /\ Covered(pairs, meters, gpus)
  /\ \A i \in DOMAIN pairs :
       Latency(pairs[i].meter) <= MaxLatency /\ Latency(pairs[i].gpu) <= MaxLatency
  /\ calibrated
=============================================================================
