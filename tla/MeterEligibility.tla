-------------------------- MODULE MeterEligibility --------------------------
(***************************************************************************)
(* telemetry.py, assess_meter_decision_eligibility: why a meter snapshot   *)
(* may not drive a decision.  A snapshot is eligible when there is no      *)
(* reason; reasons accumulate.                                             *)
(*                                                                         *)
(* Times are in milliseconds; `finite' is FALSE of a value that is no      *)
(* finite number, `zoned' of a timestamp that names no time zone.          *)
(***************************************************************************)
EXTENDS Integers

FreshnessPolicy == [maxAge |-> 5000, maxFutureSkew |-> 250, maxLatency |-> 5000]

\* A good sample of the authoritative meter, 1300 W, taken just now.
GoodReading == [
  present |-> TRUE,
  configured |-> TRUE, authoritative |-> TRUE, named |-> TRUE, epoch |-> TRUE,
  quality |-> "good", synced |-> TRUE, sequence |-> 1, latency |-> 10,
  unit |-> "W", finite |-> TRUE, value |-> 1300, minimum |-> 0, maximum |-> 100000,
  zoned |-> TRUE, age |-> 0]

NoReading == [GoodReading EXCEPT !.present = FALSE]

\* normalize_active_power_watts
Watts(m) == IF m.unit = "kW" THEN 1000 * m.value ELSE m.value

Because(condition, reason) == IF condition THEN {reason} ELSE {}

IdentityReasons(m) ==
  Because(~m.configured, "authoritative meter source is not configured")
    \cup Because(~m.authoritative, "sample is not from the authoritative meter")
    \cup Because(~m.epoch, "meter source_epoch is empty")
    \cup Because(~m.named, "meter source_id is empty")
    \cup Because(m.sequence < 0, "meter sequence must be non-negative")

QualityReasons(m) ==
  Because(m.quality # "good", "meter quality is not GOOD")
    \cup Because(~m.synced, "meter clock is not synchronized")
    \cup Because(m.latency < 0, "ingest latency must be non-negative")
    \cup Because(m.latency > FreshnessPolicy.maxLatency,
                 "meter ingest latency exceeds policy")

UnitKnown(m) == m.unit \in {"W", "kW"}

ValueReasons(m) ==
  Because(~UnitKnown(m), "active power unit must be W or kW")
    \cup Because(~m.finite, "active power value must be finite")
    \cup Because(m.finite /\ UnitKnown(m) /\ Watts(m) < m.minimum,
                 "active power is below the configured minimum")
    \cup Because(m.finite /\ UnitKnown(m) /\ Watts(m) > m.maximum,
                 "active power is above the configured maximum")

AgeReasons(m) ==
  Because(~m.zoned, "meter timestamp must be timezone-aware")
    \cup Because(m.zoned /\ m.age > FreshnessPolicy.maxAge, "meter sample is stale")
    \cup Because(m.zoned /\ m.age < -FreshnessPolicy.maxFutureSkew,
                 "meter sample is too far in the future")

MeterReasons(m) ==
  IdentityReasons(m) \cup QualityReasons(m) \cup ValueReasons(m) \cup AgeReasons(m)
=============================================================================
