----------------------------- MODULE SensorHealth -----------------------------
(***************************************************************************)
(* The sensor health monitor of the ingestion service: it keeps the last   *)
(* readings of each sensor in memory and takes the median of the first     *)
(* ones for the sensor's baseline, and the ingest handler stores a         *)
(* corrected value for a reading that is far from it.  A baseline is the   *)
(* mean of two readings at most and is kept doubled, as an integer;        *)
(* quotients are compared as integers over a common denominator.           *)
(***************************************************************************)
EXTENDS Integers, Sequences, FiniteSets

CONSTANTS
  Monitored,    \* sensor ids
  Samples,      \* values of readings
  ValidRange,   \* valid_range_min and valid_range_max of each sensor's tag
  NoBaseline,
  HistorySize,  \* window_size, 1000
  Enough,       \* readings before a baseline is taken, 10
  MaxBatch      \* bound on the readings of one request

ASSUME SamplesAssumption == Samples \subseteq Int
ASSUME RangeAssumption == ValidRange \in [Monitored -> [min : Int, max : Int]]
ASSUME BaselineAssumption == NoBaseline \notin Int
ASSUME HistoryAssumption ==
  Enough \in Nat \ {0} /\ HistorySize \in Nat /\ Enough <= HistorySize
ASSUME BatchAssumption == MaxBatch \in Nat

VARIABLES
  past,     \* sensor_history: the last readings of each sensor
  baseline, \* baseline_values, doubled
  first,    \* history: the first readings of each sensor since the start
  health,   \* health_scores, as the quality each stands for
  todo,     \* the records the ingest handler has still to look at
  added     \* the rows it has added to its session

monitorVars == <<past, baseline, first, health, todo, added>>

\* sound: sensor_type, unit and data_quality are as the tag has them.
Sample == [sensor : Monitored, value : Samples, sound : BOOLEAN]

-----------------------------------------------------------------------------
(* The drift detector *)

\* x is the k-th of the values of xs in ascending order.
Ranked(xs, k, x) ==
  /\ Cardinality({i \in DOMAIN xs : xs[i] < x}) < k
  /\ Cardinality({i \in DOMAIN xs : xs[i] <= x}) >= k

Occurring(xs) == {xs[i] : i \in DOMAIN xs}

\* np.median, doubled
Medians(xs) ==
  {lower + upper : lower \in {x \in Occurring(xs) : Ranked(xs, (Len(xs) + 1) \div 2, x)},
                   upper \in {x \in Occurring(xs) : Ranked(xs, (Len(xs) \div 2) + 1, x)}}

\* add_reading: a deque with a maxlen drops its oldest entry.
Remembered(xs, v) ==
  IF Len(xs) < HistorySize THEN Append(xs, v) ELSE Append(Tail(xs), v)

\* The first 20% of the readings, and at least Enough of them.
EarliestOf(xs) ==
  SubSeq(xs, 1, IF Len(xs) \div 5 > Enough THEN Len(xs) \div 5 ELSE Enough)

\* What detect_drift leaves as the baseline of a sensor with readings xs.
Baselines(b, xs) ==
  IF Len(xs) < Enough \/ b # NoBaseline THEN {b} ELSE Medians(EarliestOf(xs))

Abs(n) == IF n < 0 THEN -n ELSE n

\* The drift is Deviation over Unit: absolute when the baseline is zero.
Deviation(b, v) == Abs(2 * v - b)
Unit(b) == IF b = 0 THEN 2 ELSE Abs(b)

\* drift_threshold: 10%
Drifted(b, xs, v) ==
  /\ Len(xs) >= Enough
  /\ 10 * Deviation(b, v) > Unit(b)

\* correct_drift: the numerator of the corrected value over 4 * Unit(b).
Corrected(b, v) ==
  2 * Unit(b) * b + (2 * v - b) * (2 * Unit(b) - Deviation(b, v))

-----------------------------------------------------------------------------
(* assess_health *)

InRange(s, v) == v >= ValidRange[s].min /\ v <= ValidRange[s].max

\* What the drift takes from the score, times 10 * Unit(b): at most a half.
DriftPenalty(b, v) ==
  IF 20 * Deviation(b, v) > 5 * Unit(b) THEN 5 * Unit(b) ELSE 20 * Deviation(b, v)

\* health_score, times 10 * unit
Score(s, b, xs, v) ==
  LET unit == IF Drifted(b, xs, v) THEN Unit(b) ELSE 1
      drift == IF Drifted(b, xs, v) THEN DriftPenalty(b, v) ELSE 0
      range == IF InRange(s, v) THEN 0 ELSE 3 * unit
  IN [unit |-> unit, tenths |-> 10 * unit - drift - range]

DataQuality(score) ==
  CASE score.tenths >= 9 * score.unit -> "good"
    [] score.tenths >= 7 * score.unit /\ score.tenths < 9 * score.unit -> "degraded"
    [] score.tenths >= 5 * score.unit /\ score.tenths < 7 * score.unit -> "poor"
    [] OTHER -> "failed"

CorrectionApplied(s, b, xs, v) ==
  Drifted(b, xs, v) /\ Score(s, b, xs, v).tenths < 8 * Score(s, b, xs, v).unit

-----------------------------------------------------------------------------
(* The ingest handler: it holds the event loop to its end *)

\* The row has the corrected value and its quality; the record, which is
\* published afterwards, keeps the value it came with.
StoredRow(s, b, xs, v) ==
  IF CorrectionApplied(s, b, xs, v)
  THEN [value |-> Corrected(b, v), over |-> 4 * Unit(b), published |-> v,
        quality |-> DataQuality(Score(s, b, xs, v))]
  ELSE [value |-> v, over |-> 1, published |-> v, quality |-> "as_sent"]

IngestBatch(records) ==
  /\ todo = <<>> /\ added = <<>>
  /\ todo' = records
  /\ UNCHANGED <<past, baseline, first, health, added>>

Admitted(r) == r.sound /\ InRange(r.sensor, r.value)

AssessRecord ==
  /\ todo # <<>>
  /\ Admitted(Head(todo))
  /\ LET s == Head(todo).sensor
         v == Head(todo).value
         xs == Remembered(past[s], v)
     IN \E b \in Baselines(baseline[s], xs) :
          /\ past' = [past EXCEPT ![s] = xs]
          /\ first' = [first EXCEPT ![s] = IF Len(@) < Enough THEN Append(@, v) ELSE @]
          /\ baseline' = [baseline EXCEPT ![s] = b]
          /\ health' = [health EXCEPT ![s] = DataQuality(Score(s, b, xs, v))]
          /\ added' = Append(added, StoredRow(s, b, xs, v))
  /\ todo' = Tail(todo)

\* 422: nothing of the request is stored, and the monitor remembers what it
\* was shown of it.
RefuseRecord ==
  /\ todo # <<>>
  /\ ~Admitted(Head(todo))
  /\ todo' = <<>>
  /\ added' = <<>>
  /\ UNCHANGED <<past, baseline, first, health>>

\* The rows are committed, or the commit raises.
EndBatch ==
  /\ todo = <<>> /\ added # <<>>
  /\ added' = <<>>
  /\ UNCHANGED <<past, baseline, first, health, todo>>

\* What was in memory starts anew.
MonitorInit ==
  /\ past = [s \in Monitored |-> <<>>]
  /\ baseline = [s \in Monitored |-> NoBaseline]
  /\ first = [s \in Monitored |-> <<>>]
  /\ health = [s \in Monitored |-> "unchecked"]
  /\ todo = <<>>
  /\ added = <<>>

RestartMonitor ==
  /\ past' = [s \in Monitored |-> <<>>]
  /\ baseline' = [s \in Monitored |-> NoBaseline]
  /\ first' = [s \in Monitored |-> <<>>]
  /\ health' = [s \in Monitored |-> "unchecked"]
  /\ todo' = <<>>
  /\ added' = <<>>

MonitorNext ==
  \/ \E n \in 1..MaxBatch : \E records \in [1..n -> Sample] : IngestBatch(records)
  \/ AssessRecord \/ RefuseRecord \/ EndBatch \/ RestartMonitor

MonitorSpec == MonitorInit /\ [][MonitorNext]_monitorVars

MonitorTypeOK ==
  /\ past \in [Monitored -> Seq(Samples)]
  /\ first \in [Monitored -> Seq(Samples)]
  /\ \A s \in Monitored : Len(past[s]) <= HistorySize /\ Len(first[s]) <= Enough
  /\ baseline \in [Monitored -> Int \union {NoBaseline}]
  /\ health \in [Monitored -> {"unchecked", "good", "degraded", "poor", "failed"}]
  /\ todo \in Seq(Sample)
  /\ added \in Seq([value : Int, over : Nat \ {0}, published : Samples,
                    quality : {"as_sent", "good", "degraded", "poor", "failed"}])

-----------------------------------------------------------------------------
(* Safety *)

\* A sensor's baseline is the median of the first readings it sent since the
\* process started, and nothing that comes later moves it: also a sensor that
\* has drifted all the time keeps it, and a refused request counts.
BaselineIsFirstMedian ==
  \A s \in Monitored :
    IF Len(first[s]) < Enough THEN baseline[s] = NoBaseline
    ELSE baseline[s] \in Medians(first[s])

\* get_health_summary computes the drift again, from the last reading.
SummaryDrifted(s) ==
  past[s] # <<>> /\ Drifted(baseline[s], past[s], past[s][Len(past[s])])

\* The summary's remembered score and the drift it computes anew agree, and
\* "failed", which takes a value out of range, is never reached: the handler
\* has refused such a value before.
HealthAgrees ==
  \A s \in Monitored :
    /\ health[s] = "unchecked" <=> past[s] = <<>>
    /\ health[s] \in {"degraded", "poor"} <=> SummaryDrifted(s)
    /\ health[s] # "failed"

\* A row whose quality the monitor wrote has another value than the event
\* that is published of it, whatever the two say of each other elsewhere.
RowsMarked ==
  \A i \in DOMAIN added :
    added[i].quality = "as_sent" <=> added[i].value = added[i].over * added[i].published

=============================================================================
