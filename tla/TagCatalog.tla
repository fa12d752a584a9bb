------------------------------ MODULE TagCatalog ------------------------------
(***************************************************************************)
(* The tag catalog and the data validation service, which looks up ranges  *)
(* and active tags in it and works on the readings of a tag: outliers,     *)
(* reconciled values, quality.  Readings are small integers; a mean, a     *)
(* deviation or a score is compared as integers over a common denominator. *)
(***************************************************************************)
EXTENDS Integers, Sequences, FiniteSets, Functions, TLC

CONSTANTS
  Tags,          \* tag_id
  Ranges,        \* [min, max] of valid_range_min and valid_range_max
  ReadingValues, \* values of readings
  Qualities,     \* values of data_quality
  MaxReadings    \* bound on the readings of a tag

ASSUME CatalogAssumption ==
  /\ ReadingValues \subseteq Int /\ MaxReadings \in Nat
  /\ Ranges \subseteq [min : Int, max : Int]
  /\ Qualities \subseteq {"good", "bad", "uncertain"}

VARIABLES
  tags,     \* the rows of the table tags, NoTag without one
  measured, \* the values of each tag, the latest first, with data_quality
  verdict   \* the last answer of the validation service

catalogVars == <<tags, measured, verdict>>

NoTag == [status |-> "none", range |-> [min |-> 0, max |-> 0]]

Catalogued(t) == tags[t] # NoTag

-----------------------------------------------------------------------------
(* The catalog *)

\* What a request sets: a field that is not sent keeps its value, the status
\* of a deleted tag included.
Fields(t, range, status) ==
  [status |-> IF status = "unset" THEN tags[t].status ELSE status, range |-> range]

\* POST /tags creates a tag, as active by default, or updates it.
CreateTag(t, range, status) ==
  /\ tags' = [tags EXCEPT ![t] =
       IF Catalogued(t) THEN Fields(t, range, status)
       ELSE [status |-> IF status = "unset" THEN "active" ELSE status, range |-> range]]
  /\ UNCHANGED <<measured, verdict>>

\* PUT /tags/{tag_id}: the tag_id of the body takes the place of the path's,
\* unless another tag has it.
UpdateTag(t, new, range, status) ==
  /\ Catalogued(t)
  /\ new = t \/ ~Catalogued(new)
  /\ tags' = [tags EXCEPT ![t] = NoTag, ![new] = Fields(t, range, status)]
  /\ UNCHANGED <<measured, verdict>>

\* DELETE /tags/{tag_id}
DeleteTag(t) ==
  /\ Catalogued(t)
  /\ tags' = [tags EXCEPT ![t].status = "deleted"]
  /\ UNCHANGED <<measured, verdict>>

-----------------------------------------------------------------------------
(* Validation *)

\* A reading of the tag, which ingestion writes.
Measure(t, v, quality) ==
  /\ Len(measured[t]) < MaxReadings
  /\ measured' = [measured EXCEPT ![t] = <<[value |-> v, quality |-> quality]>> \o @]
  /\ UNCHANGED <<tags, verdict>>

\* validate: a violation takes 0.3 of a score of 1.0, and 0.7 are enough, so
\* that a value is not valid only below the minimum and above the maximum.
Violations(t, v) ==
  IF ~Catalogued(t) THEN {}
  ELSE {b \in {"minimum", "maximum"} :
          IF b = "minimum" THEN v < tags[t].range.min ELSE v > tags[t].range.max}

ScoreTenths(t, v) == 10 - 3 * Cardinality(Violations(t, v))

Validate(t, v) ==
  /\ verdict' = [is |-> "validation", valid |-> ScoreTenths(t, v) >= 7,
                 violated |-> Violations(t, v)]
  /\ UNCHANGED <<tags, measured>>

Values(t, window) ==
  [i \in 1..(IF Len(measured[t]) < window THEN Len(measured[t]) ELSE window) |-> measured[t][i].value]

Total(f) == FoldFunction(+, 0, f)

\* detect_zscore: |v - mean| > 3 * std, squared and times the square of the
\* number of values.
ZscoreOutliers(s) ==
  LET n == Len(s)
      sum == Total(s)
      squares == n * Total([i \in 1..n |-> s[i] * s[i]]) - sum * sum
  IN IF n < 3 \/ squares = 0 THEN {}
     ELSE {i \in 1..n : (n * s[i] - sum) * (n * s[i] - sum) > 9 * squares}

\* np.percentile of sorted values, for quarters, times 4
Quartile(s, k) ==
  LET at == k * (Len(s) - 1)
      below == s[(at \div 4) + 1]
      above == IF at % 4 = 0 THEN below ELSE s[(at \div 4) + 2]
  IN (4 - (at % 4)) * below + (at % 4) * above

\* detect_iqr: outside the quartiles by one and a half of their distance
IqrOutliers(s) ==
  LET sorted == SortSeq(s, <)
      q1 == Quartile(sorted, 1)
      q3 == Quartile(sorted, 3)
  IN IF Len(s) < 4 \/ q1 = q3 THEN {}
     ELSE {i \in 1..Len(s) : 8 * s[i] < 2 * q1 - 3 * (q3 - q1) \/ 8 * s[i] > 2 * q3 + 3 * (q3 - q1)}

\* POST /outliers/detect, over the latest readings
DetectOutliers(t, window, method) ==
  /\ LET s == Values(t, window)
     IN verdict' = [is |-> "outliers",
                    at |-> CASE Len(s) < 3 -> {}
                             [] Len(s) >= 3 /\ method = "zscore" -> ZscoreOutliers(s)
                             [] Len(s) >= 3 /\ method = "iqr" -> IqrOutliers(s)
                             [] OTHER -> {}]
  /\ UNCHANGED <<tags, measured>>

\* reconcile_statistical: the mean of the readings around each, as a fraction
Smoothed(s, i) ==
  LET half == IF Len(s) \div 2 < 5 THEN Len(s) \div 2 ELSE 5
      around == {j \in 1..Len(s) : j >= i - half /\ j <= i + half}
  IN IF Len(s) < 3 THEN <<s[i], 1>>
     ELSE <<Total([j \in around |-> s[j]]), Cardinality(around)>>

\* POST /reconcile answers only what differs; interpolation is called without
\* missing readings and changes nothing.
Reconcile(t, method) ==
  /\ LET s == Values(t, MaxReadings)
     IN verdict' = [is |-> "reconciled",
                    at |-> IF method # "statistical" THEN {}
                           ELSE {i \in 1..Len(s) : Smoothed(s, i)[1] # s[i] * Smoothed(s, i)[2]}]
  /\ UNCHANGED <<tags, measured>>

\* calculate_quality_score: the shares of good readings and of readings that
\* are not bad, none without readings; freshness and variance are left out.
Share(t, counted) ==
  IF measured[t] = <<>> THEN <<0, 1>>
  ELSE <<Cardinality({i \in DOMAIN measured[t] : measured[t][i].quality \in counted}), Len(measured[t])>>

\* GET /quality: the active tags
QualityScores ==
  /\ verdict' = [is |-> "quality",
                 of |-> [t \in {u \in Tags : tags[u].status = "active"} |->
                          [accuracy |-> Share(t, {"good"}), validity |-> Share(t, {"good", "uncertain"})]]]
  /\ UNCHANGED <<tags, measured>>

CatalogInit ==
  /\ tags = [t \in Tags |-> NoTag]
  /\ measured = [t \in Tags |-> <<>>]
  /\ verdict = [is |-> "none"]

CatalogNext ==
  \/ \E t \in Tags, range \in Ranges, status \in {"unset", "active"} : CreateTag(t, range, status)
  \/ \E t, new \in Tags, range \in Ranges, status \in {"unset", "active"} : UpdateTag(t, new, range, status)
  \/ \E t \in Tags : DeleteTag(t)
  \/ \E t \in Tags, v \in ReadingValues, quality \in Qualities : Measure(t, v, quality)
  \/ \E t \in Tags, v \in ReadingValues : Validate(t, v)
  \/ \E t \in Tags, method \in {"zscore", "iqr"} : DetectOutliers(t, MaxReadings, method)
  \/ \E t \in Tags, method \in {"statistical", "interpolation"} : Reconcile(t, method)
  \/ QualityScores

CatalogSpec == CatalogInit /\ [][CatalogNext]_catalogVars

-----------------------------------------------------------------------------
(* Properties *)

\* The catalog, the readings and the answers have their types.
CatalogTypeOK ==
  /\ \A t \in Tags : tags[t].status \in {"none", "active", "deleted"}
  /\ \A t \in Tags : Len(measured[t]) <= MaxReadings
  /\ verdict.is = "validation" => (verdict.valid <=> verdict.violated # {"minimum", "maximum"})
  /\ verdict.is \in {"outliers", "reconciled"} => verdict.at \subseteq 1..MaxReadings

=============================================================================
