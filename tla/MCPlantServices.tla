---------------------------- MODULE MCPlantServices ----------------------------
(***************************************************************************)
(* PlantServices with three alerts in two wells (two sensors of one well   *)
(* and one of another share a rule), two topics of which one has a         *)
(* wildcard, three types of model, workflows with a join, a cycle and a    *)
(* repeated id, and uplinks of each kind.                                  *)
(***************************************************************************)
EXTENDS PlantServices

CONSTANTS i1, i2, i3, w1, w2

MCIds == {i1, i2, i3}
MCConditions ==
  {[well |-> w1, rule |-> "high", sensor |-> "s1"],
   [well |-> w1, rule |-> "high", sensor |-> "s2"],
   [well |-> w2, rule |-> "high", sensor |-> "s3"]}

\* The app is out of use, and what MaxAsks bounds goes on with two reports (no
\* notice is started before, as nobody has registered); or the app is used
\* when two posts of one sensor are over.
AlertsFocus ==
  \/ taps = 0 /\ isOnline /\ IF asks = 0 THEN notices = Recorded ELSE reports <= 2
  \/ /\ asks = 0 /\ clock = 0 /\ notices = Recorded /\ reports = 2
     /\ \A a \in Recorded : alerts[a].at.sensor = "s1"

\* Ids are interchangeable: they are used in one order.
IdsInOrder == (i2 \in Recorded => i1 \in Recorded) /\ (i3 \in Recorded => i2 \in Recorded)

\* All workflows have one plan, so that their runs are alike, and two of them
\* have less time than one.
OnePlan ==
  /\ \A w \in DOMAIN workflows : workflows[w].plan = workflows[1].plan
  /\ Len(workflows) <= 1 \/ time < MaxTime

\* The bridge shares only the process with the other protocols: it is
\* configured alone.
OneProtocol == settings.edge => ~settings.mqtt /\ ~settings.opcua /\ ~settings.lorawan

\* What was recorded or answered last decides nothing: a state after such an
\* answer is checked and not continued.  One tag has readings.
NotAnswered ==
  recorded = Refused /\ verdict.is = "none" /\ given.is \in {"nothing", "view"}
OneMeasured == \A t, u \in Tags : measured[t] # <<>> /\ measured[u] # <<>> => t = u

\* The records of declines share with the other tables only the bound on calls.
OneTable == declines = <<>> \/ \A c \in Codes : ~Exists(c)

\* Models share only the process: one of them is trained and tested.
Used(k) == registry[k] # <<>> \/ tests[k] # NoTest
OneModel == \A j, k \in Models : Used(j) /\ Used(k) => j = k

Focus ==
  /\ AlertsFocus /\ IdsInOrder /\ OnePlan /\ OneProtocol
  /\ NotAnswered /\ OneMeasured /\ OneTable /\ OneModel

MCPayload(kind, has) == [kind |-> kind, has |-> has]
MCUplink(decoded, frm) ==
  [decoded |-> decoded, frm |-> frm, named |-> TRUE, sound |-> TRUE, numeric |-> TRUE]
MCNone == MCPayload("none", {})
MCUplinks ==
  {MCUplink(MCPayload("object", {"temperature", "pressure"}), MCPayload("float", {})),
   MCUplink(MCNone, MCPayload("object", {"pressure"})), MCUplink(MCNone, MCPayload("float", {})),
   MCUplink(MCNone, MCPayload("short", {})), [MCUplink(MCNone, MCNone) EXCEPT !.named = FALSE]}

MCMqttPayload(id, value, parts) ==
  [sound |-> TRUE, id |-> id, value |-> value, numeric |-> TRUE, parts |-> parts]
MCMqttPayloads ==
  {MCMqttPayload(TRUE, TRUE, 1), MCMqttPayload(FALSE, TRUE, 2), MCMqttPayload(FALSE, TRUE, 1),
   MCMqttPayload(TRUE, FALSE, 2)}

MCRanges == {[min |-> 0, max |-> 0]}

MCTopics == <<"sensors/s1/data", "sensors/+/data">>

\* s1 is in the first half of the buckets, s2 in the last, as 1.0 may be.
MCBucket == [p \in {42} \X {"s1", "s2"} |-> IF p[2] = "s1" THEN 0 ELSE 2]

MCRollouts == {[baseline |-> 1, candidate |-> c, weight |-> w, seed |-> 42] : c \in {0, 2}, w \in {1}}
              \union {[baseline |-> 1, candidate |-> 1, weight |-> 2, seed |-> 42]}

MCCurve == [d \in 0..2 |-> CASE d = 0 -> 20 [] d = 1 -> 12 [] d = 2 -> 9]
\* A rate of change below zero: the curve rises, until it cannot be computed.
MCRising == [d \in 0..1 |-> IF d = 0 THEN 9 ELSE 12]
MCCurves == {MCCurve, MCRising}

MCStep(id, type, after) == [id |-> id, type |-> type, key |-> "all:1000", after |-> after]

MCJoin ==
  [every |-> 1,
   steps |-> <<MCStep(1, "http_request", {}), MCStep(3, "generate_report", {1, 2}),
               MCStep(2, "data_quality_lineage", {1})>>]
MCCycle ==
  [every |-> 0,
   steps |-> <<MCStep(1, "data_quality_lineage", {}), MCStep(2, "http_request", {2})>>]
MCRepeated ==
  [every |-> -1, steps |-> <<MCStep(1, "http_request", {}), MCStep(1, "mail", {})>>]
MCPlans == {MCJoin, MCCycle, MCRepeated}

\* The first of two tags at the surface, the other is as deep as the well.
MCLimits == [l \in Thresholds |-> CASE l = "critical_max" -> 2900 [] l = "warning_max" -> 0
                                     [] l = "critical_min" -> 100 [] l = "warning_min" -> NoNumber]
MCTwinTag ==
  [t \in TwinTags |->
     [well |-> w1, kind |-> IF t = "t1" THEN "pressure" ELSE "temperature",
      depth |-> IF t = "t1" THEN 0 ELSE 3000, surface |-> t = "t1", limit |-> MCLimits]]
MCTagsWith == [f \in Fragments |-> TwinTags]
MCScenarios ==
  {[pressure |-> p, temperature |-> 85, choke |-> 10, pump |-> 5, injection |-> 0]
   : p \in {2400, 2500, 2800}}

MCValidRange == [s \in Monitored |-> [min |-> 0, max |-> 500]]

=============================================================================
