------------------------------ MODULE DigitalTwin ------------------------------
(***************************************************************************)
(* The digital twin service: the simulation other services ask for, the    *)
(* view of a well by depth, which it keeps in memory for a while, the      *)
(* scene of a well's equipment, and what-if scenarios.  Its handlers make  *)
(* synchronous calls and hold the event loop to their end.  The rows of    *)
(* tags and readings are other services'; the text of a tag's location     *)
(* stands for the depth that is parsed out of it, 0 when there is none.    *)
(* The unit of depths is fine enough for all of them to be integers.       *)
(***************************************************************************)
EXTENDS Integers, Sequences, FiniteSetsExt

CONSTANTS
  TwinWells,
  TwinTags,      \* tag_id
  TwinTag,       \* the row of each tag: well, kind, depth, surface, thresholds
  NoNumber,      \* NULL in a threshold; no reading
  TwinValues,    \* values of readings
  Fragments,     \* what a client may ask the state of, other than a model's id
  TagsWith,      \* the tags whose id contains a fragment
  Segments,      \* num_segments, 20
  DefaultDepth,  \* 3000
  ViewTtl,       \* CACHE_TTL_SECONDS
  Scenarios,     \* bodies of /what-if
  MaxTwinTime,   \* bound on the clock
  MaxSimulations

Thresholds == {"warning_min", "warning_max", "critical_min", "critical_max"}

ASSUME TwinAssumption ==
  /\ TwinTag \in [TwinTags -> [well : TwinWells, kind : {"pressure", "temperature", "flow"},
                               depth : Int, surface : BOOLEAN,
                               limit : [Thresholds -> Int \union {NoNumber}]]]
  /\ TwinValues \subseteq Int /\ NoNumber \notin Int
  /\ TagsWith \in [Fragments -> SUBSET TwinTags]
  /\ Segments \in Nat \ {0} /\ DefaultDepth \in Nat \ {0}
  /\ ViewTtl \in Nat \ {0} /\ MaxTwinTime \in Nat /\ MaxSimulations \in Nat
  /\ IsFiniteSet(TwinTags)

VARIABLES
  twinTime,     \* seconds
  fitted,       \* the tags that are in the table
  latest,       \* the latest reading of each tag, or NoNumber
  simulations,  \* simulations_db
  views,        \* _well_3d_cache
  given         \* the last answer

twinVars == <<twinTime, fitted, latest, simulations, views, given>>

FittedTo(w) == {t \in fitted : TwinTag[t].well = w}

Risk == {"normal", "warning", "critical"}

-----------------------------------------------------------------------------
(* POST /simulate: fixed results; the id is the second it was run in *)

RunSimulation(w) ==
  /\ Len(simulations) < MaxSimulations
  /\ simulations' = Append(simulations, [id |-> twinTime, well |-> w])
  /\ given' = [is |-> "simulation", id |-> twinTime]
  /\ UNCHANGED <<twinTime, fitted, latest, views>>

-----------------------------------------------------------------------------
(* GET /well/{well_name}/3d *)

\* Numbers are quotients: n over d.
Above(q, limit) == q.n > limit * q.d

SegmentStatus(pressure, temperature) ==
  IF Above(pressure, 2800) \/ Above(temperature, 110) THEN "critical"
  ELSE IF Above(pressure, 2500) \/ Above(temperature, 95) THEN "warning"
  ELSE "normal"

\* A well without tags: the depth of a segment is its start, and pressure and
\* temperature are up to 50 and 5 off a straight line.
MockStatuses(i) ==
  {SegmentStatus([n |-> (1000 + p) * Segments + 2000 * i, d |-> Segments],
                 [n |-> (25 + t) * Segments + 100 * i, d |-> Segments])
   : p \in {-50, 0, 50}, t \in {-5, 0, 5}}

TotalDepth(w) == Max({DefaultDepth} \union {TwinTag[t].depth : t \in FittedTo(w)})

\* depth_start <= tag_depth < depth_end
InSegment(total, i, depth) ==
  i * total <= depth * Segments /\ depth * Segments < (i + 1) * total

SegmentTags(w, i) ==
  {t \in FittedTo(w) : InSegment(TotalDepth(w), i, TwinTag[t].depth)}

\* The mean of the readings of a segment's tags of a kind, or a straight line
\* at the segment's centre.
MeanOf(w, i, kind, top, gain) ==
  LET read == {t \in SegmentTags(w, i) : TwinTag[t].kind = kind /\ latest[t] # NoNumber}
  IN IF read = {} THEN [n |-> 2 * Segments * top + (2 * i + 1) * gain, d |-> 2 * Segments]
     ELSE [n |-> MapThenSumSet(LAMBDA t : latest[t], read), d |-> Cardinality(read)]

StatusAt(w, i) ==
  SegmentStatus(MeanOf(w, i, "pressure", 1000, 2000), MeanOf(w, i, "temperature", 25, 100))

WellStatuses(w) ==
  IF FittedTo(w) = {}
  THEN {mock \in [0 .. Segments - 1 -> Risk] :
          \A i \in 0 .. Segments - 1 : mock[i] \in MockStatuses(i)}
  ELSE {[i \in 0 .. Segments - 1 |-> StatusAt(w, i)]}

\* The first three tags at the surface, in the order of a query without one;
\* of two of a kind the later one counts.
ShownTags(w) ==
  LET surface == {t \in FittedTo(w) : TwinTag[t].surface}
  IN {s \in SUBSET surface :
        Cardinality(s) = IF Cardinality(surface) < 3 THEN Cardinality(surface) ELSE 3}

ReadingsOf(s, kind, default) ==
  LET read == {t \in s : TwinTag[t].kind = kind /\ latest[t] # NoNumber}
  IN IF read = {} THEN {default} ELSE {latest[t] : t \in read}

SurfaceOf(s) ==
  {[pressure |-> p, temperature |-> t, flow |-> f] :
     p \in ReadingsOf(s, "pressure", 500), t \in ReadingsOf(s, "temperature", 30),
     f \in ReadingsOf(s, "flow", 150)}

SurfaceValues(w) == UNION {SurfaceOf(s) : s \in ShownTags(w)}

NoView == [expiresAt |-> 0]

ViewCached(w) == views[w] # NoView /\ views[w].expiresAt > twinTime

\* of: the tags the view was made of; at: when.
NewView(w, status, surface) ==
  [expiresAt |-> twinTime + ViewTtl, at |-> twinTime, of |-> FittedTo(w),
   status |-> status, surface |-> surface]

WellView(w) ==
  /\ IF ViewCached(w) THEN UNCHANGED views
     ELSE \E surface \in SurfaceValues(w), status \in WellStatuses(w) :
            views' = [views EXCEPT ![w] = NewView(w, status, surface)]
  /\ given' = [is |-> "view", well |-> w, view |-> views'[w], on |-> twinTime]
  /\ UNCHANGED <<twinTime, fitted, latest, simulations>>

\* GET /wells
ListWells ==
  /\ given' = [is |-> "wells", wells |-> IF fitted = {} THEN {"mock"}
                                         ELSE {TwinTag[t].well : t \in fitted}]
  /\ UNCHANGED <<twinTime, fitted, latest, simulations, views>>

-----------------------------------------------------------------------------
(* The scene of a well's equipment *)

\* A limit of zero counts as none.
Exceeds(t, limit) ==
  TwinTag[t].limit[limit] \notin {NoNumber, 0} /\ latest[t] > TwinTag[t].limit[limit]
Undercuts(t, limit) ==
  TwinTag[t].limit[limit] \notin {NoNumber, 0} /\ latest[t] < TwinTag[t].limit[limit]

SceneStatus(t) ==
  IF Exceeds(t, "critical_max") THEN "critical"
  ELSE IF Exceeds(t, "warning_max") THEN "warning"
  ELSE IF Undercuts(t, "critical_min") THEN "critical"
  ELSE IF Undercuts(t, "warning_min") THEN "warning"
  ELSE "normal"

\* The state of one model looks at the upper limits only.
ModelStatus(t) ==
  IF Exceeds(t, "critical_max") THEN "critical"
  ELSE IF Exceeds(t, "warning_max") THEN "warning"
  ELSE "normal"

\* A model's id is the type of its equipment, a dash and the id of its tag.
ModelId(t) == [by |-> "model", id |-> t]

\* GET /bim3d/scene/{well_name}
GetScene(w) ==
  /\ given' = [is |-> "scene", models |-> {ModelId(t) : t \in FittedTo(w)},
               states |-> {<<ModelId(t), SceneStatus(t)>> : t \in {u \in FittedTo(w) : latest[u] # NoNumber}}]
  /\ UNCHANGED <<twinTime, fitted, latest, simulations, views>>

\* No id of a tag contains the longer id of a model.
Asked == [by : {"model"}, id : TwinTags] \union [by : {"fragment"}, id : Fragments]
Matching(asked) == IF asked.by = "fragment" THEN TagsWith[asked.id] \intersect fitted ELSE {}

\* GET /bim3d/model/{model_id}/state: any tag whose id contains what was asked
GetModelState(asked) ==
  /\ given' \in IF Matching(asked) = {} THEN {[is |-> "404"]}
                ELSE {IF latest[t] = NoNumber THEN [is |-> "404"]
                      ELSE [is |-> "state", model |-> asked, status |-> ModelStatus(t)]
                      : t \in Matching(asked)}
  /\ UNCHANGED <<twinTime, fitted, latest, simulations, views>>

-----------------------------------------------------------------------------
(* POST /what-if *)

\* A scenario is base pressure and temperature and the adjustments in percent.
ProjectedPressure(s) == [n |-> s.pressure * (1000 + 3 * s.choke + 2 * s.injection), d |-> 1000]
ProjectedTemperature(s) == [n |-> s.temperature * (10000 + 15 * s.pump), d |-> 10000]

IntegrityRisk(s) ==
  IF Above(ProjectedPressure(s), 2800) \/ Above(ProjectedTemperature(s), 105) THEN "high"
  ELSE IF Above(ProjectedPressure(s), 2550) \/ Above(ProjectedTemperature(s), 95) THEN "medium"
  ELSE "low"

WhatIf(s) ==
  /\ given' = [is |-> "scenario", risk |-> IntegrityRisk(s),
               advice |-> IF IntegrityRisk(s) = "low" THEN "acceptable" ELSE "reduce_choke"]
  /\ UNCHANGED <<twinTime, fitted, latest, simulations, views>>

-----------------------------------------------------------------------------
(* What other services do to the tables, and time *)

FitTag(t) ==
  /\ fitted' = fitted \union {t}
  /\ UNCHANGED <<twinTime, latest, simulations, views, given>>

ReadTag(t, v) ==
  /\ t \in fitted
  /\ latest' = [latest EXCEPT ![t] = v]
  /\ UNCHANGED <<twinTime, fitted, simulations, views, given>>

TwinTick ==
  /\ twinTime < MaxTwinTime
  /\ twinTime' = twinTime + 1
  /\ UNCHANGED <<fitted, latest, simulations, views, given>>

TwinInit ==
  /\ twinTime = 0
  /\ fitted = {}
  /\ latest = [t \in TwinTags |-> NoNumber]
  /\ simulations = <<>>
  /\ views = [w \in TwinWells |-> NoView]
  /\ given = [is |-> "nothing"]

\* What the process keeps in memory is gone.
RestartTwin ==
  /\ simulations' = <<>>
  /\ views' = [w \in TwinWells |-> NoView]
  /\ UNCHANGED <<twinTime, fitted, latest, given>>

TwinNext ==
  \/ TwinTick \/ RestartTwin \/ ListWells
  \/ \E w \in TwinWells : RunSimulation(w) \/ WellView(w) \/ GetScene(w)
  \/ \E t \in TwinTags : FitTag(t) \/ \E v \in TwinValues : ReadTag(t, v)
  \/ \E asked \in Asked : GetModelState(asked)
  \/ \E s \in Scenarios : WhatIf(s)

TwinSpec == TwinInit /\ [][TwinNext]_twinVars

View == [expiresAt : Nat, at : Nat, of : SUBSET TwinTags,
         status : [0 .. Segments - 1 -> Risk],
         surface : [pressure : Int, temperature : Int, flow : Int]]

TwinAnswers ==
  [is : {"nothing", "404"}] \union [is : {"simulation"}, id : Nat]
  \union [is : {"view"}, well : TwinWells, view : View, on : Nat]
  \union [is : {"wells"}, wells : SUBSET (TwinWells \union {"mock"})]
  \union [is : {"scene"}, models : SUBSET [by : {"model"}, id : TwinTags],
          states : SUBSET ([by : {"model"}, id : TwinTags] \X Risk)]
  \union [is : {"state"}, model : Asked, status : Risk]
  \union [is : {"scenario"}, risk : {"low", "medium", "high"}, advice : {"acceptable", "reduce_choke"}]

TwinTypeOK ==
  /\ twinTime \in 0..MaxTwinTime
  /\ fitted \subseteq TwinTags
  /\ latest \in [TwinTags -> TwinValues \union {NoNumber}]
  /\ simulations \in Seq([id : Nat, well : TwinWells])
  /\ views \in [TwinWells -> View \union {NoView}]
  /\ given \in TwinAnswers

-----------------------------------------------------------------------------
(* Safety *)

\* What a page shows of a well was computed less than the time to live ago,
\* restarts of the service or not, of tags that are in the table.
ViewsRecent ==
  given.is = "view" =>
    /\ given.view.at <= given.on /\ given.on < given.view.at + ViewTtl
    /\ given.view.of \subseteq FittedTo(given.well)

\* The latest reading of the deepest tag of a well, when it is as deep as the
\* default depth or deeper, is in no segment of the view: the depth of the
\* well is taken from it, and the last segment ends before it.
DeepestUnseen ==
  \A w \in TwinWells : \A t \in FittedTo(w) :
    TwinTag[t].depth = TotalDepth(w) =>
      \A i \in 0 .. Segments - 1 : t \notin SegmentTags(w, i)

\* Every other tag of the well is in exactly one segment, unless its depth is
\* negative: that is in none.
OthersOnce ==
  \A w \in TwinWells : \A t \in FittedTo(w) :
    0 <= TwinTag[t].depth /\ TwinTag[t].depth < TotalDepth(w) =>
      \E i \in 0 .. Segments - 1 :
        \A j \in 0 .. Segments - 1 : t \in SegmentTags(w, j) <=> i = j

=============================================================================
