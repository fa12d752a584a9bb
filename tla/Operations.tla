------------------------------ MODULE Operations ------------------------------
(***************************************************************************)
(* The operations service: subsidiaries, equipment, manual readings, the   *)
(* decline of wells and the targets that production is compared with.      *)
(* Every handler runs to its end before the next.  Days are numbers.       *)
(***************************************************************************)
EXTENDS Integers, FiniteSets, Sequences

CONSTANTS
  Codes,      \* codes of subsidiaries
  WellCounts, \* active_well_count
  Fluids,     \* types of reservoirs
  Equipments, \* identifiers of equipment
  WellNames,  \* wells
  LastDay,    \* bound on the days
  Curves,     \* decline curves: the rate expected after a number of days
  NoCurve,    \* a reading without decline_qi or decline_di
  Rates,      \* flow rates and targets
  MaxCalls    \* bound on the calls

Days == 0..LastDay

\* decline_qi, decline_di and decline_b are any numbers: a curve may rise, be
\* negative, and have days at which _arps_rate or the comparison after it
\* raises, which are outside its domain.
ASSUME OperationsAssumption ==
  /\ LastDay \in Nat /\ MaxCalls \in Nat /\ NoCurve \notin Curves
  /\ \A c \in Curves : c \in [DOMAIN c -> Int] /\ DOMAIN c \subseteq Days

VARIABLES
  subsidiaries, \* by code
  equipment,    \* by identifier
  readings,     \* well_manual_readings
  declines,     \* vfm_decline_records
  targets,      \* production_targets
  status,       \* what production_status answered last
  calls         \* calls so far

operationsVars == <<subsidiaries, equipment, readings, declines, targets, status, calls>>

\* Of target_production_bopd, 0 stands for None as well: neither is compared with.
Goals == Rates \union {0}

NoSubsidiary == [active |-> -1, goal |-> 0, reservoirs |-> {}]

NoEquipment == [sub |-> "none", active |-> FALSE]

Exists(c) == subsidiaries[c] # NoSubsidiary

Call == calls < MaxCalls /\ calls' = calls + 1

-----------------------------------------------------------------------------
(* Subsidiaries and equipment *)

CreateSubsidiary(c, n, g, rs) ==
  /\ Call
  /\ ~Exists(c)
  /\ subsidiaries' = [subsidiaries EXCEPT ![c] = [active |-> n, goal |-> g, reservoirs |-> rs]]
  /\ UNCHANGED <<equipment, readings, declines, targets, status>>

UpdateSubsidiary(c, n, g) ==
  /\ Call
  /\ Exists(c)
  /\ subsidiaries' = [subsidiaries EXCEPT ![c].active = n, ![c].goal = g]
  /\ UNCHANGED <<equipment, readings, declines, targets, status>>

ReplaceReservoirs(c, rs) ==
  /\ Call
  /\ Exists(c)
  /\ subsidiaries' = [subsidiaries EXCEPT ![c].reservoirs = rs]
  /\ UNCHANGED <<equipment, readings, declines, targets, status>>

CreateEquipment(e, c) ==
  /\ Call
  /\ equipment[e] = NoEquipment
  /\ equipment' = [equipment EXCEPT ![e] = [sub |-> c, active |-> TRUE]]
  /\ UNCHANGED <<subsidiaries, readings, declines, targets, status>>

UpdateEquipment(e, active) ==
  /\ Call
  /\ equipment[e] # NoEquipment
  /\ equipment' = [equipment EXCEPT ![e].active = active]
  /\ UNCHANGED <<subsidiaries, readings, declines, targets, status>>

DeleteEquipment(e) ==
  /\ Call
  /\ equipment[e] # NoEquipment
  /\ equipment' = [equipment EXCEPT ![e] = NoEquipment]
  /\ UNCHANGED <<subsidiaries, readings, declines, targets, status>>

CreateManualReading(w, c, day, rate) ==
  /\ Call
  /\ Exists(c)
  /\ readings' = Append(readings, [well |-> w, sub |-> c, day |-> day, rate |-> rate])
  /\ UNCHANGED <<subsidiaries, equipment, declines, targets, status>>

-----------------------------------------------------------------------------
(* POST /vfm-decline *)

OfWell(w) == {i \in DOMAIN declines : declines[i].well = w}

\* Mutant: the decline is counted from the last record, as the variable's name
\* "last" has it.
Since_Latest(w, day) ==
  IF OfWell(w) = {} THEN day
  ELSE declines[CHOOSE i \in OfWell(w) : \A j \in OfWell(w) : declines[j].day <= declines[i].day].day

\* The day of the well's earliest record, with a curve or not.
Since(w, day) ==
  IF OfWell(w) = {} THEN day
  ELSE declines[CHOOSE i \in OfWell(w) : \A j \in OfWell(w) : declines[i].day <= declines[j].day].day

Elapsed(day, since) == IF day > since THEN day - since ELSE 0

\* A tenth off what is expected raises the flag; nothing is expected of zero.
Flagged(rate, expected) ==
  expected > 0 /\ (10 * (rate - expected) >= expected \/ 10 * (expected - rate) >= expected)

\* record_vfm_decline, with _arps_rate for the curve.  Where that raises nothing
\* is recorded.
RecordVfmDecline(w, day, rate, curve) ==
  /\ Call
  /\ curve # NoCurve => Elapsed(day, Since(w, day)) \in DOMAIN curve
  /\ LET expected == IF curve = NoCurve THEN 0 ELSE curve[Elapsed(day, Since(w, day))]
     IN declines' = Append(declines,
          [well |-> w, day |-> day, curve |-> curve, expected |-> expected,
           flag |-> Flagged(rate, expected)])
  /\ UNCHANGED <<subsidiaries, equipment, readings, targets, status>>

-----------------------------------------------------------------------------
(* Targets and GET /production-status *)

CreateProductionTarget(c, day, rate) ==
  /\ Call
  /\ Exists(c)
  /\ targets' = Append(targets, [sub |-> c, day |-> day, rate |-> rate])
  /\ UNCHANGED <<subsidiaries, equipment, readings, declines, status>>

\* The newest readings of a subsidiary, as many as it has active wells: a well
\* with several readings is counted with each of them.
NewestReadings(c, chosen) ==
  LET own == {i \in DOMAIN readings : readings[i].sub = c}
      n == IF subsidiaries[c].active = 0 THEN 50 ELSE subsidiaries[c].active
  IN /\ chosen \subseteq own
     /\ Cardinality(chosen) = IF Cardinality(own) < n THEN Cardinality(own) ELSE n
     /\ \A i \in chosen, j \in own \ chosen : readings[j].day <= readings[i].day

TotalRate(chosen) ==
  LET Total[i \in 0..Len(readings)] ==
        IF i = 0 THEN 0 ELSE Total[i - 1] + IF i \in chosen THEN readings[i].rate ELSE 0
  IN Total[Len(readings)]

Judged(chosen, goal) ==
  IF chosen = {} \/ goal = 0 THEN "unknown"
  ELSE IF TotalRate(chosen) >= goal THEN "ahead" ELSE "behind"

\* What production is compared with: the target that starts last, or without
\* one what the subsidiary itself was given.
Goal(c) ==
  LET own == {t \in DOMAIN targets : targets[t].sub = c}
  IN IF own = {} THEN subsidiaries[c].goal
     ELSE targets[CHOOSE t \in own : \A u \in own : targets[u].day <= targets[t].day].rate

ProductionStatus(c) ==
  /\ Call
  /\ Exists(c)
  /\ \E chosen \in SUBSET DOMAIN readings :
       /\ NewestReadings(c, chosen)
       /\ status' = Judged(chosen, Goal(c))
  /\ UNCHANGED <<subsidiaries, equipment, readings, declines, targets>>

OperationsInit ==
  /\ subsidiaries = [c \in Codes |-> NoSubsidiary]
  /\ equipment = [e \in Equipments |-> NoEquipment]
  /\ readings = <<>>
  /\ declines = <<>>
  /\ targets = <<>>
  /\ status = "unknown"
  /\ calls = 0

OperationsNext ==
  \/ \E c \in Codes :
       \/ \E n \in WellCounts, g \in Goals : UpdateSubsidiary(c, n, g)
       \/ \E n \in WellCounts, g \in Goals, rs \in SUBSET Fluids : CreateSubsidiary(c, n, g, rs)
       \/ \E rs \in SUBSET Fluids : ReplaceReservoirs(c, rs)
       \/ \E e \in Equipments : CreateEquipment(e, c)
       \/ \E w \in WellNames, day \in Days, rate \in Rates : CreateManualReading(w, c, day, rate)
       \/ \E day \in Days, rate \in Rates : CreateProductionTarget(c, day, rate)
       \/ ProductionStatus(c)
  \/ \E e \in Equipments : DeleteEquipment(e) \/ \E active \in BOOLEAN : UpdateEquipment(e, active)
  \/ \E w \in WellNames, day \in Days, rate \in Rates, curve \in Curves \union {NoCurve} :
       RecordVfmDecline(w, day, rate, curve)

OperationsSpec == OperationsInit /\ [][OperationsNext]_operationsVars

-----------------------------------------------------------------------------
(* Properties *)

\* The tables have their types.
OperationsTypeOK ==
  /\ \A c \in Codes : subsidiaries[c] \in [active : WellCounts, goal : Goals, reservoirs : SUBSET Fluids]
                                         \union {NoSubsidiary}
  /\ \A e \in Equipments : equipment[e] \in [sub : Codes, active : BOOLEAN] \union {NoEquipment}
  /\ readings \in Seq([well : WellNames, sub : Codes, day : Days, rate : Rates])
  /\ declines \in Seq([well : WellNames, day : Days, curve : Curves \union {NoCurve},
                       expected : Int, flag : BOOLEAN])
  /\ targets \in Seq([sub : Codes, day : Days, rate : Rates])
  /\ status \in {"unknown", "ahead", "behind"}
  /\ calls \in 0..MaxCalls

\* Of two records of a well on one curve, the one recorded later for a later day
\* stands no earlier on the curve: on a falling one it expects no more, on a
\* rising one no less.  The decline never runs backwards, although records arrive
\* out of order and a late one moves the day that it is counted from.
DeclineGoesOn ==
  \A i, j \in DOMAIN declines :
    /\ i < j
    /\ declines[i].well = declines[j].well
    /\ declines[i].curve = declines[j].curve /\ declines[i].curve # NoCurve
    /\ declines[i].day <= declines[j].day
    => \E d, e \in DOMAIN declines[i].curve :
         /\ d <= e
         /\ declines[i].expected = declines[i].curve[d]
         /\ declines[j].expected = declines[i].curve[e]

=============================================================================
