----------------------------- MODULE AlertService -----------------------------
(***************************************************************************)
(* The alert service.  A post that repeats an open alert is counted at it; *)
(* any other becomes an alert of its own, tied to what fired in its well   *)
(* (correlation id) and, when enough wells show the same rule, to those    *)
(* (facility id).  Notifications and the order for the ERP system are      *)
(* background tasks, which a restart of the process drops together with    *)
(* its registers of devices and phone numbers.  A handler without an await *)
(* is one step.  No alert reaches Kafka: json.dumps raises on the datetime *)
(* in it, and create_alert only logs that.                                 *)
(***************************************************************************)
EXTENDS Integers, FiniteSets

CONSTANTS
  Ids,        \* the alert_ids the clients may use
  Wells,
  Conditions, \* what may fire: a well, a rule and a sensor
  Severities,
  Texted,     \* SMS_SEVERITIES
  Window,     \* ALERT_CORRELATION_WINDOW_MINUTES
  MinWells,   \* ALERT_CROSS_WELL_MIN_WELLS
  RuleLimit,  \* .limit(200) of the alerts of a rule
  WellLimit,  \* .limit(50) of the alerts of a well
  Phones,     \* mobile numbers, in the normal form
  None,
  MaxClock,   \* bound on the clock
  MaxReports, \* bound on the accepted posts
  MaxAsks     \* bound on rca, registrations, requested texts and restarts

ASSUME ConditionsAssumption == \A c \in Conditions : c.well \in Wells
ASSUME NoneAssumption == None \notin Ids
ASSUME WellsAssumption == IsFiniteSet(Wells) /\ MinWells \in Nat /\ Window \in Nat
                          /\ RuleLimit \in Nat /\ WellLimit \in Nat
ASSUME AlertBounds == MaxClock \in Nat /\ MaxReports \in Nat /\ MaxAsks \in Nat

VARIABLES
  alerts,     \* the table alerts
  clock,      \* the time, in the unit of Window
  recipients, \* SMS_RECIPIENTS: the severities a registered number wants
  notices,    \* alerts whose task notify_alert_via_sms has not started
  texting,    \* notify_alert_via_sms at work: the numbers it has to text yet
  reports,    \* history: posts answered without an error
  asks        \* uses of the operations that MaxAsks bounds

alertVars == <<alerts, clock, recipients, notices, texting, reports, asks>>

Status == {"open", "acknowledged", "resolved"}

Scope == {"none", "insufficient_data", "well", "facility"}

\* An alert, with the part of its metadata_json that is more than a display.
Alert == [at : Conditions, severity : Severities, status : Status, time : Int,
          corr : Ids, facility : Ids \union {None}, count : Nat, rca : Scope]

Missing == [status |-> "missing"]

Recorded == {a \in Ids : alerts[a] # Missing}

Ask == asks < MaxAsks /\ asks' = asks + 1

\* The members of S with the latest timestamp: the first row of ORDER BY
\* timestamp DESC may be any of them.
Newest(S) == {a \in S : \A b \in S : alerts[b].time <= alerts[a].time}

Recent(back) == {a \in Recorded : alerts[a].time >= clock - back}

\* ORDER BY timestamp DESC LIMIT n: the newest n of A; of alerts of one time any
\* may be left out.
Limited(A, n) ==
  IF Cardinality(A) <= n THEN {A}
  ELSE {S \in SUBSET A : Cardinality(S) = n
                          /\ \A a \in S, b \in A \ S : alerts[b].time <= alerts[a].time}

-----------------------------------------------------------------------------
(* POST /alerts *)

Open(c) == {a \in Recorded : alerts[a].at = c /\ alerts[a].status = "open"}

\* Mutant: a duplicate is looked for among the recent alerts only.
Duplicates_Recent(c) == Open(c) \cap Recent(Window)

Duplicates(c) == Open(c)

\* Mutant: the suppressed repetition is answered without a commit.
CountRepeat_NoCommit(c, t) ==
  \E a \in Newest(Duplicates(c)) :
    \/ alerts' = [alerts EXCEPT ![a].count = @ + 1,
                                ![a].time = IF t > @ THEN t ELSE @]
    \/ UNCHANGED alerts

\* Suppressed by the fatigue policy or not, a repetition is only counted:
\* neither way sends a notification.  (Where max() is given times with and
\* without a zone it raises, and the post has changed nothing.)
CountRepeat(c, t) ==
  \E a \in Newest(Duplicates(c)) :
    alerts' = [alerts EXCEPT ![a].count = @ + 1,
                             ![a].time = IF t > @ THEN t ELSE @]

OfTheWell(c) == {a \in Recent(Window) : alerts[a].at.well = c.well}

\* Of the recent alerts R of the well those of the same sensor or rule.
Related(c, R) == {a \in R : alerts[a].at.sensor = c.sensor \/ alerts[a].at.rule = c.rule}

\* Mutant: when nothing is related, no id is made up.
Correlation_NoneMade(i, c, R) ==
  IF Related(c, R) = {} THEN {None} ELSE {alerts[a].corr : a \in Newest(Related(c, R))}

\* An alert takes the id of the newest related one, or makes one up (named
\* here after the alert that made it).
Correlation(i, c, R) ==
  IF Related(c, R) = {} THEN {i} ELSE {alerts[a].corr : a \in Newest(Related(c, R))}

\* _find_cross_well_candidates: whatever the well, its own included.
CrossWell(c, back) == {a \in Recent(back) : alerts[a].at.rule = c.rule}

DistinctWells(S) == {w \in Wells : \E a \in S : alerts[a].at.well = w}

Systemic(S, more) == Cardinality(DistinctWells(S) \union more) >= MinWells

InCluster(S) == {a \in S : alerts[a].facility # None}

\* S are the candidates in sight.  Below the threshold there is no facility id;
\* above it the newest of theirs is taken over, or one is made up.
Facility(i, c, S) ==
  IF ~Systemic(S, {c.well}) THEN {None}
  ELSE IF InCluster(S) = {} THEN {i}
  ELSE {alerts[a].facility : a \in Newest(InCluster(S))}

\* Mutant: a facility id is not given to the earlier alerts.
Backfill_None(a, i, f, S) == alerts[a]

\* An id that was made up is given to the earlier alerts, too.
Backfill(a, i, f, S) ==
  IF f = i /\ a \in S
  THEN [alerts[a] EXCEPT !.facility = i]
  ELSE alerts[a]

RecordAlert(i, c, s, st, t) ==
  /\ i \notin Recorded
  /\ \E R \in Limited(OfTheWell(c), WellLimit), S \in Limited(CrossWell(c, Window), RuleLimit) :
     \E k \in Correlation(i, c, R), f \in Facility(i, c, S) :
       alerts' = [a \in Ids |->
         IF a = i
         THEN [at |-> c, severity |-> s, status |-> st, time |-> t, corr |-> k,
               facility |-> f, count |-> 1, rca |-> "none"]
         ELSE Backfill(a, i, f, S)]
  /\ notices' = notices \union {i}

\* The status and the time of an alert are the client's.  A post of a used
\* alert_id that repeats no open alert fails at the unique key.
CreateAlert(i, c, s, st, t) ==
  /\ reports < MaxReports
  /\ t <= clock
  /\ \/ CountRepeat(c, t) /\ UNCHANGED notices
     \/ Duplicates(c) = {} /\ RecordAlert(i, c, s, st, t)
  /\ reports' = reports + 1
  /\ UNCHANGED <<clock, recipients, texting, asks>>

-----------------------------------------------------------------------------
(* The other operations on an alert; none of them looks at its status *)

SetStatus(a, st) == alerts' = [alerts EXCEPT ![a].status = st]

Acknowledge(a) == a \in Recorded /\ SetStatus(a, "acknowledged")

ResolveAlert(a) ==
  /\ a \in Recorded
  /\ SetStatus(a, "resolved")
  /\ UNCHANGED <<clock, recipients, notices, texting, reports, asks>>

\* _infer_rca, with the candidates of the well and of the rule in the
\* lookback; when none is left of the former, it does not look at the latter.
InferRca(a, back, S) ==
  IF {b \in Recent(back) : alerts[b].at.well = alerts[a].at.well} = {}
  THEN "insufficient_data"
  ELSE IF Systemic(S, {}) THEN "facility" ELSE "well"

RunAlertRca(a, back) ==
  /\ a \in Recorded
  /\ Ask
  /\ \E S \in Limited(CrossWell(alerts[a].at, back), RuleLimit) :
       alerts' = [alerts EXCEPT ![a].rca = InferRca(a, back, S)]
  /\ UNCHANGED <<clock, recipients, notices, texting, reports>>

-----------------------------------------------------------------------------
(* Text messages *)

\* register_sms_recipient overwrites; enabled = FALSE is no severity at all.
RegisterPhone(p, wanted) ==
  /\ Ask
  /\ recipients' = [recipients EXCEPT ![p] = wanted]
  /\ UNCHANGED <<alerts, clock, notices, texting, reports>>

\* notify_alert_via_sms reads the register once, before its first await.
Notify(a) ==
  texting' = [texting EXCEPT ![a] =
    @ \union {p \in Phones : alerts[a].severity \in Texted \cap recipients[p]}]

StartNotice(a) ==
  /\ a \in notices
  /\ notices' = notices \ {a}
  /\ Notify(a)
  /\ UNCHANGED <<alerts, clock, recipients, reports, asks>>

\* POST /alerts/{id}/sms
SendAlertSms(a) ==
  /\ a \in Recorded
  /\ Ask
  /\ Notify(a)
  /\ UNCHANGED <<alerts, clock, recipients, notices, reports>>

\* send_sms of one number: a provider that fails is replaced by the mock one
\* and the loop goes on; the list of messages sent, SMS_OUTBOX, is left out.
SendSms(a, p) ==
  /\ p \in texting[a]
  /\ texting' = [texting EXCEPT ![a] = @ \ {p}]
  /\ UNCHANGED <<alerts, clock, recipients, notices, reports, asks>>

\* The registers and the tasks of the process are in memory.
RestartAlerts ==
  /\ Ask
  /\ recipients' = [p \in Phones |-> {}]
  /\ notices' = {}
  /\ texting' = [a \in Ids |-> {}]
  /\ UNCHANGED <<alerts, clock, reports>>

Tick ==
  /\ clock < MaxClock
  /\ clock' = clock + 1
  /\ UNCHANGED <<alerts, recipients, notices, texting, reports, asks>>

AlertInit ==
  /\ alerts = [a \in Ids |-> Missing]
  /\ clock = 0
  /\ recipients = [p \in Phones |-> {}]
  /\ notices = {}
  /\ texting = [a \in Ids |-> {}]
  /\ reports = 0
  /\ asks = 0

=============================================================================
