------------------------------ MODULE AlertPlane ------------------------------
(***************************************************************************)
(* The alert service with those who post to it, and the mobile app, whose  *)
(* acknowledgements reach the service at once or from the offline queue.   *)
(***************************************************************************)
EXTENDS AlertService, Sequences, Functions

CONSTANTS Flushes, Taps, MaxTaps

VARIABLES isOnline, queue, stored, flush, tap, queued, served, taps

Mobile == INSTANCE MobileApp WITH Alerts <- Ids

mobileVars == <<isOnline, queue, stored, flush, tap, queued, served, taps>>

alertPlaneVars == <<alertVars, mobileVars>>

ServiceOnly == UNCHANGED mobileVars

\* POST /alerts/{id}/acknowledge, from the web or the app when it is online.
AcknowledgeAlert(a) ==
  /\ Acknowledge(a)
  /\ UNCHANGED <<clock, recipients, notices, texting, reports, asks>>
  /\ ServiceOnly

\* An item of a flush: served, served but without an answer, or not served.
FlushItem(f) ==
  /\ flush[f] # Mobile!Idle
  /\ flush[f].todo # <<>>
  /\ \/ /\ Acknowledge(Head(flush[f].todo))
        /\ served' = served \union {Head(flush[f].todo)}
        /\ Mobile!Answered(f) \/ Mobile!Failed(f)
     \/ Mobile!Failed(f) /\ UNCHANGED <<alerts, served>>
  /\ UNCHANGED <<clock, recipients, notices, texting, reports, asks>>
  /\ UNCHANGED <<isOnline, queue, stored, tap, queued, taps>>

PostAlert ==
  /\ \E i \in Ids, c \in Conditions, s \in Severities, st \in Status, t \in 0..clock :
       CreateAlert(i, c, s, st, t)
  /\ ServiceOnly

Triage ==
  /\ \E a \in Ids : ResolveAlert(a) \/ \E back \in 0..MaxClock : RunAlertRca(a, back)
  /\ ServiceOnly

Texts ==
  /\ \/ \E p \in Phones, wanted \in SUBSET Severities : RegisterPhone(p, wanted)
     \/ \E a \in Ids : SendAlertSms(a)
  /\ ServiceOnly

Notices ==
  /\ \E a \in Ids : StartNotice(a) \/ \E p \in Phones : SendSms(a, p)
  /\ ServiceOnly

\* The operator taps on an alert that the service has.
AppStep ==
  /\ \/ \E online \in BOOLEAN : Mobile!NetInfoEvent(online)
     \/ \E t \in Taps : Mobile!WriteTap(t) \/ \E a \in Recorded : Mobile!TapOffline(t, a)
     \/ \E f \in Flushes : Mobile!WriteRemaining(f)
     \/ Mobile!Relaunch
  /\ UNCHANGED alertVars

AlertPlaneInit == AlertInit /\ Mobile!MobileInit

AlertPlaneNext ==
  \/ PostAlert
  \/ \E a \in Ids : AcknowledgeAlert(a)
  \/ \E f \in Flushes : FlushItem(f)
  \/ Triage
  \/ Texts
  \/ Notices
  \/ RestartAlerts /\ ServiceOnly
  \/ Tick /\ ServiceOnly
  \/ AppStep

AlertPlaneSpec == AlertPlaneInit /\ [][AlertPlaneNext]_alertPlaneVars

-----------------------------------------------------------------------------
(* Properties *)

\* The alerts and the app's queue have their types.
AlertPlaneTypeOK ==
  /\ alerts \in [Ids -> Alert \union {Missing}]
  /\ clock \in 0..MaxClock
  /\ recipients \in [Phones -> SUBSET Severities]
  /\ notices \subseteq Recorded
  /\ texting \in [Ids -> SUBSET Phones]
  /\ reports \in 0..MaxReports
  /\ asks \in 0..MaxAsks
  /\ queue \in Seq(Recorded)
  /\ flush \in [Flushes -> Mobile!Flushing \union {Mobile!Idle}]
  /\ tap \in [Taps -> Mobile!Tapping \union {Mobile!Idle}]
  /\ queued \subseteq Recorded
  /\ served \subseteq Recorded

\* De-duplication (create_alert): however reports, acknowledgements and the
\* clock go, what fires has at most one open alert.
OneOpenAlert == \A c \in Conditions : \A a, b \in Open(c) : a = b

\* Every accepted post is an alert or is counted at one: no handler that
\* rewrites metadata_json loses what another has counted.
EveryReportCounted == FoldFunction(+, 0, [a \in Recorded |-> alerts[a].count]) = reports

\* A facility id is shared by alerts of one rule, and by those of enough
\* wells: it never marks an alert whose signal stays invisible.
FacilitySpansWells ==
  \A a \in InCluster(Recorded) :
    LET cluster == {b \in Recorded : alerts[b].facility = alerts[a].facility}
    IN /\ \A b \in cluster : alerts[b].at.rule = alerts[a].at.rule
       /\ Systemic(cluster, {})

\* An item leaves the offline queue only when the service has got it, or
\* when the tap or the flush whose write replaces the queue had read it
\* before the item was there: no writer forgets what it has read itself.
OnlyStaleWritesDrop ==
  [][\A a \in Mobile!Items(queue) \ Mobile!Items(queue') :
       \/ a \in served
       \/ \E t \in Taps :
            /\ tap[t] # Mobile!Idle /\ tap'[t] = Mobile!Idle
            /\ a \notin Mobile!Items(tap[t].read)
       \/ \E f \in Flushes :
            /\ flush[f] # Mobile!Idle /\ flush'[f] = Mobile!Idle
            /\ a \notin Mobile!Items(flush[f].read)]_alertPlaneVars

\* mobile/app/README.md has acknowledgements made offline sent when the
\* connection is restored: one that was queued has been served, or waits in
\* the queue or in a flush.
QueuedAreKept ==
  \A a \in queued :
    \/ a \in served \union Mobile!Items(queue)
    \/ \E f \in Flushes :
         /\ flush[f] # Mobile!Idle
         /\ a \in Mobile!Items(flush[f].todo) \union Mobile!Items(flush[f].remaining)

=============================================================================
