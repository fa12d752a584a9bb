------------------------------ MODULE MobileApp ------------------------------
(***************************************************************************)
(* The operator's mobile app: acknowledgements tapped while the app takes  *)
(* itself for offline wait in AsyncStorage; each NetInfo event that finds  *)
(* it online sends them.  Reading and writing the storage are awaits, and  *)
(* nothing keeps flushes and taps from overlapping, among them two flushes *)
(* (the event sets isOnline, which subscribes the listener anew, which     *)
(* calls it once more) and two taps in a row.                              *)
(***************************************************************************)
EXTENDS Naturals, Sequences

CONSTANTS
  Alerts,   \* the alert_ids of the service
  Flushes,  \* flushOfflineQueue at work, so many at once
  Taps,     \* queueAcknowledge at work, so many at once
  MaxTaps   \* bound on the taps made offline

VARIABLES
  isOnline,  \* the state of App
  queue,     \* QUEUE_KEY in the storage
  stored,    \* FALSE while the storage has no such key
  flush,     \* what each flush is in the middle of
  tap,       \* each queueAcknowledge between its read and its write
  queued,    \* history: alerts that queueAcknowledge has returned for
  served,    \* history: alerts whose acknowledgement the service got
  taps       \* taps made offline so far

mobileVars == <<isOnline, queue, stored, flush, tap, queued, served, taps>>

Idle == [pc |-> "idle"]

Items(q) == {q[i] : i \in DOMAIN q}

\* read is the queue a writer of the storage has seen.
Flushing == [pc : {"send"}, read : Seq(Alerts), todo : Seq(Alerts), remaining : Seq(Alerts)]

Tapping == [pc : {"write"}, read : Seq(Alerts), alert : Alerts]

\* The listener of App flushes when it is online; a flush ends at once when
\* the storage has no queue.
NetInfoEvent(online) ==
  /\ isOnline' = online
  /\ \/ ~(online /\ stored) /\ UNCHANGED flush
     \/ /\ online /\ stored
        /\ \E f \in Flushes :
             /\ flush[f] = Idle
             /\ flush' = [flush EXCEPT ![f] =
                  [pc |-> "send", read |-> queue, todo |-> queue, remaining |-> <<>>]]
  /\ UNCHANGED <<queue, stored, tap, queued, served, taps>>

\* onAcknowledge, offline: queueAcknowledge reads the queue,
TapOffline(t, a) ==
  /\ ~isOnline
  /\ taps < MaxTaps
  /\ tap[t] = Idle
  /\ tap' = [tap EXCEPT ![t] = [pc |-> "write", read |-> queue, alert |-> a]]
  /\ taps' = taps + 1
  /\ UNCHANGED <<isOnline, queue, stored, flush, queued, served>>

\* and writes it back with one item more; the alert leaves the screen.
WriteTap(t) ==
  /\ tap[t] # Idle
  /\ queue' = Append(tap[t].read, tap[t].alert)
  /\ stored' = TRUE
  /\ tap' = [tap EXCEPT ![t] = Idle]
  /\ queued' = queued \union {tap[t].alert}
  /\ UNCHANGED <<isOnline, flush, served, taps>>

\* The item a flush is at has been answered: it is done with,
Answered(f) ==
  /\ flush' = [flush EXCEPT ![f].todo = Tail(@)]
  /\ served' = served \union {Head(flush[f].todo)}

\* Mutant: an item that failed is dropped.
Failed_Dropped(f) == flush' = [flush EXCEPT ![f].todo = Tail(@)]

\* or has failed and remains.
Failed(f) ==
  flush' = [flush EXCEPT ![f].todo = Tail(@),
                         ![f].remaining = Append(@, Head(flush[f].todo))]

\* The end of a flush overwrites whatever is in the storage by then.
WriteRemaining(f) ==
  /\ flush[f] # Idle
  /\ flush[f].todo = <<>>
  /\ queue' = flush[f].remaining
  /\ stored' = TRUE
  /\ flush' = [flush EXCEPT ![f] = Idle]
  /\ UNCHANGED <<isOnline, tap, queued, served, taps>>

\* The app is killed and started: what is in the storage stays.
Relaunch ==
  /\ isOnline' = TRUE
  /\ flush' = [f \in Flushes |-> Idle]
  /\ tap' = [t \in Taps |-> Idle]
  /\ UNCHANGED <<queue, stored, queued, served, taps>>

MobileInit ==
  /\ isOnline = TRUE
  /\ queue = <<>>
  /\ stored = FALSE
  /\ flush = [f \in Flushes |-> Idle]
  /\ tap = [t \in Taps |-> Idle]
  /\ queued = {}
  /\ served = {}
  /\ taps = 0

=============================================================================
