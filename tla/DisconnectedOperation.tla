------------------------ MODULE DisconnectedOperation ------------------------
(***************************************************************************)
(* The edge service's disconnected operation manager: critical alerts and  *)
(* local decisions are written to a SQLite file and marked as synced by    *)
(* passes over the rows that are not.                                      *)
(*                                                                         *)
(* Three threads run such passes and no lock keeps them apart (sync_lock   *)
(* is made and never taken): the event loop after every row it records and *)
(* for POST /disconnected/sync, the monitor's thread when the connection   *)
(* is back, and the synchronisation thread every sync_interval.            *)
(*                                                                         *)
(* A row is recorded under the time of its request, in whole seconds, and  *)
(* its sensor; another one of that id takes its place.                     *)
(***************************************************************************)
EXTENDS Integers, Sequences, FiniteSets

CONSTANTS
  Sensors,        \* sensor ids
  Limit,          \* rows a pass takes at most (50)
  HasTargets,     \* TRUE when the monitor has hosts or urls to check
  MaxItems,       \* bound on the rows one request records
  MaxRecordings,  \* bound on the rows recorded
  MaxSecond,      \* bound on the seconds in which there are requests
  MaxOutages,     \* bound on losses of the connection
  MaxFaults       \* bound on failing SQLite transactions and restarts

ASSUME LimitAssumption == Limit \in Nat \ {0}
ASSUME TargetsAssumption == HasTargets \in BOOLEAN
ASSUME BoundsAssumption ==
  /\ MaxItems \in Nat /\ MaxRecordings \in Nat /\ MaxSecond \in Nat
  /\ MaxOutages \in Nat /\ MaxFaults \in Nat

VARIABLES
  rows,      \* both tables of the SQLite file
  isOnline,  \* the manager's flag
  jobs,      \* what each thread still has to do of what it has begun
  news,      \* TRUE while the monitor has an answer that isOnline disagrees with
  link,      \* TRUE while the network is there
  second,    \* the second of the last request
  outages,   \* losses of the connection so far
  faults,    \* failing transactions and restarts so far
  journal,   \* history: the table and id of each recording, in order
  reads      \* history: passes that have read each recording

vars == <<rows, isOnline, jobs, news, link, second, outages, faults, journal, reads>>

linkVars == <<link, outages>>
historyVars == <<journal, reads>>

Tables == {"critical_alerts", "local_decisions"}
Threads == {"api", "monitor", "worker"}

\* f"EDGE-%Y%m%d-%H%M%S-{sensor_id}".
Ids == (0 .. MaxSecond) \X Sensors

\* A row's timestamp is the number of its recording: one thread records.
Row == [table : Tables, id : Ids, rec : Nat, synced : BOOLEAN]

\* A job is a row to record, or a pass at its test of is_online, at its SELECT
\* or at its UPDATE with the rows it has read.
Job ==
  [op : {"record"}, table : Tables, id : Ids] \union
  [op : {"check", "select"}, table : Tables] \union
  [op : {"mark"}, table : Tables, batch : SUBSET Row]

\* Mutant: a third pass, over the cached results, which have no synced column.
BothTables_Cache ==
  [i \in 1 .. 3 |-> [op |-> "check",
     table |-> <<"critical_alerts", "local_decisions", "processed_data_cache">>[i]]]

\* _trigger_sync, and one turn of the synchronisation thread.
BothTables ==
  <<[op |-> "check", table |-> "critical_alerts"],
    [op |-> "check", table |-> "local_decisions"]>>

Idle(t) == jobs[t] = <<>>

Doing(t, op) == ~Idle(t) /\ Head(jobs[t]).op = op

\* Thread t goes on with job, before the rest of what it has to do.
GoOn(t, job) == jobs' = [jobs EXCEPT ![t] = <<job>> \o Tail(@)]

Done(t) == jobs' = [jobs EXCEPT ![t] = Tail(@)]

\* SELECT ... WHERE synced = FALSE ORDER BY timestamp ASC LIMIT.
Pending(table) == {x \in rows : x.table = table /\ ~x.synced}

\* Mutant: DESC for ASC.
Oldest_Newest(table) ==
  {x \in Pending(table) :
     Cardinality({y \in Pending(table) : y.rec > x.rec}) < Limit}

Oldest(table) ==
  {x \in Pending(table) :
     Cardinality({y \in Pending(table) : y.rec < x.rec}) < Limit}

Fault == faults < MaxFaults /\ faults' = faults + 1

-----------------------------------------------------------------------------
(* The event loop *)

\* POST /analyze up to its first row: critical alerts of any sensors, one
\* sensor as often as it has readings to complain about, or decisions.
Analyze ==
  /\ Idle("api")
  /\ second' \in second .. MaxSecond
  /\ \E table \in Tables, n \in 1 .. MaxItems :
     \E sensors \in [1 .. n -> Sensors] :
       /\ Len(journal) + n <= MaxRecordings
       /\ table = "local_decisions" =>
            \A i, j \in 1 .. n : sensors[i] = sensors[j] => i = j
       /\ jobs' = [jobs EXCEPT !["api"] =
            [i \in 1 .. n |-> [op |-> "record", table |-> table,
                               id |-> <<second', sensors[i]>>]]]
  /\ UNCHANGED <<rows, isOnline, news, faults>>
  /\ UNCHANGED <<linkVars, historyVars>>

\* add_critical_alert and record_local_decision: INSERT OR REPLACE, and then a
\* pass over the same table.
Record ==
  /\ Doing("api", "record")
  /\ LET job == Head(jobs["api"]) IN
     /\ rows' = {x \in rows : ~(x.table = job.table /\ x.id = job.id)} \union
                {[table |-> job.table, id |-> job.id,
                  rec |-> Len(journal) + 1, synced |-> FALSE]}
     /\ journal' = Append(journal, <<job.table, job.id>>)
     /\ reads' = Append(reads, 0)
     /\ GoOn("api", [op |-> "check", table |-> job.table])
  /\ UNCHANGED <<isOnline, news, faults>>
  /\ UNCHANGED <<second, linkVars>>

\* Its answer is FALSE then, which no caller looks at.
RecordFails ==
  /\ Doing("api", "record")
  /\ Fault
  /\ Done("api")
  /\ UNCHANGED <<rows, isOnline, news>>
  /\ UNCHANGED <<second, linkVars, historyVars>>

\* POST /disconnected/sync; 503 when the manager is offline.
SyncRequest ==
  /\ Idle("api")
  /\ isOnline
  /\ jobs' = [jobs EXCEPT !["api"] = BothTables]
  /\ UNCHANGED <<rows, isOnline, news, faults>>
  /\ UNCHANGED <<second, linkVars, historyVars>>

-----------------------------------------------------------------------------
(* _sync_critical_alerts and _sync_local_decisions, in any thread *)

Check(t) ==
  /\ Doing(t, "check")
  /\ IF isOnline
     THEN GoOn(t, [op |-> "select", table |-> Head(jobs[t]).table])
     ELSE Done(t)
  /\ UNCHANGED <<rows, isOnline, news, faults>>
  /\ UNCHANGED <<second, linkVars, historyVars>>

Select(t) ==
  /\ Doing(t, "select")
  /\ LET table == Head(jobs[t]).table
         batch == Oldest(table) IN
     /\ reads' = [n \in DOMAIN reads |->
                    IF \E x \in batch : x.rec = n THEN reads[n] + 1 ELSE reads[n]]
     /\ IF batch = {}
        THEN Done(t)
        ELSE GoOn(t, [op |-> "mark", table |-> table, batch |-> batch])
  /\ UNCHANGED <<rows, isOnline, news, faults, journal>>
  /\ UNCHANGED <<second, linkVars>>

\* Mutant: every row of the table is marked.
Mark_All(t) ==
  /\ Doing(t, "mark")
  /\ LET job == Head(jobs[t]) IN
     rows' = {x \in rows : x.table # job.table} \union
             {[x EXCEPT !.synced = TRUE] : x \in {z \in rows : z.table = job.table}}
  /\ Done(t)
  /\ UNCHANGED <<isOnline, news, faults>>
  /\ UNCHANGED <<second, linkVars, historyVars>>

\* Mutant: the UPDATE is never committed.
Mark_Lost(t) ==
  /\ Doing(t, "mark")
  /\ Done(t)
  /\ UNCHANGED <<rows, isOnline, news, faults>>
  /\ UNCHANGED <<second, linkVars, historyVars>>

\* UPDATE ... SET synced = TRUE WHERE the id is one of those read.  Nothing has
\* been sent to a server: that is left to do in the code.
Mark(t) ==
  /\ Doing(t, "mark")
  /\ LET job == Head(jobs[t])
         Hit(x) == x.table = job.table /\ \E y \in job.batch : y.id = x.id IN
     rows' = {x \in rows : ~Hit(x)} \union
             {[x EXCEPT !.synced = TRUE] : x \in {z \in rows : Hit(z)}}
  /\ Done(t)
  /\ UNCHANGED <<isOnline, news, faults>>
  /\ UNCHANGED <<second, linkVars, historyVars>>

\* A failing SELECT counts as no pending rows, a failing UPDATE is rolled back.
PassFails(t) ==
  /\ Doing(t, "select") \/ Doing(t, "mark")
  /\ Fault
  /\ Done(t)
  /\ UNCHANGED <<rows, isOnline, news>>
  /\ UNCHANGED <<second, linkVars, historyVars>>

Pass(t) == Check(t) \/ Select(t) \/ Mark(t) \/ PassFails(t)

\* sync_worker's turn.
Wake ==
  /\ Idle("worker")
  /\ isOnline
  /\ jobs' = [jobs EXCEPT !["worker"] = BothTables]
  /\ UNCHANGED <<rows, isOnline, news, faults>>
  /\ UNCHANGED <<second, linkVars, historyVars>>

-----------------------------------------------------------------------------
(* The connection monitor's thread *)

\* check_connection; with nothing to check it finds nothing that can be reached.
\* An answer that is no news has no effect.
CheckConnection ==
  /\ Idle("monitor")
  /\ ~news
  /\ (HasTargets /\ link) # isOnline
  /\ news' = TRUE
  /\ UNCHANGED <<rows, isOnline, jobs, faults>>
  /\ UNCHANGED <<second, linkVars, historyVars>>

\* Mutant: only the loss of the connection is announced.
ConnectionChange_LossOnly ==
  /\ news
  /\ news' = FALSE
  /\ isOnline' = FALSE
  /\ UNCHANGED <<rows, jobs, faults>>
  /\ UNCHANGED <<second, linkVars, historyVars>>

\* The rest of monitor_worker's turn, with _on_connection_change: monitor and
\* manager change their flags together, and a restored connection starts a pass.
ConnectionChange ==
  /\ news
  /\ news' = FALSE
  /\ isOnline' = ~isOnline
  /\ jobs' = IF isOnline THEN jobs ELSE [jobs EXCEPT !["monitor"] = BothTables]
  /\ UNCHANGED <<rows, faults>>
  /\ UNCHANGED <<second, linkVars, historyVars>>

-----------------------------------------------------------------------------
(* The environment *)

LinkDown ==
  /\ link
  /\ outages < MaxOutages
  /\ link' = FALSE
  /\ outages' = outages + 1
  /\ UNCHANGED <<rows, isOnline, jobs, news, second, faults>>
  /\ UNCHANGED historyVars

LinkUp ==
  /\ ~link
  /\ link' = TRUE
  /\ UNCHANGED <<rows, isOnline, jobs, news, second, outages, faults>>
  /\ UNCHANGED historyVars

\* The file stays; a new manager believes to be online until the first check.
Restart ==
  /\ Fault
  /\ isOnline' = TRUE
  /\ jobs' = [t \in Threads |-> <<>>]
  /\ news' = FALSE
  /\ UNCHANGED rows
  /\ UNCHANGED <<second, linkVars, historyVars>>

-----------------------------------------------------------------------------
(* The specification *)

Init ==
  /\ rows = {}
  /\ isOnline = TRUE
  /\ jobs = [t \in Threads |-> <<>>]
  /\ news = FALSE
  /\ link = TRUE
  /\ second = 0
  /\ outages = 0 /\ faults = 0
  /\ journal = <<>>
  /\ reads = <<>>

Next ==
  \/ Analyze \/ Record \/ RecordFails \/ SyncRequest
  \/ \E t \in Threads : Pass(t)
  \/ Wake \/ CheckConnection \/ ConnectionChange
  \/ LinkDown \/ LinkUp \/ Restart

Spec == Init /\ [][Next]_vars

\* A thread that has work goes on with it, and the two loops come round.  The
\* event loop's own requests and the network promise nothing.
Fairness ==
  /\ \A t \in Threads : WF_vars(Pass(t))
  /\ WF_vars(Record) /\ WF_vars(Wake)
  /\ WF_vars(CheckConnection) /\ WF_vars(ConnectionChange)

FairSpec == Spec /\ Fairness

-----------------------------------------------------------------------------
(* Properties *)

\* The variables have their types.
TypeOK ==
  /\ rows \in SUBSET Row
  /\ isOnline \in BOOLEAN
  /\ jobs \in [Threads -> Seq(Job)]
  /\ news \in BOOLEAN
  /\ link \in BOOLEAN
  /\ second \in 0 .. MaxSecond
  /\ outages \in 0 .. MaxOutages
  /\ faults \in 0 .. MaxFaults
  /\ journal \in Seq(Tables \X Ids)
  /\ reads \in Seq(Nat)

\* Row x took the place of an earlier one of its id.
Replacing(x) == \E n \in 1 .. x.rec - 1 : journal[n] = <<x.table, x.id>>

\* A row is marked as synced only if a pass has read it, whatever was recorded
\* between the SELECT and the UPDATE of a pass.  A row that took the place of
\* one that was read is the exception, for the UPDATE goes by the ids
\* (_sync_critical_alerts, _sync_local_decisions).
MarkedWasRead ==
  \A x \in rows : x.synced =>
    \/ reads[x.rec] > 0
    \/ \E n \in 1 .. x.rec - 1 : journal[n] = <<x.table, x.id>> /\ reads[n] > 0

\* Passes of several threads over one table, failed ones among them, leave no
\* row unsynced behind a newer one that is synced, unless that one took the
\* place of an older (the ORDER BY and LIMIT of the pending rows).
OldestFirst ==
  \A x, y \in rows :
    x.table = y.table /\ x.rec < y.rec /\ y.synced /\ ~x.synced => Replacing(y)

\* Without a lock each thread may read a row before one of them marks it, and a
\* failed transaction or a restart lets it be read again; nothing else does.
FewCopies ==
  \A n \in DOMAIN reads :
    reads[n] <= Cardinality(Threads) * (1 + faults)

\* Once the network stays up, every row is marked as synced or gives its place
\* to another (the monitor, its callback and the synchronisation thread).
EventuallySynced ==
  \A n \in 1 .. MaxRecordings :
    LET waiting == \E x \in rows : x.rec = n /\ ~x.synced
    IN <>[]link => (waiting ~> ~waiting)
=============================================================================
