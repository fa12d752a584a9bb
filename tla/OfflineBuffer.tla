---------------------------- MODULE OfflineBuffer ----------------------------
(***************************************************************************)
(* The buffer a service keeps on disk for what it cannot send: a SQLite    *)
(* table of pending records and, in the builds that have DuckDB, a table   *)
(* of points to which the data of a time series record goes while SQLite   *)
(* keeps a stub that says so.  The workers are the service's event loop    *)
(* and the threads of its pool; each database call is a step of its own,   *)
(* because the manager's lock is held for one call at a time.              *)
(***************************************************************************)
EXTENDS Naturals, FiniteSets

CONSTANTS
  Readings,    \* the readings, named by their record_id
  Workers,     \* the event loop and the threads that call the buffer
  DuckDBBuild, \* TRUE in a build with the duckdb package
  MaxBuffer,   \* max_buffer_size
  MaxRetries,  \* the retry_count at which a record is given up
  MaxFaults    \* bound on failing database calls, sends and crashes

ASSUME WorkersAssumption == IsFiniteSet(Workers) /\ Workers # {}
ASSUME DuckDBAssumption == DuckDBBuild \in BOOLEAN
ASSUME LimitsAssumption ==
  MaxBuffer \in Nat \ {0} /\ MaxRetries \in Nat \ {0} /\ MaxFaults \in Nat

VARIABLES
  rows,       \* the table buffered_records
  points,     \* the readings with a point in DuckDB
  useDuckDB,  \* FALSE also when DuckDB could not be opened at the start
  task,       \* what each worker is in the middle of
  losses,     \* history: the readings the service has let go of, and to what
  faults      \* failing calls and crashes so far

bufferVars == <<rows, points, useDuckDB, task, losses, faults>>

\* A row holds the reading itself, or the stub that points to DuckDB.
Form == {"full", "stub"}

Row == [reading : Readings, form : Form, retries : Nat]

Held == {x.reading : x \in rows}

\* Refused by a full buffer; failing calls of the buffer's; deleted by its
\* cleanup or by hand; messages that timed out in the producer; the memory of
\* a process that died.
Reasons == {"full", "error", "deleted", "undelivered", "died"}

lost == {l[1] : l \in losses}

LostTo(how) == {r \in Readings : <<r, how>> \in losses}

Idle == [pc |-> "idle"]

\* add_record at work: before the capacity check, before the insert into
\* DuckDB, and before the insert into SQLite of the reading or its stub.
Adding == [pc : {"check", "point", "insert"}, reading : Readings, form : Form]

At(w, pc) == task[w].pc = pc

Fault == faults < MaxFaults /\ faults' = faults + 1

-----------------------------------------------------------------------------
(* add_record: worker w buffers a reading *)

AddRecord(w, r) ==
  task' = [task EXCEPT ![w] = [pc |-> "check", reading |-> r, form |-> "full"]]

\* What add_record has let go of when it returns False; the callers count
\* the records it took and log the rest.
Refuse(w, how) ==
  /\ losses' = losses \union {<<task[w].reading, how>>}
  /\ task' = [task EXCEPT ![w] = Idle]

\* get_buffer_stats counts a reading in DuckDB twice, for its point and stub.
TotalRecords ==
  Cardinality(rows) + IF useDuckDB THEN Cardinality(points) ELSE 0

Store == IF useDuckDB THEN "point" ELSE "insert"

\* Mutant: the buffer is full when it has more than its maximum.
CheckCapacity_OneMore(w) ==
  /\ At(w, "check")
  /\ \/ /\ TotalRecords > MaxBuffer
        /\ Refuse(w, "full")
     \/ /\ TotalRecords <= MaxBuffer
        /\ task' = [task EXCEPT ![w].pc = Store]
        /\ UNCHANGED losses
  /\ UNCHANGED <<rows, points, useDuckDB, faults>>

\* Mutant: as docs/OFFLINE_RESILIENCE.md has it, a full buffer drops a row
\* for the record that comes.
CheckCapacity_DropsOldest(w) ==
  /\ At(w, "check")
  /\ \/ TotalRecords >= MaxBuffer /\ \E x \in rows : rows' = rows \ {x}
     \/ TotalRecords < MaxBuffer /\ UNCHANGED rows
  /\ task' = [task EXCEPT ![w].pc = Store]
  /\ UNCHANGED <<points, useDuckDB, losses, faults>>

\* A full buffer refuses the record that comes, and keeps those it has.  The
\* other limit, buffer_size_mb, refuses it in the same way.
CheckCapacity(w) ==
  /\ At(w, "check")
  /\ \/ /\ TotalRecords >= MaxBuffer
        /\ Refuse(w, "full")
     \/ /\ TotalRecords < MaxBuffer
        /\ task' = [task EXCEPT ![w].pc = Store]
        /\ UNCHANGED losses
  /\ UNCHANGED <<rows, points, useDuckDB, faults>>

\* get_buffer_stats returns {} on an error, which passes for an empty buffer.
CheckFails(w) ==
  /\ At(w, "check")
  /\ Fault
  /\ task' = [task EXCEPT ![w].pc = Store]
  /\ UNCHANGED <<rows, points, useDuckDB, losses>>

InsertPoint(w) ==
  /\ At(w, "point")
  /\ points' = points \union {task[w].reading}
  /\ task' = [task EXCEPT ![w].pc = "insert", ![w].form = "stub"]
  /\ UNCHANGED <<rows, useDuckDB, losses, faults>>

\* insert_data_point returns False, and so does add_record: the fallback to
\* SQLite is for exceptions, which insert_data_point does not let out.
PointFails(w) ==
  /\ At(w, "point")
  /\ Fault
  /\ Refuse(w, "error")
  /\ UNCHANGED <<rows, points, useDuckDB>>

Without(r) == {x \in rows : x.reading # r}

\* INSERT OR REPLACE: a row of the same record_id starts over.
InsertRow(w) ==
  /\ At(w, "insert")
  /\ rows' = Without(task[w].reading) \union
               {[reading |-> task[w].reading, form |-> task[w].form, retries |-> 0]}
  /\ task' = [task EXCEPT ![w] = Idle]
  /\ UNCHANGED <<points, useDuckDB, losses, faults>>

\* A stub that cannot be stored is reported as stored; either way no row
\* says that there is something to send.
InsertRowFails(w) ==
  /\ At(w, "insert")
  /\ Fault
  /\ Refuse(w, "error")
  /\ UNCHANGED <<rows, points, useDuckDB>>

AddStep(w) ==
  \/ CheckCapacity(w) \/ InsertPoint(w) \/ InsertRow(w)
  \/ CheckFails(w) \/ PointFails(w) \/ InsertRowFails(w)

-----------------------------------------------------------------------------
(* The other operations, for their callers' steps *)

\* get_pending_records: the rows still worth a retry.
Pending == {x \in rows : x.retries < MaxRetries}

MarkSent(r) == rows' = Without(r)

\* Mutant: retry_count counts the tries that are left.
MarkFailed_CountsDown(r) ==
  rows' = {IF x.reading = r THEN [x EXCEPT !.retries = @ - 1] ELSE x : x \in rows}

MarkFailed(r) ==
  rows' = {IF x.reading = r THEN [x EXCEPT !.retries = @ + 1] ELSE x : x \in rows}

\* clear_buffer and cleanup_old_records delete rows, and no points.
Delete(old) ==
  /\ rows' = rows \ old
  /\ losses' = losses \union {<<x.reading, "deleted">> : x \in old}

\* The cleanup thread, after seven days.  A row that old has seen an outage
\* or a full buffer that lasted as long, which is counted with the faults.
\* (Its other condition, twenty retries, is out of reach: a row is given up
\* after ten.)
CleanUp ==
  /\ Fault
  /\ \E old \in SUBSET rows \ {{}} : Delete(old)
  /\ UNCHANGED <<points, useDuckDB, task>>

BufferInit ==
  /\ rows = {}
  /\ points = {}
  /\ useDuckDB \in {FALSE, DuckDBBuild}
  /\ task = [w \in Workers |-> Idle]
  /\ losses = {}
  /\ faults = 0

=============================================================================
