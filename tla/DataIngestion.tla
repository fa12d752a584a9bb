---------------------------- MODULE DataIngestion ----------------------------
(***************************************************************************)
(* The data ingestion service: a request stores readings in TimescaleDB    *)
(* and hands them to the stream, through Kafka when the connection monitor *)
(* says the system is online and through the offline buffer otherwise; a   *)
(* loop retries what is buffered.                                          *)
(*                                                                         *)
(* Requests and the retry loop run on the event loop and hold it to their  *)
(* end, for none of the calls they make is awaited; publish_to_kafka runs  *)
(* in the thread pool, the monitor and the buffer's cleanup in threads of  *)
(* their own.  A request carries one reading here: each record of a longer *)
(* one is buffered and retried on its own.                                 *)
(***************************************************************************)
EXTENDS OfflineBuffer

CONSTANTS
  Loop,        \* the event loop, one of the workers
  MaxPosts,    \* bound on the posts of each reading
  MaxOutages   \* bound on losses of the connection

ASSUME LoopAssumption == Loop \in Workers
ASSUME BoundsAssumption ==
  MaxPosts \in [Readings -> Nat] /\ MaxOutages \in Nat

VARIABLES
  stored,      \* the readings committed to TimescaleDB
  posts,       \* accepted requests with each reading
  background,  \* readings that wait for a thread to publish them
  link,        \* TRUE while Kafka can be reached
  online,      \* connection_monitor.is_online
  outages,     \* losses of the connection so far
  queue,       \* messages in the producer's queue
  streamed,    \* readings that are in the Kafka topic in full
  sends        \* history: messages of each reading given to the producer

vars == <<rows, points, useDuckDB, task, losses, faults, stored, posts, background, link,
          online, outages, queue, streamed, sends>>

ingestVars == <<stored, posts, background>>
linkVars == <<link, online, outages>>
kafkaVars == <<queue, streamed, sends>>

Threads == Workers \ {Loop}

Message == Readings \X Form

QueueEmpty == \A m \in Message : queue[m] = 0

Routing == [pc : {"route"}, reading : Readings]

\* retry_buffered_records with the rows still to do, and the row in hand
\* after its send(), after the flush and after a send() that raised.
Retrying ==
  [pc : {"retry"}, todo : SUBSET Row] \union
  [pc : {"flush", "mark", "failed"}, todo : SUBSET Row, row : Row]

-----------------------------------------------------------------------------
(* Requests *)

\* ingest_data up to tsdb.commit().  A source may post a reading again.
Ingest(r) ==
  /\ task[Loop] = Idle
  /\ posts[r] < MaxPosts[r]
  /\ posts' = [posts EXCEPT ![r] = @ + 1]
  /\ stored' = stored \union {r}
  /\ task' = [task EXCEPT ![Loop] = [pc |-> "route", reading |-> r]]
  /\ UNCHANGED <<rows, points, useDuckDB, losses, faults, background>>
  /\ UNCHANGED <<linkVars, kafkaVars>>

\* The rest of it.
Route ==
  /\ At(Loop, "route")
  /\ \/ /\ ~online
        /\ AddRecord(Loop, task[Loop].reading)
        /\ UNCHANGED background
     \/ /\ online
        /\ background' = background \union {task[Loop].reading}
        /\ task' = [task EXCEPT ![Loop] = Idle]
  /\ UNCHANGED <<rows, points, useDuckDB, losses, faults, stored, posts>>
  /\ UNCHANGED <<linkVars, kafkaVars>>

\* publish_to_kafka: the record still has its timestamp as a datetime, which
\* send() cannot encode; it raises and the record is buffered instead.
PublishToKafka(w) ==
  /\ w \in Threads
  /\ task[w] = Idle
  /\ \E r \in background :
       /\ background' = background \ {r}
       /\ AddRecord(w, r)
  /\ UNCHANGED <<rows, points, useDuckDB, losses, faults, stored, posts>>
  /\ UNCHANGED <<linkVars, kafkaVars>>

\* DELETE /buffer/clear, of everything or of one source.
ClearBuffer ==
  /\ task[Loop] = Idle
  /\ Fault
  /\ \E some \in SUBSET rows \ {{}} : Delete(some)
  /\ UNCHANGED <<points, useDuckDB, task>>
  /\ UNCHANGED <<ingestVars, linkVars, kafkaVars>>

-----------------------------------------------------------------------------
(* retry_buffered_records, from its loop or from POST /buffer/retry *)

Continue(todo) ==
  task' = [task EXCEPT ![Loop] =
             IF todo = {} THEN Idle ELSE [pc |-> "retry", todo |-> todo]]

StartRetry ==
  /\ task[Loop] = Idle
  /\ online
  /\ Pending # {}
  /\ Continue(Pending)
  /\ UNCHANGED <<rows, points, useDuckDB, losses, faults>>
  /\ UNCHANGED <<ingestVars, linkVars, kafkaVars>>

\* A buffered record has been through JSON once and can be sent.  (The rows
\* are taken by timestamp; here the order is any.)
RetrySend ==
  /\ At(Loop, "retry")
  /\ \E x \in task[Loop].todo :
       LET m == <<x.reading, x.form>> IN
       /\ queue' = [queue EXCEPT ![m] = @ + 1]
       /\ sends' = [sends EXCEPT ![x.reading] = @ + 1]
       /\ task' = [task EXCEPT ![Loop] = [pc |-> "flush", row |-> x,
                                          todo |-> task[Loop].todo \ {x}]]
  /\ UNCHANGED <<rows, points, useDuckDB, losses, faults, streamed>>
  /\ UNCHANGED <<ingestVars, linkVars>>

RetrySendFails ==
  /\ At(Loop, "retry")
  /\ Fault
  /\ \E x \in task[Loop].todo :
       task' = [task EXCEPT ![Loop] = [pc |-> "failed", row |-> x,
                                       todo |-> task[Loop].todo \ {x}]]
  /\ UNCHANGED <<rows, points, useDuckDB, losses>>
  /\ UNCHANGED <<ingestVars, linkVars, kafkaVars>>

\* flush(10) returns when the queue is empty or the ten seconds are over.
RetryFlush ==
  /\ At(Loop, "flush")
  /\ QueueEmpty \/ ~link
  /\ task' = [task EXCEPT ![Loop].pc = "mark"]
  /\ UNCHANGED <<rows, points, useDuckDB, losses, faults>>
  /\ UNCHANGED <<ingestVars, linkVars, kafkaVars>>

\* Mutant: the record that was sent stays in the buffer.
RetryMarkSent_Kept ==
  /\ At(Loop, "mark")
  /\ Continue(task[Loop].todo)
  /\ UNCHANGED <<rows, points, useDuckDB, losses, faults>>
  /\ UNCHANGED <<ingestVars, linkVars, kafkaVars>>

RetryMarkSent ==
  /\ At(Loop, "mark")
  /\ MarkSent(task[Loop].row.reading)
  /\ Continue(task[Loop].todo)
  /\ UNCHANGED <<points, useDuckDB, losses, faults>>
  /\ UNCHANGED <<ingestVars, linkVars, kafkaVars>>

RetryMarkFailed ==
  /\ At(Loop, "failed")
  /\ MarkFailed(task[Loop].row.reading)
  /\ Continue(task[Loop].todo)
  /\ UNCHANGED <<points, useDuckDB, losses, faults>>
  /\ UNCHANGED <<ingestVars, linkVars, kafkaVars>>

\* mark_sent and mark_failed report a database error by a False nobody reads.
RetryMarkIgnored ==
  /\ At(Loop, "mark") \/ At(Loop, "failed")
  /\ Fault
  /\ Continue(task[Loop].todo)
  /\ UNCHANGED <<rows, points, useDuckDB, losses>>
  /\ UNCHANGED <<ingestVars, linkVars, kafkaVars>>

-----------------------------------------------------------------------------
(* The connection, its monitor and the producer's delivery *)

LinkDown ==
  /\ link
  /\ outages < MaxOutages
  /\ link' = FALSE
  /\ outages' = outages + 1
  /\ UNCHANGED <<bufferVars, ingestVars, kafkaVars, online>>

LinkUp ==
  /\ ~link
  /\ link' = TRUE
  /\ UNCHANGED <<bufferVars, ingestVars, kafkaVars, online, outages>>

\* Mutant: the monitor notices a loss of the connection, and not its return.
Probe_OnlyLoss ==
  /\ online /\ ~link
  /\ online' = FALSE
  /\ UNCHANGED <<bufferVars, ingestVars, kafkaVars, link, outages>>

\* The monitor's thread sets is_online to what its last probe found.  The
\* callback that should start a retry runs in this thread, where there is no
\* event loop to create the task in: it fails, and the monitor logs that.
Probe ==
  /\ online # link
  /\ online' = link
  /\ UNCHANGED <<bufferVars, ingestVars, kafkaVars, link, outages>>

\* A stub has no value; only a full record makes the reading known.
Deliver(m) ==
  /\ link
  /\ queue[m] > 0
  /\ queue' = [queue EXCEPT ![m] = @ - 1]
  /\ streamed' = IF m[2] = "full" THEN streamed \union {m[1]} ELSE streamed
  /\ UNCHANGED <<bufferVars, ingestVars, linkVars, sends>>

\* The message times out; delivery_callback logs the error.
DeliveryFails(m) ==
  /\ ~link
  /\ queue[m] > 0
  /\ queue' = [queue EXCEPT ![m] = @ - 1]
  /\ losses' = losses \union {<<m[1], "undelivered">>}
  /\ UNCHANGED <<rows, points, useDuckDB, task, faults, streamed, sends>>
  /\ UNCHANGED <<ingestVars, linkVars>>

\* The readings that workers are about to route or to buffer.
Carried ==
  {r \in Readings :
     \E w \in Workers : task[w] \in Adding \union Routing /\ task[w].reading = r}

Queued == {r \in Readings : queue[<<r, "full">>] > 0}

\* The readings that the memory of the process knows of.
InMemory == background \union Carried \union Queued

\* The process dies and is started again; both databases keep what they have
\* and the monitor starts out as online.
Crash ==
  /\ Fault
  /\ losses' = losses \union (InMemory \ Held) \X {"died"}
  /\ task' = [w \in Workers |-> Idle]
  /\ background' = {}
  /\ queue' = [m \in Message |-> 0]
  /\ online' = TRUE
  /\ useDuckDB' \in {FALSE, DuckDBBuild}
  /\ UNCHANGED <<rows, points, stored, posts, link, outages, streamed, sends>>

-----------------------------------------------------------------------------
Init ==
  /\ BufferInit
  /\ stored = {} /\ posts = [r \in Readings |-> 0] /\ background = {}
  /\ link = TRUE /\ online = TRUE /\ outages = 0
  /\ queue = [m \in Message |-> 0]
  /\ streamed = {}
  /\ sends = [r \in Readings |-> 0]

RetryStep ==
  \/ StartRetry \/ RetrySend \/ RetrySendFails \/ RetryFlush
  \/ RetryMarkSent \/ RetryMarkFailed \/ RetryMarkIgnored

BufferStep ==
  /\ CleanUp \/ \E w \in Workers : AddStep(w)
  /\ UNCHANGED <<ingestVars, linkVars, kafkaVars>>

Next ==
  \/ \E r \in Readings : Ingest(r)
  \/ Route \/ ClearBuffer \/ RetryStep
  \/ \E w \in Threads : PublishToKafka(w)
  \/ BufferStep
  \/ LinkDown \/ LinkUp \/ Probe
  \/ \E m \in Message : Deliver(m) \/ DeliveryFails(m)
  \/ Crash

Spec == Init /\ [][Next]_vars

\* What has begun goes on: the event loop and the threads run, the retry
\* loop wakes up every thirty seconds, the monitor probes every five, the
\* client library delivers while it can, and an outage ends.  (No fairness
\* among the threads, or among the messages, is needed.)
Fairness ==
  /\ WF_vars(Route)
  /\ WF_vars(StartRetry \/ RetrySend \/ RetryFlush \/ RetryMarkSent \/ RetryMarkFailed)
  /\ WF_vars(\E w \in Threads : PublishToKafka(w))
  /\ WF_vars(BufferStep /\ \E w \in Workers : AddStep(w))
  /\ WF_vars(LinkUp) /\ WF_vars(Probe)
  /\ WF_vars(\E m \in Message : Deliver(m))

FairSpec == Spec /\ Fairness

TypeOK ==
  /\ rows \subseteq Row
  /\ points \subseteq Readings
  /\ useDuckDB \in BOOLEAN
  /\ task \in [Workers -> {Idle} \union Adding \union Routing \union Retrying]
  /\ \A w \in Threads : task[w] \in {Idle} \union Adding
  /\ losses \subseteq Readings \X Reasons
  /\ faults \in 0..MaxFaults
  /\ stored \subseteq Readings
  /\ posts \in [Readings -> Nat]
  /\ background \subseteq Readings
  /\ link \in BOOLEAN /\ online \in BOOLEAN
  /\ outages \in 0..MaxOutages
  /\ queue \in [Message -> Nat]
  /\ streamed \subseteq Readings
  /\ sends \in [Readings -> Nat]

-----------------------------------------------------------------------------
(* Properties *)

Kept == InMemory \union Held \union points \union streamed

Accounted == Kept \union lost

\* A reading that was accepted is in the process's hands, in one of the two
\* databases of the buffer or in the topic, or it is known what became of it.
\* As long as no call fails, nobody cleans up and the process lives, that can
\* only be a full buffer, which refused it (the readings it has stay), or a
\* message that timed out after the buffer had let go of it: and this last
\* takes an outage.
NothingVanishes ==
  /\ stored \subseteq Accounted
  /\ faults = 0 => stored \subseteq Kept \union LostTo("full") \union LostTo("undelivered")
  /\ outages = 0 => LostTo("undelivered") = {}

\* Why NothingVanishes holds: a stub, wherever it is, has its point, and the
\* reading in a row that the retry is about to delete is safe elsewhere.
Backed(x) == x.form = "stub" => x.reading \in points

StubsHavePoints ==
  /\ \A x \in rows : Backed(x)
  /\ \A w \in Workers : task[w] \in Adding => Backed(task[w])
  /\ task[Loop] \in Retrying => \A x \in task[Loop].todo : Backed(x)

SentIsSafe ==
  At(Loop, "flush") \/ At(Loop, "mark") =>
    task[Loop].row.reading \in Queued \union points \union streamed \union lost

\* The workers that have passed the capacity check and will insert.
Storing == {w \in Workers : task[w].pc \in {"point", "insert"}}

\* The capacity check and the insert are two calls, and workers may pass the
\* check together: the buffer, with what is about to be stored, overshoots by
\* no more than the other workers, and one record for a check that failed.
NearlyBounded ==
  Cardinality(rows) + Cardinality(Storing)
    <= MaxBuffer + (Cardinality(Workers) - 1) + faults

\* A reading is sent at most once for each time it was posted, but for those
\* sends whose outcome a fault hid.
ResendOnlyAfterFault == \A r \in Readings : sends[r] <= posts[r] + faults

GivenUp(r) == \E x \in rows : x.reading = r /\ x.retries >= MaxRetries

\* Whatever outages there are in between, what was accepted and not put into
\* DuckDB gets into the topic in the end, or the service let go of it, or
\* gave up on it after too many retries.
EventuallyStreamed ==
  \A r \in Readings :
    r \in stored ~> r \in streamed \union points \union lost \/ GivenUp(r)

\* What the buffer sends to Kafka are the readings.
SentInFull == \A r \in Readings : queue[<<r, "stub">>] = 0

=============================================================================
