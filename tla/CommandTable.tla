---------------------------- MODULE CommandTable ----------------------------
(***************************************************************************)
(* What the two command services share: the `commands` table of the main   *)
(* database, the SQLAlchemy session through which a request handler reads  *)
(* and writes one row of it, and the Kafka producer that relays a command  *)
(* to SCADA.                                                               *)
(*                                                                         *)
(* A service process runs one asyncio event loop.  Its handlers are        *)
(* `async def' but make synchronous database and Kafka calls, so a handler *)
(* holds the loop from one `await' to the next: a process has at most one  *)
(* handler in progress, in task[p].  Handlers of different processes       *)
(* interleave at every database or Kafka call.                             *)
(***************************************************************************)
EXTENDS Naturals, FiniteSets

CONSTANTS
  Procs,          \* the service processes that share the database
  Ids,            \* command ids (`command_id', unique in the table)
  Users,          \* the users with a role that may issue commands
  Admins,         \* those of them with the role system_admin
  TwoFactorUsers, \* those of them who have enrolled in 2FA
  Nobody,         \* NULL in the user columns of a row
  BrokerFaults,   \* TRUE when Kafka may be slow or refuse a message
  MaxFaults       \* bound on crashes and failed commits

ASSUME UsersAssumption ==
  /\ Admins \subseteq Users
  /\ TwoFactorUsers \subseteq Users
  /\ Nobody \notin Users
ASSUME BrokerAssumption == BrokerFaults \in BOOLEAN
ASSUME FaultsAssumption == MaxFaults \in Nat

VARIABLES
  db,      \* the committed rows: [Ids -> Row]
  task,    \* the handler each event loop is in the middle of
  sims,    \* the handlers suspended on the digital twin's answer
  outbox,  \* messages in each process's producer queue, per command
  topic,   \* messages of each command in the control topics
  sent,    \* history: successful send() calls of each process, per command
  faults   \* crashes and failed commits so far

vars == <<db, task, sims, outbox, topic, sent, faults>>

-----------------------------------------------------------------------------
(* Rows and handlers *)

Status == {"absent", "pending", "approved", "executing", "executed",
           "rejected", "failed"}

Stage == {"requested", "two_fa_verified", "digital_twin_simulation",
          "simulation_approved", "executed", "rejected", "failed"}

\* kind stands for command_type and critical: an operation of the remote
\* operations service, a command of the command control service, or an
\* emergency shutdown (the only rows written with critical = TRUE).
Row == [kind      : {"operation", "command", "esd"},
        requester : Users \union {Nobody},
        status    : Status,
        stage     : Stage,
        approver  : Users \union {Nobody},
        verified  : BOOLEAN,                    \* two_fa_verified_at is set
        sim       : {"none", "safe", "unsafe"}] \* simulation_result

\* Mutant: the stage's default in the status column.
NewRow_StageAsStatus(kind, u) ==
  [kind |-> kind, requester |-> u, status |-> "requested", stage |-> "requested",
   approver |-> Nobody, verified |-> FALSE, sim |-> "none"]

NewRow(kind, u) ==
  [kind |-> kind, requester |-> u, status |-> "pending", stage |-> "requested",
   approver |-> Nobody, verified |-> FALSE, sim |-> "none"]

\* Status "absent" marks an id the table has no row of.
NoRow == [NewRow("command", Nobody) EXCEPT !.status = "absent"]

Exists(c) == db[c].status # "absent"

Idle == [pc |-> "idle"]

\* A handler about to read row cmd (again), before a step of its own.
Reader == [pc : {"simulate", "shutdown", "publish"}, cmd : Ids]

\* A handler with changes to write: snap is the row as the session loaded
\* it, new the object's attributes now, next what follows their commit.
Writer == [pc   : {"commit", "flush"},
           cmd  : Ids,
           snap : Row,
           new  : Row,
           next : {"done", "simulate", "publish"}]

Suspended == [proc : Procs, cmd : Ids, snap : Row]

Free(p) == task[p] = Idle

At(p, pc) == ~Free(p) /\ task[p].pc = pc

-----------------------------------------------------------------------------
(* The session *)

\* The handler has changed the object it loaded as `snap' to `new' and
\* calls db.commit(); another process may commit before that takes effect.
Write(p, pc, c, snap, new, next) ==
  task' = [task EXCEPT ![p] = [pc |-> pc, cmd |-> c, snap |-> snap,
                               new |-> new, next |-> next]]

\* A unit of work updates the columns whose attribute differs from what was
\* loaded and leaves the others to whoever wrote them last.
Column(loaded, value, current) == IF value # loaded THEN value ELSE current

\* Mutant: every column is written back, changed or not.
Flushed_WholeRow(t, row) == t.new

Flushed(t, row) ==
  [kind      |-> row.kind,
   requester |-> row.requester,
   status    |-> Column(t.snap.status, t.new.status, row.status),
   stage     |-> Column(t.snap.stage, t.new.stage, row.stage),
   approver  |-> Column(t.snap.approver, t.new.approver, row.approver),
   verified  |-> Column(t.snap.verified, t.new.verified, row.verified),
   sim       |-> Column(t.snap.sim, t.new.sim, row.sim)]

Resume(t) == IF t.next = "done" THEN Idle ELSE [pc |-> t.next, cmd |-> t.cmd]

Commit(p) ==
  /\ At(p, "commit")
  /\ db' = [db EXCEPT ![task[p].cmd] = Flushed(task[p], @)]
  /\ task' = [task EXCEPT ![p] = Resume(@)]
  /\ UNCHANGED <<sims, outbox, topic, sent, faults>>

\* An INSERT.  One of an id that exists fails on the unique index: the
\* request ends in an error and nothing changes.
Insert(p, c, row) ==
  /\ Free(p)
  /\ ~Exists(c)
  /\ db' = [db EXCEPT ![c] = row]

-----------------------------------------------------------------------------
(* The producer: send() queues, the client library delivers in background *)

Send(p, c) ==
  /\ outbox' = [outbox EXCEPT ![p][c] = @ + 1]
  /\ sent' = [sent EXCEPT ![p][c] = @ + 1]

\* Mutant: an exception of send() is logged and goes no further.
Publish_ErrorSwallowed(p, c, executed, failed) ==
  /\ Send(p, c) \/ UNCHANGED <<outbox, sent>>
  /\ Write(p, "flush", c, db[c], executed, "done")
  /\ UNCHANGED <<db, sims, topic, faults>>

\* Mutant: an exception may also come after send() has queued the message.
Publish_FailsAfterSend(p, c, executed, failed) ==
  /\ Send(p, c)
  /\ \/ Write(p, "flush", c, db[c], executed, "done")
     \/ Write(p, "commit", c, db[c], failed, "done")
  /\ UNCHANGED <<db, sims, topic, faults>>

\* Mutant: the producer is not flushed before the result is recorded.
Publish_NotFlushed(p, c, executed, failed) ==
  \/ /\ Send(p, c)
     /\ Write(p, "commit", c, db[c], executed, "done")
     /\ UNCHANGED <<db, sims, topic, faults>>
  \/ /\ Write(p, "commit", c, db[c], failed, "done")
     /\ UNCHANGED <<db, sims, outbox, topic, sent, faults>>

\* The two ways a handler's _publish ends.  Rows written with critical set
\* take the low-latency producer, which is not flushed; send() raises when
\* the queue is full, the message cannot be encoded or there is no producer.
Publish(p, c, executed, failed) ==
  \/ /\ Send(p, c)
     /\ Write(p, IF db[c].kind = "esd" THEN "commit" ELSE "flush",
              c, db[c], executed, "done")
     /\ UNCHANGED <<db, sims, topic, faults>>
  \/ /\ Write(p, "commit", c, db[c], failed, "done")
     /\ UNCHANGED <<db, sims, outbox, topic, sent, faults>>

\* flush(10) returns when the queue is empty or, without an error, when the
\* ten seconds have passed.
Flush(p) ==
  /\ At(p, "flush")
  /\ BrokerFaults \/ \A c \in Ids : outbox[p][c] = 0
  /\ task' = [task EXCEPT ![p].pc = "commit"]
  /\ UNCHANGED <<db, sims, outbox, topic, sent, faults>>

Deliver(p, c) ==
  /\ outbox[p][c] > 0
  /\ outbox' = [outbox EXCEPT ![p][c] = @ - 1]
  /\ topic' = [topic EXCEPT ![c] = @ + 1]
  /\ UNCHANGED <<db, task, sims, sent, faults>>

\* delivery_callback logs the error and tells nobody.
DeliveryFails(p, c) ==
  /\ BrokerFaults
  /\ outbox[p][c] > 0
  /\ outbox' = [outbox EXCEPT ![p][c] = @ - 1]
  /\ UNCHANGED <<db, task, sims, topic, sent, faults>>

-----------------------------------------------------------------------------
(* Faults *)

\* The process dies and is started again: its handlers, suspended or not,
\* and its producer queue are gone.
Crash(p) ==
  /\ faults < MaxFaults
  /\ faults' = faults + 1
  /\ task' = [task EXCEPT ![p] = Idle]
  /\ sims' = {s \in sims : s.proc # p}
  /\ outbox' = [outbox EXCEPT ![p] = [c \in Ids |-> 0]]
  /\ UNCHANGED <<db, topic, sent>>

\* db.commit() raises: the request ends in an error, the row stays as it was.
CommitFails(p) ==
  /\ At(p, "commit")
  /\ faults < MaxFaults
  /\ faults' = faults + 1
  /\ task' = [task EXCEPT ![p] = Idle]
  /\ UNCHANGED <<db, sims, outbox, topic, sent>>

-----------------------------------------------------------------------------
Init ==
  /\ db = [c \in Ids |-> NoRow]
  /\ task = [p \in Procs |-> Idle]
  /\ sims = {}
  /\ outbox = [p \in Procs |-> [c \in Ids |-> 0]]
  /\ topic = [c \in Ids |-> 0]
  /\ sent = [p \in Procs |-> [c \in Ids |-> 0]]
  /\ faults = 0

\* The steps every service process takes whatever handler it runs.
SharedStep(p) ==
  \/ Commit(p) \/ Flush(p)
  \/ Crash(p) \/ CommitFails(p)
  \/ \E c \in Ids : Deliver(p, c) \/ DeliveryFails(p, c)

TypeOK ==
  /\ db \in [Ids -> Row]
  /\ task \in [Procs -> {Idle} \union Reader \union Writer]
  /\ sims \subseteq Suspended
  /\ outbox \in [Procs -> [Ids -> Nat]]
  /\ topic \in [Ids -> Nat]
  /\ sent \in [Procs -> [Ids -> Nat]]
  /\ faults \in 0..MaxFaults

=============================================================================
