---------------------------- MODULE CommandPlane ----------------------------
(***************************************************************************)
(* Both command services at work on one `commands` table.                  *)
(***************************************************************************)
EXTENDS SecureCommandWorkflow, CommandControlService

ASSUME ServicesAssumption == Workflow \union Control = Procs
ASSUME DisjointAssumption == Workflow \intersect Control = {}

Next ==
  \/ \E p \in Procs : SharedStep(p)
  \/ \E p \in Workflow : WorkflowStep(p)
  \/ \E p \in Control : ControlStep(p)

Spec == Init /\ [][Next]_vars

\* A handler that has begun goes on while its process lives: the event loop
\* resumes every ready coroutine and the calls it makes return or raise
\* within their timeouts.  Requests, crashes and failing commits are never
\* obliged to happen.  The producer's thread delivers what it can.
Fairness ==
  /\ \A p \in Procs :
       /\ WF_vars(Commit(p)) /\ WF_vars(Flush(p))
       /\ \A c \in Ids : WF_vars(Deliver(p, c))
  /\ \A p \in Workflow :
       /\ WF_vars(StartSimulation(p)) /\ WF_vars(FinishSimulation(p))
       /\ WF_vars(ExecuteImmediately(p)) /\ WF_vars(WorkflowPublish(p))
  /\ \A p \in Control : WF_vars(ControlPublish(p))

FairSpec == Spec /\ Fairness

-----------------------------------------------------------------------------
(* Safety *)

Relayed(c) == \E p \in Procs : sent[p][c] > 0

\* Nobody commands the plant alone: whichever service sent it, in whatever
\* order the handlers of the two services read and wrote the row, a command
\* that was relayed, other than an emergency shutdown, has an approver and
\* the approver is not the requester.
TwoPersonRule ==
  \A c \in Ids :
    Relayed(c) /\ db[c].kind # "esd" =>
      db[c].approver \in Users \ {db[c].requester}

\* A row that says executed, in either column, was handed to a producer.
ExecutedWasSent ==
  \A c \in Ids :
    db[c].status = "executed" \/ db[c].stage = "executed" => Relayed(c)

StageRank == [requested |-> 0, two_fa_verified |-> 1,
              digital_twin_simulation |-> 2, simulation_approved |-> 3,
              executed |-> 4, rejected |-> 4, failed |-> 4]

\* A command never goes back to an earlier gate, and its end is final,
\* whatever the other service does to the row in between.
StageNeverGoesBack ==
  [][\A c \in Ids :
       Exists(c) /\ db'[c].stage # db[c].stage =>
         StageRank[db[c].stage] < StageRank[db'[c].stage]]_db

\* The control service executes a command at most once for each time it was
\* approved: once for approve_command and once for approve_simulation, which
\* writes status "approved" as well.
ApprovalSpentOnce ==
  \A p \in Control, c \in Ids :
    sent[p][c] <=
      IF StageRank[db[c].stage] < StageRank["simulation_approved"] THEN 1 ELSE 2

-----------------------------------------------------------------------------
(* Why TwoPersonRule holds: an invariant that every single step preserves *)

\* A row's approver, once somebody, stays somebody other than the requester.
RowSeconded(c) ==
  /\ db[c].approver \in Users => db[c].approver # db[c].requester
  /\ db[c].status = "approved" \/ db[c].stage = "simulation_approved" =>
       db[c].approver \in Users

Sendable(c) == Exists(c) /\ (db[c].kind = "esd" \/ db[c].approver \in Users)

\* A session's copy of a row may be old, but what it has of the approver the
\* row still has.
CopySound(c, snap) ==
  /\ Exists(c)
  /\ snap.status # "absent"
  /\ snap.approver \in Users => db[c].approver \in Users

\* The columns a handler is about to write keep RowSeconded, however much
\* the row has changed since it was read.
WriterSound(t) ==
  /\ CopySound(t.cmd, t.snap)
  /\ t.new.status # "absent"
  /\ t.new.approver # t.snap.approver =>
       t.new.approver \in Users \ {db[t.cmd].requester}
  /\ \/ t.new.status = "approved" /\ t.snap.status # "approved"
     \/ t.new.stage = "simulation_approved" /\ t.snap.stage # "simulation_approved"
     => t.new.approver \in Users
  /\ t.next = "publish" => Sendable(t.cmd)

ReaderSound(t) ==
  Exists(t.cmd) /\ (t.pc \in {"shutdown", "publish"} => Sendable(t.cmd))

Seconded ==
  /\ \A c \in Ids : RowSeconded(c)
  /\ \A c \in Ids : Relayed(c) => Sendable(c)
  /\ \A p \in Procs : task[p] \in Writer => WriterSound(task[p])
  /\ \A p \in Procs : task[p] \in Reader => ReaderSound(task[p])
  /\ \A s \in sims : CopySound(s.cmd, s.snap)

\* Why ExecutedWasSent holds: "executed" is written by who has sent.
WriterHonest(t) ==
  \/ t.new.status = "executed" /\ t.snap.status # "executed"
  \/ t.new.stage = "executed" /\ t.snap.stage # "executed"
  => Relayed(t.cmd)

Honest ==
  /\ ExecutedWasSent
  /\ \A p \in Procs : task[p] \in Writer => WriterHonest(task[p])

-----------------------------------------------------------------------------
(* The workflow when no other service touches its rows (Control = {}) *)

\* An operation is relayed only after a 2FA code, a simulation that came out
\* safe and an approval, and all three are still on its row.
GatesBeforeRelay ==
  \A c \in Ids :
    Relayed(c) /\ db[c].kind = "operation" =>
      /\ db[c].verified
      /\ db[c].sim = "safe"
      /\ db[c].approver \in Users

\* The two columns that describe a command's progress tell one story.
ColumnsAgree ==
  \A c \in Ids :
    LET status == db[c].status stage == db[c].stage IN
    /\ status = "approved" => stage = "simulation_approved"
    /\ status = "executing" =>
         stage = "simulation_approved" \/ db[c].kind = "esd"
    /\ status \in {"executed", "rejected", "failed"} <=>
         stage \in {"executed", "rejected", "failed"}
    /\ stage \in {"executed", "rejected", "failed"} => status = stage

\* A second relay of a command takes a fault that hid the first one.
ResendOnlyAfterFault ==
  \A p \in Workflow, c \in Ids : sent[p][c] <= 1 + faults

\* "failed" means that SCADA was not told, unless a fault hid an earlier try.
FailedWasNotSent ==
  \A c \in Ids : db[c].status = "failed" => ~Relayed(c) \/ faults > 0

\* While Kafka works, a command that is not an emergency shutdown is called
\* executed only once it is in the topic: flush() comes before the commit.
ExecutedReachedTopic ==
  \A c \in Ids :
    db[c].status = "executed" /\ db[c].kind # "esd" => topic[c] > 0

Gate == INSTANCE CommandGate WITH
  phase <- [c \in Ids |-> IF Exists(c) THEN db[c].stage ELSE "absent"],
  urgent <- {c \in Ids : db[c].kind = "esd"},
  relayed <- {c \in Ids : Relayed(c)}

\* The workflow, with its processes, sessions and crashes, implements the
\* gate: every step it takes is a step of the gate or changes none of it.
ImplementsGate == Gate!GateSpec

\* The two transient states of a row, in which only a running handler can
\* take it further.
InHand(c) ==
  \/ Exists(c) /\ db[c].stage = "two_fa_verified"
  \/ db[c].status = "executing"

\* Without a fault, what a handler has begun it ends.
NothingLeftHanging == \A c \in Ids : InHand(c) ~> ~InHand(c) \/ faults > 0

\* "it survives process restarts": also after a crash a command that passed
\* 2FA gets its simulation, or is rejected.
SurvivesRestarts ==
  \A c \in Ids :
    db[c].stage = "two_fa_verified" ~> db[c].stage # "two_fa_verified"

=============================================================================
