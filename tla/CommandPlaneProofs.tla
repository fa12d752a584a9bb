-------------------------- MODULE CommandPlaneProofs --------------------------
(***************************************************************************)
(* Theorems about CommandPlane for every set of processes, commands and    *)
(* users and every bound on faults.                                        *)
(***************************************************************************)
EXTENDS CommandPlane, TLAPS

-----------------------------------------------------------------------------
(* Type correctness *)

LEMMA NewRowType ==
  ASSUME NEW kind \in {"operation", "command", "esd"}, NEW u \in Users \union {Nobody}
  PROVE  NewRow(kind, u) \in Row
BY DEF NewRow, Row, Status, Stage

LEMMA NoRowType == NoRow \in Row
BY NewRowType DEF NoRow, NewRow, Row, Status

\* The assignments the handlers make to a loaded object.
LEMMA EditType ==
  ASSUME NEW row \in Row, NEW status \in Status, NEW stage \in Stage
  PROVE  /\ [row EXCEPT !.status = status] \in Row
         /\ [row EXCEPT !.stage = stage, !.status = status] \in Row
BY DEF Row

LEMMA ConcludedRow ==
  ASSUME NEW row \in Row, NEW end \in {"executed", "failed"}
  PROVE  \E new \in Row :
           /\ new = [row EXCEPT !.stage = end, !.status = end]
           /\ new.approver = row.approver
           /\ new.stage = end
           /\ new.status = end
<1> DEFINE new == [row EXCEPT !.stage = end, !.status = end]
<1>1. new \in Row
  BY EditType DEF Status, Stage
<1>2. new.approver = row.approver /\ new.stage = end /\ new.status = end
  BY DEF Row
<1> QED
  BY <1>1, <1>2

\* A flush of a handler's changes to a row yields a row.
LEMMA FlushedType ==
  ASSUME NEW t \in Writer, NEW row \in Row
  PROVE  Flushed(t, row) \in Row
BY DEF Flushed, Column, Writer, Row

LEMMA ResumeType ==
  ASSUME NEW t \in Writer
  PROVE  Resume(t) \in {Idle} \union Reader
BY DEF Resume, Writer, Reader

\* The process counters of a handler in progress point into the two record
\* sets, so that a step may use its fields.
LEMMA AtType ==
  ASSUME TypeOK, NEW p \in Procs
  PROVE  /\ At(p, "commit") => task[p] \in Writer
         /\ At(p, "flush") => task[p] \in Writer
         /\ At(p, "simulate") => task[p] \in Reader
         /\ At(p, "shutdown") => task[p] \in Reader
         /\ At(p, "publish") => task[p] \in Reader
BY DEF TypeOK, At, Free, Idle, Reader, Writer

LEMMA WriteType ==
  ASSUME TypeOK, NEW p \in Procs, NEW c \in Ids,
         NEW pc \in {"commit", "flush"}, NEW snap \in Row, NEW new \in Row,
         NEW next \in {"done", "simulate", "publish"},
         Write(p, pc, c, snap, new, next)
  PROVE  task' \in [Procs -> {Idle} \union Reader \union Writer]
BY DEF TypeOK, Write, Writer

LEMMA SendType ==
  ASSUME TypeOK, NEW p \in Procs, NEW c \in Ids, Send(p, c)
  PROVE  /\ outbox' \in [Procs -> [Ids -> Nat]]
         /\ sent' \in [Procs -> [Ids -> Nat]]
BY DEF TypeOK, Send

LEMMA PublishType ==
  ASSUME TypeOK, NEW p \in Procs, NEW c \in Ids,
         NEW executed \in Row, NEW failed \in Row,
         Publish(p, c, executed, failed)
  PROVE  TypeOK'
<1> db[c] \in Row
  BY DEF TypeOK
<1>1. CASE /\ Send(p, c)
           /\ Write(p, IF db[c].kind = "esd" THEN "commit" ELSE "flush",
                    c, db[c], executed, "done")
           /\ UNCHANGED <<db, sims, topic, faults>>
  BY <1>1, SendType, WriteType DEF TypeOK
<1>2. CASE /\ Write(p, "commit", c, db[c], failed, "done")
           /\ UNCHANGED <<db, sims, outbox, topic, sent, faults>>
  BY <1>2, WriteType DEF TypeOK
<1> QED
  BY <1>1, <1>2 DEF Publish

LEMMA SharedType ==
  ASSUME TypeOK, NEW p \in Procs, SharedStep(p)
  PROVE  TypeOK'
<1>1. CASE Commit(p)
  <2> task[p] \in Writer /\ task[p].cmd \in Ids
    BY <1>1, AtType DEF Commit, Writer
  <2>1. db' \in [Ids -> Row]
    BY <1>1, FlushedType DEF Commit, TypeOK
  <2>2. task' \in [Procs -> {Idle} \union Reader \union Writer]
    BY <1>1, ResumeType DEF Commit, TypeOK
  <2> QED
    BY <1>1, <2>1, <2>2 DEF Commit, TypeOK
<1>2. CASE Flush(p)
  <2> task[p] \in Writer
    BY <1>2, AtType DEF Flush
  <2>1. [task[p] EXCEPT !.pc = "commit"] \in Writer
    BY DEF Writer
  <2> QED
    BY <1>2, <2>1 DEF Flush, TypeOK
<1>3. CASE Crash(p)
  BY <1>3, FaultsAssumption DEF Crash, TypeOK
<1>4. CASE CommitFails(p)
  BY <1>4, FaultsAssumption DEF CommitFails, TypeOK
<1>5. CASE \E c \in Ids : Deliver(p, c)
  BY <1>5 DEF Deliver, TypeOK
<1>6. CASE \E c \in Ids : DeliveryFails(p, c)
  BY <1>6 DEF DeliveryFails, TypeOK
<1> QED
  BY <1>1, <1>2, <1>3, <1>4, <1>5, <1>6 DEF SharedStep

LEMMA WorkflowType ==
  ASSUME TypeOK, NEW p \in Procs, WorkflowStep(p)
  PROVE  TypeOK'
<1>1. CASE StartSimulation(p)
  <2> task[p] \in Reader /\ task[p].cmd \in Ids
    BY <1>1, AtType DEF StartSimulation, Reader
  <2> QED
    BY <1>1 DEF StartSimulation, TypeOK, Suspended
<1>2. CASE FinishSimulation(p)
  <2>1. PICK s \in sims :
          /\ sims' = sims \ {s}
          /\ \/ \E result \in {"safe", "unsafe"} :
                  Write(p, "commit", s.cmd, s.snap,
                        [s.snap EXCEPT !.stage = "digital_twin_simulation",
                                       !.sim = result], "done")
             \/ Write(p, "commit", s.cmd, s.snap,
                      [s.snap EXCEPT !.stage = "rejected",
                                     !.status = "rejected"], "done")
    BY <1>2 DEF FinishSimulation
  <2> s.cmd \in Ids /\ s.snap \in Row
    BY DEF TypeOK, Suspended
  <2>2. \A result \in {"safe", "unsafe"} :
          [s.snap EXCEPT !.stage = "digital_twin_simulation", !.sim = result] \in Row
    BY DEF Row, Stage
  <2>3. [s.snap EXCEPT !.stage = "rejected", !.status = "rejected"] \in Row
    BY DEF Row, Stage, Status
  <2>4. task' \in [Procs -> {Idle} \union Reader \union Writer]
    BY <2>1, <2>2, <2>3, WriteType
  <2> QED
    BY <1>2, <2>1, <2>4 DEF FinishSimulation, TypeOK
<1>3. CASE ExecuteImmediately(p)
  <2> task[p].cmd \in Ids
    BY <1>3, AtType DEF ExecuteImmediately, Reader
  <2> db[task[p].cmd] \in Row
    BY DEF TypeOK
  <2>1. [db[task[p].cmd] EXCEPT !.status = "executing"] \in Row
    BY DEF Row, Status
  <2> QED
    BY <1>3, <2>1, WriteType DEF ExecuteImmediately, TypeOK
<1>4. CASE WorkflowPublish(p)
  <2> DEFINE c == task[p].cmd
  <2>1. c \in Ids
    BY <1>4, AtType DEF WorkflowPublish, Reader
  <2> db[c] \in Row
    BY <2>1 DEF TypeOK
  <2>2. /\ [db[c] EXCEPT !.stage = "executed", !.status = "executed"] \in Row
        /\ [db[c] EXCEPT !.stage = "failed", !.status = "failed"] \in Row
    <3> HIDE DEF c
    <3> QED
      BY EditType DEF Status, Stage
  <2> QED
    BY <1>4, <2>1, <2>2, PublishType DEF WorkflowPublish
<1>5. CASE \E c \in Ids : ExecuteCommand(p, c)
  <2> PICK c \in Ids : ExecuteCommand(p, c)
    BY <1>5
  <2>1. db[c] \in Row /\ [db[c] EXCEPT !.status = "executing"] \in Row
    BY ZenonT(60) DEF TypeOK, Row, Status
  <2> QED
    BY <2>1, WriteType DEF ExecuteCommand, TypeOK
<1>6. CASE \E c \in Ids, u \in Users : InitiateCommand(p, u, c)
  BY <1>6, NewRowType DEF InitiateCommand, Insert, TypeOK
<1>7. CASE \E c \in Ids, u \in Users : VerifyTwoFactor(p, u, c)
  <2> PICK c \in Ids, u \in Users : VerifyTwoFactor(p, u, c)
    BY <1>7
  <2>1. /\ db[c] \in Row
        /\ [db[c] EXCEPT !.stage = "two_fa_verified", !.verified = TRUE] \in Row
        /\ [db[c] EXCEPT !.stage = "rejected", !.status = "rejected"] \in Row
    BY ZenonT(60) DEF TypeOK, Row, Status, Stage
  <2> QED
    BY <2>1, WriteType DEF VerifyTwoFactor, TypeOK
<1>8. CASE \E c \in Ids, u \in Users : ApproveSimulation(p, u, c)
  <2> PICK c \in Ids, u \in Users : ApproveSimulation(p, u, c)
    BY <1>8
  <2>1. /\ db[c] \in Row
        /\ [db[c] EXCEPT !.stage = "rejected", !.status = "rejected"] \in Row
        /\ [db[c] EXCEPT !.stage = "simulation_approved",
                          !.status = "approved", !.approver = u] \in Row
    BY ZenonT(60) DEF TypeOK, Row, Status, Stage
  <2> QED
    BY <2>1, WriteType DEF ApproveSimulation, TypeOK
<1>9. CASE \E c \in Ids, u \in Users : EmergencyShutdown(p, u, c)
  BY <1>9, NewRowType DEF EmergencyShutdown, Insert, TypeOK, Reader
<1> QED
  BY <1>1, <1>2, <1>3, <1>4, <1>5, <1>6, <1>7, <1>8, <1>9 DEF WorkflowStep

LEMMA ControlType ==
  ASSUME TypeOK, NEW p \in Procs, ControlStep(p)
  PROVE  TypeOK'
<1>1. CASE ControlPublish(p)
  <2> DEFINE c == task[p].cmd
  <2>1. c \in Ids
    BY <1>1, AtType DEF ControlPublish, Reader
  <2> db[c] \in Row
    BY <2>1 DEF TypeOK
  <2>2. /\ [db[c] EXCEPT !.status = "executed"] \in Row
        /\ [db[c] EXCEPT !.status = "failed"] \in Row
    <3> HIDE DEF c
    <3> "requested" \in Stage
      BY DEF Stage
    <3> QED
      BY EditType DEF Status
  <2> QED
    BY <1>1, <2>1, <2>2, PublishType DEF ControlPublish
<1>2. CASE \E c \in Ids : ExecuteApproved(p, c)
  <2> PICK c \in Ids : ExecuteApproved(p, c)
    BY <1>2
  <2>1. db[c] \in Row /\ [db[c] EXCEPT !.status = "executing"] \in Row
    BY ZenonT(60) DEF TypeOK, Row, Status
  <2> QED
    BY <2>1, WriteType DEF ExecuteApproved, TypeOK
<1>3. CASE \E c \in Ids, u \in Users : CreateCommand(p, u, c)
  BY <1>3, NewRowType DEF CreateCommand, Insert, TypeOK
<1>4. CASE \E c \in Ids, u \in Users : ApproveCommand(p, u, c)
  <2> PICK c \in Ids, u \in Users : ApproveCommand(p, u, c)
    BY <1>4
  <2>1. /\ db[c] \in Row
        /\ [db[c] EXCEPT !.status = "approved", !.approver = u] \in Row
    BY ZenonT(60) DEF TypeOK, Row, Status
  <2> QED
    BY <2>1, WriteType DEF ApproveCommand, TypeOK
<1> QED
  BY <1>1, <1>2, <1>3, <1>4 DEF ControlStep

\* Whatever the two services do, rows, handlers, suspended simulations and
\* message counts keep their types.
THEOREM TypeCorrect == Spec => []TypeOK
<1>1. Init => TypeOK
  BY NoRowType, FaultsAssumption DEF Init, TypeOK, Idle
<1>2. TypeOK /\ [Next]_vars => TypeOK'
  <2> SUFFICES ASSUME TypeOK, [Next]_vars PROVE TypeOK'
    OBVIOUS
  <2>1. CASE \E p \in Procs : SharedStep(p)
    BY <2>1, SharedType
  <2>2. CASE \E p \in Workflow : WorkflowStep(p)
    BY <2>2, WorkflowType, WorkflowAssumption
  <2>3. CASE \E p \in Control : ControlStep(p)
    BY <2>3, ControlType, ControlAssumption
  <2>4. CASE UNCHANGED vars
    BY <2>4 DEF vars, TypeOK
  <2> QED
    BY <2>1, <2>2, <2>3, <2>4 DEF Next
<1> QED
  BY <1>1, <1>2, PTL DEF Spec

-----------------------------------------------------------------------------
(* The two-person rule *)

\* How a step may change the rows that exist: they stay, their kind and
\* requester with them, and an approver is not taken back.  Row by row this
\* is all the other processes' sessions rely on.
RowsKept ==
  \A c \in Ids : Exists(c) =>
    /\ Exists(c)'
    /\ db'[c].kind = db[c].kind
    /\ db'[c].requester = db[c].requester
    /\ db[c].approver \in Users => db'[c].approver \in Users

\* What sessions and handlers rely on survives every step that keeps rows.
LEMMA SoundnessKept ==
  ASSUME TypeOK, RowsKept
  PROVE  /\ \A c \in Ids : Sendable(c) => Sendable(c)'
         /\ \A c \in Ids, snap \in Row : CopySound(c, snap) => CopySound(c, snap)'
         /\ \A t \in Writer : WriterSound(t) => WriterSound(t)'
         /\ \A t \in Reader : ReaderSound(t) => ReaderSound(t)'
<1>1. \A c \in Ids : Sendable(c) => Sendable(c)'
  BY DEF RowsKept, Sendable
<1>2. \A c \in Ids, snap \in Row : CopySound(c, snap) => CopySound(c, snap)'
  BY DEF RowsKept, CopySound
<1>3. ASSUME NEW t \in Writer, WriterSound(t)
      PROVE  WriterSound(t)'
  <2> t.cmd \in Ids /\ t.snap \in Row
    BY DEF Writer
  <2>1. CopySound(t.cmd, t.snap)' /\ Exists(t.cmd)
    BY <1>2, <1>3 DEF WriterSound, CopySound
  <2>2. db'[t.cmd].requester = db[t.cmd].requester
    BY <2>1 DEF RowsKept
  <2>3. t.next = "publish" => Sendable(t.cmd)'
    BY <1>1, <1>3 DEF WriterSound
  <2> QED
    BY <1>3, <2>1, <2>2, <2>3 DEF WriterSound
<1>4. ASSUME NEW t \in Reader, ReaderSound(t)
      PROVE  ReaderSound(t)'
  <2> t.cmd \in Ids
    BY DEF Reader
  <2> QED
    BY <1>1, <1>4 DEF ReaderSound, RowsKept
<1> QED
  BY <1>1, <1>2, <1>3, <1>4

\* The frame of a step: rows kept and well seconded, at most the handler of p
\* changed, suspended copies old or sound, nothing sent that may not be.
LEMMA SecondedStep ==
  ASSUME TypeOK, TypeOK', Seconded, NEW p \in Procs,
         RowsKept,
         \A c \in Ids : RowSeconded(c)',
         \A q \in Procs : q # p => task'[q] = task[q],
         task'[p] \in Writer => WriterSound(task[p])',
         task'[p] \in Reader => ReaderSound(task[p])',
         \A s \in sims' : s \in sims \/ CopySound(s.cmd, s.snap)',
         \A c \in Ids : Relayed(c)' => Relayed(c) \/ Sendable(c)
  PROVE  Seconded'
<1>1. \A q \in Procs : task'[q] \in Writer => WriterSound(task[q])'
  <2> SUFFICES ASSUME NEW q \in Procs, q # p, task'[q] \in Writer
               PROVE  WriterSound(task[q])'
    OBVIOUS
  <2>1. task[q] \in Writer /\ WriterSound(task[q])
    BY DEF Seconded
  <2>2. PICK t \in Writer : t = task[q]
    BY <2>1
  <2>3. WriterSound(t)'
    BY <2>1, <2>2, SoundnessKept
  <2> QED
    BY <2>2, <2>3 DEF WriterSound, CopySound, Sendable, Exists
<1>2. \A q \in Procs : task'[q] \in Reader => ReaderSound(task[q])'
  <2> SUFFICES ASSUME NEW q \in Procs, q # p, task'[q] \in Reader
               PROVE  ReaderSound(task[q])'
    OBVIOUS
  <2>1. task[q] \in Reader /\ ReaderSound(task[q])
    BY DEF Seconded
  <2>2. PICK t \in Reader : t = task[q]
    BY <2>1
  <2>3. ReaderSound(t)'
    BY <2>1, <2>2, SoundnessKept
  <2> QED
    BY <2>2, <2>3 DEF ReaderSound, Sendable, Exists
<1>3. \A s \in sims' : CopySound(s.cmd, s.snap)'
  <2> SUFFICES ASSUME NEW s \in sims', s \in sims
               PROVE  CopySound(s.cmd, s.snap)'
    OBVIOUS
  <2>1. s.cmd \in Ids /\ s.snap \in Row
    BY DEF TypeOK, Suspended
  <2> QED
    BY <2>1, SoundnessKept DEF Seconded
<1>4. \A c \in Ids : Relayed(c)' => Sendable(c)'
  BY SoundnessKept DEF Seconded
<1> QED
  BY <1>1, <1>2, <1>3, <1>4 DEF Seconded

\* A step that leaves the table alone keeps its rows.
LEMMA TableUntouched ==
  ASSUME Seconded, UNCHANGED db
  PROVE  RowsKept /\ \A c \in Ids : RowSeconded(c)'
BY DEF Seconded, RowsKept, RowSeconded, Exists

\* What a handler loads now is sound, and so is what it changes it to when it
\* keeps the approver and does not approve.
LEMMA FreshCopy ==
  ASSUME TypeOK, Seconded, NEW c \in Ids, Exists(c)
  PROVE  CopySound(c, db[c])
BY DEF CopySound, Exists

\* A handler that has just written its changes to the session, in a step that
\* leaves the table alone.
LEMMA WriteSeconded ==
  ASSUME TypeOK, TypeOK', Seconded, UNCHANGED db,
         NEW p \in Procs, NEW c \in Ids, NEW pc \in {"commit", "flush"},
         NEW snap \in Row, NEW new \in Row,
         NEW next \in {"done", "simulate", "publish"},
         Write(p, pc, c, snap, new, next),
         CopySound(c, snap),
         new.status # "absent",
         new.approver # snap.approver =>
           new.approver \in Users \ {db[c].requester},
         (\/ new.status = "approved" /\ snap.status # "approved"
          \/ /\ new.stage = "simulation_approved"
             /\ snap.stage # "simulation_approved") => new.approver \in Users,
         next = "publish" => Sendable(c),
         sims' \subseteq sims,
         \A d \in Ids : Relayed(d)' => Relayed(d) \/ Sendable(d)
  PROVE  Seconded'
<1>1. task'[p] = [pc |-> pc, cmd |-> c, snap |-> snap, new |-> new, next |-> next]
  BY DEF Write, TypeOK
<1>2. \A q \in Procs : q # p => task'[q] = task[q]
  BY DEF Write, TypeOK
<1>3. WriterSound(task[p])'
  BY <1>1 DEF WriterSound, CopySound, Sendable, Exists
<1>4. task'[p] \notin Reader
  BY <1>1 DEF Reader
<1> QED
  BY <1>2, <1>3, <1>4, TableUntouched, SecondedStep

LEMMA PublishSeconded ==
  ASSUME TypeOK, TypeOK', Seconded,
         NEW p \in Procs, NEW c \in Ids, Sendable(c),
         NEW executed \in Row, NEW failed \in Row,
         executed.approver = db[c].approver, failed.approver = db[c].approver,
         executed.status \notin {"absent", "approved"},
         failed.status \notin {"absent", "approved"},
         executed.stage \in {db[c].stage, "executed"},
         failed.stage \in {db[c].stage, "failed"},
         Publish(p, c, executed, failed)
  PROVE  Seconded'
<1> db[c] \in Row /\ UNCHANGED <<db, sims>>
  BY DEF TypeOK, Publish
<1> CopySound(c, db[c])
  BY FreshCopy DEF Sendable
<1>1. CASE /\ Send(p, c)
           /\ Write(p, IF db[c].kind = "esd" THEN "commit" ELSE "flush",
                    c, db[c], executed, "done")
  <2>1. \A d \in Ids : Relayed(d)' => Relayed(d) \/ Sendable(d)
    BY <1>1 DEF Relayed, Send, TypeOK
  <2> QED
    BY <1>1, <2>1, WriteSeconded
<1>2. CASE Write(p, "commit", c, db[c], failed, "done") /\ UNCHANGED sent
  <2>1. \A d \in Ids : Relayed(d)' => Relayed(d)
    BY <1>2 DEF Relayed
  <2> QED
    BY <1>2, <2>1, WriteSeconded
<1> QED
  BY <1>1, <1>2 DEF Publish

\* Committing: the one step in which a stale copy meets a newer row.
LEMMA CommitSeconded ==
  ASSUME TypeOK, TypeOK', Seconded, NEW p \in Procs, Commit(p)
  PROVE  Seconded'
<1> PICK t \in Writer : t = task[p]
  BY AtType DEF Commit
<1> PICK c \in Ids : c = t.cmd
  BY DEF Writer
<1>1. WriterSound(t)
  BY DEF Seconded
<1>2. /\ db'[c] = Flushed(t, db[c])
      /\ \A d \in Ids : d # c => db'[d] = db[d]
      /\ db[c] \in Row
  BY <1>1 DEF Commit, TypeOK
<1>3. t.snap \in Row /\ t.new \in Row
  BY <1>1 DEF Writer
<1>4. /\ db'[c].kind = db[c].kind
      /\ db'[c].requester = db[c].requester
      /\ db'[c].status = Column(t.snap.status, t.new.status, db[c].status)
      /\ db'[c].stage = Column(t.snap.stage, t.new.stage, db[c].stage)
      /\ db'[c].approver = Column(t.snap.approver, t.new.approver, db[c].approver)
  BY <1>2 DEF Flushed
<1>5. RowsKept
  BY <1>1, <1>2, <1>4 DEF RowsKept, Exists, Column, WriterSound, CopySound
<1>6. RowSeconded(c)'
  <2>1. db'[c].approver \in Users => db'[c].approver # db'[c].requester
    BY <1>1, <1>4 DEF Column, WriterSound, Seconded, RowSeconded
  <2>2. db'[c].status = "approved" => db'[c].approver \in Users
    BY <1>1, <1>4, ZenonT(60) DEF Column, WriterSound, CopySound, Seconded, RowSeconded
  <2>3. db'[c].stage = "simulation_approved" => db'[c].approver \in Users
    BY <1>1, <1>4, ZenonT(60) DEF Column, WriterSound, CopySound, Seconded, RowSeconded
  <2> QED
    BY <2>1, <2>2, <2>3 DEF RowSeconded
<1>7. \A d \in Ids : RowSeconded(d)'
  BY <1>2, <1>6 DEF Seconded, RowSeconded
<1>8. /\ task'[p] = Resume(t)
      /\ \A q \in Procs : q # p => task'[q] = task[q]
  BY DEF Commit, TypeOK
<1>9. task'[p] \notin Writer
  BY <1>1, <1>8, ResumeType DEF Reader, Writer, Idle
<1>10. task'[p] \in Reader => ReaderSound(task[p])'
  <2> SUFFICES ASSUME task'[p] \in Reader PROVE ReaderSound(task[p])'
    OBVIOUS
  <2>1. /\ task'[p].cmd = c /\ task'[p].pc = t.next
        /\ t.next \in {"done", "simulate", "publish"}
    BY <1>1, <1>8 DEF Resume, Reader, Idle, Writer
  <2>2. Exists(c)'
    BY <1>1, <1>5 DEF RowsKept, WriterSound, CopySound
  <2>3. t.next = "publish" => Sendable(c)'
    BY <1>1, <1>5, SoundnessKept DEF WriterSound
  <2> QED
    BY <2>1, <2>2, <2>3 DEF ReaderSound, Sendable, Exists
<1>11. UNCHANGED <<sims, sent>>
  BY DEF Commit
<1> QED
  BY <1>5, <1>7, <1>8, <1>9, <1>10, <1>11, SecondedStep DEF Relayed

\* Inserting a row of an id nobody has used yet.
LEMMA InsertKeepsRows ==
  ASSUME TypeOK, Seconded, NEW p \in Procs, NEW c \in Ids,
         NEW kind \in {"operation", "command", "esd"}, NEW u \in Users,
         Insert(p, c, NewRow(kind, u))
  PROVE  /\ RowsKept
         /\ \A d \in Ids : RowSeconded(d)'
         /\ db'[c] = NewRow(kind, u)
<1>1. /\ ~Exists(c)
      /\ db'[c] = NewRow(kind, u)
      /\ \A d \in Ids : d # c => db'[d] = db[d]
  BY DEF Insert, TypeOK
<1>2. RowsKept
  BY <1>1 DEF RowsKept, Exists
<1>3. \A d \in Ids : RowSeconded(d)'
  BY <1>1, UsersAssumption DEF Seconded, RowSeconded, NewRow
<1> QED
  BY <1>1, <1>2, <1>3

\* Steps that change no row and send nothing, and at most drop handlers.
LEMMA QuietSeconded ==
  ASSUME TypeOK, TypeOK', Seconded, NEW p \in Procs, UNCHANGED <<db, sent>>,
         \A q \in Procs : q # p => task'[q] = task[q],
         task'[p] \in Writer => WriterSound(task[p])',
         task'[p] \notin Reader,
         \A s \in sims' : s \in sims \/ CopySound(s.cmd, s.snap)'
  PROVE  Seconded'
BY TableUntouched, SecondedStep DEF Relayed

LEMMA SharedSeconded ==
  ASSUME TypeOK, TypeOK', Seconded, NEW p \in Procs, SharedStep(p)
  PROVE  Seconded'
<1> Idle \notin Writer /\ Idle \notin Reader
  BY DEF Idle, Writer, Reader
<1>1. CASE Commit(p)
  BY <1>1, CommitSeconded
<1>2. CASE Flush(p)
  <2>1. PICK t \in Writer : t = task[p]
    BY <1>2, AtType DEF Flush
  <2>2. WriterSound(t)
    BY <2>1 DEF Seconded
  <2>3. /\ task'[p] = [t EXCEPT !.pc = "commit"]
        /\ \A q \in Procs : q # p => task'[q] = task[q]
        /\ UNCHANGED <<db, sims, sent>>
    BY <1>2, <2>1 DEF Flush, TypeOK
  <2>4. WriterSound(task[p])'
    BY <2>2, <2>3 DEF WriterSound, CopySound, Sendable, Exists, Writer
  <2>5. task'[p] \notin Reader
    BY <2>3 DEF Writer, Reader
  <2> QED
    BY <2>3, <2>4, <2>5, QuietSeconded
<1>3. CASE Crash(p)
  <2> /\ task'[p] = Idle
      /\ \A q \in Procs : q # p => task'[q] = task[q]
      /\ UNCHANGED <<db, sent>>
      /\ sims' \subseteq sims
    BY <1>3 DEF Crash, TypeOK
  <2> QED
    BY QuietSeconded
<1>4. CASE CommitFails(p)
  <2> /\ task'[p] = Idle
      /\ \A q \in Procs : q # p => task'[q] = task[q]
      /\ UNCHANGED <<db, sims, sent>>
    BY <1>4 DEF CommitFails, TypeOK
  <2> QED
    BY QuietSeconded
<1>5. CASE \E c \in Ids : Deliver(p, c) \/ DeliveryFails(p, c)
  <2>1. UNCHANGED <<db, task, sims, sent>>
    BY <1>5 DEF Deliver, DeliveryFails
  <2> QED
    BY <2>1 DEF Seconded, RowSeconded, Relayed, Sendable, WriterSound,
                ReaderSound, CopySound, Exists
<1> QED
  BY <1>1, <1>2, <1>3, <1>4, <1>5 DEF SharedStep

LEMMA WorkflowSeconded ==
  ASSUME TypeOK, TypeOK', Seconded, NEW p \in Procs, WorkflowStep(p)
  PROVE  Seconded'
<1>1. CASE StartSimulation(p)
  <2> PICK t \in Reader : t = task[p]
    BY <1>1, AtType DEF StartSimulation
  <2> t.cmd \in Ids
    BY DEF Reader
  <2>1. CopySound(t.cmd, db[t.cmd])
    BY FreshCopy DEF Seconded, ReaderSound
  <2>2. /\ task'[p] = Idle
        /\ \A q \in Procs : q # p => task'[q] = task[q]
        /\ UNCHANGED <<db, sent>>
        /\ sims' \subseteq sims \union {[proc |-> p, cmd |-> t.cmd, snap |-> db[t.cmd]]}
    BY <1>1 DEF StartSimulation, TypeOK
  <2>3. \A s \in sims' : s \in sims \/ CopySound(s.cmd, s.snap)'
    BY <2>1, <2>2 DEF CopySound, Exists
  <2> QED
    BY <2>2, <2>3, QuietSeconded DEF Idle, Writer, Reader
<1>2. CASE FinishSimulation(p)
  <2>1. PICK s \in sims :
          /\ sims' = sims \ {s}
          /\ \/ \E result \in {"safe", "unsafe"} :
                  Write(p, "commit", s.cmd, s.snap,
                        [s.snap EXCEPT !.stage = "digital_twin_simulation",
                                       !.sim = result], "done")
             \/ Write(p, "commit", s.cmd, s.snap,
                      [s.snap EXCEPT !.stage = "rejected",
                                     !.status = "rejected"], "done")
    BY <1>2 DEF FinishSimulation
  <2> s.cmd \in Ids /\ s.snap \in Row
    BY DEF TypeOK, Suspended
  <2>2. CopySound(s.cmd, s.snap)
    BY DEF Seconded
  <2>3. PICK new \in Row :
          /\ Write(p, "commit", s.cmd, s.snap, new, "done")
          /\ new.approver = s.snap.approver
          /\ new.status \in {s.snap.status, "rejected"}
          /\ new.stage \in {"digital_twin_simulation", "rejected"}
    <3>1. \A result \in {"safe", "unsafe"} :
            [s.snap EXCEPT !.stage = "digital_twin_simulation", !.sim = result] \in Row
      BY DEF Row, Stage
    <3>2. [s.snap EXCEPT !.stage = "rejected", !.status = "rejected"] \in Row
      BY DEF Row, Stage, Status
    <3> QED
      BY <2>1, <3>1, <3>2 DEF Row
  <2>4. UNCHANGED <<db, sent>>
    BY <1>2 DEF FinishSimulation
  <2> QED
    BY <2>1, <2>2, <2>3, <2>4, WriteSeconded DEF CopySound, Relayed
<1>3. CASE ExecuteImmediately(p)
  <2> PICK t \in Reader : t = task[p]
    BY <1>3, AtType DEF ExecuteImmediately
  <2> PICK c \in Ids : c = t.cmd
    BY DEF Reader
  <2> DEFINE new == [db[c] EXCEPT !.status = "executing"]
  <2>1. Sendable(c)
    BY <1>3 DEF Seconded, ReaderSound, ExecuteImmediately, At
  <2>2. db[c] \in Row /\ CopySound(c, db[c])
    BY <2>1, FreshCopy DEF TypeOK, Sendable
  <2>3. new \in Row /\ new.approver = db[c].approver /\ new.stage = db[c].stage
        /\ new.status = "executing"
    BY <2>2 DEF Row, Status
  <2>4. Write(p, "commit", c, db[c], new, "publish") /\ UNCHANGED <<db, sims, sent>>
    BY <1>3 DEF ExecuteImmediately
  <2> HIDE DEF new
  <2> QED
    BY <2>1, <2>2, <2>3, <2>4, WriteSeconded DEF Relayed
<1>4. CASE WorkflowPublish(p)
  <2> PICK t \in Reader : t = task[p]
    BY <1>4, AtType DEF WorkflowPublish
  <2> PICK c \in Ids : c = t.cmd
    BY DEF Reader
  <2>1. Sendable(c)
    BY <1>4 DEF Seconded, ReaderSound, WorkflowPublish, At
  <2>2. db[c] \in Row
    BY DEF TypeOK
  <2>3. PICK executed \in Row :
          /\ executed = [db[c] EXCEPT !.stage = "executed", !.status = "executed"]
          /\ executed.approver = db[c].approver
          /\ executed.stage = "executed"
          /\ executed.status = "executed"
    BY <2>2, ConcludedRow
  <2>4. PICK failed \in Row :
          /\ failed = [db[c] EXCEPT !.stage = "failed", !.status = "failed"]
          /\ failed.approver = db[c].approver
          /\ failed.stage = "failed"
          /\ failed.status = "failed"
    BY <2>2, ConcludedRow
  <2>5. Publish(p, c, executed, failed)
    BY <1>4, <2>3, <2>4 DEF WorkflowPublish
  <2> QED
    BY <2>1, <2>3, <2>4, <2>5, PublishSeconded
<1>5. CASE \E c \in Ids : ExecuteCommand(p, c)
  <2> PICK c \in Ids : ExecuteCommand(p, c)
    BY <1>5
  <2> DEFINE new == [db[c] EXCEPT !.status = "executing"]
  <2>1. Sendable(c)
    BY DEF ExecuteCommand, Seconded, RowSeconded, Sendable
  <2>2. db[c] \in Row /\ CopySound(c, db[c])
    BY <2>1, FreshCopy DEF TypeOK, Sendable
  <2>3. new \in Row /\ new.approver = db[c].approver /\ new.stage = db[c].stage
        /\ new.status = "executing"
    BY <2>2 DEF Row, Status
  <2>4. Write(p, "commit", c, db[c], new, "publish") /\ UNCHANGED <<db, sims, sent>>
    BY DEF ExecuteCommand
  <2> HIDE DEF new
  <2> QED
    BY <2>1, <2>2, <2>3, <2>4, WriteSeconded DEF Relayed
<1>6. CASE \E c \in Ids, u \in Users : InitiateCommand(p, u, c)
  <2> PICK c \in Ids, u \in Users : InitiateCommand(p, u, c)
    BY <1>6
  <2>1. RowsKept /\ \A d \in Ids : RowSeconded(d)'
    BY InsertKeepsRows DEF InitiateCommand
  <2>2. task[p] = Idle /\ UNCHANGED <<task, sims, sent>>
    BY DEF InitiateCommand, Insert, Free
  <2> QED
    BY <2>1, <2>2, SecondedStep DEF Relayed, Idle, Reader, Writer
<1>7. CASE \E c \in Ids, u \in Users : VerifyTwoFactor(p, u, c)
  <2> PICK c \in Ids, u \in Users : VerifyTwoFactor(p, u, c)
    BY <1>7
  <2>1. db[c] \in Row /\ CopySound(c, db[c])
    BY FreshCopy DEF TypeOK, VerifyTwoFactor
  <2>2. PICK new \in Row, next \in {"simulate", "done"} :
          /\ Write(p, "commit", c, db[c], new, next)
          /\ new.approver = db[c].approver
          /\ new.status \in {db[c].status, "rejected"}
          /\ new.stage \in {"two_fa_verified", "rejected"}
    <3>1. /\ [db[c] EXCEPT !.stage = "two_fa_verified", !.verified = TRUE] \in Row
          /\ [db[c] EXCEPT !.stage = "rejected", !.status = "rejected"] \in Row
      BY <2>1 DEF Row, Status, Stage
    <3> QED
      BY <2>1, <3>1 DEF VerifyTwoFactor, Row
  <2>3. UNCHANGED <<db, sims, sent>>
    BY DEF VerifyTwoFactor
  <2> QED
    BY <2>1, <2>2, <2>3, WriteSeconded DEF Relayed, CopySound
<1>8. CASE \E c \in Ids, u \in Users : ApproveSimulation(p, u, c)
  <2> PICK c \in Ids, u \in Users : ApproveSimulation(p, u, c)
    BY <1>8
  <2>1. db[c] \in Row /\ CopySound(c, db[c]) /\ u # db[c].requester
    BY FreshCopy DEF TypeOK, ApproveSimulation
  <2>2. PICK new \in Row :
          /\ Write(p, "commit", c, db[c], new, "done")
          /\ \/ new.status = "rejected" /\ new.stage = "rejected"
                /\ new.approver = db[c].approver
             \/ new.status = "approved" /\ new.stage = "simulation_approved"
                /\ new.approver = u
    <3>1. /\ [db[c] EXCEPT !.stage = "rejected", !.status = "rejected"] \in Row
          /\ [db[c] EXCEPT !.stage = "simulation_approved",
                           !.status = "approved", !.approver = u] \in Row
      BY <2>1 DEF Row, Status, Stage
    <3> QED
      BY <2>1, <3>1 DEF ApproveSimulation, Row
  <2>3. UNCHANGED <<db, sims, sent>>
    BY DEF ApproveSimulation
  <2> QED
    BY <2>1, <2>2, <2>3, WriteSeconded DEF Relayed
<1>9. CASE \E c \in Ids, u \in Users : EmergencyShutdown(p, u, c)
  <2> PICK c \in Ids, u \in Users : EmergencyShutdown(p, u, c)
    BY <1>9
  <2>1. RowsKept /\ (\A d \in Ids : RowSeconded(d)') /\ db'[c] = NewRow("esd", u)
    BY InsertKeepsRows DEF EmergencyShutdown
  <2>2. /\ task'[p] = [pc |-> "shutdown", cmd |-> c]
        /\ \A q \in Procs : q # p => task'[q] = task[q]
        /\ UNCHANGED <<sims, sent>>
    BY DEF EmergencyShutdown, TypeOK
  <2>3. ReaderSound(task[p])'
    BY <2>1, <2>2 DEF ReaderSound, Sendable, Exists, NewRow
  <2>4. task'[p] \notin Writer
    BY <2>2 DEF Writer
  <2> QED
    BY <2>1, <2>2, <2>3, <2>4, SecondedStep DEF Relayed
<1> QED
  BY <1>1, <1>2, <1>3, <1>4, <1>5, <1>6, <1>7, <1>8, <1>9 DEF WorkflowStep

LEMMA ControlSeconded ==
  ASSUME TypeOK, TypeOK', Seconded, NEW p \in Procs, ControlStep(p)
  PROVE  Seconded'
<1>1. CASE ControlPublish(p)
  <2> PICK t \in Reader : t = task[p]
    BY <1>1, AtType DEF ControlPublish
  <2> PICK c \in Ids : c = t.cmd
    BY DEF Reader
  <2> DEFINE executed == [db[c] EXCEPT !.status = "executed"]
             failed == [db[c] EXCEPT !.status = "failed"]
  <2>1. Sendable(c)
    BY <1>1 DEF Seconded, ReaderSound, ControlPublish, At
  <2>2. db[c] \in Row
    BY DEF TypeOK
  <2>3. /\ executed \in Row /\ executed.approver = db[c].approver
        /\ executed.stage = db[c].stage /\ executed.status = "executed"
    BY <2>2 DEF Row, Status
  <2>4. /\ failed \in Row /\ failed.approver = db[c].approver
        /\ failed.stage = db[c].stage /\ failed.status = "failed"
    BY <2>2 DEF Row, Status
  <2>5. Publish(p, c, executed, failed)
    BY <1>1 DEF ControlPublish
  <2> HIDE DEF executed, failed
  <2> QED
    BY <2>1, <2>3, <2>4, <2>5, PublishSeconded
<1>2. CASE \E c \in Ids : ExecuteApproved(p, c)
  <2> PICK c \in Ids : ExecuteApproved(p, c)
    BY <1>2
  <2> DEFINE new == [db[c] EXCEPT !.status = "executing"]
  <2>1. Sendable(c)
    BY DEF ExecuteApproved, Seconded, RowSeconded, Sendable, Exists
  <2>2. db[c] \in Row /\ CopySound(c, db[c])
    BY <2>1, FreshCopy DEF TypeOK, Sendable
  <2>3. new \in Row /\ new.approver = db[c].approver /\ new.stage = db[c].stage
        /\ new.status = "executing"
    BY <2>2 DEF Row, Status
  <2>4. Write(p, "commit", c, db[c], new, "publish") /\ UNCHANGED <<db, sims, sent>>
    BY DEF ExecuteApproved
  <2> HIDE DEF new
  <2> QED
    BY <2>1, <2>2, <2>3, <2>4, WriteSeconded DEF Relayed
<1>3. CASE \E c \in Ids, u \in Users : CreateCommand(p, u, c)
  <2> PICK c \in Ids, u \in Users : CreateCommand(p, u, c)
    BY <1>3
  <2>1. RowsKept /\ \A d \in Ids : RowSeconded(d)'
    BY InsertKeepsRows DEF CreateCommand
  <2>2. task[p] = Idle /\ UNCHANGED <<task, sims, sent>>
    BY DEF CreateCommand, Insert, Free
  <2> QED
    BY <2>1, <2>2, SecondedStep DEF Relayed, Idle, Reader, Writer
<1>4. CASE \E c \in Ids, u \in Users : ApproveCommand(p, u, c)
  <2> PICK c \in Ids, u \in Users : ApproveCommand(p, u, c)
    BY <1>4
  <2> DEFINE new == [db[c] EXCEPT !.status = "approved", !.approver = u]
  <2>1. db[c] \in Row /\ CopySound(c, db[c]) /\ u # db[c].requester
    BY FreshCopy DEF TypeOK, ApproveCommand, Exists
  <2>2. new \in Row /\ new.approver = u /\ new.stage = db[c].stage
        /\ new.status = "approved"
    BY <2>1 DEF Row, Status
  <2>3. Write(p, "commit", c, db[c], new, "done") /\ UNCHANGED <<db, sims, sent>>
    BY DEF ApproveCommand
  <2> HIDE DEF new
  <2> QED
    BY <2>1, <2>2, <2>3, WriteSeconded DEF Relayed
<1> QED
  BY <1>1, <1>2, <1>3, <1>4 DEF ControlStep

\* The invariant behind the two-person rule holds in every reachable state.
THEOREM SecondedInvariant == Spec => []Seconded
<1>1. Init => Seconded
  BY UsersAssumption DEF Init, Seconded, RowSeconded, Relayed, NoRow, NewRow,
                         Idle, Writer, Reader
<1>2. TypeOK /\ TypeOK' /\ Seconded /\ [Next]_vars => Seconded'
  <2> SUFFICES ASSUME TypeOK, TypeOK', Seconded, [Next]_vars PROVE Seconded'
    OBVIOUS
  <2>1. CASE \E p \in Procs : SharedStep(p)
    BY <2>1, SharedSeconded
  <2>2. CASE \E p \in Workflow : WorkflowStep(p)
    BY <2>2, WorkflowSeconded, WorkflowAssumption
  <2>3. CASE \E p \in Control : ControlStep(p)
    BY <2>3, ControlSeconded, ControlAssumption
  <2>4. CASE UNCHANGED vars
    BY <2>4 DEF vars, Seconded, RowSeconded, Relayed, Sendable, WriterSound,
                ReaderSound, CopySound, Exists
  <2> QED
    BY <2>1, <2>2, <2>3, <2>4 DEF Next
<1> QED
  BY <1>1, <1>2, TypeCorrect, PTL DEF Spec

\* However many processes of either service share the table, and whatever
\* crashes: what was relayed without being an emergency shutdown had an
\* approver, and not its requester.
THEOREM TwoPersonRuleHolds == Spec => []TwoPersonRule
<1>1. Seconded => TwoPersonRule
  BY DEF Seconded, TwoPersonRule, Sendable, RowSeconded
<1> QED
  BY <1>1, SecondedInvariant, PTL

-----------------------------------------------------------------------------
(* What a row calls executed was sent *)

LEMMA HonestStep ==
  ASSUME TypeOK, Honest, NEW p \in Procs,
         \A c \in Ids : Relayed(c) => Relayed(c)',
         ExecutedWasSent',
         \A q \in Procs : q # p => task'[q] = task[q],
         task'[p] \in Writer => WriterHonest(task[p])'
  PROVE  Honest'
<1>1. ASSUME NEW q \in Procs, q # p, task'[q] \in Writer
      PROVE  WriterHonest(task[q])'
  <2> PICK t \in Writer : t = task[q] /\ t = task'[q]
    BY <1>1
  <2> t.cmd \in Ids /\ WriterHonest(t)
    BY <1>1 DEF Honest, Writer
  <2>1. WriterHonest(t)'
    BY DEF WriterHonest
  <2> QED
    BY <2>1 DEF WriterHonest, Relayed
<1> QED
  BY <1>1 DEF Honest

\* A handler that writes something else than "executed", or has just sent.
LEMMA WriteHonest ==
  ASSUME TypeOK, Honest, UNCHANGED db, NEW p \in Procs, NEW c \in Ids,
         NEW pc \in {"commit", "flush"}, NEW snap \in Row, NEW new \in Row,
         NEW next \in {"done", "simulate", "publish"},
         Write(p, pc, c, snap, new, next),
         \A d \in Ids : Relayed(d) => Relayed(d)',
         \/ Relayed(c)'
         \/ /\ new.status \in {snap.status} \union (Status \ {"executed"})
            /\ new.stage \in {snap.stage} \union (Stage \ {"executed"})
  PROVE  Honest'
<1>1. /\ task'[p] = [pc |-> pc, cmd |-> c, snap |-> snap, new |-> new, next |-> next]
      /\ \A q \in Procs : q # p => task'[q] = task[q]
  BY DEF Write, TypeOK
<1>2. WriterHonest(task[p])'
  BY <1>1 DEF WriterHonest, Relayed
<1>3. ExecutedWasSent'
  BY DEF Honest, ExecutedWasSent
<1> QED
  BY <1>1, <1>2, <1>3, HonestStep

LEMMA PublishHonest ==
  ASSUME TypeOK, Honest, NEW p \in Procs, NEW c \in Ids,
         NEW executed \in Row, NEW failed \in Row,
         failed.status = "failed", failed.stage \in {db[c].stage, "failed"},
         Publish(p, c, executed, failed)
  PROVE  Honest'
<1> db[c] \in Row /\ UNCHANGED db
  BY DEF TypeOK, Publish
<1>1. CASE /\ Send(p, c)
           /\ Write(p, IF db[c].kind = "esd" THEN "commit" ELSE "flush",
                    c, db[c], executed, "done")
  <2>1. Relayed(c)' /\ \A d \in Ids : Relayed(d) => Relayed(d)'
    BY <1>1 DEF Relayed, Send, TypeOK
  <2> QED
    BY <1>1, <2>1, WriteHonest
<1>2. CASE Write(p, "commit", c, db[c], failed, "done") /\ UNCHANGED sent
  <2>1. \A d \in Ids : Relayed(d) => Relayed(d)'
    BY <1>2 DEF Relayed
  <2> QED
    BY <1>2, <2>1, WriteHonest DEF Status, Stage
<1> QED
  BY <1>1, <1>2 DEF Publish

LEMMA SharedHonest ==
  ASSUME TypeOK, Honest, NEW p \in Procs, SharedStep(p)
  PROVE  Honest'
<1> Idle \notin Writer
  BY DEF Idle, Writer
<1>1. UNCHANGED sent /\ \A c \in Ids : Relayed(c) = Relayed(c)'
  BY DEF SharedStep, Commit, Flush, Crash, CommitFails, Deliver, DeliveryFails, Relayed
<1>2. CASE Commit(p)
  <2> PICK t \in Writer : t = task[p]
    BY <1>2, AtType DEF Commit
  <2> PICK c \in Ids : c = t.cmd
    BY DEF Writer
  <2>1. /\ db'[c] = Flushed(t, db[c])
        /\ \A d \in Ids : d # c => db'[d] = db[d]
        /\ WriterHonest(t)
    BY <1>2 DEF Commit, TypeOK, Honest
  <2>2. /\ db'[c].status = Column(t.snap.status, t.new.status, db[c].status)
        /\ db'[c].stage = Column(t.snap.stage, t.new.stage, db[c].stage)
    BY <2>1 DEF Flushed
  <2>3. ExecutedWasSent'
    BY <1>1, <2>1, <2>2 DEF ExecutedWasSent, Honest, WriterHonest, Column
  <2>4. /\ task'[p] \notin Writer
        /\ \A q \in Procs : q # p => task'[q] = task[q]
    BY <1>2, ResumeType DEF Commit, TypeOK, Reader, Writer, Idle
  <2> QED
    BY <1>1, <2>3, <2>4, HonestStep
<1>3. CASE Flush(p)
  <2> PICK t \in Writer : t = task[p]
    BY <1>3, AtType DEF Flush
  <2>1. /\ task'[p] = [t EXCEPT !.pc = "commit"]
        /\ \A q \in Procs : q # p => task'[q] = task[q]
        /\ UNCHANGED db
        /\ WriterHonest(t)
    BY <1>3 DEF Flush, TypeOK, Honest
  <2>2. WriterHonest(task[p])' /\ ExecutedWasSent'
    BY <1>1, <2>1 DEF WriterHonest, Writer, Honest, ExecutedWasSent, Relayed
  <2> QED
    BY <1>1, <2>1, <2>2, HonestStep
<1>4. CASE Crash(p) \/ CommitFails(p)
  <2>1. /\ task'[p] = Idle
        /\ \A q \in Procs : q # p => task'[q] = task[q]
        /\ UNCHANGED db
    BY <1>4 DEF Crash, CommitFails, TypeOK
  <2> QED
    BY <1>1, <2>1, HonestStep DEF Honest, ExecutedWasSent
<1>5. CASE \E c \in Ids : Deliver(p, c) \/ DeliveryFails(p, c)
  <2>1. UNCHANGED <<db, task>>
    BY <1>5 DEF Deliver, DeliveryFails
  <2> QED
    BY <1>1, <2>1 DEF Honest, ExecutedWasSent, WriterHonest, Relayed
<1> QED
  BY <1>2, <1>3, <1>4, <1>5 DEF SharedStep

\* A handler whose new row differs from the loaded one by no "executed".
LEMMA EditHonest ==
  ASSUME TypeOK, Honest, NEW p \in Procs, NEW c \in Ids, NEW snap \in Row,
         NEW new \in Row,
         new.status \in {snap.status, "approved", "executing", "rejected"},
         new.stage \in {snap.stage, "two_fa_verified", "rejected",
                        "digital_twin_simulation", "simulation_approved"},
         NEW next \in {"done", "simulate", "publish"},
         Write(p, "commit", c, snap, new, next),
         UNCHANGED <<db, sent>>
  PROVE  Honest'
<1>1. \A d \in Ids : Relayed(d) => Relayed(d)'
  BY DEF Relayed
<1>2. /\ new.status \in {snap.status} \union (Status \ {"executed"})
      /\ new.stage \in {snap.stage} \union (Stage \ {"executed"})
  BY DEF Status, Stage
<1> QED
  BY <1>1, <1>2, WriteHonest

\* An insert: the new row is pending, the others are what they were.
LEMMA InsertHonest ==
  ASSUME TypeOK, Honest, NEW p \in Procs, NEW c \in Ids,
         NEW kind \in {"operation", "command", "esd"}, NEW u \in Users,
         Insert(p, c, NewRow(kind, u)),
         UNCHANGED sent,
         \A q \in Procs : q # p => task'[q] = task[q],
         task'[p] \notin Writer
  PROVE  Honest'
<1>1. \A d \in Ids : Relayed(d) <=> Relayed(d)'
  BY DEF Relayed
<1>2. /\ db'[c].status = "pending" /\ db'[c].stage = "requested"
      /\ \A d \in Ids : d # c => db'[d] = db[d]
  BY DEF Insert, NewRow, TypeOK
<1>3. ExecutedWasSent'
  BY <1>1, <1>2 DEF Honest, ExecutedWasSent
<1> QED
  BY <1>1, <1>3, HonestStep

LEMMA WorkflowHonest ==
  ASSUME TypeOK, Honest, NEW p \in Procs, WorkflowStep(p)
  PROVE  Honest'
<1>1. CASE StartSimulation(p)
  <2>1. /\ task'[p] = Idle
        /\ \A q \in Procs : q # p => task'[q] = task[q]
        /\ UNCHANGED <<db, sent>>
    BY <1>1 DEF StartSimulation, TypeOK
  <2> QED
    BY <2>1, HonestStep DEF Honest, ExecutedWasSent, Relayed, Idle, Writer
<1>2. CASE FinishSimulation(p)
  <2>1. PICK s \in sims :
          \/ \E result \in {"safe", "unsafe"} :
               Write(p, "commit", s.cmd, s.snap,
                     [s.snap EXCEPT !.stage = "digital_twin_simulation",
                                    !.sim = result], "done")
          \/ Write(p, "commit", s.cmd, s.snap,
                   [s.snap EXCEPT !.stage = "rejected",
                                  !.status = "rejected"], "done")
    BY <1>2 DEF FinishSimulation
  <2> s.cmd \in Ids /\ s.snap \in Row
    BY DEF TypeOK, Suspended
  <2>2. PICK new \in Row :
          /\ Write(p, "commit", s.cmd, s.snap, new, "done")
          /\ new.status \in {s.snap.status, "rejected"}
          /\ new.stage \in {"digital_twin_simulation", "rejected"}
    <3>1. \A result \in {"safe", "unsafe"} :
            [s.snap EXCEPT !.stage = "digital_twin_simulation", !.sim = result] \in Row
      BY DEF Row, Stage
    <3>2. [s.snap EXCEPT !.stage = "rejected", !.status = "rejected"] \in Row
      BY DEF Row, Stage, Status
    <3> QED
      BY <2>1, <3>1, <3>2 DEF Row
  <2>3. UNCHANGED <<db, sent>>
    BY <1>2 DEF FinishSimulation
  <2> QED
    BY <2>2, <2>3, EditHonest
<1>3. CASE ExecuteImmediately(p)
  <2> PICK t \in Reader : t = task[p]
    BY <1>3, AtType DEF ExecuteImmediately
  <2> PICK c \in Ids : c = t.cmd
    BY DEF Reader
  <2> DEFINE new == [db[c] EXCEPT !.status = "executing"]
  <2> db[c] \in Row
    BY DEF TypeOK
  <2>1. new \in Row /\ new.stage = db[c].stage /\ new.status = "executing"
    BY DEF Row, Status
  <2>2. Write(p, "commit", c, db[c], new, "publish") /\ UNCHANGED <<db, sent>>
    BY <1>3 DEF ExecuteImmediately
  <2> HIDE DEF new
  <2> QED
    BY <2>1, <2>2, EditHonest
<1>4. CASE WorkflowPublish(p)
  <2> PICK t \in Reader : t = task[p]
    BY <1>4, AtType DEF WorkflowPublish
  <2> PICK c \in Ids : c = t.cmd
    BY DEF Reader
  <2>1. db[c] \in Row
    BY DEF TypeOK
  <2>2. PICK executed \in Row :
          /\ executed = [db[c] EXCEPT !.stage = "executed", !.status = "executed"]
          /\ executed.approver = db[c].approver
          /\ executed.stage = "executed"
          /\ executed.status = "executed"
    BY <2>1, ConcludedRow
  <2>3. PICK failed \in Row :
          /\ failed = [db[c] EXCEPT !.stage = "failed", !.status = "failed"]
          /\ failed.approver = db[c].approver
          /\ failed.stage = "failed"
          /\ failed.status = "failed"
    BY <2>1, ConcludedRow
  <2>4. Publish(p, c, executed, failed)
    BY <1>4, <2>2, <2>3 DEF WorkflowPublish
  <2> QED
    BY <2>3, <2>4, PublishHonest
<1>5. CASE \E c \in Ids : ExecuteCommand(p, c)
  <2> PICK c \in Ids : ExecuteCommand(p, c)
    BY <1>5
  <2> DEFINE new == [db[c] EXCEPT !.status = "executing"]
  <2> db[c] \in Row
    BY DEF TypeOK
  <2>1. new \in Row /\ new.stage = db[c].stage /\ new.status = "executing"
    BY DEF Row, Status
  <2>2. Write(p, "commit", c, db[c], new, "publish") /\ UNCHANGED <<db, sent>>
    BY DEF ExecuteCommand
  <2> HIDE DEF new
  <2> QED
    BY <2>1, <2>2, EditHonest
<1>6. CASE \E c \in Ids, u \in Users : InitiateCommand(p, u, c)
  <2> PICK c \in Ids, u \in Users : InitiateCommand(p, u, c)
    BY <1>6
  <2>1. task'[p] \notin Writer /\ \A q \in Procs : task'[q] = task[q]
    BY DEF InitiateCommand, Insert, Free, Idle, Writer
  <2> QED
    BY <2>1, InsertHonest DEF InitiateCommand
<1>7. CASE \E c \in Ids, u \in Users : VerifyTwoFactor(p, u, c)
  <2> PICK c \in Ids, u \in Users : VerifyTwoFactor(p, u, c)
    BY <1>7
  <2>1. db[c] \in Row
    BY DEF TypeOK
  <2>2. PICK new \in Row, next \in {"simulate", "done"} :
          /\ Write(p, "commit", c, db[c], new, next)
          /\ new.status \in {db[c].status, "rejected"}
          /\ new.stage \in {"two_fa_verified", "rejected"}
    <3>1. /\ [db[c] EXCEPT !.stage = "two_fa_verified", !.verified = TRUE] \in Row
          /\ [db[c] EXCEPT !.stage = "rejected", !.status = "rejected"] \in Row
      BY <2>1 DEF Row, Status, Stage
    <3> QED
      BY <2>1, <3>1 DEF VerifyTwoFactor, Row
  <2>3. UNCHANGED <<db, sent>>
    BY DEF VerifyTwoFactor
  <2> QED
    BY <2>1, <2>2, <2>3, EditHonest
<1>8. CASE \E c \in Ids, u \in Users : ApproveSimulation(p, u, c)
  <2> PICK c \in Ids, u \in Users : ApproveSimulation(p, u, c)
    BY <1>8
  <2>1. db[c] \in Row
    BY DEF TypeOK
  <2>2. PICK new \in Row :
          /\ Write(p, "commit", c, db[c], new, "done")
          /\ new.status \in {"rejected", "approved"}
          /\ new.stage \in {"rejected", "simulation_approved"}
    <3>1. /\ [db[c] EXCEPT !.stage = "rejected", !.status = "rejected"] \in Row
          /\ [db[c] EXCEPT !.stage = "simulation_approved",
                           !.status = "approved", !.approver = u] \in Row
      BY <2>1 DEF Row, Status, Stage
    <3> QED
      BY <2>1, <3>1 DEF ApproveSimulation, Row
  <2>3. UNCHANGED <<db, sent>>
    BY DEF ApproveSimulation
  <2> QED
    BY <2>1, <2>2, <2>3, EditHonest
<1>9. CASE \E c \in Ids, u \in Users : EmergencyShutdown(p, u, c)
  <2> PICK c \in Ids, u \in Users : EmergencyShutdown(p, u, c)
    BY <1>9
  <2>1. /\ task'[p] = [pc |-> "shutdown", cmd |-> c]
        /\ \A q \in Procs : q # p => task'[q] = task[q]
        /\ UNCHANGED sent
    BY DEF EmergencyShutdown, TypeOK
  <2>2. task'[p] \notin Writer
    BY <2>1 DEF Writer
  <2> QED
    BY <2>1, <2>2, InsertHonest DEF EmergencyShutdown
<1> QED
  BY <1>1, <1>2, <1>3, <1>4, <1>5, <1>6, <1>7, <1>8, <1>9 DEF WorkflowStep

LEMMA ControlHonest ==
  ASSUME TypeOK, Honest, NEW p \in Procs, ControlStep(p)
  PROVE  Honest'
<1>1. CASE ControlPublish(p)
  <2> PICK t \in Reader : t = task[p]
    BY <1>1, AtType DEF ControlPublish
  <2> PICK c \in Ids : c = t.cmd
    BY DEF Reader
  <2> DEFINE executed == [db[c] EXCEPT !.status = "executed"]
             failed == [db[c] EXCEPT !.status = "failed"]
  <2>1. db[c] \in Row
    BY DEF TypeOK
  <2>2. /\ executed \in Row /\ failed \in Row
        /\ failed.stage = db[c].stage /\ failed.status = "failed"
    BY <2>1 DEF Row, Status
  <2>3. Publish(p, c, executed, failed)
    BY <1>1 DEF ControlPublish
  <2> HIDE DEF executed, failed
  <2> QED
    BY <2>2, <2>3, PublishHonest
<1>2. CASE \E c \in Ids : ExecuteApproved(p, c)
  <2> PICK c \in Ids : ExecuteApproved(p, c)
    BY <1>2
  <2> DEFINE new == [db[c] EXCEPT !.status = "executing"]
  <2> db[c] \in Row
    BY DEF TypeOK
  <2>1. new \in Row /\ new.stage = db[c].stage /\ new.status = "executing"
    BY DEF Row, Status
  <2>2. Write(p, "commit", c, db[c], new, "publish") /\ UNCHANGED <<db, sent>>
    BY DEF ExecuteApproved
  <2> HIDE DEF new
  <2> QED
    BY <2>1, <2>2, EditHonest
<1>3. CASE \E c \in Ids, u \in Users : CreateCommand(p, u, c)
  <2> PICK c \in Ids, u \in Users : CreateCommand(p, u, c)
    BY <1>3
  <2>1. task'[p] \notin Writer /\ \A q \in Procs : task'[q] = task[q]
    BY DEF CreateCommand, Insert, Free, Idle, Writer
  <2> QED
    BY <2>1, InsertHonest DEF CreateCommand
<1>4. CASE \E c \in Ids, u \in Users : ApproveCommand(p, u, c)
  <2> PICK c \in Ids, u \in Users : ApproveCommand(p, u, c)
    BY <1>4
  <2> DEFINE new == [db[c] EXCEPT !.status = "approved", !.approver = u]
  <2> db[c] \in Row
    BY DEF TypeOK
  <2>1. new \in Row /\ new.stage = db[c].stage /\ new.status = "approved"
    BY DEF Row, Status
  <2>2. Write(p, "commit", c, db[c], new, "done") /\ UNCHANGED <<db, sent>>
    BY DEF ApproveCommand
  <2> HIDE DEF new
  <2> QED
    BY <2>1, <2>2, EditHonest
<1> QED
  BY <1>1, <1>2, <1>3, <1>4 DEF ControlStep

\* The invariant behind ExecutedWasSent: a handler about to write "executed"
\* has sent the command.
THEOREM HonestInvariant == Spec => []Honest
<1>1. Init => Honest
  BY DEF Init, Honest, ExecutedWasSent, NoRow, NewRow, Idle, Writer
<1>2. TypeOK /\ Honest /\ [Next]_vars => Honest'
  <2> SUFFICES ASSUME TypeOK, Honest, [Next]_vars PROVE Honest'
    OBVIOUS
  <2>1. CASE \E p \in Procs : SharedStep(p)
    BY <2>1, SharedHonest
  <2>2. CASE \E p \in Workflow : WorkflowStep(p)
    BY <2>2, WorkflowHonest, WorkflowAssumption
  <2>3. CASE \E p \in Control : ControlStep(p)
    BY <2>3, ControlHonest, ControlAssumption
  <2>4. CASE UNCHANGED vars
    BY <2>4 DEF vars, Honest, ExecutedWasSent, WriterHonest, Relayed
  <2> QED
    BY <2>1, <2>2, <2>3, <2>4 DEF Next
<1> QED
  BY <1>1, <1>2, TypeCorrect, PTL DEF Spec

\* Neither service ever calls a command executed that no producer was given,
\* even when they conclude the same row from copies of different age.
THEOREM ExecutedWasSentHolds == Spec => []ExecutedWasSent
<1>1. Honest => ExecutedWasSent
  BY DEF Honest
<1> QED
  BY <1>1, HonestInvariant, PTL

-----------------------------------------------------------------------------
(* The workflow with one process and no other service at its rows: what a  *)
(* handler has loaded is what the row holds when it writes                 *)

Ended == {"executed", "rejected", "failed"}

\* The stages of an operation that has been through the gates.
Passed == {"simulation_approved", "executed", "failed"}

RowAgrees(r) ==
  /\ r.status = "approved" => r.stage = "simulation_approved"
  /\ r.status = "executing" => r.stage = "simulation_approved" \/ r.kind = "esd"
  /\ r.status \in Ended <=> r.stage \in Ended
  /\ r.stage \in Ended => r.status = r.stage

RowGated(r) ==
  r.kind = "operation" =>
    /\ r.stage \in Passed \union {"two_fa_verified", "digital_twin_simulation"} => r.verified
    /\ r.stage = "digital_twin_simulation" => r.sim # "none"
    /\ r.stage \in Passed => r.sim = "safe" /\ r.approver \in Users

GoodRow(r) == RowAgrees(r) /\ RowGated(r)

Publishable(r) == r.stage = "simulation_approved" \/ (r.kind = "esd" /\ r.stage \notin Ended)

\* What a handler may make of the row it has loaded.
GoodEdit(snap, new, next) ==
  /\ GoodRow(new) /\ new.kind = snap.kind /\ new.requester = snap.requester
  /\ new.status # "absent" /\ snap.status # "absent"
  /\ snap.stage \notin Ended
  /\ snap.stage = "simulation_approved" => new.stage \in Passed
  /\ next = "publish" => Publishable(new)
  /\ next = "simulate" => new.stage = "two_fa_verified"

\* The handler of p has sent command c and is to say so.
Concluding(p, c) ==
  task[p] \in Writer /\ task[p].cmd = c /\ task[p].new.stage = "executed"

\* A send is paid for by a fault, or by the end of the command.
Paid(p, c) ==
  \/ sent[p][c] <= faults
  \/ sent[p][c] <= faults + 1 /\ (db[c].stage = "executed" \/ Concluding(p, c))

WriterAlone(t) == t.snap = db[t.cmd] /\ GoodEdit(t.snap, t.new, t.next)

ReaderAlone(t) ==
  /\ Exists(t.cmd)
  /\ t.pc = "publish" => Publishable(db[t.cmd])
  /\ t.pc = "simulate" => db[t.cmd].stage = "two_fa_verified"
  /\ t.pc = "shutdown" => db[t.cmd].kind = "esd" /\ db[t.cmd].stage = "requested"

SimAlone(s) == Exists(s.cmd) /\ s.snap = db[s.cmd] /\ s.snap.stage = "two_fa_verified"

Alone ==
  /\ \A c \in Ids : GoodRow(db[c])
  /\ \A c \in Ids : Relayed(c) /\ db[c].kind = "operation" => db[c].stage \in Passed
  /\ \A p \in Procs, c \in Ids : Paid(p, c)
  /\ \A p \in Procs : task[p] \in Writer => WriterAlone(task[p])
  /\ \A p \in Procs : task[p] \in Reader => ReaderAlone(task[p])
  /\ \A s \in sims : SimAlone(s)
  /\ \A p \in Procs : task[p] # Idle => \A s \in sims : s.cmd # task[p].cmd

OneProcess == Procs = Workflow /\ Control = {} /\ \A p, q \in Procs : p = q

\* The edits of the workflow's handlers.
LEMMA GoodEdits ==
  ASSUME NEW r \in Row, GoodRow(r), r.status # "absent"
  PROVE  /\ r.stage = "requested" =>
              GoodEdit(r, [r EXCEPT !.stage = "two_fa_verified", !.verified = TRUE], "simulate")
         /\ r.stage \notin Ended \union {"simulation_approved"} =>
              GoodEdit(r, [r EXCEPT !.stage = "rejected", !.status = "rejected"], "done")
         /\ r.stage = "two_fa_verified" =>
              \A result \in {"safe", "unsafe"} :
                GoodEdit(r, [r EXCEPT !.stage = "digital_twin_simulation", !.sim = result], "done")
         /\ r.stage = "digital_twin_simulation" /\ r.sim # "unsafe" =>
              \A u \in Users :
                GoodEdit(r, [r EXCEPT !.stage = "simulation_approved", !.status = "approved",
                                      !.approver = u], "done")
         /\ Publishable(r) =>
              /\ GoodEdit(r, [r EXCEPT !.status = "executing"], "publish")
              /\ GoodEdit(r, [r EXCEPT !.stage = "executed", !.status = "executed"], "done")
              /\ GoodEdit(r, [r EXCEPT !.stage = "failed", !.status = "failed"], "done")
<1> USE DEF Row, GoodRow, RowAgrees, RowGated, GoodEdit, Ended, Passed, Publishable
<1>1. r.stage = "requested" =>
        GoodEdit(r, [r EXCEPT !.stage = "two_fa_verified", !.verified = TRUE], "simulate")
  OBVIOUS
<1>2. r.stage \notin Ended \union {"simulation_approved"} =>
        GoodEdit(r, [r EXCEPT !.stage = "rejected", !.status = "rejected"], "done")
  OBVIOUS
<1>3. r.stage = "two_fa_verified" =>
        \A result \in {"safe", "unsafe"} :
          GoodEdit(r, [r EXCEPT !.stage = "digital_twin_simulation", !.sim = result], "done")
  OBVIOUS
<1>4. r.stage = "digital_twin_simulation" /\ r.sim # "unsafe" =>
        \A u \in Users :
          GoodEdit(r, [r EXCEPT !.stage = "simulation_approved", !.status = "approved",
                                !.approver = u], "done")
  OBVIOUS
<1>5. Publishable(r) => GoodEdit(r, [r EXCEPT !.status = "executing"], "publish")
  OBVIOUS
<1>6. Publishable(r) => GoodEdit(r, [r EXCEPT !.stage = "executed", !.status = "executed"], "done")
  OBVIOUS
<1>7. Publishable(r) => GoodEdit(r, [r EXCEPT !.stage = "failed", !.status = "failed"], "done")
  OBVIOUS
<1> QED
  BY <1>1, <1>2, <1>3, <1>4, <1>5, <1>6, <1>7

\* A handler that has loaded the row of c changes it in its session.
LEMMA WriteAlone ==
  ASSUME TypeOK, Alone, OneProcess, UNCHANGED <<db, faults>>,
         NEW p \in Procs, NEW c \in Ids, NEW pc \in {"commit", "flush"}, NEW new \in Row,
         NEW next \in {"done", "simulate", "publish"},
         task[p] \notin Writer,
         Write(p, pc, c, db[c], new, next), GoodEdit(db[c], new, next),
         sims' \subseteq sims, \A s \in sims' : s.cmd # c,
         \/ UNCHANGED sent
         \/ Send(p, c) /\ new.stage = "executed" /\ Publishable(db[c])
  PROVE  Alone'
<1>1. /\ task'[p] = [pc |-> pc, cmd |-> c, snap |-> db[c], new |-> new, next |-> next]
      /\ task'[p] \in Writer
  <2>1. db[c] \in Row
    BY DEF TypeOK
  <2> QED
    BY <2>1 DEF Write, TypeOK, Writer
<1>2. WriterAlone(task[p])'
  BY <1>1 DEF WriterAlone
<1>3. task'[p] \notin Reader
  BY <1>1 DEF Reader, Writer
<1>4. \A d \in Ids : Paid(p, d)'
  <2> SUFFICES ASSUME NEW d \in Ids PROVE Paid(p, d)'
    OBVIOUS
  <2>1. Paid(p, d) /\ ~Concluding(p, d) /\ sent[p][d] \in Nat /\ faults \in Nat
    BY DEF Alone, Concluding, TypeOK
  <2>2. CASE sent'[p][d] = sent[p][d]
    BY <2>1, <2>2 DEF Paid
  <2>3. CASE Send(p, c) /\ new.stage = "executed" /\ Publishable(db[c]) /\ d = c
    <3>1. sent'[p][c] = sent[p][c] + 1
      BY <2>3 DEF Send, TypeOK
    <3>2. Concluding(p, c)'
      BY <1>1, <2>3 DEF Concluding
    <3>3. db[c].stage # "executed"
      BY <2>3 DEF Publishable, Ended
    <3> QED
      BY <2>1, <2>3, <3>1, <3>2, <3>3 DEF Paid
  <2>4. CASE Send(p, c) /\ d # c
    <3>1. sent'[p][d] = sent[p][d]
      BY <2>4 DEF Send, TypeOK
    <3> QED
      BY <2>2, <3>1
  <2> QED
    BY <2>2, <2>3, <2>4
<1>5. ASSUME NEW d \in Ids, Relayed(d)', db'[d].kind = "operation" PROVE db'[d].stage \in Passed
  <2>1. CASE Relayed(d)
    BY <1>5, <2>1 DEF Alone
  <2>2. CASE ~Relayed(d)
    <3>1. d = c /\ Publishable(db[c])
      BY <1>5, <2>2 DEF Relayed, Send, TypeOK
    <3> QED
      BY <1>5, <3>1 DEF Publishable, Passed
  <2> QED
    BY <2>1, <2>2
<1>6. \A s \in sims' : SimAlone(s)'
  BY DEF Alone, SimAlone, Exists
<1>7. \A q \in Procs : q = p
  BY DEF OneProcess
<1>8. \A d \in Ids : GoodRow(db'[d])
  BY DEF Alone
<1>9. \A s \in sims' : s.cmd # task'[p].cmd
  BY <1>1
<1> QED
  BY <1>2, <1>3, <1>4, <1>5, <1>6, <1>7, <1>8, <1>9 DEF Alone

\* Committing: the row becomes what the handler has made of it.
LEMMA CommitAlone ==
  ASSUME TypeOK, Alone, OneProcess, NEW p \in Procs, Commit(p)
  PROVE  Alone'
<1> PICK t \in Writer : t = task[p]
  BY AtType DEF Commit
<1> PICK c \in Ids : c = t.cmd
  BY DEF Writer
<1>1. t.snap = db[c] /\ GoodEdit(t.snap, t.new, t.next) /\ t.new \in Row /\ t.next \in {"done", "simulate", "publish"}
  BY DEF Alone, WriterAlone, Writer
<1>2. db'[c] = t.new
  <2>1. db'[c] = Flushed(t, db[c]) /\ db[c] \in Row
    BY DEF Commit, TypeOK
  <2>2. t.new.kind = db[c].kind /\ t.new.requester = db[c].requester
    BY <1>1 DEF GoodEdit
  <2>3. Flushed(t, db[c]) = [kind |-> t.new.kind, requester |-> t.new.requester,
                             status |-> t.new.status, stage |-> t.new.stage,
                             approver |-> t.new.approver, verified |-> t.new.verified,
                             sim |-> t.new.sim]
    BY <1>1, <2>2 DEF Flushed, Column
  <2> QED
    BY <1>1, <2>1, <2>3 DEF Row
<1>3. /\ \A d \in Ids : d # c => db'[d] = db[d]
      /\ task'[p] = Resume(t) /\ UNCHANGED <<sims, sent, faults>>
  BY DEF Commit, TypeOK
<1>4. \A s \in sims : s.cmd # c
  BY DEF Alone, Idle, Writer
<1>5. \A d \in Ids : GoodRow(db'[d])
  BY <1>1, <1>2, <1>3 DEF Alone, GoodEdit
<1>6. ASSUME NEW d \in Ids, Relayed(d)', db'[d].kind = "operation" PROVE db'[d].stage \in Passed
  <2>1. Relayed(d)
    BY <1>3, <1>6 DEF Relayed
  <2>2. CASE d # c
    BY <1>3, <1>6, <2>1, <2>2 DEF Alone
  <2>3. CASE d = c
    <3>1. db[c].stage \in Passed \ Ended
      BY <1>1, <1>2, <1>6, <2>1, <2>3 DEF Alone, GoodEdit
    <3> QED
      BY <1>1, <1>2, <2>3, <3>1 DEF GoodEdit, Passed, Ended
  <2> QED
    BY <2>2, <2>3
<1>7. ASSUME NEW d \in Ids PROVE Paid(p, d)'
  <2>1. Paid(p, d)
    BY DEF Alone
  <2>2. db[d].stage = "executed" => db'[d].stage = "executed"
    BY <1>1, <1>3 DEF GoodEdit, Ended
  <2>3. Concluding(p, d) => db'[d].stage = "executed"
    BY <1>2 DEF Concluding
  <2> QED
    BY <1>3, <2>1, <2>2, <2>3 DEF Paid
<1>8. task'[p] \notin Writer
  BY <1>3, ResumeType DEF Reader, Writer, Idle
<1>9. task'[p] \in Reader => ReaderAlone(task[p])'
  <2> SUFFICES ASSUME task'[p] \in Reader PROVE ReaderAlone(task[p])'
    OBVIOUS
  <2>1. task'[p] = [pc |-> t.next, cmd |-> c] /\ t.next \in {"simulate", "publish"}
    BY <1>1, <1>3 DEF Resume, Reader, Idle
  <2> QED
    BY <1>1, <1>2, <2>1 DEF ReaderAlone, GoodEdit, Exists
<1>10. \A s \in sims : SimAlone(s)'
  <2> SUFFICES ASSUME NEW s \in sims PROVE SimAlone(s)'
    OBVIOUS
  <2>1. s.cmd \in Ids /\ s.cmd # c
    BY <1>4 DEF TypeOK, Suspended
  <2> QED
    BY <1>3, <2>1 DEF Alone, SimAlone, Exists
<1>11. task'[p] # Idle => task'[p].cmd = c
  BY <1>3 DEF Resume
<1>12. \A q \in Procs : q = p
  BY DEF OneProcess
<1> QED
  BY <1>3, <1>4, <1>5, <1>6, <1>7, <1>8, <1>9, <1>10, <1>11, <1>12 DEF Alone

\* Steps that leave rows and sends alone and at most end the handler.
LEMMA QuietAlone ==
  ASSUME TypeOK, Alone, OneProcess, NEW p \in Procs, UNCHANGED <<db, sent>>,
         sims' \subseteq sims,
         \/ faults' = faults /\ task' = task
         \/ faults' = faults + 1 /\ task'[p] = Idle
  PROVE  Alone'
<1>1. \A q \in Procs : q = p
  BY DEF OneProcess
<1>2. \A d \in Ids : Paid(p, d)'
  <2> SUFFICES ASSUME NEW d \in Ids PROVE Paid(p, d)'
    OBVIOUS
  <2>1. Paid(p, d) /\ sent[p][d] \in Nat /\ faults \in Nat
    BY DEF Alone, TypeOK
  <2> QED
    BY <2>1 DEF Paid, Concluding
<1>3. Idle \notin Reader /\ Idle \notin Writer
  BY DEF Idle, Reader, Writer
<1>4. /\ task'[p] \in Writer => WriterAlone(task[p])'
      /\ task'[p] \in Reader => ReaderAlone(task[p])'
      /\ task'[p] # Idle => \A s \in sims' : s.cmd # task'[p].cmd
  BY <1>3 DEF Alone, WriterAlone, ReaderAlone, Exists
<1>5. \A s \in sims' : SimAlone(s)'
  BY DEF Alone, SimAlone, Exists
<1>6. \A d \in Ids : GoodRow(db'[d])
  BY DEF Alone
<1>7. \A d \in Ids : Relayed(d)' /\ db'[d].kind = "operation" => db'[d].stage \in Passed
  BY DEF Alone, Relayed
<1> QED
  BY <1>1, <1>2, <1>4, <1>5, <1>6, <1>7 DEF Alone

LEMMA SharedAlone ==
  ASSUME TypeOK, Alone, OneProcess, NEW p \in Procs, SharedStep(p)
  PROVE  Alone'
<1>1. CASE Commit(p)
  BY <1>1, CommitAlone
<1>2. CASE Flush(p)
  <2> PICK t \in Writer : t = task[p]
    BY <1>2, AtType DEF Flush
  <2>1. /\ task'[p] = [t EXCEPT !.pc = "commit"]
        /\ UNCHANGED <<db, sims, sent, faults>>
    BY <1>2 DEF Flush, TypeOK
  <2>2. /\ task'[p] \in Writer /\ task'[p].cmd = t.cmd /\ task'[p].snap = t.snap
        /\ task'[p].new = t.new /\ task'[p].next = t.next
    BY <2>1 DEF Writer
  <2>3. task'[p] \notin Reader /\ task'[p] # Idle /\ t # Idle
    BY <2>2 DEF Reader, Writer, Idle
  <2>4. \A q \in Procs : q = p
    BY DEF OneProcess
  <2>5. WriterAlone(task[p])'
    BY <2>1, <2>2 DEF Alone, WriterAlone
  <2>6. \A d \in Ids : Paid(p, d)'
    BY <2>1, <2>2 DEF Alone, Paid, Concluding
  <2>7. \A s \in sims' : SimAlone(s)' /\ s.cmd # task'[p].cmd
    BY <2>1, <2>2, <2>3 DEF Alone, SimAlone, Exists
  <2>8. \A d \in Ids : GoodRow(db'[d])
    BY <2>1 DEF Alone
  <2>9. \A d \in Ids : Relayed(d)' /\ db'[d].kind = "operation" => db'[d].stage \in Passed
    BY <2>1 DEF Alone, Relayed
  <2> QED
    BY <2>3, <2>4, <2>5, <2>6, <2>7, <2>8, <2>9 DEF Alone
<1>3. CASE Crash(p) \/ CommitFails(p)
  <2>1. /\ UNCHANGED <<db, sent>> /\ sims' \subseteq sims /\ faults' = faults + 1
        /\ task'[p] = Idle
    BY <1>3 DEF Crash, CommitFails, TypeOK
  <2> QED
    BY <2>1, QuietAlone
<1>4. CASE \E c \in Ids : Deliver(p, c) \/ DeliveryFails(p, c)
  <2>1. UNCHANGED <<db, task, sims, sent, faults>>
    BY <1>4 DEF Deliver, DeliveryFails
  <2> QED
    BY <2>1, QuietAlone
<1> QED
  BY <1>1, <1>2, <1>3, <1>4 DEF SharedStep

\* An insert: nothing was relayed of an id the table does not have.
LEMMA InsertAlone ==
  ASSUME TypeOK, Seconded, Alone, OneProcess, NEW p \in Procs, NEW c \in Ids,
         NEW kind \in {"operation", "esd"}, NEW u \in Users,
         Insert(p, c, NewRow(kind, u)), UNCHANGED <<sims, sent, faults>>,
         \/ UNCHANGED task
         \/ kind = "esd" /\ task'[p] = [pc |-> "shutdown", cmd |-> c]
  PROVE  Alone'
<1>1. /\ task[p] = Idle /\ ~Exists(c)
      /\ db'[c] = NewRow(kind, u)
      /\ \A d \in Ids : d # c => db'[d] = db[d]
  BY DEF Insert, Free, TypeOK
<1>2. GoodRow(NewRow(kind, u))
  BY DEF GoodRow, RowAgrees, RowGated, NewRow, Ended, Passed
<1>3. ~Relayed(c)
  BY <1>1 DEF Seconded, Sendable
<1>4. \A s \in sims : s.cmd \in Ids /\ s.cmd # c
  BY <1>1 DEF Alone, SimAlone, TypeOK, Suspended
<1>5. \A s \in sims' : SimAlone(s)'
  BY <1>1, <1>4 DEF Alone, SimAlone, Exists
<1>6. \A d \in Ids : GoodRow(db'[d])
  BY <1>1, <1>2 DEF Alone
<1>7. \A d \in Ids : Relayed(d)' /\ db'[d].kind = "operation" => db'[d].stage \in Passed
  BY <1>1, <1>3 DEF Alone, Relayed
<1>8. \A d \in Ids : Paid(p, d)'
  <2> SUFFICES ASSUME NEW d \in Ids PROVE Paid(p, d)'
    OBVIOUS
  <2>1. Paid(p, d) /\ ~Concluding(p, d) /\ sent[p][d] \in Nat /\ faults \in Nat
    BY <1>1 DEF Alone, Concluding, TypeOK, Idle, Writer
  <2>2. d = c => sent[p][d] = 0
    BY <1>3, <2>1 DEF Relayed
  <2> QED
    BY <1>1, <2>1, <2>2 DEF Paid
<1>9. /\ task'[p] \notin Writer
      /\ task'[p] \in Reader => ReaderAlone(task[p])'
      /\ task'[p] # Idle => \A s \in sims' : s.cmd # task'[p].cmd
  <2>1. CASE UNCHANGED task
    BY <1>1, <2>1 DEF Idle, Reader, Writer
  <2>2. CASE kind = "esd" /\ task'[p] = [pc |-> "shutdown", cmd |-> c]
    BY <1>1, <1>4, <2>2 DEF Reader, Writer, ReaderAlone, NewRow, Exists
  <2> QED
    BY <2>1, <2>2
<1>10. \A q \in Procs : q = p
  BY DEF OneProcess
<1> QED
  BY <1>5, <1>6, <1>7, <1>8, <1>9, <1>10 DEF Alone

\* Between two awaits the one handler at work has its row to itself.
LEMMA SimulationAlone ==
  ASSUME TypeOK, Alone, OneProcess, NEW p \in Procs, StartSimulation(p) \/ FinishSimulation(p)
  PROVE  Alone'
<1>0. \A q \in Procs : q = p
  BY DEF OneProcess
<1>1. CASE StartSimulation(p)
  <2> PICK t \in Reader : t = task[p]
    BY <1>1, AtType DEF StartSimulation
  <2> PICK c \in Ids : c = t.cmd
    BY DEF Reader
  <2> DEFINE new == [proc |-> p, cmd |-> c, snap |-> db[c]]
  <2>1. Exists(c) /\ db[c].stage = "two_fa_verified"
    BY <1>1 DEF Alone, ReaderAlone, StartSimulation, At
  <2>2. sims' = sims \union {new} /\ task'[p] = Idle /\ UNCHANGED <<db, sent, faults>>
    BY <1>1, <2>1 DEF StartSimulation, TypeOK
  <2>3. new.cmd = c /\ new.snap = db[c]
    OBVIOUS
  <2> HIDE DEF new
  <2>4. \A s \in sims' : SimAlone(s)'
    BY <2>1, <2>2, <2>3 DEF Alone, SimAlone, Exists
  <2>5. Idle \notin Reader /\ Idle \notin Writer /\ task[p] \notin Writer
    BY DEF Idle, Reader, Writer
  <2>6. \A d \in Ids : Paid(p, d)'
    BY <2>2, <2>5 DEF Alone, Paid, Concluding
  <2>7. \A d \in Ids : GoodRow(db'[d])
    BY <2>2 DEF Alone
  <2>8. \A d \in Ids : Relayed(d)' /\ db'[d].kind = "operation" => db'[d].stage \in Passed
    BY <2>2 DEF Alone, Relayed
  <2> QED
    BY <1>0, <2>2, <2>4, <2>5, <2>6, <2>7, <2>8 DEF Alone
<1>2. CASE FinishSimulation(p)
  <2>1. PICK s \in sims :
          /\ s.proc = p
          /\ sims' = sims \ {s}
          /\ \/ \E result \in {"safe", "unsafe"} :
                  Write(p, "commit", s.cmd, s.snap,
                        [s.snap EXCEPT !.stage = "digital_twin_simulation",
                                       !.sim = result], "done")
             \/ Write(p, "commit", s.cmd, s.snap,
                      [s.snap EXCEPT !.stage = "rejected", !.status = "rejected"], "done")
    BY <1>2 DEF FinishSimulation
  <2>2. s \in Suspended /\ SimAlone(s)
    BY DEF Alone, TypeOK
  <2> PICK c \in Ids : c = s.cmd
    BY <2>2 DEF Suspended
  <2> DEFINE r == db[c]
  <2>3. /\ s.snap = r /\ r \in Row /\ GoodRow(r) /\ r.status # "absent" /\ Exists(c)
        /\ r.stage = "two_fa_verified"
    BY <2>2 DEF SimAlone, Exists, TypeOK, Alone
  <2>4. \A z \in sims' : z.cmd # c
    <3> SUFFICES ASSUME NEW z \in sims', z.cmd = c PROVE FALSE
      OBVIOUS
    <3>1. z \in Suspended /\ SimAlone(z) /\ z # s
      BY <2>1 DEF Alone, TypeOK
    <3>2. z.proc = s.proc /\ z.cmd = s.cmd /\ z.snap = s.snap
      BY <1>0, <2>2, <3>1 DEF SimAlone, Suspended
    <3> QED
      BY <2>2, <3>1, <3>2 DEF Suspended
  <2>5. PICK new \in Row : Write(p, "commit", c, r, new, "done") /\ GoodEdit(r, new, "done")
    <3> HIDE DEF r
    <3>1. \A result \in {"safe", "unsafe"} :
            [r EXCEPT !.stage = "digital_twin_simulation", !.sim = result] \in Row
      BY <2>3 DEF Row, Stage
    <3>2. [r EXCEPT !.stage = "rejected", !.status = "rejected"] \in Row
      BY <2>3 DEF Row, Stage, Status
    <3>3. CASE \E result \in {"safe", "unsafe"} :
                 Write(p, "commit", s.cmd, s.snap,
                       [s.snap EXCEPT !.stage = "digital_twin_simulation", !.sim = result], "done")
      BY <2>3, <3>1, <3>3, GoodEdits
    <3>4. CASE Write(p, "commit", s.cmd, s.snap,
                     [s.snap EXCEPT !.stage = "rejected", !.status = "rejected"], "done")
      BY <2>3, <3>2, <3>4, GoodEdits DEF Ended
    <3> QED
      BY <2>1, <3>3, <3>4
  <2>6. UNCHANGED <<db, sent, faults>> /\ task[p] \notin Writer
    BY <1>2 DEF FinishSimulation, Free, Idle, Writer
  <2> QED
    BY <2>1, <2>4, <2>5, <2>6, WriteAlone
<1> QED
  BY <1>1, <1>2

LEMMA ExecuteAlone ==
  ASSUME TypeOK, Alone, OneProcess, NEW p \in Procs,
         ExecuteImmediately(p) \/ WorkflowPublish(p) \/ \E c \in Ids : ExecuteCommand(p, c)
  PROVE  Alone'
<1>1. ASSUME NEW c \in Ids, Publishable(db[c]), Exists(c), task[p] \notin Writer,
             \A s \in sims : s.cmd # c,
             Write(p, "commit", c, db[c], [db[c] EXCEPT !.status = "executing"], "publish"),
             UNCHANGED <<db, sims, sent, faults>>
      PROVE  Alone'
  <2>1. db[c] \in Row /\ GoodRow(db[c]) /\ db[c].status # "absent"
    BY <1>1 DEF TypeOK, Alone, Exists
  <2> DEFINE new == [db[c] EXCEPT !.status = "executing"]
  <2>2. new \in Row
    BY <2>1 DEF Row, Status
  <2>3. GoodEdit(db[c], new, "publish")
    BY <1>1, <2>1, GoodEdits
  <2>4. Write(p, "commit", c, db[c], new, "publish")
    BY <1>1
  <2> HIDE DEF new
  <2> QED
    BY <1>1, <2>2, <2>3, <2>4, WriteAlone
<1>2. CASE ExecuteImmediately(p)
  <2> PICK t \in Reader : t = task[p]
    BY <1>2, AtType DEF ExecuteImmediately
  <2> PICK c \in Ids : c = t.cmd
    BY DEF Reader
  <2>1. Exists(c) /\ Publishable(db[c])
    BY <1>2 DEF Alone, ReaderAlone, ExecuteImmediately, At, Publishable, Ended
  <2>2. task[p] \notin Writer /\ \A s \in sims : s.cmd # c
    BY DEF Alone, Reader, Writer, Idle
  <2>3. /\ Write(p, "commit", c, db[c], [db[c] EXCEPT !.status = "executing"], "publish")
        /\ UNCHANGED <<db, sims, sent, faults>>
    BY <1>2 DEF ExecuteImmediately
  <2> QED
    BY <1>1, <2>1, <2>2, <2>3
<1>3. ASSUME NEW c \in Ids, ExecuteCommand(p, c) PROVE Alone'
  <2>1. Exists(c) /\ Publishable(db[c]) /\ task[p] \notin Writer
    BY <1>3 DEF ExecuteCommand, Publishable, Free, Idle, Writer
  <2>2. \A s \in sims : s.cmd # c
    BY <1>3 DEF Alone, SimAlone, ExecuteCommand
  <2>3. /\ Write(p, "commit", c, db[c], [db[c] EXCEPT !.status = "executing"], "publish")
        /\ UNCHANGED <<db, sims, sent, faults>>
    BY <1>3 DEF ExecuteCommand
  <2> QED
    BY <1>1, <2>1, <2>2, <2>3
<1>4. CASE WorkflowPublish(p)
  <2> PICK t \in Reader : t = task[p]
    BY <1>4, AtType DEF WorkflowPublish
  <2> PICK c \in Ids : c = t.cmd
    BY DEF Reader
  <2>1. /\ db[c] \in Row /\ GoodRow(db[c]) /\ db[c].status # "absent" /\ Publishable(db[c])
    BY <1>4 DEF Alone, ReaderAlone, WorkflowPublish, At, Exists, TypeOK
  <2>2. task[p] \notin Writer /\ \A s \in sims : s.cmd # c
    BY DEF Alone, Reader, Writer, Idle
  <2>3. PICK executed \in Row :
          /\ executed = [db[c] EXCEPT !.stage = "executed", !.status = "executed"]
          /\ executed.approver = db[c].approver
          /\ executed.stage = "executed"
          /\ executed.status = "executed"
    BY <2>1, ConcludedRow
  <2>4. PICK failed \in Row :
          /\ failed = [db[c] EXCEPT !.stage = "failed", !.status = "failed"]
          /\ failed.approver = db[c].approver
          /\ failed.stage = "failed"
          /\ failed.status = "failed"
    BY <2>1, ConcludedRow
  <2>5. GoodEdit(db[c], executed, "done") /\ GoodEdit(db[c], failed, "done")
    BY <2>1, <2>3, <2>4, GoodEdits
  <2>6. Publish(p, c, executed, failed)
    BY <1>4, <2>3, <2>4 DEF WorkflowPublish
  <2>7. CASE /\ Send(p, c)
             /\ Write(p, IF db[c].kind = "esd" THEN "commit" ELSE "flush",
                      c, db[c], executed, "done")
             /\ UNCHANGED <<db, sims, topic, faults>>
    BY <2>1, <2>2, <2>3, <2>5, <2>7, WriteAlone
  <2>8. CASE /\ Write(p, "commit", c, db[c], failed, "done")
             /\ UNCHANGED <<db, sims, outbox, topic, sent, faults>>
    BY <2>2, <2>5, <2>8, WriteAlone
  <2> QED
    BY <2>6, <2>7, <2>8 DEF Publish
<1> QED
  BY <1>2, <1>3, <1>4

LEMMA RequestAlone ==
  ASSUME TypeOK, Seconded, Alone, OneProcess, NEW p \in Procs, NEW c \in Ids, NEW u \in Users,
         \/ InitiateCommand(p, u, c) \/ VerifyTwoFactor(p, u, c)
         \/ ApproveSimulation(p, u, c) \/ EmergencyShutdown(p, u, c)
  PROVE  Alone'
<1>1. CASE InitiateCommand(p, u, c)
  BY <1>1, InsertAlone DEF InitiateCommand
<1>2. CASE EmergencyShutdown(p, u, c)
  <2>1. task'[p] = [pc |-> "shutdown", cmd |-> c]
    BY <1>2 DEF EmergencyShutdown, TypeOK
  <2> QED
    BY <1>2, <2>1, InsertAlone DEF EmergencyShutdown
<1>3. ASSUME Exists(c), Free(p), db[c].stage \in {"requested", "digital_twin_simulation"}
      PROVE  /\ db[c] \in Row /\ GoodRow(db[c]) /\ db[c].status # "absent"
             /\ task[p] \notin Writer /\ \A s \in sims : s.cmd # c
  BY <1>3 DEF TypeOK, Alone, Exists, Free, Idle, Writer, SimAlone
<1>4. ASSUME NEW new \in Row, NEW next \in {"done", "simulate"},
             Exists(c), Free(p), db[c].stage \in {"requested", "digital_twin_simulation"},
             GoodEdit(db[c], new, next), Write(p, "commit", c, db[c], new, next),
             UNCHANGED <<db, sims, sent, faults>>
      PROVE  Alone'
  BY <1>3, <1>4, WriteAlone
<1>5. CASE VerifyTwoFactor(p, u, c)
  <2>1. /\ Exists(c) /\ Free(p) /\ db[c].stage = "requested"
        /\ UNCHANGED <<db, sims, sent, faults>>
    BY <1>5 DEF VerifyTwoFactor
  <2> DEFINE yes == [db[c] EXCEPT !.stage = "two_fa_verified", !.verified = TRUE]
             no == [db[c] EXCEPT !.stage = "rejected", !.status = "rejected"]
  <2>2. yes \in Row /\ no \in Row
    BY <1>3, <2>1 DEF Row, Status, Stage
  <2>3. GoodEdit(db[c], yes, "simulate") /\ GoodEdit(db[c], no, "done")
    BY <1>3, <2>1, GoodEdits DEF Ended
  <2>4. Write(p, "commit", c, db[c], yes, "simulate") \/ Write(p, "commit", c, db[c], no, "done")
    BY <1>5 DEF VerifyTwoFactor
  <2> HIDE DEF yes, no
  <2> QED
    BY <1>4, <2>1, <2>2, <2>3, <2>4
<1>6. CASE ApproveSimulation(p, u, c)
  <2>1. /\ Exists(c) /\ Free(p) /\ db[c].stage = "digital_twin_simulation"
        /\ UNCHANGED <<db, sims, sent, faults>>
    BY <1>6 DEF ApproveSimulation
  <2> DEFINE no == [db[c] EXCEPT !.stage = "rejected", !.status = "rejected"]
             yes == [db[c] EXCEPT !.stage = "simulation_approved", !.status = "approved",
                                  !.approver = u]
  <2>2. yes \in Row /\ no \in Row
    BY <1>3, <2>1 DEF Row, Status, Stage
  <2>3. /\ db[c].sim # "unsafe" => GoodEdit(db[c], yes, "done")
        /\ GoodEdit(db[c], no, "done")
    BY <1>3, <2>1, GoodEdits DEF Ended
  <2>4. Write(p, "commit", c, db[c], IF db[c].sim = "unsafe" THEN no ELSE yes, "done")
    BY <1>6 DEF ApproveSimulation
  <2> HIDE DEF yes, no
  <2> QED
    BY <1>4, <2>1, <2>2, <2>3, <2>4
<1> QED
  BY <1>1, <1>2, <1>5, <1>6

\* The invariant of the workflow on its own, with its crashes, failing commits
\* and suspended handlers.
THEOREM AloneInvariant ==
  ASSUME OneProcess
  PROVE  Spec => []Alone
<1>1. Init => Alone
  <2> SUFFICES ASSUME Init PROVE Alone
    OBVIOUS
  <2>1. GoodRow(NoRow)
    BY DEF NoRow, NewRow, GoodRow, RowAgrees, RowGated, Ended, Passed
  <2> QED
    BY <2>1 DEF Init, Alone, Relayed, Paid, Idle, Reader, Writer
<1>2. TypeOK /\ Seconded /\ Alone /\ [Next]_vars => Alone'
  <2> SUFFICES ASSUME TypeOK, Seconded, Alone, [Next]_vars PROVE Alone'
    OBVIOUS
  <2>1. ASSUME NEW p \in Procs, SharedStep(p) PROVE Alone'
    BY <2>1, SharedAlone
  <2>2. ASSUME NEW p \in Workflow, WorkflowStep(p) PROVE Alone'
    <3> p \in Procs
      BY WorkflowAssumption
    <3> QED
      BY <2>2, SimulationAlone, ExecuteAlone, RequestAlone DEF WorkflowStep
  <2>3. CASE UNCHANGED vars
    BY <2>3 DEF vars, Alone, WriterAlone, ReaderAlone, SimAlone, Exists, Relayed, Paid, Concluding
  <2> QED
    BY <2>1, <2>2, <2>3 DEF Next, OneProcess
<1> QED
  BY <1>1, <1>2, TypeCorrect, SecondedInvariant, PTL DEF Spec

\* With one process of the workflow and no other writer, what is relayed has
\* its 2FA code, its safe simulation and its approval on the row, whatever
\* crashes and whichever commits fail.
THEOREM GatesBeforeRelayHolds ==
  ASSUME OneProcess
  PROVE  Spec => []GatesBeforeRelay
<1>1. Alone => GatesBeforeRelay
  BY DEF Alone, GatesBeforeRelay, GoodRow, RowGated, Passed
<1> QED
  BY <1>1, AloneInvariant, PTL

\* The columns status and stage of such a row never contradict each other.
THEOREM ColumnsAgreeHolds ==
  ASSUME OneProcess
  PROVE  Spec => []ColumnsAgree
<1>1. Alone => ColumnsAgree
  BY DEF Alone, ColumnsAgree, GoodRow, RowAgrees, Ended
<1> QED
  BY <1>1, AloneInvariant, PTL

\* Each relay of a command after the first takes a fault of its own.
THEOREM ResendOnlyAfterFaultHolds ==
  ASSUME OneProcess
  PROVE  Spec => []ResendOnlyAfterFault
<1>1. TypeOK /\ Alone => ResendOnlyAfterFault
  BY WorkflowAssumption, FaultsAssumption DEF TypeOK, Alone, Paid, ResendOnlyAfterFault
<1> QED
  BY <1>1, AloneInvariant, TypeCorrect, PTL

\* A command called failed has not been sent, unless a fault hid the sending.
THEOREM FailedWasNotSentHolds ==
  ASSUME OneProcess
  PROVE  Spec => []FailedWasNotSent
<1>1. TypeOK /\ Alone => FailedWasNotSent
  <2> SUFFICES ASSUME TypeOK, Alone, NEW c \in Ids, db[c].status = "failed", ~(faults > 0),
                      NEW p \in Procs, sent[p][c] > 0
               PROVE  FALSE
    BY DEF FailedWasNotSent, Relayed
  <2>1. db[c].stage = "failed"
    BY DEF Alone, GoodRow, RowAgrees, Ended
  <2>2. ~Concluding(p, c)
    BY <2>1 DEF Concluding, Alone, WriterAlone, GoodEdit, Ended
  <2>3. Paid(p, c) /\ faults = 0 /\ sent[p][c] \in Nat
    BY FaultsAssumption DEF Alone, TypeOK
  <2> QED
    BY <2>1, <2>2, <2>3 DEF Paid
<1> QED
  BY <1>1, AloneInvariant, TypeCorrect, PTL

-----------------------------------------------------------------------------
(* While Kafka works, executed means delivered, for any number of processes *)
(* of both services                                                         *)

\* A handler that is to write "executed" has flushed, or has its message
\* queued or delivered before it does.
WriterDelivers(p, t) ==
  t.new.status = "executed" /\ t.snap.status # "executed" /\ db[t.cmd].kind # "esd" =>
    topic[t.cmd] > 0 \/ (t.pc = "flush" /\ outbox[p][t.cmd] > 0)

Delivered ==
  /\ ExecutedReachedTopic
  /\ \A p \in Procs : task[p] \in Writer => WriterDelivers(p, task[p])

\* The frame: messages may only move towards the topic, except those of p.
LEMMA DeliveredStep ==
  ASSUME TypeOK, Seconded, Delivered, NEW p \in Procs, RowsKept,
         \A c \in Ids : topic'[c] >= topic[c] /\ topic'[c] \in Nat,
         ExecutedReachedTopic',
         \A q \in Procs : q # p => task'[q] = task[q] /\ outbox'[q] = outbox[q],
         task'[p] \in Writer => WriterDelivers(p, task[p])'
  PROVE  Delivered'
<1>1. ASSUME NEW q \in Procs, q # p, task'[q] \in Writer
      PROVE  WriterDelivers(q, task[q])'
  <2> PICK t \in Writer : t = task[q] /\ t = task'[q]
    BY <1>1
  <2> t.cmd \in Ids /\ WriterDelivers(q, t) /\ Exists(t.cmd)
    BY <1>1 DEF Delivered, Writer, Seconded, WriterSound, CopySound
  <2>1. db'[t.cmd].kind = db[t.cmd].kind
    BY DEF RowsKept
  <2>2. topic[t.cmd] \in Nat /\ topic'[t.cmd] \in Nat /\ topic'[t.cmd] >= topic[t.cmd]
    BY DEF TypeOK
  <2>3. outbox'[q] = outbox[q]
    BY <1>1
  <2> QED
    BY <2>1, <2>2, <2>3 DEF WriterDelivers
<1> QED
  BY <1>1 DEF Delivered

\* A handler that writes something else than "executed".
LEMMA EditDelivered ==
  ASSUME TypeOK, Seconded, Delivered, NEW p \in Procs, NEW c \in Ids, NEW snap \in Row,
         NEW new \in Row, NEW next \in {"done", "simulate", "publish"},
         new.status \in {snap.status} \union (Status \ {"executed"}),
         Write(p, "commit", c, snap, new, next),
         UNCHANGED <<db, topic, outbox>>
  PROVE  Delivered'
<1>1. /\ task'[p] = [pc |-> "commit", cmd |-> c, snap |-> snap, new |-> new, next |-> next]
      /\ \A q \in Procs : q # p => task'[q] = task[q]
  BY DEF Write, TypeOK
<1>2. WriterDelivers(p, task[p])'
  BY <1>1 DEF WriterDelivers
<1>3. ExecutedReachedTopic' /\ RowsKept /\ \A d \in Ids : topic'[d] >= topic[d] /\ topic'[d] \in Nat
  BY TableUntouched DEF Delivered, ExecutedReachedTopic, TypeOK
<1> QED
  BY <1>1, <1>2, <1>3, DeliveredStep

LEMMA PublishDelivered ==
  ASSUME TypeOK, Seconded, Delivered, NEW p \in Procs, NEW c \in Ids,
         NEW executed \in Row, NEW failed \in Row, failed.status = "failed",
         Publish(p, c, executed, failed)
  PROVE  Delivered'
<1> db[c] \in Row /\ UNCHANGED <<db, topic>>
  BY DEF TypeOK, Publish
<1>0. ExecutedReachedTopic' /\ RowsKept /\ \A d \in Ids : topic'[d] >= topic[d] /\ topic'[d] \in Nat
  BY TableUntouched DEF Delivered, ExecutedReachedTopic, TypeOK
<1>1. CASE /\ Send(p, c)
           /\ Write(p, IF db[c].kind = "esd" THEN "commit" ELSE "flush",
                    c, db[c], executed, "done")
  <2>1. /\ task'[p].pc = IF db[c].kind = "esd" THEN "commit" ELSE "flush"
        /\ task'[p].cmd = c
        /\ \A q \in Procs : q # p => task'[q] = task[q] /\ outbox'[q] = outbox[q]
        /\ outbox'[p][c] > 0
    BY <1>1 DEF Write, Send, TypeOK
  <2>2. WriterDelivers(p, task[p])'
    BY <2>1 DEF WriterDelivers
  <2> QED
    BY <1>0, <2>1, <2>2, DeliveredStep
<1>2. CASE Write(p, "commit", c, db[c], failed, "done") /\ UNCHANGED outbox
  BY <1>2, EditDelivered DEF Status
<1> QED
  BY <1>1, <1>2 DEF Publish

LEMMA SharedDelivered ==
  ASSUME BrokerFaults = FALSE, TypeOK, TypeOK', Seconded, Delivered, NEW p \in Procs, SharedStep(p)
  PROVE  Delivered'
<1> Idle \notin Writer
  BY DEF Idle, Writer
<1>1. CASE Commit(p)
  <2> PICK t \in Writer : t = task[p]
    BY <1>1, AtType DEF Commit
  <2> PICK c \in Ids : c = t.cmd
    BY DEF Writer
  <2>1. /\ db'[c] = Flushed(t, db[c])
        /\ \A d \in Ids : d # c => db'[d] = db[d]
        /\ WriterDelivers(p, t) /\ t.pc = "commit"
        /\ UNCHANGED <<topic, outbox>>
    BY <1>1 DEF Commit, TypeOK, Delivered, At
  <2>2. /\ db'[c].status = Column(t.snap.status, t.new.status, db[c].status)
        /\ db'[c].kind = db[c].kind
    BY <2>1 DEF Flushed
  <2>3. ExecutedReachedTopic'
    BY <2>1, <2>2 DEF ExecutedReachedTopic, Delivered, WriterDelivers, Column
  <2>4. RowsKept
    <3>1. WriterSound(t)
      BY DEF Seconded
    <3>2. /\ db'[c].requester = db[c].requester
          /\ db'[c].approver = Column(t.snap.approver, t.new.approver, db[c].approver)
      BY <2>1 DEF Flushed
    <3> QED
      BY <2>1, <2>2, <3>1, <3>2 DEF RowsKept, Exists, Column, WriterSound, CopySound
  <2>5. /\ task'[p] \notin Writer
        /\ \A q \in Procs : q # p => task'[q] = task[q]
    BY <1>1, ResumeType DEF Commit, TypeOK, Reader, Writer, Idle
  <2>6. \A d \in Ids : topic'[d] >= topic[d] /\ topic'[d] \in Nat
    BY <2>1 DEF TypeOK
  <2> QED
    BY <2>1, <2>3, <2>4, <2>5, <2>6, DeliveredStep
<1>2. CASE Flush(p)
  <2> PICK t \in Writer : t = task[p]
    BY <1>2, AtType DEF Flush
  <2> PICK c \in Ids : c = t.cmd
    BY DEF Writer
  <2>1. /\ task'[p] = [t EXCEPT !.pc = "commit"]
        /\ \A q \in Procs : q # p => task'[q] = task[q]
        /\ UNCHANGED <<db, topic, outbox>>
        /\ WriterDelivers(p, t)
        /\ outbox[p][c] = 0
    BY <1>2 DEF Flush, TypeOK, Delivered
  <2>2. /\ task'[p].cmd = c /\ task'[p].snap = t.snap /\ task'[p].new = t.new
    BY <2>1 DEF Writer
  <2>3. WriterDelivers(p, task[p])'
    BY <2>1, <2>2 DEF WriterDelivers
  <2>4. ExecutedReachedTopic' /\ RowsKept /\ \A d \in Ids : topic'[d] >= topic[d] /\ topic'[d] \in Nat
    BY <2>1, TableUntouched DEF Delivered, ExecutedReachedTopic, TypeOK
  <2> QED
    BY <2>1, <2>3, <2>4, DeliveredStep
<1>3. CASE Crash(p) \/ CommitFails(p)
  <2>1. /\ task'[p] = Idle
        /\ \A q \in Procs : q # p => task'[q] = task[q] /\ outbox'[q] = outbox[q]
        /\ UNCHANGED <<db, topic>>
    BY <1>3 DEF Crash, CommitFails, TypeOK
  <2>2. ExecutedReachedTopic' /\ RowsKept /\ \A d \in Ids : topic'[d] >= topic[d] /\ topic'[d] \in Nat
    BY <2>1, TableUntouched DEF Delivered, ExecutedReachedTopic, TypeOK
  <2> QED
    BY <2>1, <2>2, DeliveredStep
<1>4. ASSUME NEW d \in Ids, Deliver(p, d) PROVE Delivered'
  <2>1. /\ UNCHANGED <<db, task>> /\ topic'[d] > 0
        /\ \A c \in Ids : topic'[c] >= topic[c] /\ topic'[c] \in Nat
        /\ \A q \in Procs : q # p => outbox'[q] = outbox[q]
        /\ \A c \in Ids : c # d => outbox'[p][c] = outbox[p][c]
    BY <1>4 DEF Deliver, TypeOK
  <2>2. ExecutedReachedTopic' /\ RowsKept
    BY <2>1, TableUntouched DEF Delivered, ExecutedReachedTopic, TypeOK
  <2>3. task'[p] \in Writer => WriterDelivers(p, task[p])'
    <3> SUFFICES ASSUME task[p] \in Writer PROVE WriterDelivers(p, task[p])'
      BY <2>1
    <3> PICK t \in Writer : t = task[p]
      OBVIOUS
    <3> PICK c \in Ids : c = t.cmd
      BY DEF Writer
    <3>1. WriterDelivers(p, t)
      BY DEF Delivered
    <3>2. CASE c = d
      BY <2>1, <3>2 DEF WriterDelivers
    <3>3. CASE c # d
      <4>1. /\ db'[c] = db[c] /\ outbox'[p][c] = outbox[p][c]
            /\ (topic[c] > 0 => topic'[c] > 0)
        BY <2>1, <3>3 DEF TypeOK
      <4>2. task'[p] = t
        BY <2>1
      <4> QED
        BY <3>1, <4>1, <4>2 DEF WriterDelivers
    <3> QED
      BY <3>2, <3>3
  <2> QED
    BY <2>1, <2>2, <2>3, DeliveredStep
<1>5. ~ \E c \in Ids : DeliveryFails(p, c)
  BY DEF DeliveryFails
<1> QED
  BY <1>1, <1>2, <1>3, <1>4, <1>5 DEF SharedStep

\* A step that changes no row but by inserting one, and no message.
LEMMA InsertDelivered ==
  ASSUME TypeOK, Seconded, Delivered, NEW p \in Procs, NEW c \in Ids,
         NEW kind \in {"operation", "command", "esd"}, NEW u \in Users,
         Insert(p, c, NewRow(kind, u)),
         UNCHANGED <<topic, outbox>>,
         \A q \in Procs : q # p => task'[q] = task[q],
         task'[p] \notin Writer
  PROVE  Delivered'
<1>1. db'[c].status = "pending" /\ \A d \in Ids : d # c => db'[d] = db[d]
  BY DEF Insert, NewRow, TypeOK
<1>2. ExecutedReachedTopic' /\ \A d \in Ids : topic'[d] >= topic[d] /\ topic'[d] \in Nat
  BY <1>1 DEF Delivered, ExecutedReachedTopic, TypeOK
<1> QED
  BY <1>2, InsertKeepsRows, DeliveredStep

LEMMA WorkflowDelivered ==
  ASSUME TypeOK, Seconded, Delivered, NEW p \in Procs, WorkflowStep(p)
  PROVE  Delivered'
<1>1. CASE StartSimulation(p)
  <2>1. /\ task'[p] = Idle
        /\ \A q \in Procs : q # p => task'[q] = task[q]
        /\ UNCHANGED <<db, topic, outbox>>
    BY <1>1 DEF StartSimulation, TypeOK
  <2>2. ExecutedReachedTopic' /\ RowsKept /\ \A d \in Ids : topic'[d] >= topic[d] /\ topic'[d] \in Nat
    BY <2>1, TableUntouched DEF Delivered, ExecutedReachedTopic, TypeOK
  <2> QED
    BY <2>1, <2>2, DeliveredStep DEF Idle, Writer
<1>2. CASE FinishSimulation(p)
  <2>1. PICK s \in sims :
          \/ \E result \in {"safe", "unsafe"} :
               Write(p, "commit", s.cmd, s.snap,
                     [s.snap EXCEPT !.stage = "digital_twin_simulation",
                                    !.sim = result], "done")
          \/ Write(p, "commit", s.cmd, s.snap,
                   [s.snap EXCEPT !.stage = "rejected",
                                  !.status = "rejected"], "done")
    BY <1>2 DEF FinishSimulation
  <2> s.cmd \in Ids /\ s.snap \in Row
    BY DEF TypeOK, Suspended
  <2>2. PICK new \in Row :
          /\ Write(p, "commit", s.cmd, s.snap, new, "done")
          /\ new.status \in {s.snap.status, "rejected"}
    <3>1. \A result \in {"safe", "unsafe"} :
            [s.snap EXCEPT !.stage = "digital_twin_simulation", !.sim = result] \in Row
      BY DEF Row, Stage
    <3>2. [s.snap EXCEPT !.stage = "rejected", !.status = "rejected"] \in Row
      BY DEF Row, Stage, Status
    <3> QED
      BY <2>1, <3>1, <3>2 DEF Row
  <2>3. UNCHANGED <<db, topic, outbox>>
    BY <1>2 DEF FinishSimulation
  <2> QED
    BY <2>2, <2>3, EditDelivered DEF Status
<1>3. ASSUME NEW c \in Ids, UNCHANGED <<db, topic, outbox>>,
             Write(p, "commit", c, db[c], [db[c] EXCEPT !.status = "executing"], "publish")
      PROVE  Delivered'
  <2> DEFINE new == [db[c] EXCEPT !.status = "executing"]
  <2>1. db[c] \in Row /\ new \in Row /\ new.status = "executing"
    BY ZenonT(60) DEF TypeOK, Row, Status
  <2>2. Write(p, "commit", c, db[c], new, "publish")
    BY <1>3
  <2> HIDE DEF new
  <2> QED
    BY <1>3, <2>1, <2>2, EditDelivered DEF Status
<1>4. CASE ExecuteImmediately(p)
  <2> PICK t \in Reader : t = task[p]
    BY <1>4, AtType DEF ExecuteImmediately
  <2> PICK c \in Ids : c = t.cmd
    BY DEF Reader
  <2> QED
    BY <1>3, <1>4 DEF ExecuteImmediately
<1>5. CASE \E c \in Ids : ExecuteCommand(p, c)
  BY <1>3, <1>5 DEF ExecuteCommand
<1>6. CASE WorkflowPublish(p)
  <2> PICK t \in Reader : t = task[p]
    BY <1>6, AtType DEF WorkflowPublish
  <2> PICK c \in Ids : c = t.cmd
    BY DEF Reader
  <2>1. db[c] \in Row
    BY DEF TypeOK
  <2>2. PICK executed \in Row :
          /\ executed = [db[c] EXCEPT !.stage = "executed", !.status = "executed"]
          /\ executed.approver = db[c].approver
          /\ executed.stage = "executed"
          /\ executed.status = "executed"
    BY <2>1, ConcludedRow
  <2>3. PICK failed \in Row :
          /\ failed = [db[c] EXCEPT !.stage = "failed", !.status = "failed"]
          /\ failed.approver = db[c].approver
          /\ failed.stage = "failed"
          /\ failed.status = "failed"
    BY <2>1, ConcludedRow
  <2>4. Publish(p, c, executed, failed)
    BY <1>6, <2>2, <2>3 DEF WorkflowPublish
  <2> QED
    BY <2>3, <2>4, PublishDelivered
<1>7. ASSUME NEW c \in Ids, NEW u \in Users, InitiateCommand(p, u, c) \/ EmergencyShutdown(p, u, c)
      PROVE  Delivered'
  <2>1. CASE InitiateCommand(p, u, c)
    <3>1. task'[p] \notin Writer /\ \A q \in Procs : task'[q] = task[q]
      BY <2>1 DEF InitiateCommand, Insert, Free, Idle, Writer
    <3> QED
      BY <2>1, <3>1, InsertDelivered DEF InitiateCommand
  <2>2. CASE EmergencyShutdown(p, u, c)
    <3>1. /\ task'[p] = [pc |-> "shutdown", cmd |-> c]
          /\ \A q \in Procs : q # p => task'[q] = task[q]
      BY <2>2 DEF EmergencyShutdown, TypeOK
    <3>2. task'[p] \notin Writer
      BY <3>1 DEF Writer
    <3> QED
      BY <2>2, <3>1, <3>2, InsertDelivered DEF EmergencyShutdown
  <2> QED
    BY <1>7, <2>1, <2>2
<1>8. ASSUME NEW c \in Ids, NEW u \in Users, VerifyTwoFactor(p, u, c) PROVE Delivered'
  <2>1. db[c] \in Row
    BY DEF TypeOK
  <2>2. PICK new \in Row, next \in {"simulate", "done"} :
          /\ Write(p, "commit", c, db[c], new, next)
          /\ new.status \in {db[c].status, "rejected"}
    <3>1. /\ [db[c] EXCEPT !.stage = "two_fa_verified", !.verified = TRUE] \in Row
          /\ [db[c] EXCEPT !.stage = "rejected", !.status = "rejected"] \in Row
      BY <2>1 DEF Row, Status, Stage
    <3> QED
      BY <1>8, <2>1, <3>1 DEF VerifyTwoFactor, Row
  <2>3. UNCHANGED <<db, topic, outbox>>
    BY <1>8 DEF VerifyTwoFactor
  <2> QED
    BY <2>1, <2>2, <2>3, EditDelivered DEF Status
<1>9. ASSUME NEW c \in Ids, NEW u \in Users, ApproveSimulation(p, u, c) PROVE Delivered'
  <2>1. db[c] \in Row
    BY DEF TypeOK
  <2>2. PICK new \in Row :
          /\ Write(p, "commit", c, db[c], new, "done")
          /\ new.status \in {"rejected", "approved"}
    <3>1. /\ [db[c] EXCEPT !.stage = "rejected", !.status = "rejected"] \in Row
          /\ [db[c] EXCEPT !.stage = "simulation_approved",
                           !.status = "approved", !.approver = u] \in Row
      BY <2>1 DEF Row, Status, Stage
    <3> QED
      BY <1>9, <2>1, <3>1 DEF ApproveSimulation, Row
  <2>3. UNCHANGED <<db, topic, outbox>>
    BY <1>9 DEF ApproveSimulation
  <2> QED
    BY <2>1, <2>2, <2>3, EditDelivered DEF Status
<1> QED
  BY <1>1, <1>2, <1>4, <1>5, <1>6, <1>7, <1>8, <1>9 DEF WorkflowStep

LEMMA ControlDelivered ==
  ASSUME TypeOK, Seconded, Delivered, NEW p \in Procs, ControlStep(p)
  PROVE  Delivered'
<1>1. CASE ControlPublish(p)
  <2> PICK t \in Reader : t = task[p]
    BY <1>1, AtType DEF ControlPublish
  <2> PICK c \in Ids : c = t.cmd
    BY DEF Reader
  <2> DEFINE executed == [db[c] EXCEPT !.status = "executed"]
             failed == [db[c] EXCEPT !.status = "failed"]
  <2>1. db[c] \in Row
    BY DEF TypeOK
  <2>2. executed \in Row /\ failed \in Row /\ failed.status = "failed"
    BY <2>1 DEF Row, Status
  <2>3. Publish(p, c, executed, failed)
    BY <1>1 DEF ControlPublish
  <2> HIDE DEF executed, failed
  <2> QED
    BY <2>2, <2>3, PublishDelivered
<1>2. ASSUME NEW c \in Ids, ExecuteApproved(p, c) PROVE Delivered'
  <2> DEFINE new == [db[c] EXCEPT !.status = "executing"]
  <2>1. db[c] \in Row /\ new \in Row /\ new.status = "executing"
    BY ZenonT(60) DEF TypeOK, Row, Status
  <2>2. Write(p, "commit", c, db[c], new, "publish") /\ UNCHANGED <<db, topic, outbox>>
    BY <1>2 DEF ExecuteApproved
  <2> HIDE DEF new
  <2> QED
    BY <2>1, <2>2, EditDelivered DEF Status
<1>3. ASSUME NEW c \in Ids, NEW u \in Users, CreateCommand(p, u, c) PROVE Delivered'
  <2>1. task'[p] \notin Writer /\ \A q \in Procs : task'[q] = task[q]
    BY <1>3 DEF CreateCommand, Insert, Free, Idle, Writer
  <2> QED
    BY <1>3, <2>1, InsertDelivered DEF CreateCommand
<1>4. ASSUME NEW c \in Ids, NEW u \in Users, ApproveCommand(p, u, c) PROVE Delivered'
  <2> DEFINE new == [db[c] EXCEPT !.status = "approved", !.approver = u]
  <2>1. db[c] \in Row /\ new \in Row /\ new.status = "approved"
    BY ZenonT(60) DEF TypeOK, Row, Status
  <2>2. Write(p, "commit", c, db[c], new, "done") /\ UNCHANGED <<db, topic, outbox>>
    BY <1>4 DEF ApproveCommand
  <2> HIDE DEF new
  <2> QED
    BY <2>1, <2>2, EditDelivered DEF Status
<1> QED
  BY <1>1, <1>2, <1>3, <1>4 DEF ControlStep

\* While Kafka takes and delivers what it is given, a command called executed
\* is in the topic, except an emergency shutdown: nobody flushes its producer.
THEOREM ExecutedReachedTopicHolds ==
  ASSUME BrokerFaults = FALSE
  PROVE  Spec => []ExecutedReachedTopic
<1>1. Init => Delivered
  BY DEF Init, Delivered, ExecutedReachedTopic, NoRow, NewRow, Idle, Writer
<1>2. TypeOK /\ TypeOK' /\ Seconded /\ Delivered /\ [Next]_vars => Delivered'
  <2> SUFFICES ASSUME TypeOK, TypeOK', Seconded, Delivered, [Next]_vars PROVE Delivered'
    OBVIOUS
  <2>1. ASSUME NEW p \in Procs, SharedStep(p) PROVE Delivered'
    BY <2>1, SharedDelivered
  <2>2. ASSUME NEW p \in Workflow, WorkflowStep(p) PROVE Delivered'
    BY <2>2, WorkflowDelivered, WorkflowAssumption
  <2>3. ASSUME NEW p \in Control, ControlStep(p) PROVE Delivered'
    BY <2>3, ControlDelivered, ControlAssumption
  <2>4. CASE UNCHANGED vars
    BY <2>4 DEF vars, Delivered, ExecutedReachedTopic, WriterDelivers
  <2> QED
    BY <2>1, <2>2, <2>3, <2>4 DEF Next
<1>3. Delivered => ExecutedReachedTopic
  BY DEF Delivered
<1> QED
  BY <1>1, <1>2, <1>3, TypeCorrect, SecondedInvariant, PTL DEF Spec

-----------------------------------------------------------------------------
(* Both services at work, with one process each, as the compose files      *)
(* start them.  The workflow alone writes stages, and one process of it    *)
(* has each command's stage to itself: stages only advance.                *)

OneOfEach ==
  /\ \A p, q \in Workflow : p = q
  /\ \A p, q \in Control : p = q

StageCopy(t, stage) ==
  /\ t.snap.stage = stage
  /\ t.new.stage # stage => StageRank[stage] < StageRank[t.new.stage]
  /\ t.next = "publish" => t.new.stage \notin Ended

WorkflowInOrder(t, rows) ==
  /\ t \in Writer => StageCopy(t, rows[t.cmd].stage)
  /\ t \in Reader /\ t.pc \in {"shutdown", "publish"} => rows[t.cmd].stage \notin Ended

ControlInOrder(t) ==
  /\ t \in Writer => t.new.stage = t.snap.stage /\ t.next # "simulate"
  /\ t \in Reader => t.pc = "publish"

SimsInOrder(suspended, rows) ==
  /\ \A s \in suspended : /\ s.snap.stage = "two_fa_verified"
                          /\ rows[s.cmd].stage = "two_fa_verified"
  /\ \A s, z \in suspended : s.cmd = z.cmd => s = z

InOrder ==
  /\ \A p \in Workflow : WorkflowInOrder(task[p], db)
  /\ \A p \in Control : ControlInOrder(task[p])
  /\ SimsInOrder(sims, db)
  /\ \A p \in Workflow : task[p] # Idle => \A s \in sims : s.cmd # task[p].cmd

StagesStay == \A c \in Ids : Exists(c) => db'[c].stage = db[c].stage

\* Handlers and suspended handlers are of commands the table has.
LEMMA HandledExist ==
  ASSUME TypeOK, Seconded
  PROVE  /\ \A p \in Procs : task[p] \in Reader \union Writer =>
              task[p].cmd \in Ids /\ Exists(task[p].cmd)
         /\ \A s \in sims : s.cmd \in Ids /\ Exists(s.cmd)
<1>1. ASSUME NEW p \in Procs, task[p] \in Reader \union Writer
      PROVE  task[p].cmd \in Ids /\ Exists(task[p].cmd)
  BY <1>1 DEF Seconded, ReaderSound, WriterSound, CopySound, Reader, Writer
<1>2. \A s \in sims : s.cmd \in Ids /\ Exists(s.cmd)
  BY DEF Seconded, CopySound, TypeOK, Suspended
<1> QED
  BY <1>1, <1>2

LEMMA IdleType ==
  /\ Idle \notin Reader /\ Idle \notin Writer
  /\ \A t : ~(t \in Reader /\ t \in Writer)
BY DEF Idle, Reader, Writer

\* The frame of a step of p.
LEMMA OrderStep ==
  ASSUME TypeOK, Seconded, InOrder, OneOfEach, NEW p \in Procs,
         p \in Control => StagesStay /\ sims' \subseteq sims,
         \A q \in Procs : q # p => task'[q] = task[q],
         p \in Workflow => WorkflowInOrder(task'[p], db'),
         p \in Control => ControlInOrder(task'[p]),
         SimsInOrder(sims', db'),
         p \in Workflow /\ task'[p] # Idle => \A s \in sims' : s.cmd # task'[p].cmd
  PROVE  InOrder'
<1>1. ASSUME NEW q \in Workflow
      PROVE  /\ WorkflowInOrder(task'[q], db')
             /\ task'[q] # Idle => \A s \in sims' : s.cmd # task'[q].cmd
  <2>1. CASE q = p
    BY <2>1
  <2>2. CASE q # p
    <3>1. q \in Procs /\ p \in Control
      BY <2>2, WorkflowAssumption, ServicesAssumption DEF OneOfEach
    <3>2. task'[q] = task[q] /\ StagesStay /\ sims' \subseteq sims
      BY <2>2, <3>1
    <3>3. WorkflowInOrder(task[q], db) /\ (task[q] # Idle => \A s \in sims : s.cmd # task[q].cmd)
      BY DEF InOrder
    <3>4. PICK t : t = task[q]
      OBVIOUS
    <3>5. t \in Reader \union Writer => db'[t.cmd].stage = db[t.cmd].stage
      BY <3>1, <3>2, <3>4, HandledExist DEF StagesStay
    <3>6. WorkflowInOrder(t, db')
      BY <3>3, <3>4, <3>5 DEF WorkflowInOrder, StageCopy
    <3> QED
      BY <3>2, <3>3, <3>4, <3>6
  <2> QED
    BY <2>1, <2>2
<1>2. ASSUME NEW q \in Control PROVE ControlInOrder(task'[q])
  BY ControlAssumption DEF InOrder
<1> QED
  BY <1>1, <1>2 DEF InOrder

LEMMA SimsStay ==
  ASSUME TypeOK, Seconded, InOrder, StagesStay, sims' \subseteq sims
  PROVE  SimsInOrder(sims', db')
BY HandledExist DEF InOrder, SimsInOrder, StagesStay

\* A handler of the workflow changes the object it has loaded.
LEMMA WriteInOrder ==
  ASSUME TypeOK, Seconded, InOrder, OneOfEach, UNCHANGED db,
         NEW p \in Workflow, NEW c \in Ids, NEW pc \in {"commit", "flush"},
         NEW snap \in Row, NEW new \in Row,
         NEW next \in {"done", "simulate", "publish"},
         Write(p, pc, c, snap, new, next),
         snap.stage = db[c].stage,
         new.stage # snap.stage => StageRank[snap.stage] < StageRank[new.stage],
         next = "publish" => new.stage \notin Ended,
         sims' \subseteq sims, \A s \in sims' : s.cmd # c
  PROVE  InOrder'
<1> p \in Procs /\ p \notin Control
  BY WorkflowAssumption, DisjointAssumption
<1> DEFINE t == [pc |-> pc, cmd |-> c, snap |-> snap, new |-> new, next |-> next]
<1>1. task'[p] = t /\ \A q \in Procs : q # p => task'[q] = task[q]
  BY DEF Write, TypeOK
<1>2. t \in Writer /\ t.cmd = c /\ t.snap = snap /\ t.new = new /\ t.next = next
  BY DEF Writer
<1> HIDE DEF t
<1>3. t \notin Reader
  BY <1>2, IdleType
<1>4. WorkflowInOrder(t, db')
  BY <1>2, <1>3 DEF WorkflowInOrder, StageCopy
<1>5. StagesStay
  BY DEF StagesStay
<1> QED
  BY <1>1, <1>2, <1>4, <1>5, SimsStay, OrderStep

\* A handler of the control service does: the stage is not among it.
LEMMA ControlWriteInOrder ==
  ASSUME TypeOK, Seconded, InOrder, OneOfEach, UNCHANGED <<db, sims>>,
         NEW p \in Control, NEW c \in Ids, NEW pc \in {"commit", "flush"},
         NEW snap \in Row, NEW new \in Row, NEW next \in {"done", "publish"},
         Write(p, pc, c, snap, new, next), new.stage = snap.stage
  PROVE  InOrder'
<1> p \in Procs /\ p \notin Workflow
  BY ControlAssumption, DisjointAssumption
<1> DEFINE t == [pc |-> pc, cmd |-> c, snap |-> snap, new |-> new, next |-> next]
<1>1. task'[p] = t /\ \A q \in Procs : q # p => task'[q] = task[q]
  BY DEF Write, TypeOK
<1>2. t \in Writer /\ t.snap = snap /\ t.new = new /\ t.next = next
  BY DEF Writer
<1> HIDE DEF t
<1>3. t \notin Reader
  BY <1>2, IdleType
<1>4. ControlInOrder(t)
  BY <1>2, <1>3 DEF ControlInOrder
<1>5. StagesStay
  BY DEF StagesStay
<1> QED
  BY <1>1, <1>4, <1>5, SimsStay, OrderStep

\* What a commit of p does to the stage of the row it writes.
LEMMA CommitStage ==
  ASSUME TypeOK, Seconded, InOrder, NEW p \in Procs, Commit(p)
  PROVE  \E t \in Writer, c \in Ids :
           /\ t = task[p] /\ c = t.cmd /\ Exists(c) /\ Exists(c)'
           /\ db'[c] = Flushed(t, db[c])
           /\ \A d \in Ids : d # c => db'[d] = db[d]
           /\ task'[p] = Resume(t)
           /\ \A q \in Procs : q # p => task'[q] = task[q]
           /\ UNCHANGED <<sims, sent>>
           /\ p \in Control => db'[c].stage = db[c].stage
           /\ p \in Workflow => StageCopy(t, db[c].stage) /\ db'[c].stage = t.new.stage
<1>1. PICK t \in Writer : t = task[p]
  BY AtType DEF Commit
<1>2. PICK c \in Ids : c = t.cmd
  BY DEF Writer
<1>3. Exists(c) /\ t.new.status # "absent"
  BY <1>1, <1>2 DEF Seconded, WriterSound, CopySound
<1>4. /\ db'[c] = Flushed(t, db[c])
      /\ \A d \in Ids : d # c => db'[d] = db[d]
      /\ task'[p] = Resume(t)
      /\ \A q \in Procs : q # p => task'[q] = task[q]
      /\ UNCHANGED <<sims, sent>>
  BY <1>1, <1>2 DEF Commit, TypeOK
<1>5. /\ db'[c].status = Column(t.snap.status, t.new.status, db[c].status)
      /\ db'[c].stage = Column(t.snap.stage, t.new.stage, db[c].stage)
  BY <1>4 DEF Flushed
<1>6. Exists(c)'
  BY <1>3, <1>5 DEF Exists, Column
<1>7. p \in Control => db'[c].stage = db[c].stage
  BY <1>1, <1>5 DEF Column, InOrder, ControlInOrder
<1>8. p \in Workflow => StageCopy(t, db[c].stage)
  BY <1>1, <1>2 DEF InOrder, WorkflowInOrder
<1>9. p \in Workflow => db'[c].stage = t.new.stage
  BY <1>5, <1>8 DEF Column, StageCopy
<1> QED
  BY <1>1, <1>2, <1>3, <1>4, <1>6, <1>7, <1>8, <1>9

LEMMA CommitInOrder ==
  ASSUME TypeOK, Seconded, InOrder, OneOfEach, NEW p \in Procs, Commit(p)
  PROVE  InOrder'
<1>1. PICK t \in Writer, c \in Ids :
        /\ t = task[p] /\ c = t.cmd /\ Exists(c) /\ Exists(c)'
        /\ db'[c] = Flushed(t, db[c])
        /\ \A d \in Ids : d # c => db'[d] = db[d]
        /\ task'[p] = Resume(t)
        /\ \A q \in Procs : q # p => task'[q] = task[q]
        /\ UNCHANGED <<sims, sent>>
        /\ p \in Control => db'[c].stage = db[c].stage
        /\ p \in Workflow => StageCopy(t, db[c].stage) /\ db'[c].stage = t.new.stage
  BY CommitStage
<1>2. PICK r : r = Resume(t)
  OBVIOUS
<1>3. r \notin Writer
  BY <1>2, IdleType DEF Resume, Writer
<1>4. r # Idle => r = [pc |-> t.next, cmd |-> c]
  BY <1>1, <1>2 DEF Resume
<1>5. r \in Reader => r # Idle /\ r.pc = t.next /\ r.cmd = c
  BY <1>4, IdleType
<1>6. p \in Control => ControlInOrder(r)
  <2>1. p \in Control => t.next # "simulate"
    BY <1>1 DEF InOrder, ControlInOrder
  <2>2. t.next \in {"done", "simulate", "publish"}
    BY DEF Writer
  <2>3. r \in Reader => t.next # "done"
    BY <1>5, IdleType DEF Reader
  <2> QED
    BY <1>3, <1>5, <2>1, <2>2, <2>3 DEF ControlInOrder
<1>7. p \in Workflow => WorkflowInOrder(r, db')
  <2>1. t.next # "shutdown"
    BY DEF Writer
  <2> QED
    BY <1>1, <1>3, <1>5, <2>1 DEF WorkflowInOrder, StageCopy
<1>8. p \in Control => StagesStay
  BY <1>1 DEF StagesStay
<1>9. p \in Workflow => \A s \in sims : s.cmd # c
  BY <1>1, IdleType DEF InOrder
<1>10. SimsInOrder(sims', db')
  <2>1. \A s \in sims : s.cmd \in Ids
    BY HandledExist
  <2>2. CASE p \in Workflow
    BY <1>1, <1>9, <2>1, <2>2 DEF InOrder, SimsInOrder
  <2>3. CASE p \in Control
    BY <1>1, <1>8, <2>3, SimsStay
  <2> QED
    BY <2>2, <2>3, ServicesAssumption
<1>11. p \in Workflow /\ r # Idle => \A s \in sims' : s.cmd # r.cmd
  BY <1>1, <1>4, <1>9
<1> QED
  BY <1>1, <1>2, <1>6, <1>7, <1>8, <1>10, <1>11, OrderStep

LEMMA SharedInOrder ==
  ASSUME TypeOK, Seconded, InOrder, OneOfEach, NEW p \in Procs, SharedStep(p)
  PROVE  InOrder'
<1>0. ASSUME UNCHANGED db PROVE StagesStay
  BY <1>0 DEF StagesStay
<1>1. CASE Commit(p)
  BY <1>1, CommitInOrder
<1>2. CASE Flush(p)
  <2>1. PICK t \in Writer : t = task[p]
    BY <1>2, AtType DEF Flush
  <2> DEFINE f == [t EXCEPT !.pc = "commit"]
  <2>2. /\ task'[p] = f /\ \A q \in Procs : q # p => task'[q] = task[q]
        /\ UNCHANGED <<db, sims>>
    BY <1>2, <2>1 DEF Flush, TypeOK
  <2>3. f \in Writer /\ f.cmd = t.cmd /\ f.snap = t.snap /\ f.new = t.new /\ f.next = t.next
    BY DEF Writer
  <2> HIDE DEF f
  <2>4. f \notin Reader /\ t # Idle
    BY <2>1, <2>3, IdleType
  <2>5. p \in Workflow => WorkflowInOrder(f, db') /\ \A s \in sims' : s.cmd # f.cmd
    BY <2>1, <2>2, <2>3, <2>4 DEF InOrder, WorkflowInOrder, StageCopy
  <2>6. p \in Control => ControlInOrder(f)
    BY <2>1, <2>3, <2>4 DEF InOrder, ControlInOrder
  <2> QED
    BY <1>0, <2>2, <2>3, <2>5, <2>6, SimsStay, OrderStep
<1>3. CASE Crash(p) \/ CommitFails(p)
  <2>1. /\ UNCHANGED db /\ sims' \subseteq sims /\ task'[p] = Idle
        /\ \A q \in Procs : q # p => task'[q] = task[q]
    BY <1>3 DEF Crash, CommitFails, TypeOK
  <2>2. WorkflowInOrder(Idle, db') /\ ControlInOrder(Idle)
    BY IdleType DEF WorkflowInOrder, ControlInOrder
  <2> QED
    BY <1>0, <2>1, <2>2, SimsStay, OrderStep
<1>4. CASE \E c \in Ids : Deliver(p, c) \/ DeliveryFails(p, c)
  <2>1. UNCHANGED <<db, task, sims>>
    BY <1>4 DEF Deliver, DeliveryFails
  <2> QED
    BY <2>1 DEF InOrder
<1> QED
  BY <1>1, <1>2, <1>3, <1>4 DEF SharedStep

\* An insert of an id nobody has used yet.
LEMMA InsertInOrder ==
  ASSUME TypeOK, Seconded, InOrder, OneOfEach, NEW p \in Procs, NEW c \in Ids,
         NEW kind \in {"operation", "command", "esd"}, NEW u \in Users,
         Insert(p, c, NewRow(kind, u)), UNCHANGED sims,
         \/ UNCHANGED task
         \/ /\ p \in Workflow
            /\ task' = [task EXCEPT ![p] = [pc |-> "shutdown", cmd |-> c]]
  PROVE  InOrder'
<1>1. /\ ~Exists(c) /\ task[p] = Idle
      /\ db'[c] = NewRow(kind, u)
      /\ \A d \in Ids : d # c => db'[d] = db[d]
  BY DEF Insert, Free, TypeOK
<1>2. StagesStay
  BY <1>1 DEF StagesStay
<1>3. SimsInOrder(sims', db')
  BY <1>2, SimsStay
<1>4. CASE UNCHANGED task
  <2>1. WorkflowInOrder(Idle, db') /\ ControlInOrder(Idle)
    BY IdleType DEF WorkflowInOrder, ControlInOrder
  <2> QED
    BY <1>1, <1>2, <1>3, <1>4, <2>1, OrderStep
<1>5. CASE p \in Workflow /\ task' = [task EXCEPT ![p] = [pc |-> "shutdown", cmd |-> c]]
  <2> DEFINE t == [pc |-> "shutdown", cmd |-> c]
  <2>1. t \in Reader /\ t.pc = "shutdown" /\ t.cmd = c
    BY DEF Reader
  <2>2. task'[p] = t /\ \A q \in Procs : q # p => task'[q] = task[q]
    BY <1>5 DEF TypeOK
  <2> HIDE DEF t
  <2>3. WorkflowInOrder(t, db')
    BY <1>1, <2>1, IdleType DEF WorkflowInOrder, NewRow, Ended
  <2>4. \A s \in sims' : s.cmd # c
    BY <1>1, HandledExist
  <2>5. p \notin Control
    BY <1>5, DisjointAssumption
  <2> QED
    BY <1>3, <2>1, <2>2, <2>3, <2>4, <2>5, OrderStep
<1> QED
  BY <1>4, <1>5

\* What the end of a simulation leaves the handler to commit.
LEMMA SimulationEnds ==
  ASSUME TypeOK, NEW p \in Procs, FinishSimulation(p)
  PROVE  \E s \in sims, new \in Row :
           /\ s.cmd \in Ids /\ s.snap \in Row
           /\ sims' = sims \ {s}
           /\ Write(p, "commit", s.cmd, s.snap, new, "done")
           /\ new.stage \in {"digital_twin_simulation", "rejected"}
           /\ new.status \in {s.snap.status, "rejected"}
           /\ UNCHANGED <<db, sent>>
<1>1. PICK s \in sims :
        /\ s.proc = p
        /\ sims' = sims \ {s}
        /\ \/ \E result \in {"safe", "unsafe"} :
                Write(p, "commit", s.cmd, s.snap,
                      [s.snap EXCEPT !.stage = "digital_twin_simulation",
                                     !.sim = result], "done")
           \/ Write(p, "commit", s.cmd, s.snap,
                    [s.snap EXCEPT !.stage = "rejected", !.status = "rejected"], "done")
  BY DEF FinishSimulation
<1>2. UNCHANGED <<db, sent>>
  BY DEF FinishSimulation
<1>3. s.cmd \in Ids /\ s.snap \in Row
  BY DEF TypeOK, Suspended
<1>4. PICK r \in Row : r = s.snap
  BY <1>3
<1>5. CASE \E result \in {"safe", "unsafe"} :
              Write(p, "commit", s.cmd, r,
                    [r EXCEPT !.stage = "digital_twin_simulation", !.sim = result], "done")
  <2>1. PICK result \in {"safe", "unsafe"} :
          Write(p, "commit", s.cmd, r,
                [r EXCEPT !.stage = "digital_twin_simulation", !.sim = result], "done")
    BY <1>5
  <2> DEFINE new == [r EXCEPT !.stage = "digital_twin_simulation", !.sim = result]
  <2>2. Write(p, "commit", s.cmd, s.snap, new, "done")
    BY <1>4, <2>1
  <2>3. new \in Row /\ new.stage = "digital_twin_simulation" /\ new.status = r.status
    BY <1>4 DEF Row, Stage
  <2> HIDE DEF new
  <2> QED
    BY <1>1, <1>2, <1>3, <1>4, <2>2, <2>3
<1>6. CASE Write(p, "commit", s.cmd, r,
                 [r EXCEPT !.stage = "rejected", !.status = "rejected"], "done")
  <2> DEFINE new == [r EXCEPT !.stage = "rejected", !.status = "rejected"]
  <2>1. Write(p, "commit", s.cmd, s.snap, new, "done")
    BY <1>4, <1>6
  <2>2. new \in Row
    BY <1>4, EditType DEF Stage, Status
  <2>3. new.stage = "rejected" /\ new.status = "rejected"
    BY <1>4 DEF Row
  <2> HIDE DEF new
  <2> QED
    BY <1>1, <1>2, <1>3, <2>1, <2>2, <2>3
<1> QED
  BY <1>1, <1>4, <1>5, <1>6

LEMMA SimulationInOrder ==
  ASSUME TypeOK, Seconded, InOrder, OneOfEach, NEW p \in Workflow,
         StartSimulation(p) \/ FinishSimulation(p)
  PROVE  InOrder'
<1>0. p \in Procs /\ p \notin Control
  BY WorkflowAssumption, DisjointAssumption
<1>1. CASE StartSimulation(p)
  <2>1. PICK t \in Reader : t = task[p]
    BY <1>0, <1>1, AtType DEF StartSimulation
  <2>2. PICK c \in Ids : c = t.cmd
    BY DEF Reader
  <2>3. /\ UNCHANGED db /\ task'[p] = Idle /\ \A q \in Procs : q # p => task'[q] = task[q]
        /\ \/ sims' = sims
           \/ /\ db[c].stage = "two_fa_verified"
              /\ sims' = sims \union {[proc |-> p, cmd |-> c, snap |-> db[c]]}
    BY <1>0, <1>1, <2>1, <2>2 DEF StartSimulation, TypeOK
  <2>4. \A s \in sims : s.cmd # c
    BY <2>1, <2>2, IdleType DEF InOrder
  <2>5. SimsInOrder(sims', db')
    <3> DEFINE n == [proc |-> p, cmd |-> c, snap |-> db[c]]
    <3>1. n.cmd = c /\ n.snap = db[c] /\ (sims' = sims \/ sims' = sims \union {n})
      BY <2>3
    <3> HIDE DEF n
    <3> QED
      BY <2>3, <2>4, <3>1 DEF InOrder, SimsInOrder
  <2>6. WorkflowInOrder(Idle, db')
    BY IdleType DEF WorkflowInOrder
  <2> QED
    BY <1>0, <2>3, <2>5, <2>6, OrderStep
<1>2. CASE FinishSimulation(p)
  <2>1. PICK s \in sims, new \in Row :
          /\ s.cmd \in Ids /\ s.snap \in Row
          /\ sims' = sims \ {s}
          /\ Write(p, "commit", s.cmd, s.snap, new, "done")
          /\ new.stage \in {"digital_twin_simulation", "rejected"}
          /\ new.status \in {s.snap.status, "rejected"}
          /\ UNCHANGED <<db, sent>>
    BY <1>0, <1>2, SimulationEnds
  <2>2. s.snap.stage = "two_fa_verified" /\ db[s.cmd].stage = "two_fa_verified"
    BY DEF InOrder, SimsInOrder
  <2>3. \A z \in sims' : z.cmd # s.cmd
    BY <2>1 DEF InOrder, SimsInOrder
  <2>4. StageRank["two_fa_verified"] < StageRank[new.stage]
    BY <2>1 DEF StageRank
  <2> QED
    BY <2>1, <2>2, <2>3, <2>4, WriteInOrder
<1> QED
  BY <1>1, <1>2

LEMMA ExecuteInOrder ==
  ASSUME TypeOK, Seconded, InOrder, OneOfEach, NEW p \in Workflow,
         ExecuteImmediately(p) \/ WorkflowPublish(p) \/ \E c \in Ids : ExecuteCommand(p, c)
  PROVE  InOrder'
<1>0. p \in Procs
  BY WorkflowAssumption
<1>1. ASSUME NEW c \in Ids, db[c].stage \notin Ended, \A s \in sims : s.cmd # c,
             Write(p, "commit", c, db[c], [db[c] EXCEPT !.status = "executing"], "publish"),
             UNCHANGED <<db, sims>>
      PROVE  InOrder'
  <2>1. db[c] \in Row
    BY DEF TypeOK
  <2> DEFINE new == [db[c] EXCEPT !.status = "executing"]
  <2>2. new \in Row /\ new.stage = db[c].stage
    BY <2>1 DEF Row, Status
  <2>3. Write(p, "commit", c, db[c], new, "publish")
    BY <1>1
  <2> HIDE DEF new
  <2> QED
    BY <1>1, <2>1, <2>2, <2>3, WriteInOrder
<1>2. CASE ExecuteImmediately(p)
  <2>1. PICK t \in Reader : t = task[p] /\ t.pc = "shutdown"
    BY <1>0, <1>2, AtType DEF ExecuteImmediately, At
  <2>2. PICK c \in Ids : c = t.cmd
    BY DEF Reader
  <2>3. db[c].stage \notin Ended /\ \A s \in sims : s.cmd # c
    BY <2>1, <2>2, IdleType DEF InOrder, WorkflowInOrder
  <2>4. /\ Write(p, "commit", c, db[c], [db[c] EXCEPT !.status = "executing"], "publish")
        /\ UNCHANGED <<db, sims>>
    BY <1>2, <2>1, <2>2 DEF ExecuteImmediately
  <2> QED
    BY <1>1, <2>3, <2>4
<1>3. ASSUME NEW c \in Ids, ExecuteCommand(p, c) PROVE InOrder'
  <2>1. /\ db[c].stage = "simulation_approved"
        /\ Write(p, "commit", c, db[c], [db[c] EXCEPT !.status = "executing"], "publish")
        /\ UNCHANGED <<db, sims>>
    BY <1>3 DEF ExecuteCommand
  <2>2. \A s \in sims : s.cmd # c
    BY <2>1 DEF InOrder, SimsInOrder
  <2> QED
    BY <1>1, <2>1, <2>2 DEF Ended
<1>4. CASE WorkflowPublish(p)
  <2>1. PICK t \in Reader : t = task[p] /\ t.pc = "publish"
    BY <1>0, <1>4, AtType DEF WorkflowPublish, At
  <2>2. PICK c \in Ids : c = t.cmd
    BY DEF Reader
  <2>0. PICK r \in Row : r = db[c]
    BY DEF TypeOK
  <2>3. db[c].stage \notin Ended /\ \A s \in sims : s.cmd # c
    BY <2>1, <2>2, IdleType DEF InOrder, WorkflowInOrder
  <2>4. PICK executed \in Row :
          /\ executed = [r EXCEPT !.stage = "executed", !.status = "executed"]
          /\ executed.approver = r.approver
          /\ executed.stage = "executed"
          /\ executed.status = "executed"
    BY <2>0, ConcludedRow, ZenonT(30)
  <2>5. PICK failed \in Row :
          /\ failed = [r EXCEPT !.stage = "failed", !.status = "failed"]
          /\ failed.approver = r.approver
          /\ failed.stage = "failed"
          /\ failed.status = "failed"
    BY <2>0, ConcludedRow, ZenonT(30)
  <2>6. Publish(p, c, executed, failed)
    BY <1>4, <2>0, <2>1, <2>2, <2>4, <2>5 DEF WorkflowPublish
  <2>7. \A end \in {"executed", "failed"} : StageRank[db[c].stage] < StageRank[end]
    BY <2>0, <2>3 DEF StageRank, Ended, Row, Stage
  <2>8. CASE /\ Send(p, c)
             /\ Write(p, IF db[c].kind = "esd" THEN "commit" ELSE "flush",
                      c, db[c], executed, "done")
             /\ UNCHANGED <<db, sims, topic, faults>>
    BY <2>0, <2>3, <2>4, <2>7, <2>8, WriteInOrder
  <2>9. CASE /\ Write(p, "commit", c, db[c], failed, "done")
             /\ UNCHANGED <<db, sims, outbox, topic, sent, faults>>
    BY <2>0, <2>3, <2>5, <2>7, <2>9, WriteInOrder
  <2> QED
    BY <2>6, <2>8, <2>9 DEF Publish
<1> QED
  BY <1>2, <1>3, <1>4

LEMMA RequestInOrder ==
  ASSUME TypeOK, Seconded, InOrder, OneOfEach, NEW p \in Workflow, NEW c \in Ids, NEW u \in Users,
         \/ InitiateCommand(p, u, c) \/ VerifyTwoFactor(p, u, c)
         \/ ApproveSimulation(p, u, c) \/ EmergencyShutdown(p, u, c)
  PROVE  InOrder'
<1>0. p \in Procs /\ db[c] \in Row
  BY WorkflowAssumption DEF TypeOK
<1>1. CASE InitiateCommand(p, u, c)
  BY <1>0, <1>1, InsertInOrder DEF InitiateCommand
<1>2. CASE EmergencyShutdown(p, u, c)
  BY <1>0, <1>2, InsertInOrder DEF EmergencyShutdown
<1>3. ASSUME NEW new \in Row, NEW next \in {"done", "simulate"},
             db[c].stage \in {"requested", "digital_twin_simulation"},
             StageRank[db[c].stage] < StageRank[new.stage],
             Write(p, "commit", c, db[c], new, next), UNCHANGED <<db, sims>>
      PROVE  InOrder'
  <2>1. \A s \in sims : s.cmd # c
    BY <1>3 DEF InOrder, SimsInOrder
  <2> QED
    BY <1>0, <1>3, <2>1, WriteInOrder
<1>4. CASE VerifyTwoFactor(p, u, c)
  <2> DEFINE yes == [db[c] EXCEPT !.stage = "two_fa_verified", !.verified = TRUE]
             no == [db[c] EXCEPT !.stage = "rejected", !.status = "rejected"]
  <2>1. /\ db[c].stage = "requested"
        /\ UNCHANGED <<db, sims>>
        /\ Write(p, "commit", c, db[c], yes, "simulate") \/ Write(p, "commit", c, db[c], no, "done")
    BY <1>4 DEF VerifyTwoFactor
  <2>2. yes \in Row /\ no \in Row /\ yes.stage = "two_fa_verified" /\ no.stage = "rejected"
    BY <1>0 DEF Row, Status, Stage
  <2> HIDE DEF yes, no
  <2>3. StageRank[db[c].stage] < StageRank[yes.stage] /\ StageRank[db[c].stage] < StageRank[no.stage]
    BY <2>1, <2>2 DEF StageRank
  <2> QED
    BY <1>3, <2>1, <2>2, <2>3
<1>5. CASE ApproveSimulation(p, u, c)
  <2> DEFINE no == [db[c] EXCEPT !.stage = "rejected", !.status = "rejected"]
             yes == [db[c] EXCEPT !.stage = "simulation_approved", !.status = "approved",
                                  !.approver = u]
  <2>1. /\ db[c].stage = "digital_twin_simulation"
        /\ UNCHANGED <<db, sims>>
        /\ Write(p, "commit", c, db[c], IF db[c].sim = "unsafe" THEN no ELSE yes, "done")
    BY <1>5 DEF ApproveSimulation
  <2>2. yes \in Row /\ no \in Row /\ yes.stage = "simulation_approved" /\ no.stage = "rejected"
    BY <1>0 DEF Row, Status, Stage
  <2> HIDE DEF yes, no
  <2>3. StageRank[db[c].stage] < StageRank[yes.stage] /\ StageRank[db[c].stage] < StageRank[no.stage]
    BY <2>1, <2>2 DEF StageRank
  <2> QED
    BY <1>3, <2>1, <2>2, <2>3
<1> QED
  BY <1>1, <1>2, <1>4, <1>5

LEMMA ControlStepInOrder ==
  ASSUME TypeOK, Seconded, InOrder, OneOfEach, NEW p \in Control, ControlStep(p)
  PROVE  InOrder'
<1>0. p \in Procs /\ \A c \in Ids : db[c] \in Row
  BY ControlAssumption DEF TypeOK
<1>1. ASSUME NEW c \in Ids, NEW u \in Users, CreateCommand(p, u, c) PROVE InOrder'
  BY <1>0, <1>1, InsertInOrder DEF CreateCommand
<1>2. ASSUME NEW c \in Ids, NEW u \in Users, ApproveCommand(p, u, c) PROVE InOrder'
  <2> DEFINE new == [db[c] EXCEPT !.status = "approved", !.approver = u]
  <2>1. Write(p, "commit", c, db[c], new, "done") /\ UNCHANGED <<db, sims>>
    BY <1>2 DEF ApproveCommand
  <2>2. new \in Row /\ new.stage = db[c].stage
    BY <1>0 DEF Row, Status
  <2> HIDE DEF new
  <2> QED
    BY <1>0, <2>1, <2>2, ControlWriteInOrder
<1>3. ASSUME NEW c \in Ids, ExecuteApproved(p, c) PROVE InOrder'
  <2> DEFINE new == [db[c] EXCEPT !.status = "executing"]
  <2>1. Write(p, "commit", c, db[c], new, "publish") /\ UNCHANGED <<db, sims>>
    BY <1>3 DEF ExecuteApproved
  <2>2. new \in Row /\ new.stage = db[c].stage
    BY <1>0 DEF Row, Status
  <2> HIDE DEF new
  <2> QED
    BY <1>0, <2>1, <2>2, ControlWriteInOrder
<1>4. CASE ControlPublish(p)
  <2>1. PICK t \in Reader : t = task[p]
    BY <1>0, <1>4, AtType DEF ControlPublish
  <2>2. PICK c \in Ids : c = t.cmd
    BY DEF Reader
  <2> DEFINE executed == [db[c] EXCEPT !.status = "executed"]
             failed == [db[c] EXCEPT !.status = "failed"]
  <2>3. Publish(p, c, executed, failed)
    BY <1>4, <2>1, <2>2 DEF ControlPublish
  <2>4. /\ executed \in Row /\ executed.stage = db[c].stage
        /\ failed \in Row /\ failed.stage = db[c].stage
    BY <1>0 DEF Row, Status
  <2> HIDE DEF executed, failed
  <2>5. \/ /\ Write(p, IF db[c].kind = "esd" THEN "commit" ELSE "flush", c, db[c], executed, "done")
           /\ UNCHANGED <<db, sims>>
        \/ Write(p, "commit", c, db[c], failed, "done") /\ UNCHANGED <<db, sims>>
    BY <2>3 DEF Publish
  <2> QED
    BY <1>0, <2>4, <2>5, ControlWriteInOrder
<1> QED
  BY <1>1, <1>2, <1>3, <1>4 DEF ControlStep

\* One process of each service, its sessions and its suspended simulations:
\* what the workflow's handlers hold of a stage is what the row has.
THEOREM InOrderInvariant ==
  ASSUME OneOfEach
  PROVE  Spec => []InOrder
<1>1. Init => InOrder
  BY WorkflowAssumption, ControlAssumption, IdleType
     DEF Init, InOrder, WorkflowInOrder, ControlInOrder, SimsInOrder
<1>2. TypeOK /\ Seconded /\ InOrder /\ [Next]_vars => InOrder'
  <2> SUFFICES ASSUME TypeOK, Seconded, InOrder, [Next]_vars PROVE InOrder'
    OBVIOUS
  <2>1. ASSUME NEW p \in Procs, SharedStep(p) PROVE InOrder'
    BY <2>1, SharedInOrder
  <2>2. ASSUME NEW p \in Workflow, WorkflowStep(p) PROVE InOrder'
    BY <2>2, SimulationInOrder, ExecuteInOrder, RequestInOrder DEF WorkflowStep
  <2>3. ASSUME NEW p \in Control, ControlStep(p) PROVE InOrder'
    BY <2>3, ControlStepInOrder
  <2>4. CASE UNCHANGED vars
    BY <2>4 DEF vars, InOrder
  <2> QED
    BY <2>1, <2>2, <2>3, <2>4 DEF Next
<1> QED
  BY <1>1, <1>2, TypeCorrect, SecondedInvariant, PTL DEF Spec

\* The steps that write the table.
LEMMA TableWrites ==
  ASSUME TypeOK, Seconded, Next
  PROVE  \/ UNCHANGED db
         \/ \E p \in Procs : Commit(p)
         \/ \E c \in Ids : ~Exists(c) /\ \A d \in Ids : d # c => db'[d] = db[d]
<1>1. ASSUME NEW p \in Procs, SharedStep(p)
      PROVE  Commit(p) \/ UNCHANGED db
  BY <1>1 DEF SharedStep, Flush, Crash, CommitFails, Deliver, DeliveryFails
<1>2. ASSUME NEW p \in Procs, NEW c \in Ids, NEW row, Insert(p, c, row)
      PROVE  \E d \in Ids : ~Exists(d) /\ \A e \in Ids : e # d => db'[e] = db[e]
  BY <1>2 DEF Insert, TypeOK
<1>3. ASSUME NEW p \in Workflow, WorkflowStep(p)
      PROVE  UNCHANGED db \/ \E c \in Ids : ~Exists(c) /\ \A d \in Ids : d # c => db'[d] = db[d]
  <2>0. p \in Procs
    BY WorkflowAssumption
  <2>1. CASE StartSimulation(p) \/ FinishSimulation(p) \/ ExecuteImmediately(p) \/ WorkflowPublish(p)
    <3>1. StartSimulation(p) \/ ExecuteImmediately(p) => UNCHANGED db
      BY DEF StartSimulation, ExecuteImmediately
    <3>2. WorkflowPublish(p) => UNCHANGED db
      BY DEF WorkflowPublish, Publish
    <3>3. CASE FinishSimulation(p)
      BY <3>3 DEF FinishSimulation
    <3> QED
      BY <2>1, <3>1, <3>2, <3>3
  <2>2. ASSUME NEW c \in Ids, NEW u \in Users,
               ExecuteCommand(p, c) \/ VerifyTwoFactor(p, u, c) \/ ApproveSimulation(p, u, c)
        PROVE  UNCHANGED db
    BY <2>2 DEF ExecuteCommand, VerifyTwoFactor, ApproveSimulation
  <2>3. ASSUME NEW c \in Ids, NEW u \in Users, InitiateCommand(p, u, c) \/ EmergencyShutdown(p, u, c)
        PROVE  \E d \in Ids : ~Exists(d) /\ \A e \in Ids : e # d => db'[e] = db[e]
    BY <1>2, <2>0, <2>3 DEF InitiateCommand, EmergencyShutdown
  <2>4. ASSUME NEW c \in Ids, ExecuteCommand(p, c) PROVE UNCHANGED db
    BY <2>4 DEF ExecuteCommand
  <2> QED
    BY <1>3, <2>1, <2>2, <2>3, <2>4 DEF WorkflowStep
<1>4. ASSUME NEW p \in Control, ControlStep(p)
      PROVE  UNCHANGED db \/ \E c \in Ids : ~Exists(c) /\ \A d \in Ids : d # c => db'[d] = db[d]
  <2>0. p \in Procs
    BY ControlAssumption
  <2>1. CASE ControlPublish(p)
    BY <2>1 DEF ControlPublish, Publish
  <2>2. ASSUME NEW c \in Ids, NEW u \in Users, ApproveCommand(p, u, c)
        PROVE  UNCHANGED db
    BY <2>2 DEF ApproveCommand
  <2>3. ASSUME NEW c \in Ids, ExecuteApproved(p, c) PROVE UNCHANGED db
    BY <2>3 DEF ExecuteApproved
  <2>4. ASSUME NEW c \in Ids, NEW u \in Users, CreateCommand(p, u, c)
        PROVE  \E d \in Ids : ~Exists(d) /\ \A e \in Ids : e # d => db'[e] = db[e]
    BY <1>2, <2>0, <2>4 DEF CreateCommand
  <2> QED
    BY <1>4, <2>1, <2>2, <2>3, <2>4 DEF ControlStep
<1> QED
  BY <1>1, <1>3, <1>4 DEF Next

\* With one process of each service a command's stage only advances, though
\* the control service writes the same rows from copies of its own, handlers
\* are suspended while the twin computes, and processes crash.
THEOREM StageNeverGoesBackHolds ==
  ASSUME OneOfEach
  PROVE  Spec => StageNeverGoesBack
<1> DEFINE Forward == \A c \in Ids :
             Exists(c) /\ db'[c].stage # db[c].stage =>
               StageRank[db[c].stage] < StageRank[db'[c].stage]
<1>1. TypeOK /\ Seconded /\ InOrder /\ [Next]_vars => [Forward]_db
  <2> SUFFICES ASSUME TypeOK, Seconded, InOrder, Next, db' # db PROVE Forward
    BY DEF vars
  <2>1. ASSUME NEW p \in Procs, Commit(p) PROVE Forward
    <3>1. PICK t \in Writer, c \in Ids :
            /\ \A d \in Ids : d # c => db'[d] = db[d]
            /\ p \in Control => db'[c].stage = db[c].stage
            /\ p \in Workflow => StageCopy(t, db[c].stage) /\ db'[c].stage = t.new.stage
      BY <2>1, CommitStage
    <3> QED
      BY <3>1, ServicesAssumption DEF StageCopy
  <2>2. ASSUME NEW c \in Ids, ~Exists(c), \A d \in Ids : d # c => db'[d] = db[d] PROVE Forward
    BY <2>2
  <2> QED
    BY <2>1, <2>2, TableWrites
<1> QED
  BY <1>1, TypeCorrect, SecondedInvariant, InOrderInvariant, PTL DEF Spec, StageNeverGoesBack

-----------------------------------------------------------------------------
(* How often the control service may send a command: status "approved" is  *)
(* what it takes, "executing" is what it leaves, and with one process of   *)
(* each service "approved" is written once by each of the two approvals.   *)

\* The relays the approvals a command has had allow.
Budget(r) == IF StageRank[r.stage] < StageRank["simulation_approved"] THEN 1 ELSE 2

\* A row r of which n relays were sent.
RowSpent(r, n) ==
  /\ n <= Budget(r)
  /\ r.status = "approved" => n < Budget(r)
  /\ r.status = "pending" => n = 0

\* The handler t of the control service on row r, which has sent n relays.
ControlSpends(t, r, n) ==
  /\ t \in Writer =>
       /\ t.new.status # "pending"
       /\ t.new.status = "approved" => t.snap.status # "approved" /\ n = 0
       /\ t.next = "publish" =>
            t.new.status = "executing" /\ t.snap.status = "approved" /\ n < Budget(r)
  /\ t \in Reader =>
       /\ n < Budget(r)
       /\ r.status # "pending"
       /\ r.status = "approved" => n = 0 /\ Budget(r) = 2

\* A handler of the workflow that writes "approved" takes the stage there too.
ApprovesOnce(t) ==
  t \in Writer =>
    /\ t.new.status = "pending" => t.snap.status = "pending"
    /\ t.new.status = "approved" /\ t.snap.status # "approved" =>
         t.snap.stage = "digital_twin_simulation" /\ t.new.stage = "simulation_approved"

Spent ==
  /\ \A p \in Control, c \in Ids : RowSpent(db[c], sent[p][c])
  /\ \A p \in Control :
       task[p] # Idle => ControlSpends(task[p], db[task[p].cmd], sent[p][task[p].cmd])
  /\ \A p \in Workflow : ApprovesOnce(task[p])

\* What the workflow may make of row r behind the control service's back.
RowMoves(r, s) ==
  /\ Budget(r) <= Budget(s)
  /\ s.status = "pending" => r.status = "pending"
  /\ s.status = "approved" => r.status = "approved" \/ (Budget(r) = 1 /\ Budget(s) = 2)

LEMMA BudgetType == \A r : Budget(r) \in {1, 2}
BY DEF Budget

LEMMA MovedStaysSpent ==
  ASSUME NEW r, NEW s, NEW n \in Nat, RowMoves(r, s)
  PROVE  /\ RowSpent(r, n) => RowSpent(s, n)
         /\ \A t : ControlSpends(t, r, n) => ControlSpends(t, s, n)
<1>1. Budget(r) \in {1, 2} /\ Budget(s) \in {1, 2}
  BY BudgetType
<1>2. RowSpent(r, n) => RowSpent(s, n)
  BY <1>1 DEF RowSpent, RowMoves
<1>3. ASSUME NEW t, ControlSpends(t, r, n) PROVE ControlSpends(t, s, n)
  BY <1>1, <1>3 DEF ControlSpends, RowMoves
<1> QED
  BY <1>2, <1>3

LEMMA SpentByWorkflow ==
  ASSUME TypeOK, Seconded, Spent, OneOfEach, NEW p \in Workflow,
         \A q \in Procs : q # p => task'[q] = task[q] /\ sent'[q] = sent[q],
         \A c \in Ids : RowMoves(db[c], db'[c]) \/ (~Exists(c) /\ RowSpent(db'[c], 0)),
         ApprovesOnce(task'[p])
  PROVE  Spent'
<1>1. ASSUME NEW k \in Control
      PROVE  k \in Procs /\ task'[k] = task[k] /\ sent'[k] = sent[k]
  BY ControlAssumption, DisjointAssumption
<1>2. ASSUME NEW k \in Control, NEW c \in Ids PROVE RowSpent(db'[c], sent'[k][c])
  <2>1. sent[k][c] \in Nat /\ RowSpent(db[c], sent[k][c]) /\ sent'[k][c] = sent[k][c]
    BY <1>1 DEF TypeOK, Spent
  <2>2. CASE RowMoves(db[c], db'[c])
    BY <2>1, <2>2, MovedStaysSpent
  <2>3. CASE ~Exists(c) /\ RowSpent(db'[c], 0)
    <3>1. ~Relayed(c)
      BY <2>3 DEF Seconded, Sendable
    <3>2. sent[k][c] = 0
      BY <1>1, <2>1, <3>1 DEF Relayed
    <3> QED
      BY <2>1, <2>3, <3>2
  <2> QED
    BY <2>2, <2>3
<1>3. ASSUME NEW k \in Control, task'[k] # Idle
      PROVE  ControlSpends(task'[k], db'[task'[k].cmd], sent'[k][task'[k].cmd])
  <2>1. PICK t : t = task[k]
    OBVIOUS
  <2>2. t \in Reader \union Writer
    BY <1>1, <1>3, <2>1 DEF TypeOK
  <2>3. t.cmd \in Ids /\ Exists(t.cmd)
    BY <1>1, <2>1, <2>2, HandledExist
  <2>4. PICK c \in Ids : c = t.cmd
    BY <2>3
  <2>5. RowMoves(db[c], db'[c])
    BY <2>3, <2>4
  <2>6. ControlSpends(t, db[c], sent[k][c]) /\ sent[k][c] \in Nat
    BY <1>1, <1>3, <2>1, <2>4 DEF Spent, TypeOK
  <2>7. ControlSpends(t, db'[c], sent[k][c])
    BY <2>5, <2>6, MovedStaysSpent
  <2> QED
    BY <1>1, <2>1, <2>4, <2>7
<1>4. ASSUME NEW q \in Workflow PROVE ApprovesOnce(task'[q])
  BY DEF OneOfEach
<1> QED
  BY <1>2, <1>3, <1>4 DEF Spent

LEMMA SpentByControl ==
  ASSUME TypeOK, Spent, OneOfEach, NEW p \in Control,
         \A q \in Procs : q # p => task'[q] = task[q],
         \A c \in Ids : RowSpent(db'[c], sent'[p][c]),
         task'[p] # Idle =>
           ControlSpends(task'[p], db'[task'[p].cmd], sent'[p][task'[p].cmd])
  PROVE  Spent'
<1>1. \A k \in Control : k = p
  BY DEF OneOfEach
<1>2. ASSUME NEW q \in Workflow PROVE ApprovesOnce(task'[q])
  BY WorkflowAssumption, DisjointAssumption DEF Spent
<1> QED
  BY <1>1, <1>2 DEF Spent

LEMMA CommitSpent ==
  ASSUME TypeOK, TypeOK', Seconded, InOrder, Spent, OneOfEach, NEW p \in Procs, Commit(p)
  PROVE  Spent'
<1>1. PICK t \in Writer, c \in Ids :
        /\ t = task[p] /\ c = t.cmd /\ Exists(c) /\ Exists(c)'
        /\ db'[c] = Flushed(t, db[c])
        /\ \A d \in Ids : d # c => db'[d] = db[d]
        /\ task'[p] = Resume(t)
        /\ \A q \in Procs : q # p => task'[q] = task[q]
        /\ UNCHANGED <<sims, sent>>
        /\ p \in Control => db'[c].stage = db[c].stage
        /\ p \in Workflow => StageCopy(t, db[c].stage) /\ db'[c].stage = t.new.stage
  BY CommitStage
<1>2. db'[c].status = Column(t.snap.status, t.new.status, db[c].status)
  BY <1>1 DEF Flushed
<1>3. PICK r : r = Resume(t)
  OBVIOUS
<1>4. /\ r \notin Writer
      /\ r # Idle => r = [pc |-> t.next, cmd |-> c] /\ r.pc = t.next /\ r.cmd = c
  BY <1>1, <1>3, IdleType DEF Resume, Writer
<1>5. CASE p \in Workflow
  <2>1. ApprovesOnce(t)
    BY <1>1, <1>5 DEF Spent
  <2>2. StageCopy(t, db[c].stage) /\ db'[c].stage = t.new.stage
    BY <1>1, <1>5
  <2>3. Budget(db[c]) <= Budget(db'[c])
    <3>1. db[c] \in Row /\ db'[c] \in Row
      BY DEF TypeOK
    <3>2. \/ db'[c].stage = db[c].stage
          \/ StageRank[db[c].stage] < StageRank[db'[c].stage]
      BY <2>2 DEF StageCopy
    <3>3. StageRank[db[c].stage] \in Nat /\ StageRank[db'[c].stage] \in Nat
      BY <3>1 DEF Row, Stage, StageRank
    <3>4. StageRank["simulation_approved"] \in Nat
      BY DEF StageRank
    <3> QED
      BY <3>2, <3>3, <3>4 DEF Budget
  <2>4. RowMoves(db[c], db'[c])
    <3>1. db'[c].status = "pending" => db[c].status = "pending"
      BY <1>2, <2>1 DEF Column, ApprovesOnce
    <3>2. ASSUME db'[c].status = "approved", db[c].status # "approved"
          PROVE  Budget(db[c]) = 1 /\ Budget(db'[c]) = 2
      <4>1. /\ t.snap.stage = "digital_twin_simulation"
            /\ t.new.stage = "simulation_approved"
        BY <1>2, <2>1, <3>2 DEF Column, ApprovesOnce
      <4> QED
        BY <2>2, <4>1 DEF StageCopy, Budget, StageRank
    <3> QED
      BY <2>3, <3>1, <3>2 DEF RowMoves
  <2>5. \A d \in Ids : RowMoves(db[d], db'[d])
    BY <1>1, <2>4, BudgetType DEF RowMoves
  <2>6. ApprovesOnce(r)
    BY <1>4 DEF ApprovesOnce
  <2> QED
    BY <1>1, <1>3, <1>5, <2>5, <2>6, SpentByWorkflow
<1>6. CASE p \in Control
  <2>1. /\ ControlSpends(t, db[c], sent[p][c]) /\ RowSpent(db[c], sent[p][c])
        /\ sent[p][c] \in Nat
    BY <1>1, <1>6, IdleType DEF Spent, TypeOK
  <2>2. Budget(db'[c]) = Budget(db[c])
    BY <1>1, <1>6 DEF Budget
  <2>3. Budget(db[c]) \in {1, 2}
    BY BudgetType
  <2>4. RowSpent(db'[c], sent[p][c])
    <3>1. CASE t.new.status = t.snap.status
      BY <1>2, <2>1, <2>2, <3>1 DEF Column, RowSpent
    <3>2. CASE t.new.status # t.snap.status
      BY <1>2, <2>1, <2>2, <2>3, <3>2 DEF Column, RowSpent, ControlSpends
    <3> QED
      BY <3>1, <3>2
  <2>5. ASSUME r # Idle PROVE ControlSpends(r, db'[c], sent[p][c])
    <3>1. t.next = "publish"
      BY <1>1, <1>3, <1>6, <2>5 DEF Resume, InOrder, ControlInOrder, Writer
    <3>2. db'[c].status = "executing" /\ sent[p][c] < Budget(db'[c])
      BY <1>2, <2>1, <2>2, <3>1 DEF Column, ControlSpends
    <3> QED
      BY <1>4, <3>2 DEF ControlSpends
  <2>6. \A d \in Ids : RowSpent(db'[d], sent'[p][d])
    BY <1>1, <1>6, <2>4 DEF Spent
  <2> QED
    BY <1>1, <1>3, <1>4, <1>6, <2>5, <2>6, SpentByControl
<1> QED
  BY <1>5, <1>6, ServicesAssumption

\* A step of p that leaves rows and relays alone.
LEMMA QuietSpent ==
  ASSUME TypeOK, Seconded, Spent, OneOfEach, NEW p \in Procs, UNCHANGED <<db, sent>>,
         \A q \in Procs : q # p => task'[q] = task[q],
         p \in Workflow => ApprovesOnce(task'[p]),
         p \in Control /\ task'[p] # Idle =>
           ControlSpends(task'[p], db[task'[p].cmd], sent[p][task'[p].cmd])
  PROVE  Spent'
<1>1. CASE p \in Workflow
  <2>1. \A c \in Ids : RowMoves(db[c], db'[c])
    BY BudgetType DEF RowMoves
  <2> QED
    BY <1>1, <2>1, SpentByWorkflow
<1>2. CASE p \in Control
  BY <1>2, SpentByControl DEF Spent
<1> QED
  BY <1>1, <1>2, ServicesAssumption

LEMMA SharedSpent ==
  ASSUME TypeOK, TypeOK', Seconded, InOrder, Spent, OneOfEach, NEW p \in Procs, SharedStep(p)
  PROVE  Spent'
<1>1. CASE Commit(p)
  BY <1>1, CommitSpent
<1>2. CASE Flush(p)
  <2>1. PICK t \in Writer : t = task[p]
    BY <1>2, AtType DEF Flush
  <2> DEFINE f == [t EXCEPT !.pc = "commit"]
  <2>2. /\ task'[p] = f /\ \A q \in Procs : q # p => task'[q] = task[q]
        /\ UNCHANGED <<db, sent>>
    BY <1>2, <2>1 DEF Flush, TypeOK
  <2>3. f \in Writer /\ f.cmd = t.cmd /\ f.snap = t.snap /\ f.new = t.new /\ f.next = t.next
    BY DEF Writer
  <2> HIDE DEF f
  <2>4. f \notin Reader /\ t # Idle
    BY <2>1, <2>3, IdleType
  <2>5. p \in Workflow => ApprovesOnce(f)
    BY <2>1, <2>3 DEF Spent, ApprovesOnce
  <2>6. p \in Control => ControlSpends(f, db[f.cmd], sent[p][f.cmd])
    <3> SUFFICES ASSUME p \in Control PROVE ControlSpends(f, db[f.cmd], sent[p][f.cmd])
      OBVIOUS
    <3>1. ControlSpends(t, db[t.cmd], sent[p][t.cmd])
      BY <2>1, <2>4 DEF Spent
    <3> QED
      BY <2>1, <2>3, <2>4, <3>1 DEF ControlSpends
  <2> QED
    BY <2>2, <2>5, <2>6, QuietSpent
<1>3. CASE Crash(p) \/ CommitFails(p)
  <2>1. /\ UNCHANGED <<db, sent>> /\ task'[p] = Idle
        /\ \A q \in Procs : q # p => task'[q] = task[q]
    BY <1>3 DEF Crash, CommitFails, TypeOK
  <2>2. ApprovesOnce(Idle)
    BY IdleType DEF ApprovesOnce
  <2> QED
    BY <2>1, <2>2, QuietSpent
<1>4. CASE \E c \in Ids : Deliver(p, c) \/ DeliveryFails(p, c)
  <2>1. UNCHANGED <<db, task, sent>>
    BY <1>4 DEF Deliver, DeliveryFails
  <2> QED
    BY <2>1 DEF Spent
<1> QED
  BY <1>1, <1>2, <1>3, <1>4 DEF SharedStep

\* A handler of the workflow changes the object it has loaded.
LEMMA WriteSpent ==
  ASSUME TypeOK, Seconded, Spent, OneOfEach, UNCHANGED db,
         NEW p \in Workflow, NEW c \in Ids, NEW pc \in {"commit", "flush"},
         NEW snap \in Row, NEW new \in Row,
         NEW next \in {"done", "simulate", "publish"},
         Write(p, pc, c, snap, new, next),
         UNCHANGED sent \/ Send(p, c),
         new.status = "pending" => snap.status = "pending",
         new.status = "approved" /\ snap.status # "approved" =>
           snap.stage = "digital_twin_simulation" /\ new.stage = "simulation_approved"
  PROVE  Spent'
<1> p \in Procs
  BY WorkflowAssumption
<1> DEFINE t == [pc |-> pc, cmd |-> c, snap |-> snap, new |-> new, next |-> next]
<1>1. task'[p] = t /\ \A q \in Procs : q # p => task'[q] = task[q]
  BY DEF Write, TypeOK
<1>2. t.snap = snap /\ t.new = new
  OBVIOUS
<1> HIDE DEF t
<1>3. ApprovesOnce(t)
  BY <1>2 DEF ApprovesOnce
<1>4. \A q \in Procs : q # p => sent'[q] = sent[q]
  BY DEF Send, TypeOK
<1>5. \A d \in Ids : RowMoves(db[d], db'[d])
  BY BudgetType DEF RowMoves
<1> QED
  BY <1>1, <1>3, <1>4, <1>5, SpentByWorkflow

LEMMA InsertSpent ==
  ASSUME TypeOK, Seconded, Spent, OneOfEach, NEW p \in Procs, NEW c \in Ids,
         NEW kind \in {"operation", "command", "esd"}, NEW u \in Users,
         Insert(p, c, NewRow(kind, u)), UNCHANGED sent,
         \/ UNCHANGED task
         \/ /\ p \in Workflow
            /\ task' = [task EXCEPT ![p] = [pc |-> "shutdown", cmd |-> c]]
  PROVE  Spent'
<1>1. /\ ~Exists(c) /\ task[p] = Idle
      /\ db'[c] = NewRow(kind, u)
      /\ \A d \in Ids : d # c => db'[d] = db[d]
  BY DEF Insert, Free, TypeOK
<1>2. \A n : n = 0 => RowSpent(db'[c], n)
  BY <1>1, BudgetType DEF RowSpent, NewRow
<1>3. \A d \in Ids : RowMoves(db[d], db'[d]) \/ (~Exists(d) /\ RowSpent(db'[d], 0))
  BY <1>1, <1>2, BudgetType DEF RowMoves
<1>4. \A q \in Procs : q # p => task'[q] = task[q]
  BY DEF TypeOK
<1>5. CASE p \in Workflow
  <2>1. task'[p] = Idle \/ task'[p] = [pc |-> "shutdown", cmd |-> c]
    BY <1>1 DEF TypeOK
  <2>2. ApprovesOnce(task'[p])
    BY <2>1, IdleType DEF ApprovesOnce, Writer
  <2> QED
    BY <1>3, <1>4, <1>5, <2>2, SpentByWorkflow
<1>6. CASE p \in Control
  <2>1. task'[p] = Idle
    BY <1>1, <1>6, DisjointAssumption
  <2>2. sent[p][c] = 0
    <3>1. ~Relayed(c) /\ sent[p][c] \in Nat
      BY <1>1 DEF Seconded, Sendable, TypeOK
    <3> QED
      BY <3>1 DEF Relayed
  <2>3. \A d \in Ids : RowSpent(db'[d], sent'[p][d])
    BY <1>1, <1>2, <1>6, <2>2 DEF Spent
  <2> QED
    BY <1>4, <1>6, <2>1, <2>3, SpentByControl
<1> QED
  BY <1>5, <1>6, ServicesAssumption

LEMMA WorkflowSpent ==
  ASSUME TypeOK, Seconded, InOrder, Spent, OneOfEach, NEW p \in Workflow, WorkflowStep(p)
  PROVE  Spent'
<1>0. p \in Procs /\ p \notin Control /\ \A c \in Ids : db[c] \in Row
  BY WorkflowAssumption, DisjointAssumption DEF TypeOK
<1>1. CASE StartSimulation(p)
  <2>1. /\ UNCHANGED <<db, sent>> /\ task'[p] = Idle
        /\ \A q \in Procs : q # p => task'[q] = task[q]
    BY <1>0, <1>1 DEF StartSimulation, TypeOK
  <2>2. ApprovesOnce(Idle)
    BY IdleType DEF ApprovesOnce
  <2> QED
    BY <1>0, <2>1, <2>2, QuietSpent
<1>2. CASE FinishSimulation(p)
  <2>1. PICK s \in sims, new \in Row :
          /\ s.cmd \in Ids /\ s.snap \in Row
          /\ sims' = sims \ {s}
          /\ Write(p, "commit", s.cmd, s.snap, new, "done")
          /\ new.stage \in {"digital_twin_simulation", "rejected"}
          /\ new.status \in {s.snap.status, "rejected"}
          /\ UNCHANGED <<db, sent>>
    BY <1>0, <1>2, SimulationEnds
  <2> QED
    BY <2>1, WriteSpent
<1>3. ASSUME NEW c \in Ids, UNCHANGED <<db, sent>>,
             Write(p, "commit", c, db[c], [db[c] EXCEPT !.status = "executing"], "publish")
      PROVE  Spent'
  <2> DEFINE new == [db[c] EXCEPT !.status = "executing"]
  <2>1. new \in Row /\ new.status = "executing"
    BY <1>0 DEF Row, Status
  <2>2. Write(p, "commit", c, db[c], new, "publish")
    BY <1>3
  <2> HIDE DEF new
  <2> QED
    BY <1>0, <1>3, <2>1, <2>2, WriteSpent
<1>4. CASE ExecuteImmediately(p)
  <2>1. PICK t \in Reader : t = task[p]
    BY <1>0, <1>4, AtType DEF ExecuteImmediately
  <2>2. PICK c \in Ids : c = t.cmd
    BY DEF Reader
  <2> QED
    BY <1>3, <1>4, <2>1, <2>2 DEF ExecuteImmediately
<1>5. ASSUME NEW c \in Ids, ExecuteCommand(p, c) PROVE Spent'
  BY <1>3, <1>5 DEF ExecuteCommand
<1>6. CASE WorkflowPublish(p)
  <2>1. PICK t \in Reader : t = task[p]
    BY <1>0, <1>6, AtType DEF WorkflowPublish
  <2>2. PICK c \in Ids : c = t.cmd
    BY DEF Reader
  <2> DEFINE executed == [db[c] EXCEPT !.stage = "executed", !.status = "executed"]
             failed == [db[c] EXCEPT !.stage = "failed", !.status = "failed"]
  <2>3. Publish(p, c, executed, failed)
    BY <1>6, <2>1, <2>2 DEF WorkflowPublish
  <2>4. /\ executed \in Row /\ executed.status = "executed"
        /\ failed \in Row /\ failed.status = "failed"
    BY <1>0 DEF Row, Stage, Status
  <2> HIDE DEF executed, failed
  <2>5. \/ /\ Write(p, IF db[c].kind = "esd" THEN "commit" ELSE "flush", c, db[c], executed, "done")
           /\ UNCHANGED db /\ Send(p, c)
        \/ Write(p, "commit", c, db[c], failed, "done") /\ UNCHANGED <<db, sent>>
    BY <2>3 DEF Publish
  <2> QED
    BY <1>0, <2>4, <2>5, WriteSpent
<1>7. ASSUME NEW c \in Ids, NEW u \in Users, VerifyTwoFactor(p, u, c) PROVE Spent'
  <2> DEFINE yes == [db[c] EXCEPT !.stage = "two_fa_verified", !.verified = TRUE]
             no == [db[c] EXCEPT !.stage = "rejected", !.status = "rejected"]
  <2>1. /\ UNCHANGED <<db, sent>>
        /\ Write(p, "commit", c, db[c], yes, "simulate") \/ Write(p, "commit", c, db[c], no, "done")
    BY <1>7 DEF VerifyTwoFactor
  <2>2. yes \in Row /\ no \in Row /\ yes.status = db[c].status /\ no.status = "rejected"
    BY <1>0 DEF Row, Status, Stage
  <2> HIDE DEF yes, no
  <2> QED
    BY <1>0, <2>1, <2>2, WriteSpent
<1>8. ASSUME NEW c \in Ids, NEW u \in Users, ApproveSimulation(p, u, c) PROVE Spent'
  <2> DEFINE no == [db[c] EXCEPT !.stage = "rejected", !.status = "rejected"]
             yes == [db[c] EXCEPT !.stage = "simulation_approved", !.status = "approved",
                                  !.approver = u]
  <2>1. /\ db[c].stage = "digital_twin_simulation"
        /\ UNCHANGED <<db, sent>>
        /\ Write(p, "commit", c, db[c], IF db[c].sim = "unsafe" THEN no ELSE yes, "done")
    BY <1>8 DEF ApproveSimulation
  <2>2. /\ yes \in Row /\ no \in Row /\ yes.stage = "simulation_approved"
        /\ yes.status = "approved" /\ no.status = "rejected"
    BY <1>0 DEF Row, Status, Stage
  <2> HIDE DEF yes, no
  <2> QED
    BY <1>0, <2>1, <2>2, WriteSpent
<1>9. ASSUME NEW c \in Ids, NEW u \in Users, InitiateCommand(p, u, c) \/ EmergencyShutdown(p, u, c)
      PROVE  Spent'
  BY <1>0, <1>9, InsertSpent DEF InitiateCommand, EmergencyShutdown
<1> QED
  BY <1>1, <1>2, <1>4, <1>5, <1>6, <1>7, <1>8, <1>9 DEF WorkflowStep

\* A handler of the control service changes the object it has just loaded.
LEMMA ControlWriteSpent ==
  ASSUME TypeOK, Seconded, Spent, OneOfEach, UNCHANGED <<db, sent>>,
         NEW p \in Control, NEW c \in Ids, NEW new \in Row, NEW next \in {"done", "publish"},
         Write(p, "commit", c, db[c], new, next),
         new.status # "pending",
         new.status = "approved" => db[c].status = "pending",
         next = "publish" => new.status = "executing" /\ db[c].status = "approved"
  PROVE  Spent'
<1> p \in Procs /\ p \notin Workflow
  BY ControlAssumption, DisjointAssumption
<1> DEFINE t == [pc |-> "commit", cmd |-> c, snap |-> db[c], new |-> new, next |-> next]
<1>1. task'[p] = t /\ \A q \in Procs : q # p => task'[q] = task[q]
  BY DEF Write, TypeOK
<1>2. t \in Writer /\ t.cmd = c /\ t.snap = db[c] /\ t.new = new /\ t.next = next
  BY DEF Writer, TypeOK
<1> HIDE DEF t
<1>3. RowSpent(db[c], sent[p][c])
  BY DEF Spent
<1>4. ControlSpends(t, db[c], sent[p][c])
  BY <1>2, <1>3, IdleType DEF ControlSpends, RowSpent
<1> QED
  BY <1>1, <1>2, <1>4, QuietSpent

LEMMA ControlStepSpent ==
  ASSUME TypeOK, Seconded, InOrder, Spent, OneOfEach, NEW p \in Control, ControlStep(p)
  PROVE  Spent'
<1>0. p \in Procs /\ \A c \in Ids : db[c] \in Row
  BY ControlAssumption DEF TypeOK
<1>1. ASSUME NEW c \in Ids, NEW u \in Users, CreateCommand(p, u, c) PROVE Spent'
  BY <1>0, <1>1, InsertSpent DEF CreateCommand
<1>2. ASSUME NEW c \in Ids, NEW u \in Users, ApproveCommand(p, u, c) PROVE Spent'
  <2> DEFINE new == [db[c] EXCEPT !.status = "approved", !.approver = u]
  <2>1. /\ Write(p, "commit", c, db[c], new, "done") /\ UNCHANGED <<db, sent>>
        /\ db[c].status = "pending"
    BY <1>2 DEF ApproveCommand
  <2>2. new \in Row /\ new.status = "approved"
    BY <1>0 DEF Row, Status
  <2> HIDE DEF new
  <2> QED
    BY <2>1, <2>2, ControlWriteSpent
<1>3. ASSUME NEW c \in Ids, ExecuteApproved(p, c) PROVE Spent'
  <2> DEFINE new == [db[c] EXCEPT !.status = "executing"]
  <2>1. /\ Write(p, "commit", c, db[c], new, "publish") /\ UNCHANGED <<db, sent>>
        /\ db[c].status = "approved"
    BY <1>3 DEF ExecuteApproved
  <2>2. new \in Row /\ new.status = "executing"
    BY <1>0 DEF Row, Status
  <2> HIDE DEF new
  <2> QED
    BY <2>1, <2>2, ControlWriteSpent
<1>4. CASE ControlPublish(p)
  <2>1. PICK t \in Reader : t = task[p]
    BY <1>0, <1>4, AtType DEF ControlPublish
  <2>2. PICK c \in Ids : c = t.cmd
    BY DEF Reader
  <2> DEFINE executed == [db[c] EXCEPT !.status = "executed"]
             failed == [db[c] EXCEPT !.status = "failed"]
  <2>3. Publish(p, c, executed, failed)
    BY <1>4, <2>1, <2>2 DEF ControlPublish
  <2>4. /\ executed \in Row /\ executed.status = "executed"
        /\ failed \in Row /\ failed.status = "failed"
    BY <1>0 DEF Row, Status
  <2> HIDE DEF executed, failed
  <2>5. CASE /\ Write(p, IF db[c].kind = "esd" THEN "commit" ELSE "flush", c, db[c], executed, "done")
             /\ UNCHANGED db /\ Send(p, c)
    <3>1. /\ sent[p][c] \in Nat /\ sent'[p][c] = sent[p][c] + 1
          /\ \A d \in Ids : d # c => sent'[p][d] = sent[p][d]
      BY <1>0, <2>5 DEF Send, TypeOK
    <3>2. /\ sent[p][c] < Budget(db[c]) /\ db[c].status # "pending"
          /\ db[c].status = "approved" => sent[p][c] = 0 /\ Budget(db[c]) = 2
      BY <2>1, <2>2, IdleType DEF Spent, ControlSpends
    <3>3. RowSpent(db[c], sent'[p][c])
      BY <3>1, <3>2, BudgetType DEF RowSpent
    <3>4. \A d \in Ids : RowSpent(db'[d], sent'[p][d])
      BY <2>5, <3>1, <3>3 DEF Spent
    <3> DEFINE pc == IF db[c].kind = "esd" THEN "commit" ELSE "flush"
               w == [pc |-> pc, cmd |-> c, snap |-> db[c], new |-> executed, next |-> "done"]
    <3>5. task'[p] = w /\ \A q \in Procs : q # p => task'[q] = task[q]
      BY <1>0, <2>5 DEF Write, TypeOK
    <3>6. /\ w \in Writer /\ w.cmd = c /\ w.snap = db[c] /\ w.new = executed /\ w.next = "done"
      BY <1>0, <2>4 DEF Writer
    <3> HIDE DEF w
    <3>7. ControlSpends(w, db'[c], sent'[p][c])
      BY <2>4, <3>6, IdleType DEF ControlSpends
    <3> QED
      BY <3>4, <3>5, <3>6, <3>7, SpentByControl
  <2>6. CASE Write(p, "commit", c, db[c], failed, "done") /\ UNCHANGED <<db, sent>>
    BY <2>4, <2>6, ControlWriteSpent
  <2> QED
    BY <2>3, <2>5, <2>6 DEF Publish
<1> QED
  BY <1>1, <1>2, <1>3, <1>4 DEF ControlStep

\* What a relay of the control service uses up is not written back: neither
\* by a copy of the row loaded before it, nor by the other service.
THEOREM SpentInvariant ==
  ASSUME OneOfEach
  PROVE  Spec => []Spent
<1>1. Init => Spent
  <2> SUFFICES ASSUME Init PROVE Spent
    OBVIOUS
  <2>1. /\ \A c \in Ids : db[c].status = "absent"
        /\ \A p \in Procs : task[p] = Idle /\ \A c \in Ids : sent[p][c] = 0
    BY DEF Init, NoRow, NewRow
  <2>2. \A r : r.status = "absent" => RowSpent(r, 0)
    BY BudgetType DEF RowSpent
  <2> QED
    BY <2>1, <2>2, WorkflowAssumption, ControlAssumption, IdleType DEF Spent, ApprovesOnce
<1>2. TypeOK /\ TypeOK' /\ Seconded /\ InOrder /\ Spent /\ [Next]_vars => Spent'
  <2> SUFFICES ASSUME TypeOK, TypeOK', Seconded, InOrder, Spent, [Next]_vars PROVE Spent'
    OBVIOUS
  <2>1. ASSUME NEW p \in Procs, SharedStep(p) PROVE Spent'
    BY <2>1, SharedSpent
  <2>2. ASSUME NEW p \in Workflow, WorkflowStep(p) PROVE Spent'
    BY <2>2, WorkflowSpent
  <2>3. ASSUME NEW p \in Control, ControlStep(p) PROVE Spent'
    BY <2>3, ControlStepSpent
  <2>4. CASE UNCHANGED vars
    BY <2>4 DEF vars, Spent
  <2> QED
    BY <2>1, <2>2, <2>3, <2>4 DEF Next
<1> QED
  BY <1>1, <1>2, TypeCorrect, SecondedInvariant, InOrderInvariant, PTL DEF Spec

\* With one process of each service, the control service sends a command at
\* most once for each of the two approvals that write "approved", whatever the
\* order in which the services' sessions load and write the row, and whichever
\* process crashes or commit fails in between.
THEOREM ApprovalSpentOnceHolds ==
  ASSUME OneOfEach
  PROVE  Spec => []ApprovalSpentOnce
<1>1. Spent => ApprovalSpentOnce
  BY DEF Spent, RowSpent, Budget, ApprovalSpentOnce
<1> QED
  BY <1>1, SpentInvariant, PTL

-----------------------------------------------------------------------------
(* The refinement: every step of the workflow is a step of the gate, or    *)
(* changes nothing that the gate knows.  Alone says what a handler has     *)
(* loaded; what it needs besides is which gate the handler writes behind   *)
(* which, and that an emergency shutdown is still at the first gate when   *)
(* it is published: its handler does not await anything in between.        *)

ClearedRow(r) == r.stage = "simulation_approved" \/ (r.kind = "esd" /\ r.stage = "requested")

\* The gates before the approval, at which a command may still be rejected.
Rejectable == {"requested", "two_fa_verified", "digital_twin_simulation"}

GateEdge(r, n) ==
  \/ n.stage = r.stage
  \/ r.stage = "requested" /\ n.stage = "two_fa_verified"
  \/ r.stage = "two_fa_verified" /\ n.stage = "digital_twin_simulation"
  \/ r.stage = "digital_twin_simulation" /\ n.stage = "simulation_approved"
  \/ r.stage \in Rejectable /\ n.stage = "rejected"
  \/ ClearedRow(r) /\ n.stage \in {"executed", "failed"}

AtGate ==
  /\ \A p \in Procs : task[p] \in Writer =>
       /\ GateEdge(task[p].snap, task[p].new)
       /\ task[p].next = "publish" => ClearedRow(task[p].new)
  /\ \A p \in Procs : task[p] \in Reader /\ task[p].pc = "publish" => ClearedRow(db[task[p].cmd])

\* An id without a row is nobody's shutdown.
AbsentRows == \A c \in Ids : ~Exists(c) => db[c].kind # "esd"

\* A commit makes of the row what the handler wrote, since nobody else writes.
LEMMA AloneCommit ==
  ASSUME TypeOK, Alone, NEW p \in Procs, Commit(p)
  PROVE  \E t \in Writer, c \in Ids :
           /\ t = task[p] /\ c = t.cmd /\ t.snap = db[c] /\ db'[c] = t.new
           /\ \A d \in Ids : d # c => db'[d] = db[d]
           /\ task'[p] = Resume(t)
           /\ GoodEdit(t.snap, t.new, t.next)
<1> PICK t \in Writer : t = task[p]
  BY AtType DEF Commit
<1> PICK c \in Ids : c = t.cmd
  BY DEF Writer
<1>1. t.snap = db[c] /\ GoodEdit(t.snap, t.new, t.next) /\ t.new \in Row
  BY DEF Alone, WriterAlone, Writer
<1>2. db'[c] = Flushed(t, db[c]) /\ db[c] \in Row /\ \A d \in Ids : d # c => db'[d] = db[d]
  BY DEF Commit, TypeOK
<1>3. t.new.kind = db[c].kind /\ t.new.requester = db[c].requester
  BY <1>1 DEF GoodEdit
<1>4. Flushed(t, db[c]) = [kind |-> t.new.kind, requester |-> t.new.requester,
                           status |-> t.new.status, stage |-> t.new.stage,
                           approver |-> t.new.approver, verified |-> t.new.verified,
                           sim |-> t.new.sim]
  BY <1>1, <1>3 DEF Flushed, Column
<1>5. db'[c] = t.new
  BY <1>1, <1>2, <1>4 DEF Row
<1>6. task'[p] = Resume(t)
  BY DEF Commit, TypeOK
<1> QED
  BY <1>1, <1>2, <1>5, <1>6

LEMMA WriteAtGate ==
  ASSUME TypeOK, OneProcess, NEW p \in Procs, NEW pc \in {"commit", "flush"}, NEW c \in Ids,
         NEW snap \in Row, NEW new \in Row, NEW next \in {"done", "simulate", "publish"},
         Write(p, pc, c, snap, new, next), GateEdge(snap, new), next = "publish" => ClearedRow(new)
  PROVE  AtGate'
<1>1. task'[p] = [pc |-> pc, cmd |-> c, snap |-> snap, new |-> new, next |-> next]
  BY DEF Write, TypeOK
<1>2. task'[p] \notin Reader /\ task'[p].snap = snap /\ task'[p].new = new /\ task'[p].next = next
  BY <1>1 DEF Reader
<1>3. \A q \in Procs : q = p
  BY DEF OneProcess
<1> QED
  BY <1>2, <1>3 DEF AtGate

LEMMA IdleAtGate ==
  ASSUME OneProcess, NEW p \in Procs, task'[p] = Idle
  PROVE  AtGate'
<1>1. \A q \in Procs : q = p
  BY DEF OneProcess
<1> QED
  BY <1>1, IdleType DEF AtGate

LEMMA SharedAtGate ==
  ASSUME TypeOK, Alone, AtGate, OneProcess, NEW p \in Procs, SharedStep(p)
  PROVE  AtGate'
<1>0. \A q \in Procs : q = p
  BY DEF OneProcess
<1>1. CASE Commit(p)
  <2>1. PICK t \in Writer, c \in Ids :
          /\ t = task[p] /\ c = t.cmd /\ t.snap = db[c] /\ db'[c] = t.new
          /\ \A d \in Ids : d # c => db'[d] = db[d]
          /\ task'[p] = Resume(t)
          /\ GoodEdit(t.snap, t.new, t.next)
    BY <1>1, AloneCommit
  <2>2. t.next = "publish" => ClearedRow(t.new)
    BY <2>1 DEF AtGate
  <2>3. task'[p] = Idle \/ (t.next # "done" /\ task'[p] = [pc |-> t.next, cmd |-> c])
    BY <2>1 DEF Resume
  <2>4. CASE t.next # "done" /\ task'[p] = [pc |-> t.next, cmd |-> c]
    <3>1. task'[p] \notin Writer /\ task'[p].pc = t.next /\ task'[p].cmd = c
      BY <2>4 DEF Writer
    <3> QED
      BY <1>0, <2>1, <2>2, <3>1 DEF AtGate
  <2> QED
    BY <2>3, <2>4, IdleAtGate
<1>2. CASE Flush(p)
  <2>1. PICK t \in Writer : t = task[p]
    BY <1>2, AtType DEF Flush
  <2>2. task'[p] = [t EXCEPT !.pc = "commit"]
    BY <1>2, <2>1 DEF Flush, TypeOK
  <2>3. task'[p] \notin Reader /\ task'[p].snap = t.snap /\ task'[p].new = t.new /\ task'[p].next = t.next
    BY <2>1, <2>2 DEF Reader, Writer
  <2> QED
    BY <1>0, <2>1, <2>3 DEF AtGate
<1>3. CASE Crash(p) \/ CommitFails(p)
  <2>1. task'[p] = Idle
    BY <1>3 DEF Crash, CommitFails, TypeOK
  <2> QED
    BY <2>1, IdleAtGate
<1>4. CASE \E c \in Ids : Deliver(p, c) \/ DeliveryFails(p, c)
  <2>1. UNCHANGED <<task, db>>
    BY <1>4 DEF Deliver, DeliveryFails
  <2> QED
    BY <2>1 DEF AtGate
<1> QED
  BY <1>1, <1>2, <1>3, <1>4 DEF SharedStep

LEMMA WorkflowAtGate ==
  ASSUME TypeOK, Alone, AtGate, OneProcess, NEW p \in Procs, WorkflowStep(p)
  PROVE  AtGate'
<1>0. /\ \A q \in Procs : q = p
      /\ \A c \in Ids : db[c] \in Row
  BY DEF OneProcess, TypeOK
<1>1. CASE StartSimulation(p)
  <2>1. task'[p] = Idle
    BY <1>1 DEF StartSimulation, TypeOK
  <2> QED
    BY <2>1, IdleAtGate
<1>2. CASE FinishSimulation(p)
  <2>1. PICK s \in sims :
          \/ \E result \in {"safe", "unsafe"} :
               Write(p, "commit", s.cmd, s.snap,
                     [s.snap EXCEPT !.stage = "digital_twin_simulation", !.sim = result], "done")
          \/ Write(p, "commit", s.cmd, s.snap,
                   [s.snap EXCEPT !.stage = "rejected", !.status = "rejected"], "done")
    BY <1>2, ZenonT(30) DEF FinishSimulation
  <2>2. s.snap \in Row /\ s.cmd \in Ids /\ s.snap.stage = "two_fa_verified"
    BY DEF TypeOK, Suspended, Alone, SimAlone
  <2>3. /\ [s.snap EXCEPT !.stage = "rejected", !.status = "rejected"] \in Row
        /\ GateEdge(s.snap, [s.snap EXCEPT !.stage = "rejected", !.status = "rejected"])
        /\ \A result \in {"safe", "unsafe"} :
             LET new == [s.snap EXCEPT !.stage = "digital_twin_simulation", !.sim = result]
             IN new \in Row /\ GateEdge(s.snap, new)
    BY <2>2 DEF Row, Stage, Status, GateEdge, Rejectable
  <2> QED
    BY <2>1, <2>2, <2>3, WriteAtGate
<1>3. CASE ExecuteImmediately(p)
  <2>1. PICK t \in Reader : t = task[p] /\ t.pc = "shutdown"
    BY <1>3, AtType DEF ExecuteImmediately, At
  <2>2. PICK c \in Ids : c = t.cmd
    BY DEF Reader
  <2>3. db[c].kind = "esd" /\ db[c].stage = "requested" /\ db[c] \in Row
    BY <1>0, <2>1, <2>2 DEF Alone, ReaderAlone
  <2> DEFINE new == [db[c] EXCEPT !.status = "executing"]
  <2>4. new \in Row /\ GateEdge(db[c], new) /\ ClearedRow(new)
    BY <2>3 DEF Row, Status, GateEdge, ClearedRow
  <2>5. Write(p, "commit", c, db[c], new, "publish")
    BY <1>3, <2>1, <2>2 DEF ExecuteImmediately
  <2> HIDE DEF new
  <2> QED
    BY <2>3, <2>4, <2>5, WriteAtGate
<1>4. CASE WorkflowPublish(p)
  <2>1. PICK t \in Reader : t = task[p] /\ t.pc = "publish"
    BY <1>4, AtType DEF WorkflowPublish, At
  <2>2. PICK c \in Ids : c = t.cmd
    BY DEF Reader
  <2>3. db[c] \in Row /\ ClearedRow(db[c])
    BY <1>0, <2>1, <2>2 DEF AtGate
  <2> DEFINE good == [db[c] EXCEPT !.stage = "executed", !.status = "executed"]
             bad == [db[c] EXCEPT !.stage = "failed", !.status = "failed"]
  <2>4. good \in Row /\ bad \in Row /\ GateEdge(db[c], good) /\ GateEdge(db[c], bad)
    BY <2>3 DEF Row, Status, Stage, GateEdge
  <2>5. \/ \E pc \in {"commit", "flush"} : Write(p, pc, c, db[c], good, "done")
        \/ Write(p, "commit", c, db[c], bad, "done")
    BY <1>4, <2>1, <2>2 DEF WorkflowPublish, Publish
  <2> HIDE DEF good, bad
  <2> QED
    BY <2>3, <2>4, <2>5, WriteAtGate
<1>5. ASSUME NEW c \in Ids, ExecuteCommand(p, c) PROVE AtGate'
  <2> DEFINE new == [db[c] EXCEPT !.status = "executing"]
  <2>1. Write(p, "commit", c, db[c], new, "publish") /\ db[c].stage = "simulation_approved"
    BY <1>5 DEF ExecuteCommand
  <2>2. new \in Row /\ GateEdge(db[c], new) /\ ClearedRow(new)
    BY <1>0, <2>1 DEF Row, Status, GateEdge, ClearedRow
  <2> HIDE DEF new
  <2> QED
    BY <1>0, <2>1, <2>2, WriteAtGate
<1>6. ASSUME NEW c \in Ids, NEW u \in Users, InitiateCommand(p, u, c) PROVE AtGate'
  <2>1. task'[p] = Idle
    BY <1>6 DEF InitiateCommand, Insert, Free
  <2> QED
    BY <2>1, IdleAtGate
<1>7. ASSUME NEW c \in Ids, NEW u \in Users, VerifyTwoFactor(p, u, c) PROVE AtGate'
  <2> DEFINE good == [db[c] EXCEPT !.stage = "two_fa_verified", !.verified = TRUE]
             bad == [db[c] EXCEPT !.stage = "rejected", !.status = "rejected"]
  <2>1. good \in Row /\ bad \in Row /\ GateEdge(db[c], good) /\ GateEdge(db[c], bad)
    BY <1>0, <1>7 DEF VerifyTwoFactor, Row, Status, Stage, GateEdge, Rejectable
  <2>2. \/ Write(p, "commit", c, db[c], good, "simulate")
        \/ Write(p, "commit", c, db[c], bad, "done")
    BY <1>7 DEF VerifyTwoFactor
  <2> HIDE DEF good, bad
  <2> QED
    BY <1>0, <2>1, <2>2, WriteAtGate
<1>8. ASSUME NEW c \in Ids, NEW u \in Users, ApproveSimulation(p, u, c) PROVE AtGate'
  <2> DEFINE good == [db[c] EXCEPT !.stage = "simulation_approved", !.status = "approved", !.approver = u]
             bad == [db[c] EXCEPT !.stage = "rejected", !.status = "rejected"]
  <2>1. good \in Row /\ bad \in Row /\ GateEdge(db[c], good) /\ GateEdge(db[c], bad)
    BY <1>0, <1>8 DEF ApproveSimulation, Row, Status, Stage, GateEdge, Rejectable
  <2>2. \/ Write(p, "commit", c, db[c], good, "done")
        \/ Write(p, "commit", c, db[c], bad, "done")
    BY <1>8 DEF ApproveSimulation
  <2> HIDE DEF good, bad
  <2> QED
    BY <1>0, <2>1, <2>2, WriteAtGate
<1>9. ASSUME NEW c \in Ids, NEW u \in Users, EmergencyShutdown(p, u, c) PROVE AtGate'
  <2>1. task'[p] = [pc |-> "shutdown", cmd |-> c]
    BY <1>9 DEF EmergencyShutdown, TypeOK
  <2>2. task'[p] \notin Writer /\ task'[p].pc # "publish"
    BY <2>1 DEF Writer
  <2> QED
    BY <1>0, <2>2 DEF AtGate
<1> QED
  BY <1>1, <1>2, <1>3, <1>4, <1>5, <1>6, <1>7, <1>8, <1>9 DEF WorkflowStep

\* With one process of the workflow and nobody else at its rows, a handler writes the
\* stage behind the one it has loaded, and what it publishes has been cleared.
THEOREM AtGateInvariant ==
  ASSUME OneProcess
  PROVE  Spec => []AtGate
<1>1. Init => AtGate
  BY IdleType DEF Init, AtGate
<1>2. TypeOK /\ Alone /\ AtGate /\ [Next]_vars => AtGate'
  <2> SUFFICES ASSUME TypeOK, Alone, AtGate, [Next]_vars PROVE AtGate'
    OBVIOUS
  <2>1. ASSUME NEW p \in Workflow, WorkflowStep(p) PROVE AtGate'
    BY <2>1, WorkflowAssumption, WorkflowAtGate
  <2>2. CASE UNCHANGED vars
    BY <2>2 DEF vars, AtGate
  <2> QED
    BY <2>1, <2>2, SharedAtGate DEF Next, OneProcess
<1> QED
  BY <1>1, <1>2, TypeCorrect, AloneInvariant, PTL DEF Spec

\* The state of the gate, as the table and the producers tell it.
Phases == [c \in Ids |-> IF Exists(c) THEN db[c].stage ELSE "absent"]
Shutdowns == {c \in Ids : db[c].kind = "esd"}
Handed == {c \in Ids : Relayed(c)}

LEMMA PhaseOf ==
  ASSUME NEW c \in Ids
  PROVE  /\ Exists(c) => Phases[c] = db[c].stage
         /\ ~Exists(c) => Phases[c] = "absent"
BY DEF Phases

\* A row that moves, and no other.
LEMMA PhaseMoves ==
  ASSUME NEW c \in Ids, \A d \in Ids : d # c => db'[d] = db[d], db'[c].status # "absent"
  PROVE  Phases' = [Phases EXCEPT ![c] = db'[c].stage]
BY DEF Phases, Exists

LEMMA GateOf ==
  /\ ImplementsGate <=> Gate!GateInit /\ [][Gate!GateNext]_<<Phases, Shutdowns, Handed>>
BY DEF ImplementsGate, Gate!GateSpec, Gate!gateVars, Phases, Shutdowns, Handed

LEMMA PassStep ==
  ASSUME NEW c \in Ids, NEW to, Phases' = [Phases EXCEPT ![c] = to],
         UNCHANGED <<Shutdowns, Handed>>
  PROVE  Gate!Pass(c, Phases[c], to)
BY DEF Gate!Pass, Phases, Shutdowns, Handed

\* What a commit makes of a row, the gate does, too.
LEMMA CommitGate ==
  ASSUME TypeOK, Honest, Alone, AtGate, NEW p \in Procs, Commit(p)
  PROVE  [Gate!GateNext]_<<Phases, Shutdowns, Handed>>
<1>1. PICK t \in Writer, c \in Ids :
        /\ t = task[p] /\ c = t.cmd /\ t.snap = db[c] /\ db'[c] = t.new
        /\ \A d \in Ids : d # c => db'[d] = db[d]
        /\ task'[p] = Resume(t)
        /\ GoodEdit(t.snap, t.new, t.next)
  BY AloneCommit
<1>2. GateEdge(db[c], t.new)
  BY <1>1 DEF AtGate
<1>3. Exists(c) /\ t.new.status # "absent" /\ t.new.kind = db[c].kind
  BY <1>1 DEF GoodEdit, Exists
<1>4. Phases[c] = db[c].stage /\ Phases' = [Phases EXCEPT ![c] = t.new.stage]
  BY <1>1, <1>3, PhaseOf, PhaseMoves
<1>5. Shutdowns' = Shutdowns
  BY <1>1, <1>3 DEF Shutdowns
<1>6. Handed' = Handed
  BY DEF Handed, Relayed, Commit
<1> DEFINE from == db[c].stage
           to == t.new.stage
<1>7. Gate!Pass(c, from, to)
  BY <1>4, <1>5, <1>6, PassStep
<1>8. CASE to = from
  <2>1. Phases' = Phases
    BY <1>4, <1>8 DEF Phases
  <2> QED
    BY <1>5, <1>6, <2>1
<1>9. CASE from = "requested" /\ to = "two_fa_verified"
  BY <1>7, <1>9 DEF Gate!GateNext, Gate!Verify
<1>10. CASE from = "two_fa_verified" /\ to = "digital_twin_simulation"
  BY <1>7, <1>10 DEF Gate!GateNext, Gate!Simulate
<1>11. CASE from = "digital_twin_simulation" /\ to = "simulation_approved"
  BY <1>7, <1>11 DEF Gate!GateNext, Gate!Approve
<1>12. CASE from \in Rejectable /\ to = "rejected"
  BY <1>7, <1>12 DEF Gate!GateNext, Gate!Reject, Rejectable
<1>13. CASE to # from /\ ClearedRow(db[c]) /\ to \in {"executed", "failed"}
  <2>1. to = "executed" => c \in Handed
    <3>1. WriterHonest(t)
      BY <1>1 DEF Honest
    <3> QED
      BY <1>1, <1>13, <3>1 DEF WriterHonest, Handed
  <2>2. Phases[c] = "simulation_approved" \/ (c \in Shutdowns /\ Phases[c] = "requested")
    BY <1>4, <1>13 DEF ClearedRow, Shutdowns
  <2>3. Gate!Cleared(c)
    BY <2>2 DEF Gate!Cleared, Phases, Shutdowns
  <2>4. Gate!Conclude(c)
    BY <1>4, <1>5, <1>6, <1>13, <2>1, <2>3 DEF Gate!Conclude, Phases, Shutdowns, Handed
  <2> QED
    BY <2>4 DEF Gate!GateNext
<1> QED
  BY <1>2, <1>8, <1>9, <1>10, <1>11, <1>12, <1>13 DEF GateEdge

\* A step that neither writes a row nor sends a command.
LEMMA QuietGate ==
  ASSUME UNCHANGED <<db, sent>>
  PROVE  UNCHANGED <<Phases, Shutdowns, Handed>>
BY DEF Phases, Exists, Shutdowns, Handed, Relayed

LEMMA InsertGate ==
  ASSUME TypeOK, AbsentRows, UNCHANGED sent, NEW p \in Procs, NEW c \in Ids, NEW u \in Users,
         NEW kind \in {"operation", "esd"}, Insert(p, c, NewRow(kind, u))
  PROVE  Gate!GateNext
<1>1. ~Exists(c) /\ db' = [db EXCEPT ![c] = NewRow(kind, u)] /\ db \in [Ids -> Row]
  BY DEF Insert, TypeOK
<1>2. db'[c] = NewRow(kind, u) /\ \A d \in Ids : d # c => db'[d] = db[d]
  BY <1>1
<1>3. db'[c].status # "absent" /\ db'[c].stage = "requested" /\ db'[c].kind = kind
  BY <1>2 DEF NewRow
<1>4. Phases[c] = "absent" /\ Phases' = [Phases EXCEPT ![c] = "requested"]
  BY <1>1, <1>2, <1>3, PhaseOf, PhaseMoves
<1>5. Handed' = Handed
  BY DEF Handed, Relayed
<1>6. db[c].kind # "esd"
  BY <1>1 DEF AbsentRows
<1>7. CASE kind = "operation"
  <2>1. Shutdowns' = Shutdowns
    BY <1>2, <1>3, <1>6, <1>7 DEF Shutdowns
  <2>2. Gate!Pass(c, "absent", "requested")
    BY <1>4, <1>5, <2>1, PassStep
  <2> QED
    BY <2>2 DEF Gate!GateNext, Gate!Request
<1>8. CASE kind = "esd"
  <2>1. Shutdowns' = Shutdowns \union {c}
    BY <1>2, <1>3, <1>8 DEF Shutdowns
  <2>2. Gate!RequestShutdown(c)
    BY <1>4, <1>5, <2>1 DEF Gate!RequestShutdown, Phases, Shutdowns, Handed
  <2> QED
    BY <2>2 DEF Gate!GateNext
<1> QED
  BY <1>7, <1>8

\* A send of a command that is cleared; a send that failed is no step.
LEMMA PublishGate ==
  ASSUME TypeOK, Alone, AtGate, NEW p \in Procs, WorkflowPublish(p)
  PROVE  [Gate!GateNext]_<<Phases, Shutdowns, Handed>>
<1>1. PICK t \in Reader : t = task[p] /\ t.pc = "publish"
  BY AtType DEF WorkflowPublish, At
<1>2. PICK c \in Ids : c = t.cmd
  BY DEF Reader
<1>3. UNCHANGED db /\ (Send(p, c) \/ UNCHANGED sent)
  BY <1>1, <1>2 DEF WorkflowPublish, Publish
<1>4. CASE UNCHANGED sent
  BY <1>3, <1>4, QuietGate
<1>5. CASE Send(p, c)
  <2>1. /\ sent'[p][c] = sent[p][c] + 1 /\ sent[p][c] \in Nat
        /\ \A q \in Procs, d \in Ids : q # p \/ d # c => sent'[q][d] = sent[q][d]
    BY <1>5 DEF Send, TypeOK
  <2>2. Handed' = Handed \union {c}
    <3>1. \A d \in Ids : d # c => (Relayed(d)' <=> Relayed(d))
      BY <2>1 DEF Relayed
    <3>2. Relayed(c)'
      BY <2>1 DEF Relayed
    <3> QED
      BY <3>1, <3>2 DEF Handed
  <2>3. Phases' = Phases /\ Shutdowns' = Shutdowns
    BY <1>3 DEF Phases, Exists, Shutdowns
  <2>4. ClearedRow(db[c]) /\ Exists(c)
    BY <1>1, <1>2 DEF AtGate, Alone, ReaderAlone
  <2>5. Phases[c] = "simulation_approved" \/ (c \in Shutdowns /\ Phases[c] = "requested")
    BY <2>4, PhaseOf DEF ClearedRow, Shutdowns
  <2>6. Gate!Cleared(c)
    BY <2>5 DEF Gate!Cleared, Phases, Shutdowns
  <2>7. Gate!Relay(c)
    BY <2>2, <2>3, <2>6 DEF Gate!Relay, Phases, Shutdowns, Handed
  <2> QED
    BY <2>7 DEF Gate!GateNext
<1> QED
  BY <1>3, <1>4, <1>5

LEMMA StepGate ==
  ASSUME OneProcess, TypeOK, Honest, Alone, AtGate, AbsentRows, [Next]_vars
  PROVE  [Gate!GateNext]_<<Phases, Shutdowns, Handed>>
<1>1. ASSUME UNCHANGED <<db, sent>> PROVE [Gate!GateNext]_<<Phases, Shutdowns, Handed>>
  BY <1>1, QuietGate
<1>2. ASSUME NEW p \in Procs, SharedStep(p)
      PROVE  [Gate!GateNext]_<<Phases, Shutdowns, Handed>>
  <2>1. Commit(p) \/ UNCHANGED <<db, sent>>
    BY <1>2 DEF SharedStep, Flush, Crash, CommitFails, Deliver, DeliveryFails
  <2> QED
    BY <1>1, <2>1, CommitGate
<1>3. ASSUME NEW p \in Workflow, WorkflowStep(p)
      PROVE  [Gate!GateNext]_<<Phases, Shutdowns, Handed>>
  <2>0. p \in Procs
    BY WorkflowAssumption
  <2>1. CASE StartSimulation(p) \/ FinishSimulation(p) \/ ExecuteImmediately(p)
    <3>1. StartSimulation(p) \/ ExecuteImmediately(p) => UNCHANGED <<db, sent>>
      BY DEF StartSimulation, ExecuteImmediately
    <3>2. FinishSimulation(p) => UNCHANGED <<db, sent>>
      BY DEF FinishSimulation
    <3> QED
      BY <1>1, <2>1, <3>1, <3>2
  <2>2. CASE WorkflowPublish(p)
    BY <2>0, <2>2, PublishGate
  <2>3. ASSUME NEW c \in Ids, NEW u \in Users, VerifyTwoFactor(p, u, c) \/ ApproveSimulation(p, u, c)
        PROVE  UNCHANGED <<db, sent>>
    BY <2>3 DEF VerifyTwoFactor, ApproveSimulation
  <2>4. ASSUME NEW c \in Ids, ExecuteCommand(p, c) PROVE UNCHANGED <<db, sent>>
    BY <2>4 DEF ExecuteCommand
  <2>5. ASSUME NEW c \in Ids, NEW u \in Users, InitiateCommand(p, u, c) \/ EmergencyShutdown(p, u, c)
        PROVE  Gate!GateNext
    <3>1. UNCHANGED sent
      BY <2>5 DEF InitiateCommand, EmergencyShutdown
    <3>2. Insert(p, c, NewRow("operation", u)) \/ Insert(p, c, NewRow("esd", u))
      BY <2>5 DEF InitiateCommand, EmergencyShutdown
    <3> QED
      BY <2>0, <3>1, <3>2, InsertGate
  <2> QED
    BY <1>1, <1>3, <2>1, <2>2, <2>3, <2>4, <2>5 DEF WorkflowStep
<1>4. CASE UNCHANGED vars
  BY <1>1, <1>4 DEF vars
<1> QED
  BY <1>2, <1>3, <1>4 DEF Next, OneProcess

LEMMA AbsentInvariant ==
  ASSUME OneProcess
  PROVE  Spec => []AbsentRows
<1>1. Init => AbsentRows
  BY DEF Init, AbsentRows, NoRow, NewRow
<1>2. TypeOK /\ Alone /\ AbsentRows /\ [Next]_vars => AbsentRows'
  <2> SUFFICES ASSUME TypeOK, Alone, AbsentRows, [Next]_vars PROVE AbsentRows'
    OBVIOUS
  <2>1. CASE UNCHANGED db
    BY <2>1 DEF AbsentRows, Exists
  <2>2. ASSUME NEW p \in Procs, Commit(p) PROVE AbsentRows'
    <3>1. PICK t \in Writer, c \in Ids :
            /\ db'[c] = t.new /\ GoodEdit(t.snap, t.new, t.next)
            /\ \A d \in Ids : d # c => db'[d] = db[d]
      BY <2>2, AloneCommit
    <3> QED
      BY <3>1 DEF AbsentRows, Exists, GoodEdit
  <2>3. ASSUME NEW p \in Procs, NEW c \in Ids, NEW u \in Users, NEW kind,
               Insert(p, c, NewRow(kind, u))
        PROVE  AbsentRows'
    <3>1. db'[c] = NewRow(kind, u) /\ \A d \in Ids : d # c => db'[d] = db[d]
      BY <2>3 DEF Insert, TypeOK
    <3>2. db'[c].status # "absent"
      BY <3>1 DEF NewRow
    <3> QED
      BY <3>1, <3>2 DEF AbsentRows, Exists
  <2>4. ASSUME NEW p \in Procs, SharedStep(p) PROVE Commit(p) \/ UNCHANGED db
    BY <2>4 DEF SharedStep, Flush, Crash, CommitFails, Deliver, DeliveryFails
  <2>5. ASSUME NEW p \in Procs, WorkflowStep(p)
        PROVE  \/ UNCHANGED db
               \/ \E c \in Ids, u \in Users, kind \in {"operation", "esd"} :
                    Insert(p, c, NewRow(kind, u))
    <3>1. StartSimulation(p) \/ ExecuteImmediately(p) => UNCHANGED db
      BY DEF StartSimulation, ExecuteImmediately
    <3>2. FinishSimulation(p) => UNCHANGED db
      BY DEF FinishSimulation
    <3>3. WorkflowPublish(p) => UNCHANGED db
      BY DEF WorkflowPublish, Publish
    <3>4. ASSUME NEW c \in Ids, NEW u \in Users, VerifyTwoFactor(p, u, c) \/ ApproveSimulation(p, u, c)
          PROVE  UNCHANGED db
      BY <3>4 DEF VerifyTwoFactor, ApproveSimulation
    <3>5. ASSUME NEW c \in Ids, ExecuteCommand(p, c) PROVE UNCHANGED db
      BY <3>5 DEF ExecuteCommand
    <3>6. ASSUME NEW c \in Ids, NEW u \in Users, InitiateCommand(p, u, c) \/ EmergencyShutdown(p, u, c)
          PROVE  \E kind \in {"operation", "esd"} : Insert(p, c, NewRow(kind, u))
      BY <3>6 DEF InitiateCommand, EmergencyShutdown
    <3> QED
      BY <2>5, <3>1, <3>2, <3>3, <3>4, <3>5, <3>6 DEF WorkflowStep
  <2>6. CASE \E p \in Procs : SharedStep(p)
    BY <2>1, <2>2, <2>4, <2>6
  <2>7. CASE \E p \in Workflow : WorkflowStep(p)
    BY <2>1, <2>3, <2>5, <2>7, WorkflowAssumption
  <2>8. CASE UNCHANGED vars
    BY <2>1, <2>8 DEF vars
  <2> QED
    BY <2>6, <2>7, <2>8 DEF Next, OneProcess
<1> QED
  BY <1>1, <1>2, TypeCorrect, AloneInvariant, PTL DEF Spec

\* The secure command workflow implements the gate (CommandGate) for any number of
\* commands, users and faults: with one process and nobody else at its rows, whatever
\* is loaded, awaited, sent, committed, refused or lost in a crash, what the table and
\* the producer show is one command passing one gate, being handed to Kafka behind the
\* last, or nothing.
THEOREM ImplementsGateHolds ==
  ASSUME OneProcess
  PROVE  Spec => ImplementsGate
<1>1. Init => Gate!GateInit
  <2> SUFFICES ASSUME Init PROVE Gate!GateInit
    OBVIOUS
  <2>1. NoRow.status = "absent" /\ NoRow.kind = "command"
    BY DEF NoRow, NewRow
  <2>2. \A c \in Ids : ~Exists(c) /\ db[c].kind # "esd"
    BY <2>1 DEF Init, Exists
  <2>3. \A c \in Ids : ~Relayed(c)
    BY DEF Init, Relayed
  <2> QED
    BY <2>2, <2>3 DEF Gate!GateInit
<1>2. TypeOK /\ Honest /\ Alone /\ AtGate /\ AbsentRows /\ [Next]_vars
        => [Gate!GateNext]_<<Phases, Shutdowns, Handed>>
  BY StepGate
<1> QED
  BY <1>1, <1>2, GateOf, TypeCorrect, HonestInvariant, AloneInvariant, AtGateInvariant,
     AbsentInvariant, PTL DEF Spec

=============================================================================
