------------------------ MODULE CommandControlService ------------------------
(***************************************************************************)
(* The command control service: create, approve, execute.  It works on the *)
(* rows of the same table by their status alone and never reads or writes  *)
(* the stage column, which the table's default sets to "requested".        *)
(***************************************************************************)
EXTENDS CommandTable

CONSTANT Control   \* the processes of the command control service

ASSUME ControlAssumption == Control \subseteq Procs

CreateCommand(p, u, c) ==
  /\ Insert(p, c, NewRow("command", u))
  /\ UNCHANGED <<task, sims, outbox, topic, sent, faults>>

\* Mutant: anyone may approve, the requester as well.
ApproveCommand_Self(p, u, c) ==
  /\ Free(p)
  /\ u \in Admins
  /\ db[c].status = "pending"
  /\ Write(p, "commit", c, db[c],
           [db[c] EXCEPT !.status = "approved", !.approver = u], "done")
  /\ UNCHANGED <<db, sims, outbox, topic, sent, faults>>

ApproveCommand(p, u, c) ==
  /\ Free(p)
  /\ u \in Admins
  /\ db[c].status = "pending"
  /\ db[c].requester # u
  /\ Write(p, "commit", c, db[c],
           [db[c] EXCEPT !.status = "approved", !.approver = u], "done")
  /\ UNCHANGED <<db, sims, outbox, topic, sent, faults>>

\* Mutant: a command that hangs in "executing" may be tried again.
ExecuteApproved_Again(p, c) ==
  /\ Free(p)
  /\ Admins # {}
  /\ db[c].status \in {"approved", "executing"}
  /\ Write(p, "commit", c, db[c], [db[c] EXCEPT !.status = "executing"],
           "publish")
  /\ UNCHANGED <<db, sims, outbox, topic, sent, faults>>

\* execute_command, by any administrator, up to its first commit.
ExecuteApproved(p, c) ==
  /\ Free(p)
  /\ Admins # {}
  /\ db[c].status = "approved"
  /\ Write(p, "commit", c, db[c], [db[c] EXCEPT !.status = "executing"],
           "publish")
  /\ UNCHANGED <<db, sims, outbox, topic, sent, faults>>

\* The rest of it.
ControlPublish(p) ==
  /\ At(p, "publish")
  /\ LET c == task[p].cmd IN
     Publish(p, c, [db[c] EXCEPT !.status = "executed"],
                   [db[c] EXCEPT !.status = "failed"])

ControlStep(p) ==
  \/ ControlPublish(p)
  \/ \E c \in Ids :
       \/ ExecuteApproved(p, c)
       \/ \E u \in Users : CreateCommand(p, u, c) \/ ApproveCommand(p, u, c)

=============================================================================
