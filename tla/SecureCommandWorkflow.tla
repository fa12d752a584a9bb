------------------------ MODULE SecureCommandWorkflow ------------------------
(***************************************************************************)
(* The remote operations service and the secure command workflow it runs:  *)
(* request, 2FA, digital twin simulation, approval by a second person,     *)
(* execution; and the emergency shutdown, which skips the gates.  The      *)
(* stage column says how far a command has come.  Requests that end in an  *)
(* error before they write anything change nothing and are not actions.    *)
(***************************************************************************)
EXTENDS CommandTable

CONSTANT Workflow   \* the processes of the remote operations service

ASSUME WorkflowAssumption == Workflow \subseteq Procs

\* adjust_setpoint, control_equipment and control_valve, which all end in
\* initiate_command.
InitiateCommand(p, u, c) ==
  /\ Insert(p, c, NewRow("operation", u))
  /\ UNCHANGED <<task, sims, outbox, topic, sent, faults>>

\* Any operator with 2FA may present a code; a wrong one rejects the command.
VerifyTwoFactor(p, u, c) ==
  /\ Free(p)
  /\ Exists(c)
  /\ db[c].stage = "requested"
  /\ u \in TwoFactorUsers
  /\ \/ Write(p, "commit", c, db[c],
              [db[c] EXCEPT !.stage = "two_fa_verified", !.verified = TRUE],
              "simulate")
     \/ Write(p, "commit", c, db[c],
              [db[c] EXCEPT !.stage = "rejected", !.status = "rejected"],
              "done")
  /\ UNCHANGED <<db, sims, outbox, topic, sent, faults>>

\* run_digital_twin_simulation up to the await: the event loop is free while
\* the twin computes, and the object keeps the attributes it has now.
StartSimulation(p) ==
  /\ At(p, "simulate")
  /\ LET c == task[p].cmd IN
     sims' = IF db[c].stage = "two_fa_verified"
             THEN sims \union {[proc |-> p, cmd |-> c, snap |-> db[c]]}
             ELSE sims
  /\ task' = [task EXCEPT ![p] = Idle]
  /\ UNCHANGED <<db, outbox, topic, sent, faults>>

\* Mutant: an error of the twin ends the task and leaves the row alone.
FinishSimulation_ErrorIgnored(p) ==
  /\ Free(p)
  /\ \E s \in sims :
       /\ s.proc = p
       /\ sims' = sims \ {s}
       /\ \/ \E result \in {"safe", "unsafe"} :
               Write(p, "commit", s.cmd, s.snap,
                     [s.snap EXCEPT !.stage = "digital_twin_simulation",
                                    !.sim = result], "done")
          \/ UNCHANGED task
  /\ UNCHANGED <<db, outbox, topic, sent, faults>>

\* Mutant: an error of the twin rejects the stage and forgets the status.
FinishSimulation_StageOnly(p) ==
  /\ Free(p)
  /\ \E s \in sims :
       /\ s.proc = p
       /\ sims' = sims \ {s}
       /\ \/ \E result \in {"safe", "unsafe"} :
               Write(p, "commit", s.cmd, s.snap,
                     [s.snap EXCEPT !.stage = "digital_twin_simulation",
                                    !.sim = result], "done")
          \/ Write(p, "commit", s.cmd, s.snap,
                   [s.snap EXCEPT !.stage = "rejected"], "done")
  /\ UNCHANGED <<db, outbox, topic, sent, faults>>

\* The rest of it: a result, or an error, a bad status or the 30 s timeout.
FinishSimulation(p) ==
  /\ Free(p)
  /\ \E s \in sims :
       /\ s.proc = p
       /\ sims' = sims \ {s}
       /\ \/ \E result \in {"safe", "unsafe"} :
               Write(p, "commit", s.cmd, s.snap,
                     [s.snap EXCEPT !.stage = "digital_twin_simulation",
                                    !.sim = result], "done")
          \/ Write(p, "commit", s.cmd, s.snap,
                   [s.snap EXCEPT !.stage = "rejected", !.status = "rejected"],
                   "done")
  /\ UNCHANGED <<db, outbox, topic, sent, faults>>

\* Mutant: an operation may be approved before it was simulated.
ApproveSimulation_AnyStage(p, u, c) ==
  /\ Free(p)
  /\ Exists(c)
  /\ u \in Admins
  /\ db[c].stage \in {"two_fa_verified", "digital_twin_simulation"}
  /\ db[c].requester # u
  /\ Write(p, "commit", c, db[c],
           IF db[c].sim = "unsafe"
           THEN [db[c] EXCEPT !.stage = "rejected", !.status = "rejected"]
           ELSE [db[c] EXCEPT !.stage = "simulation_approved",
                              !.status = "approved", !.approver = u],
           "done")
  /\ UNCHANGED <<db, sims, outbox, topic, sent, faults>>

\* "unsafe" stands for a predicted pressure above 500.
ApproveSimulation(p, u, c) ==
  /\ Free(p)
  /\ Exists(c)
  /\ u \in Admins
  /\ db[c].stage = "digital_twin_simulation"
  /\ db[c].requester # u
  /\ Write(p, "commit", c, db[c],
           IF db[c].sim = "unsafe"
           THEN [db[c] EXCEPT !.stage = "rejected", !.status = "rejected"]
           ELSE [db[c] EXCEPT !.stage = "simulation_approved",
                              !.status = "approved", !.approver = u],
           "done")
  /\ UNCHANGED <<db, sims, outbox, topic, sent, faults>>

\* Mutant: a simulated operation may be executed as well.
ExecuteCommand_Simulated(p, c) ==
  /\ Free(p)
  /\ Exists(c)
  /\ Admins # {}
  /\ db[c].stage \in {"digital_twin_simulation", "simulation_approved"}
  /\ Write(p, "commit", c, db[c], [db[c] EXCEPT !.status = "executing"],
           "publish")
  /\ UNCHANGED <<db, sims, outbox, topic, sent, faults>>

\* execute_command, by any administrator, up to its first commit.
ExecuteCommand(p, c) ==
  /\ Free(p)
  /\ Exists(c)
  /\ Admins # {}
  /\ db[c].stage = "simulation_approved"
  /\ Write(p, "commit", c, db[c], [db[c] EXCEPT !.status = "executing"],
           "publish")
  /\ UNCHANGED <<db, sims, outbox, topic, sent, faults>>

\* emergency_shutdown inserts a row ...
EmergencyShutdown(p, u, c) ==
  /\ Insert(p, c, NewRow("esd", u))
  /\ task' = [task EXCEPT ![p] = [pc |-> "shutdown", cmd |-> c]]
  /\ UNCHANGED <<sims, outbox, topic, sent, faults>>

\* ... refreshes it and goes on in execute_immediately, which checks nothing.
ExecuteImmediately(p) ==
  /\ At(p, "shutdown")
  /\ LET c == task[p].cmd IN
     Write(p, "commit", c, db[c], [db[c] EXCEPT !.status = "executing"],
           "publish")
  /\ UNCHANGED <<db, sims, outbox, topic, sent, faults>>

\* Mutant: success is recorded in the status alone.
WorkflowPublish_StatusOnly(p) ==
  /\ At(p, "publish")
  /\ LET c == task[p].cmd IN
     Publish(p, c, [db[c] EXCEPT !.status = "executed"],
             [db[c] EXCEPT !.stage = "failed", !.status = "failed"])

\* _publish and what execute_command and execute_immediately record of it.
WorkflowPublish(p) ==
  /\ At(p, "publish")
  /\ LET c == task[p].cmd IN
     Publish(p, c,
             [db[c] EXCEPT !.stage = "executed", !.status = "executed"],
             [db[c] EXCEPT !.stage = "failed", !.status = "failed"])

WorkflowStep(p) ==
  \/ StartSimulation(p) \/ FinishSimulation(p)
  \/ ExecuteImmediately(p) \/ WorkflowPublish(p)
  \/ \E c \in Ids :
       \/ ExecuteCommand(p, c)
       \/ \E u \in Users :
            \/ InitiateCommand(p, u, c) \/ VerifyTwoFactor(p, u, c)
            \/ ApproveSimulation(p, u, c) \/ EmergencyShutdown(p, u, c)

=============================================================================
