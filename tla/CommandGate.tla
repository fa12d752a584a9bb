----------------------------- MODULE CommandGate -----------------------------
(***************************************************************************)
(* What the secure command workflow promises, without processes, sessions, *)
(* producers or crashes: a command passes the gates in their order and is  *)
(* relayed only behind the last of them; an emergency shutdown may be      *)
(* relayed at once; "executed" is said only of what was relayed.           *)
(* A command may be relayed more than once: after a crash nobody knows     *)
(* whether the message went out, and the command can be executed again.    *)
(***************************************************************************)
CONSTANT Ids

VARIABLES
  phase,    \* the gate each command stands at, "absent" before its request
  urgent,   \* the emergency shutdowns
  relayed   \* the commands that have been handed to Kafka

gateVars == <<phase, urgent, relayed>>

Phase == {"absent", "requested", "two_fa_verified",
          "digital_twin_simulation", "simulation_approved",
          "executed", "rejected", "failed"}

GateInit ==
  /\ phase = [c \in Ids |-> "absent"]
  /\ urgent = {}
  /\ relayed = {}

\* Behind the last gate, or excused from the gates.
Cleared(c) ==
  \/ phase[c] = "simulation_approved"
  \/ c \in urgent /\ phase[c] = "requested"

Pass(c, from, to) ==
  /\ phase[c] = from
  /\ phase' = [phase EXCEPT ![c] = to]
  /\ UNCHANGED <<urgent, relayed>>

Request(c)  == Pass(c, "absent", "requested")
Verify(c)   == Pass(c, "requested", "two_fa_verified")
Simulate(c) == Pass(c, "two_fa_verified", "digital_twin_simulation")
Approve(c)  == Pass(c, "digital_twin_simulation", "simulation_approved")

Reject(c) ==
  \E gate \in {"requested", "two_fa_verified", "digital_twin_simulation"} :
    Pass(c, gate, "rejected")

RequestShutdown(c) ==
  /\ phase[c] = "absent"
  /\ phase' = [phase EXCEPT ![c] = "requested"]
  /\ urgent' = urgent \union {c}
  /\ UNCHANGED relayed

Relay(c) ==
  /\ Cleared(c)
  /\ relayed' = relayed \union {c}
  /\ UNCHANGED <<phase, urgent>>

Conclude(c) ==
  /\ Cleared(c)
  /\ \/ c \in relayed /\ phase' = [phase EXCEPT ![c] = "executed"]
     \/ phase' = [phase EXCEPT ![c] = "failed"]
  /\ UNCHANGED <<urgent, relayed>>

GateNext ==
  \E c \in Ids :
    \/ Request(c) \/ Verify(c) \/ Simulate(c) \/ Approve(c) \/ Reject(c)
    \/ RequestShutdown(c) \/ Relay(c) \/ Conclude(c)

GateSpec == GateInit /\ [][GateNext]_gateVars

=============================================================================
