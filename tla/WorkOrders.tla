------------------------------ MODULE WorkOrders ------------------------------
(***************************************************************************)
(* Work orders, which the ERP integration service makes and links to the   *)
(* alert and the command they are for, and push messages.  The alert       *)
(* service asks for orders too, for a critical alert and by hand, but      *)
(* sends no token and is always refused: its requests change nothing.      *)
(***************************************************************************)
EXTENDS Integers, Sequences

CONSTANTS
  Faults,     \* the alerts
  Jobs,       \* the commands
  Systems,    \* erp_type: sap, oracle
  Devices,    \* push tokens
  MaxOrders,  \* bound on the orders
  MaxSecond   \* bound on the clock

\* An order for no alert, or for no command.
Nobody == "none"

ASSUME OrdersAssumption ==
  /\ Nobody \notin Faults \union Jobs
  /\ MaxOrders \in Nat /\ MaxSecond \in Nat

VARIABLES
  second,     \* the clock, as far as ids tell it
  raised,     \* the alerts' severity, "none" before they are created
  linked,     \* erp_work_order_id of each alert and command
  connectors, \* erp_connectors
  orders,     \* the orders made
  devices,    \* REGISTERED_PUSH_DEVICES
  pushes      \* alerts whose task _send_push_notification has not started

orderVars == <<second, raised, linked, connectors, orders, devices, pushes>>

NoOrder == <<"none", 0>>

\* The id of an order: two of one second and system have the same.
OrderId(erp) == <<erp, second>>

-----------------------------------------------------------------------------
(* The alert service *)

\* create_alert: the task for a work order is refused, a push may be sent.
RaiseAlert(a, severity) ==
  /\ raised[a] = "none"
  /\ raised' = [raised EXCEPT ![a] = severity]
  /\ pushes' = IF severity = "critical" THEN pushes \union {a} ELSE pushes
  /\ UNCHANGED <<second, linked, connectors, orders, devices>>

RegisterDevice(d) ==
  /\ devices' = devices \union {d}
  /\ UNCHANGED <<second, raised, linked, connectors, orders, pushes>>

UnregisterDevice(d) ==
  /\ devices' = devices \ {d}
  /\ UNCHANGED <<second, raised, linked, connectors, orders, pushes>>

\* _send_push_notification: one request for the devices registered by then,
\* or none; an error is only logged.
SendPush(a) ==
  /\ a \in pushes
  /\ pushes' = pushes \ {a}
  /\ UNCHANGED <<second, raised, linked, connectors, orders, devices>>

RestartAlertService ==
  /\ devices' = {} /\ pushes' = {}
  /\ UNCHANGED <<second, raised, linked, connectors, orders>>

-----------------------------------------------------------------------------
(* The ERP integration service *)

\* POST /erp/connect; the connectors authenticate without asking anyone.
ConnectErp(erp) ==
  /\ connectors' = connectors \union {erp}
  /\ UNCHANGED <<second, raised, linked, orders, devices, pushes>>

RestartErp ==
  /\ connectors' = {}
  /\ UNCHANGED <<second, raised, linked, orders, devices, pushes>>

\* What the connector makes, whether or not there is an order already.
Make(a, job, erp) ==
  /\ erp \in connectors /\ Len(orders) < MaxOrders
  /\ orders' = Append(orders, [id |-> OrderId(erp), alert |-> a, job |-> job])

\* The rows that link to an order: those of the alert and of the command, if
\* they exist.
Rows(a, job) == {x \in {a, job} : x \in Jobs \/ (x \in Faults /\ raised[x] # "none")}

\* erp_work_order_id as the commits leave it that came before one that failed.
LinkedTo(rows, erp) == [x \in DOMAIN linked |-> IF x \in rows THEN OrderId(erp) ELSE linked[x]]

\* POST /work-orders: the alert is linked in one commit, then the command in
\* another; after one that fails the order stays.
CreateWorkOrder(a, job, erp) ==
  /\ Make(a, job, erp)
  /\ \E rows \in {{}, Rows(a, Nobody), Rows(a, job)} : linked' = LinkedTo(rows, erp)
  /\ UNCHANGED <<second, raised, connectors, devices, pushes>>

\* POST /work-orders/auto-create, with an administrator's or engineer's token.
AutoCreateWorkOrder(a, erp) ==
  /\ raised[a] # "none"
  /\ Make(a, Nobody, erp)
  /\ \E rows \in {{}, {a}} : linked' = LinkedTo(rows, erp)
  /\ UNCHANGED <<second, raised, connectors, devices, pushes>>

NextSecond ==
  /\ second < MaxSecond
  /\ second' = second + 1
  /\ UNCHANGED <<raised, linked, connectors, orders, devices, pushes>>

OrdersInit ==
  /\ second = 0
  /\ raised = [a \in Faults |-> "none"]
  /\ linked = [x \in Faults \union Jobs |-> NoOrder]
  /\ connectors = {}
  /\ orders = <<>>
  /\ devices = {} /\ pushes = {}

OrdersNext ==
  \/ \E a \in Faults, severity \in {"warning", "critical"} : RaiseAlert(a, severity)
  \/ \E d \in Devices : RegisterDevice(d) \/ UnregisterDevice(d)
  \/ \E a \in Faults : SendPush(a)
  \/ \E erp \in Systems : ConnectErp(erp)
  \/ \E a \in Faults \union {Nobody}, job \in Jobs \union {Nobody}, erp \in Systems :
       CreateWorkOrder(a, job, erp)
  \/ \E a \in Faults, erp \in Systems : AutoCreateWorkOrder(a, erp)
  \/ RestartAlertService \/ RestartErp \/ NextSecond

OrdersSpec == OrdersInit /\ [][OrdersNext]_orderVars

-----------------------------------------------------------------------------
(* Properties *)

\* The tables have their types, and what an alert or a command is linked to is
\* the id of an order made for it.
OrdersTypeOK ==
  /\ second \in 0..MaxSecond
  /\ raised \in [Faults -> {"none", "warning", "critical"}]
  /\ linked \in [Faults \union Jobs -> (Systems \X Nat) \union {NoOrder}]
  /\ connectors \subseteq Systems
  /\ orders \in
       Seq([id : Systems \X Nat, alert : Faults \union {Nobody}, job : Jobs \union {Nobody}])
  /\ \A x \in Faults \union Jobs :
       linked[x] = NoOrder \/
         \E i \in DOMAIN orders : orders[i].id = linked[x] /\ x \in {orders[i].alert, orders[i].job}
  /\ devices \subseteq Devices /\ pushes \subseteq Faults

=============================================================================
