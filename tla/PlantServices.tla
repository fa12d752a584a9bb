----------------------------- MODULE PlantServices -----------------------------
(***************************************************************************)
(* The services behind the gateway that follow the plant: alerts and the   *)
(* mobile app, work orders, the field protocols of data ingestion, the     *)
(* consumer of its topics, the models, federated learning, the reports,    *)
(* the operations of the companies, the tag catalog, the digital twin and  *)
(* the monitor of the sensors' health.  Each has tables or a memory of its *)
(* own and they call one another over HTTP only for readings and notices:  *)
(* a behaviour moves one of them and leaves the others as they started,    *)
(* which reaches every state of each.                                      *)
(***************************************************************************)
EXTENDS AlertPlane, WorkOrders, FieldClients, KafkaConsumer, ModelRegistry, FederatedLearning,
        Operations, Reporting, TagCatalog, DigitalTwin, SensorHealth

VARIABLE part  \* the service that moves

vars == <<part, alertPlaneVars, orderVars, fieldVars, consumerVars, modelVars,
          federatedVars, operationsVars, reportingVars, catalogVars, twinVars, monitorVars>>

Init ==
  /\ part \in {"alerts", "orders", "field", "consumer", "models", "federated",
              "operations", "reporting", "catalog", "twin", "monitor"}
  /\ AlertPlaneInit /\ OrdersInit /\ FieldInit /\ ConsumerInit /\ ModelInit
  /\ FederatedInit /\ OperationsInit /\ ReportingInit /\ CatalogInit
  /\ TwinInit /\ MonitorInit
  /\ part # "field" => settings = [edge |-> FALSE, opcua |-> FALSE, mqtt |-> FALSE, lorawan |-> FALSE]
  /\ part # "consumer" => ~lowLatency /\ offsetReset = "earliest"

AlertsStep ==
  /\ part = "alerts" /\ AlertPlaneNext
  /\ UNCHANGED <<part, orderVars, fieldVars, consumerVars, modelVars,
                 federatedVars, operationsVars, reportingVars, catalogVars, twinVars, monitorVars>>

OrdersStep ==
  /\ part = "orders" /\ OrdersNext
  /\ UNCHANGED <<part, alertPlaneVars, fieldVars, consumerVars, modelVars,
                 federatedVars, operationsVars, reportingVars, catalogVars, twinVars, monitorVars>>

FieldStep ==
  /\ part = "field" /\ FieldNext
  /\ UNCHANGED <<part, alertPlaneVars, orderVars, consumerVars, modelVars,
                 federatedVars, operationsVars, reportingVars, catalogVars, twinVars, monitorVars>>

ConsumerStep ==
  /\ part = "consumer" /\ ConsumerNext
  /\ UNCHANGED <<part, alertPlaneVars, orderVars, fieldVars, modelVars,
                 federatedVars, operationsVars, reportingVars, catalogVars, twinVars, monitorVars>>

ModelsStep ==
  /\ part = "models" /\ ModelNext
  /\ UNCHANGED <<part, alertPlaneVars, orderVars, fieldVars, consumerVars,
                 federatedVars, operationsVars, reportingVars, catalogVars, twinVars, monitorVars>>

FederatedStep ==
  /\ part = "federated" /\ FederatedNext
  /\ UNCHANGED <<part, alertPlaneVars, orderVars, fieldVars, consumerVars,
                 modelVars, operationsVars, reportingVars, catalogVars, twinVars, monitorVars>>

OperationsStep ==
  /\ part = "operations" /\ OperationsNext
  /\ UNCHANGED <<part, alertPlaneVars, orderVars, fieldVars, consumerVars,
                 modelVars, federatedVars, reportingVars, catalogVars, twinVars, monitorVars>>

ReportingStep ==
  /\ part = "reporting" /\ ReportingNext
  /\ UNCHANGED <<part, alertPlaneVars, orderVars, fieldVars, consumerVars,
                 modelVars, federatedVars, operationsVars, catalogVars, twinVars, monitorVars>>

CatalogStep ==
  /\ part = "catalog" /\ CatalogNext
  /\ UNCHANGED <<part, alertPlaneVars, orderVars, fieldVars, consumerVars,
                 modelVars, federatedVars, operationsVars, reportingVars, twinVars,
                 monitorVars>>

TwinStep ==
  /\ part = "twin" /\ TwinNext
  /\ UNCHANGED <<part, alertPlaneVars, orderVars, fieldVars, consumerVars, modelVars,
                 federatedVars, operationsVars, reportingVars, catalogVars, monitorVars>>

MonitorStep ==
  /\ part = "monitor" /\ MonitorNext
  /\ UNCHANGED <<part, alertPlaneVars, orderVars, fieldVars, consumerVars, modelVars,
                 federatedVars, operationsVars, reportingVars, catalogVars, twinVars>>

Next ==
  \/ AlertsStep \/ OrdersStep \/ FieldStep \/ ConsumerStep \/ ModelsStep
  \/ FederatedStep \/ OperationsStep \/ ReportingStep \/ CatalogStep
  \/ TwinStep \/ MonitorStep

Spec == Init /\ [][Next]_vars

\* The one type invariant of the services.
TypeOK ==
  /\ AlertPlaneTypeOK /\ OrdersTypeOK /\ FieldTypeOK /\ ConsumerTypeOK /\ ModelTypeOK
  /\ FederatedTypeOK /\ OperationsTypeOK /\ ReportingTypeOK /\ CatalogTypeOK
  /\ TwinTypeOK /\ MonitorTypeOK

=============================================================================
