----------------------------- MODULE FieldClients -----------------------------
(***************************************************************************)
(* The field protocols in the life of the data ingestion service: what     *)
(* startup_event makes of MQTT, OPC UA, LoRaWAN and the bridge, the        *)
(* requests that use them and what shutdown_event leaves open.             *)
(***************************************************************************)
EXTENDS MqttClient, EdgeToStream, FieldUplinks

CONSTANTS
  MaxLeaks,     \* bound on the OPC UA sessions left open
  Uplinks,      \* uplinks of LoRaWAN devices
  MqttPayloads  \* payloads posted to /mqtt/ingest

ASSUME FieldAssumption ==
  MaxLeaks \in Nat /\ Uplinks \subseteq Uplink /\ MqttPayloads \subseteq MqttPayload

VARIABLES
  settings, \* which protocols are configured
  life,     \* where startup_event is, "up", or "stopped"
  bound,    \* the names among mqtt_client, mqtt_handler, lorawan_client with a value
  opcua,    \* the OPC UA client: is there one, connected, sessions left open
  reply,    \* what the last request or shutdown came to
  recorded  \* where id and value of the last LoRaWAN or MQTT reading came from

fieldVars == <<mqttVars, bridgeVars, settings, life, bound, opcua, reply, recorded>>

ofFieldOnly == <<settings, life, bound, opcua, reply, recorded>>

Up == life = "up"

-----------------------------------------------------------------------------
(* startup_event *)

\* Without Kafka nothing else is set up, and the service answers all the same.
StartKafka ==
  /\ life = "off"
  /\ life' \in {"edge", "up"}
  /\ UNCHANGED <<mqttVars, bridgeVars, settings, bound, opcua, reply, recorded>>

StartEdge ==
  /\ life = "edge"
  /\ life' = "opcua"
  /\ IF settings.edge THEN Initialize ELSE UNCHANGED bridgeVars
  /\ UNCHANGED <<mqttVars, settings, bound, opcua, reply, recorded>>

\* OPCUAClient.connect: a new client each time, so that the session of a
\* connected one stays open.
OpcuaConnect ==
  \/ opcua' = [opcua EXCEPT !.made = TRUE, !.connected = FALSE,
                            !.leaked = IF opcua.connected THEN @ + 1 ELSE @]
  \/ opcua' = [opcua EXCEPT !.made = TRUE, !.connected = TRUE,
                            !.leaked = IF opcua.connected THEN @ + 1 ELSE @]

StartOpcua ==
  /\ life = "opcua"
  /\ life' = "mqtt"
  /\ IF settings.opcua THEN OpcuaConnect ELSE UNCHANGED opcua
  /\ UNCHANGED <<mqttVars, bridgeVars, settings, bound, reply, recorded>>

\* get_mqtt_client may raise, which leaves mqtt_client without a value.
StartMqtt ==
  /\ life = "mqtt"
  /\ \/ settings.mqtt /\ Connect
        /\ bound' = bound \union {"mqtt_client"} /\ life' = "subscribing"
     \/ life' = "lorawan" /\ UNCHANGED <<mqttVars, bound>>
  /\ UNCHANGED <<bridgeVars, settings, opcua, reply, recorded>>

\* connect and subscribe; the handler is made between them.
Subscribing ==
  /\ life = "subscribing"
  /\ \/ Connected \/ AppendTopic \/ TestConnected \/ SendSubscribe \/ RegisterCallback \/ AllSubscribed
  /\ bound' = IF caller'.at = "subscribe" THEN bound \union {"mqtt_handler"} ELSE bound
  /\ UNCHANGED <<bridgeVars, settings, life, opcua, reply, recorded>>

SubscribingEnds ==
  /\ life = "subscribing" /\ caller.at \in {"failed", "ready"}
  /\ life' = "lorawan"
  /\ UNCHANGED <<mqttVars, bridgeVars, settings, bound, opcua, reply, recorded>>

StartLorawan ==
  /\ life = "lorawan"
  /\ life' = "up"
  /\ \/ settings.lorawan /\ bound' = bound \union {"lorawan_client"}
     \/ UNCHANGED bound
  /\ UNCHANGED <<mqttVars, bridgeVars, settings, opcua, reply, recorded>>

-----------------------------------------------------------------------------
(* Requests *)

\* A name without a value raises NameError.
Answers(needs) ==
  /\ Up
  /\ reply' = IF needs \subseteq bound THEN "ok" ELSE "error"
  /\ UNCHANGED <<mqttVars, bridgeVars, settings, life, bound, opcua>>

\* GET /health and GET /wireless/status look at all three; the handler only if
\* there is a client.
Health == Answers({"mqtt_client", "mqtt_handler", "lorawan_client"}) /\ UNCHANGED recorded

\* POST /mqtt/ingest: an HTTPException of the handler's is answered as 500 too.
MqttIngest(p) ==
  /\ Up
  /\ recorded' = IF "mqtt_handler" \in bound THEN HandleSensorData(p) ELSE Refused
  /\ reply' = IF recorded' = Refused THEN "error" ELSE "ok"
  /\ UNCHANGED <<mqttVars, bridgeVars, settings, life, bound, opcua>>

\* POST /lorawan/webhook
LorawanWebhook(network, u) ==
  /\ Up
  /\ recorded' = IF "lorawan_client" \in bound THEN HandleUplink(network, u) ELSE Refused
  /\ reply' = IF recorded' = Refused THEN "error" ELSE "ok"
  /\ UNCHANGED <<mqttVars, bridgeVars, settings, life, bound, opcua>>

Stream ==
  /\ Up
  /\ IF settings.edge THEN StreamFromEdge /\ reply' = "ok"
     ELSE reply' = "error" /\ UNCHANGED bridgeVars
  /\ UNCHANGED <<mqttVars, settings, life, bound, opcua, recorded>>

\* POST /connectors/{connector_id}/start
StartConnector ==
  /\ Up /\ opcua.made /\ opcua.leaked < MaxLeaks
  /\ OpcuaConnect
  /\ reply' = IF opcua'.connected THEN "ok" ELSE "error"
  /\ UNCHANGED <<mqttVars, bridgeVars, settings, life, bound, recorded>>

\* OPCUAClient.disconnect: when the server cannot be told, the client stays
\* connected.
OpcuaDisconnect == opcua' \in {opcua, [opcua EXCEPT !.connected = FALSE]}

\* POST /connectors/{connector_id}/stop succeeds in any case.
StopConnector ==
  /\ Up /\ opcua.made
  /\ OpcuaDisconnect
  /\ reply' = "ok"
  /\ UNCHANGED <<mqttVars, bridgeVars, settings, life, bound, recorded>>

\* GET /opcua/nodes, POST /opcua/read and /opcua/write: connected says nothing
\* of the session, which may be gone.
UseNode ==
  /\ Up
  /\ reply' \in IF opcua.made /\ opcua.connected THEN {"ok", "error"} ELSE {"error"}
  /\ UNCHANGED <<mqttVars, bridgeVars, settings, life, bound, opcua, recorded>>

-----------------------------------------------------------------------------
(* The tasks and threads of the process, and its end *)

Paho ==
  /\ Accepted \/ OnConnect \/ SessionLost \/ OnDisconnect
     \/ \E i \in DOMAIN Topics : OnMessage(Topics[i])
  /\ UNCHANGED <<ofFieldOnly, bridgeVars>>

FlushTick == Up /\ PeriodicFlush /\ UNCHANGED <<ofFieldOnly, mqttVars>>

\* The producer's thread, until the process is gone.
ProducerThread == Producer /\ UNCHANGED <<ofFieldOnly, mqttVars>>

\* shutdown_event ends at mqtt_client when that has no value: the buffer and
\* the producer are not closed, nor is OPC UA.
Shutdown ==
  /\ Up
  /\ life' = "stopped"
  /\ IF "mqtt_client" \in bound
     THEN Disconnect /\ OpcuaDisconnect /\ reply' = "ok"
     ELSE UNCHANGED <<mqttVars, opcua>> /\ reply' = "error"
  /\ StopBridge
  /\ UNCHANGED <<settings, bound, recorded>>

FieldInit ==
  /\ MqttInit /\ BridgeInit
  /\ settings \in [edge : BOOLEAN, opcua : BOOLEAN, mqtt : BOOLEAN, lorawan : BOOLEAN]
  /\ life = "off"
  /\ bound = {}
  /\ opcua = [made |-> FALSE, connected |-> FALSE, leaked |-> 0]
  /\ reply = "none"
  /\ recorded = Refused

FieldNext ==
  \/ StartKafka \/ StartEdge \/ StartOpcua \/ StartMqtt \/ Subscribing \/ SubscribingEnds \/ StartLorawan
  \/ \E p \in MqttPayloads : MqttIngest(p)
  \/ \E network \in {"ttn", "chirpstack"}, u \in Uplinks : LorawanWebhook(network, u)
  \/ Health \/ Stream \/ StartConnector \/ StopConnector \/ UseNode
  \/ Paho \/ FlushTick \/ ProducerThread \/ Shutdown

FieldSpec == FieldInit /\ [][FieldNext]_fieldVars

-----------------------------------------------------------------------------
(* Properties *)

\* The state of the process has its types.
FieldTypeOK ==
  /\ MqttTypeOK /\ BridgeTypeOK
  /\ settings \in [edge : BOOLEAN, opcua : BOOLEAN, mqtt : BOOLEAN, lorawan : BOOLEAN]
  /\ life \in {"off", "edge", "opcua", "mqtt", "subscribing", "lorawan", "up", "stopped"}
  /\ bound \subseteq {"mqtt_client", "mqtt_handler", "lorawan_client"}
  /\ opcua \in [made : BOOLEAN, connected : BOOLEAN, leaked : 0..MaxLeaks]
  /\ reply \in {"none", "ok", "error"}
  /\ recorded.id \in {"device", "payload", "topic", "unknown", "error"}
  /\ recorded.value \in Readings \union {"default", "error"}

=============================================================================
