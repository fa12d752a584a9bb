----------------------------- MODULE FieldUplinks -----------------------------
(***************************************************************************)
(* What a message of a sensor turns into before it is ingested: uplinks of *)
(* The Things Network and ChirpStack, and the payloads of MQTT.  A message *)
(* is described by what decides its fate; the result names where the       *)
(* sensor's id and the value come from, or is an error.  The counters of   *)
(* messages and errors are left out.                                       *)
(***************************************************************************)
EXTENDS Integers, FiniteSets

Readings == {"value", "temperature", "pressure"}

\* A payload: a JSON object with some readings, another JSON value, six bytes
\* and more, fewer, not base64, or none.
Payloads ==
  [kind : {"object"}, has : SUBSET Readings]
  \union [kind : {"json", "float", "short", "broken", "none"}, has : {{}}]

\* decode_payload: the readings of the object it returns.
DecodePayload(p) == IF p.kind = "float" THEN {"value"} ELSE p.has

\* An uplink: what the network server has decoded, the payload, whether the
\* device is named, fields that should be objects are, and a value is a number.
Uplink == [decoded : Payloads, frm : Payloads, named : BOOLEAN, sound : BOOLEAN, numeric : BOOLEAN]

Refused == [id |-> "error", value |-> "error"]

\* What is read from an uplink: the record is refused without an id or with a
\* value that is no number; one without a value is a reading of 0.0.
RecordOf(u, reading) ==
  IF ~u.sound \/ ~u.named \/ (reading # "default" /\ ~u.numeric) THEN Refused
  ELSE [id |-> "device", value |-> reading]

\* handle_ttn_uplink: the server's decoding first, and of its readings value,
\* then temperature, then pressure.
TtnReading(u) ==
  LET has == IF u.decoded.kind = "none" THEN DecodePayload(u.frm) ELSE u.decoded.has
  IN IF "value" \in has THEN "value"
     ELSE IF "temperature" \in has THEN "temperature"
     ELSE IF "pressure" \in has THEN "pressure" ELSE "default"

HandleTtnUplink(u) == RecordOf(u, TtnReading(u))

\* handle_chirpstack_uplink decodes by itself, and knows only "value".
HandleChirpstackUplink(u) ==
  RecordOf(u, IF "value" \in DecodePayload(u.frm) THEN "value" ELSE "default")

HandleUplink(network, u) ==
  IF network = "ttn" THEN HandleTtnUplink(u) ELSE HandleChirpstackUplink(u)

\* A payload of MQTT: is it an object, its fields, the parts of its topic.
MqttPayload == [sound : BOOLEAN, id : BOOLEAN, value : BOOLEAN, numeric : BOOLEAN, parts : 1..2]

\* handle_sensor_data: the id of the payload, or the topic's second part.
HandleSensorData(p) ==
  IF ~p.sound \/ ~p.value \/ ~p.numeric THEN Refused
  ELSE [id |-> CASE p.id -> "payload" [] ~p.id /\ p.parts = 2 -> "topic" [] OTHER -> "unknown",
        value |-> "value"]

=============================================================================
