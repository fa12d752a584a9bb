# OGIM: specifications, model checking and proofs

OGIM (Oil & Gas Intelligent Monitoring) is a set of FastAPI services around
Kafka, PostgreSQL/TimescaleDB, SQLite/DuckDB buffers at the edge, a digital
twin, a web front end and a mobile app. This directory holds TLA+
specifications of the parts of it whose correctness depends on the order of
events, the TLC runs that check them and the theorems proved about them.

Run everything from this directory:

    tlc -workers 2 -config MCCommandPlane.cfg MCCommandPlane
    tlapm CommandPlaneProofs.tla

`PROJECT.json` lists components, runs, findings, hazards and theorems, and says
for every definition which lines of the source it stands for.

## 1. Inventory

Paths are relative to `src/backend` unless they begin with `frontend` or
`mobile`. "Properties" are what makes the component correct, modelled or not.

### Commanding the plant

**Secure command workflow and remote operations service**
(`shared/secure_command_workflow.py`, `remote-operations-service/main.py`).
State: one row of the `commands` table per command (`stage`, `status`,
requester, approver, 2FA time, simulation result); two Kafka producers per
process. Operations: initiate (set point, equipment, valve), verify 2FA
followed at once by the digital twin simulation, approve, execute, emergency
shutdown. Hard: the twin is awaited for up to 30 s while the session keeps a
copy of the row; the relay to Kafka and the commit of its result are two steps;
a process may die at any of them. Properties: gates in order, two persons,
"executed" only after a relay, nothing left in a transient state.

**Command control service** (`command-control-service/main.py`). Same table,
same topics, a protocol of its own on `status` alone: create, approve, execute.
Properties: two persons, one relay per approval, and that it leaves the other
service's rows alone (it does not).

**Command table and sessions** (`shared/models.py`, `shared/database.py`).
SQLAlchemy sessions, READ COMMITTED, UPDATE of the changed columns only.

**Kafka wrappers** (`shared/kafka_utils.py`). Producer: `send` queues or raises,
`flush(10)` gives up silently, delivery errors are logged. Consumer: poll, decode,
call back, commit or dead letter topic, in two modes. Properties: a message
reported as sent reaches its topic; no message below the committed offset is one that
was never tried.

### Ingestion, buffering and the field

**Data ingestion service** (`data-ingestion-service/main.py`). State: TimescaleDB,
background publications, the retry loop. Operations: ingest, publish, retry,
clear; start-up and shutdown, connectors and webhooks.

**Sensor health monitor** (`shared/sensor_health.py`, used by the ingest handler).
State: the last readings, baseline and score of each sensor, in memory. Operations: assess
a reading, detect drift, correct, start anew. Hard: refused requests leave their
readings in the history; the row and the published record may differ. Properties: a
baseline is a median of the first readings since the start and stays; the score
remembered is that of the last reading; a row says when its value was corrected.

**Offline buffer** (`shared/offline_buffer.py`) and **DuckDB store**
(`shared/duckdb_storage.py`). State: SQLite rows with a retry count, DuckDB
points. Operations: add (capacity check, point, row), pending, mark sent, mark
failed, clean up, clear. Hard: each database call takes the lock by itself;
errors come back as `False` or `{}` that callers do not read.

**Connection monitor** (`shared/connection_monitor.py`). A thread that probes,
keeps `is_online` and calls back on changes.

Properties of the three: no accepted reading vanishes, the buffer stays near its
bound, repeats only after faults, what is buffered is sent when the link is back.

**Field protocol clients** (`shared/mqtt_client.py`, `opcua_client.py`,
`lorawan_client.py`). MQTT runs paho's callbacks in a thread beside the one that
connects and subscribes; OPC UA and LoRaWAN act in requests. Hard: the list of
subscriptions and the connected flag are shared without a lock. Property: a topic
subscribed by the one thread or the other reaches the broker.

**Edge-to-stream bridge** (`shared/edge_to_stream.py`). A batch that is cleared
before it is sent, flushed by size and by a timer, to a producer that retries with
several requests in flight. Property: records are given to it in order, none twice, and
in the topic only its retries repeat or reorder them.

### The edge

**Disconnected operation** (`shared/disconnected_operation.py`). State:
critical alerts and local decisions in SQLite, each with a synced flag, a cache of
results, and a copy of the monitor's online flag. Operations: add alert, record
decision, cache, synchronise (select the oldest pending rows, then update by id).
Hard: the event loop, the monitor's thread and the synchronisation thread run the
same passes, and `sync_lock` is never taken. Properties: what is marked has been
read, oldest first, not read more often than the threads explain, and everything
recorded is marked once the network stays up.

**Edge computing service** (`edge-computing-service/main.py`): the
requests that record rows and the manual synchronisation. Its analyses are pure
functions over lists of floats. Ids have the resolution of a second.

### Alerts, phones and work orders

**Alert service** (`alert-service/main.py`, `sms_notify.py`). State: alerts (open,
acknowledged, resolved) with correlation and facility ids and a counter in
`metadata_json`, registers of phones and devices in memory. Operations: create
(deduplicate, correlate, join a facility, insert, notify), acknowledge, resolve,
root cause analysis, clustering, notices to be sent again. Hard: one request writes several
alerts; background tasks end with the process. Properties: one open alert per signal,
every report counted, a facility id means several wells.

**ERP integration** (`erp-integration-service/main.py`): connectors, work orders
by hand and for an alert, links in the shared tables. **Mobile app**
(`mobile/app/src`): acknowledgements tapped offline wait in AsyncStorage and are
sent when NetInfo reports a connection. Hard: flushes and taps overlap each other.
Properties: an acknowledgement that was queued is kept until it is sent (it is not), and is
dropped by no writer that has read it.

### Gateway, sessions and the web client

**API gateway** (`api-gateway/main.py`, `shared/response_cache.py`,
`shared/advanced_rate_limiter.py`, `shared/threat_detection.py`). State: a TTL cache
of responses, sliding windows per user in Redis or in memory, the detector's
counts, subscribers with bounded queues. Hard: the service is awaited between the
look into the cache and the fill; Redis comes and goes. Properties: an answer is of
the user who gets it and no older than its time to live and one request; the limit
holds; a slow page is left the newest events.

**Auth service and token store** (`auth-service/main.py`, `shared/token_store.py`,
`shared/security.py`). Login, refresh with rotation, expiry, 2FA enrolment, users.
Hard: rotation is several calls of Redis each of which may fail. Property: one
working refresh token per login. **Login rate limiter** (`shared/rate_limiter.py`): a
counter in Redis for each client and minute, a list in each process when Redis fails.
Property: the limit holds for each store.

**Web client** (`frontend/web/src/api/realtimeStream.ts`, `client.ts`,
`context/AuthContext.tsx`). The stream of a page (WebSocket, server-sent events
meanwhile, local simulation at last; three timers), the token interceptor, start
of the page, login, logout. Property: whatever order timers and errors come in, a page
is neither stuck nor left with a source it no longer wants.

### Models, reports, operations and catalogue

**ML inference service** (`ml-inference-service/main.py`, `mlflow_integration.py`).
Registered versions, models and scalers in memory and on disk, A/B tests.
Property: an answer is of the version it names. **Federated learning**
(`federated_learning.py`): nodes submit, a round averages, convergence is read off
the last rounds.

**Reporting service** (`reporting-service/main.py`). Workflows with dependencies, their
scheduler, a cache of readings. Hard: runs overlap at every request they await.
Properties: each step once and after all it depends on; a report no older than the
cache allows.

**Operations service** (`operations-service/main.py`). Subsidiaries, equipment,
readings, declines, targets. Property: a decline never runs backwards.

**Tag catalogue** (`tag-catalog-service/main.py`) and **data validation**
(`dvr-service/main.py`). CRUD of tags; validation, outliers, reconciliation and
quality scores over their readings.

**Digital twin service** (`digital-twin-service/main.py`). Simulations by second, a cache
of views of a well by depth, the scene and the state of its models, what-if scenarios.
Hard: a cached view outlives the tags it was made of; depths are cut into
segments by bounds. Properties: a view is younger than the time to live; every
tag is in one segment (the deepest is in none). For the command workflow the
simulation is the environment.

### Not modelled

- *Data variables*: static catalogues and samples drawn at random.
- *Storage optimisation, compression, TimescaleDB cluster*: statements to the
  database's own policies.
- *KPI metrics*: sums of rows.
- *Connectivity manager* (`shared/connectivity_manager.py`): no module imports it.
- *Flink job*: an example pipeline run by Flink, the consumer of the topic where
  `DataIngestion` ends.
- *Unused code*: the Modbus client and `industrial_security.py`, the RUL model,
  the drift baseline.
- Configuration, migrations, logging, tracing, deployment scripts.

## 2. Modules

    CommandTable            rows, sessions, producers, faults
      SecureCommandWorkflow   the remote operations service
      CommandControlService   the command control service
        CommandPlane            both on one table; properties; invariants
          CommandPlaneProofs      theorems
          MCCommandPlane          instances for TLC
    CommandGate             what the workflow promises (abstract)
    OfflineBuffer           the buffer's state and operations
      DataIngestion           requests, retry loop, link, monitor, crash; properties
        DataIngestionProofs     theorems
        MCDataIngestion         instances for TLC
    DisconnectedOperation   edge manager, its threads and the monitor; properties
      DisconnectedProofs      theorems
      MCDisconnected          instances for TLC
    SumTheorems             induction over finite sets; what a fold with + is
    Gateway                 proxy, response cache, rate limits, threat detector
    RealtimeStream          a page's stream and the gateway's queue for it
      GatewayProofs           theorems about the cache and the stream
    Sessions                refresh tokens, second factors, the page's use of them
    LoginLimiter            the limit on logins
    FrontDoor               Gateway, RealtimeStream, Sessions, LoginLimiter together
      FrontDoorProofs         theorems about the four and the whole
      MCFrontDoor             instance for TLC
    AlertService            alerts, clusters, notices
      AlertPlane              with MobileApp (the app's offline queue)
    WorkOrders              ERP orders, links, push devices
    MqttClient, EdgeToStream, FieldUplinks
      FieldClients            the three in the life of the ingestion service
    KafkaConsumer           one partition and a consumer group
    ModelRegistry, FederatedLearning, Operations, Reporting, TagCatalog
    SensorHealth            the health monitor and the rows of the ingest handler
    DigitalTwin             simulations, views, scenes, scenarios
      FieldProofs             theorems about MqttClient, EdgeToStream,
                              SensorHealth, DigitalTwin
    PlantServices           the eleven parts from AlertPlane on together
      PlantProofs             theorems about the other parts and the whole
      MCPlantServices         instance for TLC

Operators named `X_Suffix` and commented "Mutant" stand before the definition
`X` they vary. No behaviour of the specifications uses them: each is a bug that
could be in the code at that place, kept to show which property notices it.

### Command plane

*Processes.* A service process is one event loop, whose handlers are `async def`
with synchronous database and Kafka calls: `task[p]` is the only handler it can be
in the middle of, and the one `await` (the digital twin) moves the handler to
`sims` and frees the loop. Handlers of different processes interleave at every
commit and every Kafka call.

*Sessions.* A handler reads a row, changes the object and commits. `Write` records
the row as loaded (`snap`) and the object's attributes (`new`); `Commit` writes to
`db` the columns in which the two differ and leaves the others as they are by
then, which is what SQLAlchemy's unit of work does. Lost updates and mixed rows
are thus in the model.

*Relay.* `Publish` has the two outcomes of `_publish`: queued in `outbox`, or an
exception. Commands other than emergency shutdowns are flushed. `Deliver` moves a
message to `topic`; with `BrokerFaults` the flush may time out and a delivery
may fail, neither of which any handler learns of. `sent` is a history variable.

*Faults.* `Crash` loses handlers, suspended simulations and the producer's
queue; `CommitFails` loses one commit. `MaxFaults` bounds both together.

*Data.* Of a row the model keeps what guards and properties tell apart.
`kind` is the command's type and its `critical` flag; predicted pressures are
"safe" or "unsafe" (above 500); a 2FA code is right or wrong; roles are the sets
`Admins` and `TwoFactorUsers`. Requests refused before they write anything are
not actions. Audit rows are left out.

*Abstract specification.* `CommandGate` knows only at which gate a command stands
and whether it was relayed. `ImplementsGate` maps the stage column, the kind and
`sent` to it.

### Ingestion

*Workers.* The event loop (`Loop`) runs requests and the retry loop, none of which
awaits anything between its database and Kafka calls, so it is one worker with
one task. `publish_to_kafka` is a plain function that runs in the thread pool:
the other workers. Each call to the buffer is a step, because its lock is held
for one call at a time; the clean-up thread and the monitor's thread are steps
of their own.

*Publishing.* `ingest_data` hands the records over with `timestamp` as a `datetime`;
`KafkaProducerWrapper.send` encodes with `json.dumps`, which raises. `PublishToKafka`
is therefore the except branch: buffer the record. Buffered records have been
written with `default=str` and can be sent.

*Two forms.* With DuckDB, `add_record` stores the point there and a stub
`{storage, sensor_id, metric}` in SQLite; the retry loop sends what is in
SQLite. A row and a message are "full" or "stub", and only a full message makes
the reading `streamed`.

*Retry.* `StartRetry` reads the pending rows once; then for each one send, flush
and delete, or count a failure. The callback that should start a retry when the
connection returns calls `asyncio.create_task` in the monitor's thread, which
raises; the thirty second loop is what drains the buffer.

*Letting go.* `losses` is a history variable: the readings that the service has let go
of, each with the reason (`Reasons`): refused by a full buffer; a failing call of the buffer;
cleared or cleaned up; a delivery that failed and was logged; known only to the memory
of a process that died. `lost` is those readings. A full buffer refuses the record that
comes; docs/OFFLINE_RESILIENCE.md:31 and :456 have it drop the oldest (a finding).

### Edge

*Threads.* `jobs[t]` is what thread `t` still has to do of what it has begun: rows to
record and passes over a table. The event loop (`"api"`) takes requests one at a
time, since none of its handlers awaits anything; the monitor's thread runs the
callback; the synchronisation thread (`"worker"`) wakes up by itself. A pass has
three steps (test of `is_online`, SELECT, UPDATE), each of which may be followed by a
step of another thread; each opens a connection of its own and may fail.

*Rows.* Of a row the model keeps its table, its id (the second of the request and the
sensor), the number of its recording (its timestamp: one thread records) and
`synced`. `INSERT OR REPLACE` puts a new recording in the place of one of the same
id; UPDATE goes by ids, so that it also marks such a replacement, whose
content no pass has read. `MarkedWasRead` and `OldestFirst` state this exception.
`journal` and `reads` are history variables: what was recorded under each number,
and how many passes have read it.

*Connection.* The monitor and the manager change their flags under one lock in one
thread, so the model has one flag. `CheckConnection` is a check whose answer
differs from the flag (`news`); `ConnectionChange` acts on it. The network may
change in between. `HasTargets` says whether the monitor has anything to check.

*Sending.* The passes mark rows and send nothing: the repository says "TODO:
Implement actual sync to central server" there. The properties are about the rows
a pass would send, those it read.

### Gateway, stream and sessions

*Requests.* The gateway awaits nothing but the service, so that a request is `Arrive`
(authenticated, counted, looked up), the service's own step `Serve`, and `Finish`
(judged by the detector, cached). Users, paths and versions of what a path tells
stand for headers, queries and bodies; `written` is the history that says how old an
answer is. A window is the number of events of each age, which is all its
weighing of two buckets tells apart. The detector counts each address and each user and
weighs the two (`Risk`: 45 and 35 against `Threshold`); the address of a request is any.
What it adds for a status of 401 or 403 and for the form of a request is not told apart:
an answer may be left uncached and unserved anyway, as an error is. A key of the
cache is a hash of method, path, query and user joined by colons; the model's `Key` takes
different ones to have different hashes.

*Page.* `page` is the closure of `startRealtimeStream`: socket, event source, the three
timers and the two flags. A timer whose handle was overwritten still fires
(`stray`), a socket that was closed still reports its end (`zombie`). `sender` is
`sender_loop` of the page's connection.

*Sessions.* A refresh token is its place in `tokens`, with the login it descends
from. Every handler is one step; a call of Redis that raises ends it with what it
has done by then. `call` is what the page's start, the login form and any other
request wait for; `as` is the token a request went out with, which another may have
replaced when the answer comes.

### The plant's services

*One step per handler*, where the handler awaits nothing between its reads and its
writes: alerts, orders, models, operations, tags. What goes on elsewhere is a step of
its own: background tasks (`texting`, `asks`), AsyncStorage reads and writes
(`flush`, `tap`), requests of a workflow (`tasks`), paho's thread (`loop`) and the
thread that starts the service (`caller`), the commit that a consumer does not wait
for (`asked`).

*Data.* What fires is a well, a rule and a sensor; a model or scaler is the number of the
training that made it; readings of reports are the time at which they were given;
a decline curve is the rate expected after each number of days; uplinks are
described by what decides their fate; means, scores, medians and averages are compared as
integers over a common denominator. A location's text stands for the depth that the twin
service parses out of it, and a model's id for its equipment and tag.

*Bridge and producer.* `sent` is what the bridge has given to its producer, `arrived` the
topic. A request of the producer gets through or not, and its answer does or not;
without an answer it is sent again, up to `Retries`, and the broker takes it again. With
`InFlight` records under way a later one may get through first. `GiveUp` is a delivery report
with an error, or one that never comes. One partition is considered, `InFlight` counts
records where the producer counts requests, and what the network holds back
beyond a timeout is left out.

*Consumer.* A callback that raises is followed by `send_to_dlq`, which never raises: the dead
letter arrives (`handled`) or it is lost and that is at best logged (`abandoned`); the
loop goes on in both cases.

*App.* `flush` and `tap` are the calls of `flushOfflineQueue` and `queueAcknowledge`
between their awaits, several of each at once, each with the queue that it has read.
`Relaunch` forgets them and keeps the storage.

*Trainings.* A training registers its version and goes on (metrics, and for one type the
scaler in memory); one that raises after that is `halfway`.

*Logins.* `byRedis` and `byMemory` are histories: how many attempts each store has let
pass in the current window. A call that raises may have counted or not.

*Composition.* `FrontDoor` and `PlantServices` put together parts with tables or
memories of their own: a behaviour moves one of them (`part`) and leaves the others
as they started, which reaches every state of each and no product of two. Where
parts do act on each other they are one module: the app and the alert service,
the field protocols and the process that runs them, the catalogue and the
validation service.

## 3. Runs

| run | question | result |
|---|---|---|
| `workflow_alone` | Does the remote operations service keep its protocol on rows of its own, and implement `CommandGate`? | holds |
| `command_plane` | What survives when both services work on one row, with a fault and a broker that loses messages? | holds |
| `other_service` | Does every operation pass the gates while the other service is up? | `GatesBeforeRelay` violated |
| `restart` | Does a command survive a restart during its simulation? | `SurvivesRestarts` violated |
| `lost_message` | Is a command called executed only when Kafka has it? | `ExecutedReachedTopic` violated |
| `ingestion` | What may ingestion lose, repeat and overshoot, and does it deliver the rest? | holds |
| `duckdb_stubs` | Does the buffer send the readings it took? | `SentInFull` violated |
| `edge` | Do three threads without a lock mark what they read, in order, not too often, and everything in the end? | holds |
| `edge_service` | Does the edge service synchronise once the network is up? | `EventuallySynced` violated |
| `front_door` | Are users served their own fresh answers within the limits, over one stream and one working token? | holds |
| `plant` | Do the eleven services behind the gateway keep what each promises, through every order of their requests, threads and restarts? | holds |
| `mobile_queue` | Does an acknowledgement stay in the app's queue until it is sent? | `QueuedAreKept` violated |

`workflow_alone` (`GatesBeforeRelay`, `ColumnsAgree`, `ResendOnlyAfterFault`,
`FailedWasNotSent`, `ExecutedReachedTopic`, `ImplementsGate`,
`NothingLeftHanging`). A crash between relay and commit leaves the row
executable: one more relay per fault is what the code allows, and no more.

`command_plane` (`TwoPersonRule`, `ExecutedWasSent`, `ApprovalSpentOnce`,
`StageNeverGoesBack`). Each service was written as if it were alone. What still
holds is the rule of two persons and that "executed" was sent. An approval of
the workflow also counts as one of the control service, so that a command may be
relayed by both; `ApprovalSpentOnce` says exactly how often.

The three violated properties of the command plane are what the module headers
and tests of the repository say: see `findings` in `PROJECT.json`. So is the one
of ingestion: with DuckDB a retry publishes stubs and deletes the only
rows that lead to the points.

`ingestion` (`NothingVanishes`, `NearlyBounded`, `ResendOnlyAfterFault`,
`EventuallyStreamed`). `NothingVanishes` says where a reading is or to what it was lost;
without faults that is a full buffer, which refused it, or a message that timed out in an
outage, never a row of the buffer that made room (a finding: the documentation says
that it does). Two threads that pass the capacity check together
overshoot the bound; `NearlyBounded` says by how much. `EventuallyStreamed` is
the promise of the offline buffer, less what DuckDB swallows. It excuses what is in
`lost`, so that a message which times out after its row was deleted is no violation
of it: of such readings `NothingVanishes` says that they take an outage.

`edge` (`MarkedWasRead`, `OldestFirst`, `FewCopies`, `EventuallySynced`), with a
monitor that has a host to check. Without the lock a row is read, and would be sent,
up to once per thread, and once more per thread for each failed transaction or
restart: `FewCopies`. It is 3 copies where a lock would make it 1.

`edge_service` has the manager as the service builds it: without a monitor of its own
it makes one that has no hosts and no urls, which answers "offline" to every check.
The flag, true at first, turns false at the first check and stays false.

`front_door`. `ServedFresh`: however fills, writes, invalidations and evictions
interleave, a user is answered with what the service told that user, at most as stale
as the time to live and one request. `RateKept`: a user passes a limit at most once
for each store that counts; with Redis failing on and off that is the number of
stores times the limit, and no more. `OneSource`, `QueueIsNewest` and
`OneActivePerLogin` are also proved (section 4).

`mobile_queue`: `flushOfflineQueue` reads the queue, awaits its requests and stores what
remains of what it has read. An acknowledgement stored meanwhile is overwritten, and
is never sent; two taps in a row may do the same.

`plant`, one part at a time:

- *alerts*: `OneOpenAlert`, `EveryReportCounted` (no handler that rewrites
  `metadata_json` loses what another has counted), `FacilitySpansWells`,
  `OnlyStaleWritesDrop` (an action property: the offline queue loses an
  acknowledgement that the service has not got only to the write of a tap or flush that
  had not read it).
- *field*: `SubscribedWhileUp` (neither of the two threads leaves a topic to the other),
  `OnlyRetriesRepeat` (docs/LATENCY_OPTIMIZATION.md:101 says "at-most-once": a finding).
- *consumer*: `PassedOverWasTried`. In its own mode the consumer never commits past a
  message that was not tried; in that of librdkafka it may lose the one in hand. A dead
  letter that is lost is passed over by the commit of a later message.
- *models*: `AnsweredAsLabelled`, the scaler included: it may be newer than the
  model, never older unless the model's training raised half way.
- *reporting*: `DependenciesFirst`, `ReportFresh`.
- *operations*: `DeclineGoesOn`, although late records move the day it is counted from; curves fall,
  rise or end (with a negative decline the code's rates grow, and beyond some day
  it cannot compute them).
- *orders, federated learning, catalogue*: `TypeOK`, which says of orders that a
  link names an order made for it and of validation what "valid" excludes.
- *twin, monitor* (and the login limiter in `front_door`): their types here; their safety
  properties are theorems (section 4).

### Bounds

| bound | values | why it is enough |
|---|---|---|
| processes | one per service | the compose files start one of each. With two of the same service `ApprovalSpentOnce`, `StageNeverGoesBack` and `ResendOnlyAfterFault` fail (both pass a test before either commits); `TwoPersonRule` and `ExecutedWasSent` are proved for any number |
| `Ids` | two in `workflow_alone`, one elsewhere | commands meet only in the event loop, the task and the producer's queue; the interaction between services is on one row |
| users | two administrators, one with 2FA | the requester and somebody else is all the guards distinguish |
| `MaxFaults` | 2 in `workflow_alone`, 1 elsewhere or 0 | the properties count faults; one shows each loss, two show that they add up |
| `Readings`, `MaxPosts` | two, one posted twice | a second reading to fill the buffer, a second post to meet the row of the first |
| `Workers` | event loop and one thread | two workers between the capacity check and the insert |
| `MaxBuffer` | 1 (4 where the question is another) | full after one record, so that refusing is reached |
| `MaxRetries` | 1 (10 in the code) | giving up is reached by the single fault |
| `MaxOutages` | 1 | down, noticed, up, noticed; the link may also flap unnoticed |
| `Sensors` | one | rows meet under one id or not at all; the second of the request tells ids of one sensor apart |
| `Limit` | 1 (50 in the code) in `edge` | a batch that leaves rows out; `edge_service` has 50 |
| `MaxRecordings`, `MaxSecond`, `MaxItems` | 2, 1, 2 in `edge` | two rows under two ids, or one in the place of the other, of one request or of two. The exception of `OldestFirst` needs a third recording: the theorem covers it |
| `MaxOutages`, `MaxFaults` | 1 and 1 in `edge` | down, noticed or not, up again; one failed transaction or restart at any step |
| `front_door` | 2 users, 2 requests in flight, 1 path, windows of 2 ticks, limits of 1, 1 cache entry, 1 address, 2 hits of address and user to be blocked | two users meet in one cache, a request is overtaken by another of each kind, an entry expires and is evicted, a window slides. Users and requests are symmetric |
| `Replicas` | one, with Redis | two stores count: Redis and the memory of the replica |
| `QueueSize`, `MaxPushes`, `MaxTimers` | 2, 4, 1 | the queue overflows twice; one overwritten timer |
| `MaxTokens`, `People` | 2, 2 | two logins, or one and its refresh |
| alerts | 3 ids, 3 signals in 2 wells, window of 0 ticks of 2, 3 reports, 2 taps, 2 flushes, `RuleLimit` and `WellLimit` 2 (200 and 50 in the code) | alerts in and out of the window and beyond the limits of the queries, a facility of two wells and a late third alert, two flushes and two taps |
| field | 2 topics, one with "+", 2 sessions, batches of 2 of 3 records, 1 retry, 2 in flight (5 in the code) | a session lost between any two steps of the subscribing thread; a record that arrives twice, and one that arrives behind a later one |
| models | 3 types, 2 trainings, 1 sample | a version in memory beside another on disk; with a scaler and without |
| reporting | 3 plans, 2 workflows, 2 runs, clock to 2, time to live 1 | a join, a cycle and a repeated id; two runs of one workflow; an answer overtaken and expired |
| twin | 1 well, 2 tags, 4 segments, time to live 1 | a tag above and one at the end of the last segment, a view that expires |
| monitor | 1 sensor, history of 3, baseline of 2, requests of 2 readings | a baseline taken and kept while the history slides, readings with and without drift, in and out of range |
| logins | 1 client, 2 processes, 2 logins in 2 seconds, 4 attempts | both stores at their limit, a window that ends, a process that starts anew |
| others | 4 calls of the operations service, 2 orders, 2 nodes and rounds, 4 readings, 3 messages | each operation after each other |

No bound limits the passes, which go on for ever: that `FewCopies` holds is not an effect
of the bounds.

`plant` has a state constraint, `Focus`, which drops combinations that add nothing to a
case and leaves each case of the table: ids of alerts are used in one order
(`IdsInOrder`); notices are followed with up to two reports, the app with two posts of
one sensor (`AlertsFocus`); all workflows have one plan and two of them less time
(`OnePlan`); the bridge or the broker is configured, one model trained, one tag measured
(`OneProtocol`, `OneModel`, `OneMeasured`); a state that differs only in the last answer
of an adapter or of the validation service is checked and not continued (`NotAnswered`).

`CHECK_DEADLOCK FALSE` is set, except for `edge`, because a system without further requests may
stop: all commands ended, all readings posted, no fault left.

### Fairness

`CommandPlane!Fairness`: a handler that has begun goes on, because the event loop
resumes every ready coroutine and each call returns or raises within its timeout
(30 s for the twin, 10 s for flush); the producer's thread delivers. Nobody is
obliged to send a request, and faults never have to happen. `StartSimulation` and
`FinishSimulation` are fair as parts of a request in progress.

`DataIngestion!Fairness`: the event loop and the pool's threads run, the retry
loop wakes up every thirty seconds and the monitor every five, the client
library delivers while the link is up, and an outage ends. Steps that fail
(`RetrySendFails`, `CheckFails`, ...) are never obliged. The retry loop's fairness is
over the disjunction of its steps: requests may come in between, but not
for ever, since each reading is posted at most `MaxPosts` times; the loop in the
code is a task that the event loop serves among requests. Weak fairness suffices
throughout.

`DisconnectedOperation!Fairness`: a thread with work goes on with it
(every SQLite call returns within its thirty seconds or raises), the synchronisation thread
wakes up every minute while the manager is online and the monitor checks every five
seconds. Requests, faults and the network are not obliged to anything;
`EventuallySynced` assumes that the network stays up from some time on. The monitor is
assumed to see the network as it is: a host that refuses connections is an outage.

The two temporal properties that refer to faults, `NothingLeftHanging` and
`EventuallyStreamed`, and the violated `SurvivesRestarts` are checked under `FairSpec`.

## 4. Theorems

`CommandPlaneProofs`, for every set of processes, commands and users, every split
of the processes between the services and every bound on faults, from the named
assumptions of the modules (users and roles, `BrokerFaults` Boolean, `MaxFaults`
a natural number, the services' processes disjoint and together `Procs`):

- `TypeCorrect`: `Spec => []TypeOK`.
- `SecondedInvariant`: `Spec => []Seconded`, and from it `TwoPersonRuleHolds`.
- `HonestInvariant`: `Spec => []Honest`, and from it `ExecutedWasSentHolds`.
- `ExecutedReachedTopicHolds`, if the broker takes what is flushed (`BrokerFaults = FALSE`).
- `AloneInvariant`, and from it `GatesBeforeRelayHolds`, `ColumnsAgreeHolds`,
  `ResendOnlyAfterFaultHolds` and `FailedWasNotSentHolds`, if there is one process of the
  remote operations service and none of the other (`OneProcess`).

- `ImplementsGateHolds`, from `AtGateInvariant`, under `OneProcess` too.
- `StageNeverGoesBackHolds` (from `InOrderInvariant`) and `ApprovalSpentOnceHolds` (from
  `SpentInvariant`), if there is at most one process of each service (`OneOfEach`).

The theorems under `OneProcess` need it: the first of them has its counterexample with
another process on the same rows in run `other_service`. Those under `OneOfEach` need
that: with two processes of the control service both may have loaded an approved
row before either relays. The compose files start one process of each.

`TwoPersonRule` is not inductive: it speaks of rows, and a relay is decided on by
a handler that read its row earlier. `Seconded` adds what connects the two: a
session's copy of a row may be old, but a person it has as approver is still there
(`CopySound`); the columns a handler is about to write keep the row's rule
whatever other handlers did to it meanwhile (`WriterSound`); and who is about to
publish has a row that may be sent (`ReaderSound`). The main lemma
(`CommitSeconded`) is that a column-wise flush of a sound writer into a sound row is
sound. `Honest` adds to `ExecutedWasSent` that a handler about to write
"executed" has sent the command.

`Alone` says what one process may rely on: the copy a handler is about to write from is
still the row (`WriterAlone`), also across the wait for the digital twin (`SimAlone`),
because no other handler writes a row that waits; every edit leads from a good row to a
good row (`GoodEdits`); and a relay beyond the first is paid for by a fault (`Paid`). `Delivered`
adds to `ExecutedReachedTopic` that a handler about to write "executed" has its
message in the topic, or queued with the flush still ahead of it.

With both services at work only the workflow writes stages, and a command's stage is in the
hands of one handler of it: the stage it has loaded is the row's (`WorkflowInOrder`), a
suspended simulation's row waits where it was left (`SimsInOrder`), and the control
service writes back the stage it has read, which leaves the column alone
(`ControlInOrder`). `InOrder` says so of every handler; an edit then only
advances the stage. `Spent` counts: of a row the control service has sent as often as its
status shows approvals spent, and what the workflow does behind its back can only raise
that budget, from one to two and once (`RowMoves`, `MovedStaysSpent`).

The refinement: every step of `Spec` is a step of `CommandGate` or a stutter under the
mapping (`Phases`: the stage column, or "absent"; `Shutdowns`; `Handed`). Only commits, publications and an
emergency shutdown change what is mapped; `AtGate` says that the edit which a handler is
about to commit is one that the gate allows, and that what it is about to publish has
been cleared, and `AbsentRows` that an id without a row is no shutdown.

`DataIngestionProofs`, for every set of readings, every finite non-empty set of
workers and all bounds, from the assumptions of `OfflineBuffer` and
`DataIngestion` (limits positive, the loop one of the workers):

- `TypeCorrect`: `Spec => []TypeOK`.
- `SafekeepingInvariant`, and from it `NothingVanishesHolds`.
- `NearlyBoundedHolds`.
- `PaidInvariant`, and from it `ResendOnlyAfterFaultHolds`.

`NothingVanishes` says where a reading may be; the step that could break it is
`RetryMarkSent`, which deletes a row. The invariant adds what makes it safe: every
stub, in a row, in a worker's hands or in the retry's list, has its point
in DuckDB (`StubsHavePoints`), and the reading of the row in hand after `send()` is
in the queue, in DuckDB, in the topic or written off (`SentIsSafe`). The proof has
one lemma per group of actions and conjunct (`BufferKeeps`, `RequestStubs`,
`RetrySent`, ...). Note that the theorem does not say that the reading arrives: with
DuckDB the place that is left may be a point nobody reads back.

`NearlyBounded` is inductive together with the finiteness of the two stores: a
worker that passes the check is one of the at most `Cardinality(Workers) - 1`
others that have not yet, and a check that fails costs a fault.

`ResendOnlyAfterFault` bounds how often a reading is sent by its posts and the faults.
`PaidFor` is the account behind it: the sends of a reading so far, with the workers that carry
it towards the buffer, a publication still in the background and a row kept to be sent (in
the table or in the retry's list) never exceed its posts and the faults. A send moves a reading
from one of these to the sends; one that keeps its row all the same (a crash, a
failed delete) is charged to the fault that kept it. `InTurn` says that there is one row of
a reading at most and that the retry's list does not repeat it. One lemma for each
group of actions shows that no step raises the account for nothing.

`DisconnectedProofs`, for every set of sensors, every batch size and all bounds, with
and without hosts to check:

- `TypeCorrect`: `Spec => []TypeOK`.
- `SyncInvariant`: `Spec => []SyncInv`, and from it `MarkedWasReadHolds` and
  `OldestFirstHolds`.
- `FewCopiesHolds`.

`OldestFirst` is about rows; a thread marks by a list it read earlier. `SyncInv` adds
what the list still says by then: its entries were unsynced and have been read
(`BatchOK`), and with an entry any older row of the table that is unsynced now is in
the list too (`BatchClosed`), because new recordings are newer and others only mark. `SelectStep` shows that the `Limit`
oldest rows are closed in this sense, `MarkStep` that marking a closed list leaves
nothing behind. `FewCopies` follows from an account of who reads a row: while it is unsynced, the
reads so far, less the threads that hold it now, never exceed what the faults
explain (`CopiesInv`); a thread holds one batch at a time (`OnlyHead`), and no change of
the connection takes one from the monitor's thread (`NewsIdle`).

The proofs about the other modules are about each part's own specification
(`AlertPlaneSpec`, `SessionsSpec`, ...). `FrontParts` and `PlantParts` show that a behaviour
of the composition is one of each part, so that what is proved of a part holds of the
whole; `FrontTypes`, `FrontSafe`, `PlantTypes` and `PlantSafe` collect it: the invariants of
the runs `front_door` and `plant`, every one, for every value of the constants.

`SumTheorems` has what the counting proofs share. The library's induction takes a predicate
as a parameter, which the provers cannot instantiate; but that the strict subsets of a finite
set are well-founded is a first-order fact of the library, and with a *set* of good
subsets in the predicate's place it gives `StrongInduction`, `SetInduction`, `CountInduction` (from 0 to n) and `Extremes`. From
these `FoldIsSum`: `FoldFunction(+, 0, f)` over a finite domain is the sum of its places in
any order. The fold itself takes its places by `CHOOSE`, so the proof first
shows that the recursive function exists and then that whichever place is taken first, the
value is the same. `SumOfNaturals` and others then bound, split and shift sums.

- `FrontDoorProofs`. `TokensInvariant`, `OneActivePerLoginHolds`, for all people and any
  failing calls: a login is numbered by its first token, above all there are.
  `LimitInvariant`, `LoginsLimitedHolds`: a process has let pass no more attempts of a
  window than its list still holds of it, since the list reaches back as far
  as the window. `RateKeptHolds`, for any limits, replicas and length of the window:
  what a store has let pass of a user in the weighed window is at most what it has counted there;
  the counts are folds over ages, and a tick shifts a sum by one place.
- `GatewayProofs`: `StreamInvariant`, `OneSourceHolds`, `QueueIsNewestHolds`, for every
  length of the queue. The invariant of the page says what it must
  hold before and after each of its functions; most of the proof is that each function, called
  from a callback at any time, goes from one such page to another. And `ServedInvariant`,
  `ServedFreshHolds`: a version that was read before a time was not overwritten before it
  (`Current`), which is carried from the request to the entry that it fills and from there to the
  answer; what keeps an entry fresh is that it cannot outlive its request by more than
  the time to live.
- `FieldProofs`: `BridgeInvariant`, `OnlyRetriesRepeatHolds`, for every size of the batch,
  number of retries and of requests in flight (first requests go in the order of the records, so that what arrives
  behind a later record is tried again), and
  `MqttInvariant`, `SubscribedWhileUpHolds`, for every list of topics. Once on_connect has
  ended the broker lacks at most the topic that the starting thread has listed and not yet
  sent (`NothingLeftOut`); before that, on_connect has sent all that it has passed (`ListingOK`).
  `MonitorInvariant`, `BaselineIsFirstMedianHolds`, `HealthAgreesHolds`, `RowsMarkedHolds`,
  for any sensors, ranges and lengths of the history, and `CorrectionOvershoots`, a fact about
  the formula of the correction. `TwinInvariant`, `ViewsRecentHolds`,
  `SegmentsPartition`, for any number of segments: bounds are multiples of the total depth,
  and the segment of a depth is a quotient, which is shown to be unique.
- `PlantProofs`, consumer, models, operations: `PassedInvariant`, `PassedOverHolds`, for any
  number of messages, restarts and lost commits; the invariant follows an offset through its
  four places: polled, in hand, asked to be committed, committed, and what was asked
  for in the consumer's own mode is the offset behind a processed message. `RegistryInvariant`,
  `AnsweredAsLabelledHolds`: a scaler, on the disk or in memory, is never older than any
  registered version whose training went through, because the dump comes before the
  registration.
  `DeclineInvariant`, `DeclineGoesOnHolds`, for curves of any shape: a late
  record can only move the day of decline back, which moves later records further on the curve.
- `PlantProofs`, reporting: `FreshInvariant`, `ReportFreshHolds`, for any plans of workflows.
  `RunsInvariant`, `DependenciesFirstHolds`: the scheduler's pass is a recursive function over
  the number of steps, so that what one run of it picks is proved by `CountInduction`; the
  invariant says of a run in progress that what it has executed is closed
  under dependencies and in order.
- `PlantProofs`, alerts and phones: `AlertsInvariant`, and from it `OneOpenAlertHolds` and
  `FacilitySpansWellsHolds`, for every set of ids and signals, any finite set of wells and
  every window and threshold. The invariant adds that facility ids name recorded
  alerts, so that a new one is not taken for an old one. That a cluster keeps
  enough wells follows because alerts only join it (`SystemicGrows`).
  `EveryReportCountedHolds`: each step changes at most one place of the sum, by one.
  `PhoneInvariant`, `OnlyStaleWritesDropHolds`: each item that a flush
  has read is still to be sent, or kept for the write, or served (`Owed`), so
  that a write can lose only what was not there when its writer read, for any number of taps
  and flushes at once.
- `PlantProofs`, types: each service has an inductive invariant of its own.
  `FieldInvariant` takes the ones of the client and the bridge, which the service moves by
  their own steps, and how far each thread is in the list (`MqttLimits`); from it `FieldSafe`.
  `FederatedInvariant`, `GlobalAccuracyHolds`: an average is the quotient of two sums over the
  nodes, and what bounds one sum by the other at each place bounds the whole (`SumBetween`). `CatalogInvariant`: a valid reading violates one bound at most.

Assumptions added for the proofs say what the bounds are: natural numbers
(`AlertBounds`, in `ModelAssumption` and others), finite sets of nodes and wells
(`FederatedAssumption`, `WellsAssumption`).

*Only model-checked.* Liveness under fairness (`NothingLeftHanging`, `EventuallyStreamed`,
`EventuallySynced`), which is beyond the prover together with `ENABLED`, and the properties
that runs find violated. Every invariant and action property of a passing run is
proved. `RECURSIVE` operators are beyond the prover too; the modules use recursive
functions and folds.

## 5. Left out of the modelled parts

- Several processes of one service are not checked (see the bounds); of the command plane
  they are proved about. With two workers of the alert or auth service a look and the
  insert that follows interleave; the compose files start one.
- Requests refused before they write, reads, audit rows, metrics and log lines.
- A second reading under the same `record_id`: readings and record ids are identified.
- `buffer_size_mb`, the buffer's other limit, refuses records as the first does.
- The order in which the retry takes its rows: any order in the model.
- At the edge: the cache of aggregated results (no code reads it), `max_local_storage_mb`
  (no code enforces it), reads of pending rows and of the status, a clock that is
  set back, and the result of the numerical analyses: a request records any rows.
- A request with several readings is one request per reading: each record is
  routed, buffered and retried by itself.
- Gateway: routing to services, health and KPI aggregation, the headers. Alert service: rules
  are rows of one request. Models: what they compute. Federated learning: the weights,
  which are averaged as the accuracies are. Reports: their content. DVR: freshness
  and variance of the quality score. OPC UA and Modbus: reading and writing registers.
- Alert service: a repeated report whose time and the alert's are one with a zone and one without
  makes `max` raise; the request then fails and writes nothing, as one that is never made.
- The bridge: what a network keeps and delivers after the connection was made again.
- Digital twin: depths that are no numbers (`nan`, `inf`), and the rounding of floats at the
  bounds of segments; depths are integers of any sign, in a unit small enough for them.

### What the models show beside the properties

Behaviours of the code that are in the models, or were met while writing them, and
that no property forbids. Those that contradict a document or a test of the repository
in a way a run can show are `findings` in `PROJECT.json`.

*Commands and buffers*

- The points in DuckDB are never deleted (`cleanup_old_data` has no caller): a
  buffer that DuckDB has filled stays full. A reading in DuckDB is counted twice.
- The direct publication never works: `publish_to_kafka` gets the timestamp as a `datetime`,
  which `json.dumps` refuses, so that while the system is online
  (data-ingestion-service/main.py:442) too every reading reaches Kafka by way of the buffer.
- An emergency shutdown repeated by the client is a second row and a second message.
- `mark_sent` deletes by record id; `get_buffer_stats` answers `{}` on an error.
- A new edge manager believes to be online until its first check. Two critical
  readings of a sensor in one second share an id.

*Alerts, phones, orders*

- `acknowledge` has no guard: a late acknowledgement reopens a resolved alert.
- The alert service asks for work orders without a token and is refused each time, so
  that automatic orders (docs/ADVANCED_FEATURES.md:361) are never made.
- An order's id has the resolution of a second, and orders for one alert may be repeated.
- NetInfo's event subscribes the listener anew, so that two flushes run; the second sends
  the acknowledgements again. Logging out leaves the queue.
- No alert reaches Kafka: `json.dumps` raises on its datetime, and that is logged.
- `_find_cross_well_candidates` is documented to look at other wells and includes its own.

*Gateway, sessions, pages*

- `invalidate_prefix` compares its prefix with hashes and never matches.
- Redis counts refused requests, the memory does not. The detector blocks an
  answer after the service has done its work.
- With two replicas a pushed event reaches the subscribers of one.
- Snapshots are fetched without a token and are always empty.
- A retry timer of the event source opens it beside an open socket; the timer that gives up
  is only cleared by an opening socket.
- The page posts the refresh token in the body while `/refresh` takes a query parameter:
  the refresh is always answered 422, and the page removes its tokens. A late 401 removes
  the tokens a newer login has stored.
- A refresh that fails between revoking and registering ends the login. The
  store is documented to fall back to memory, but `redis.from_url` connects lazily: with
  Redis down, login and refresh fail.

*Field protocols and consumer*

- A topic with "+" is compared by equality: its messages reach no handler. What arrives
  by MQTT from the broker is decoded and dropped. The callback of a topic is registered after
  its subscription is sent.
- An uplink without a value is ingested as 0.0 of good quality. Errors meant as 400 become
  500 in the webhook, the MQTT endpoint, inference and the ERP service.
- With MQTT or LoRaWAN off, `/health` and the end of the service meet an unbound name, so
  that the buffer is not closed. Connecting OPC UA again leaves a session open.
- The bridge answers that a record was streamed whatever became of it.
- A dead letter that cannot be sent is only logged, and one that flush(10) leaves behind is not
  even that; a later commit passes over the message. What ends the consumer is a
  message that cannot be decoded, an error of Kafka, or a producer of dead letters that cannot
  be made. A group without an offset that begins at "latest" misses what came before.

*Sensors and the digital twin*

- The correction of a drifted value "adjusts towards" the baseline (shared/sensor_health.py:104)
  and overshoots it beyond a drift of 200 percent; beyond 400 percent the result is farther away
  than the reading (`CorrectionOvershoots`).
- The row of a corrected reading has the corrected value, the published record the raw one.
- A request refused with 422 has fed the baseline with the readings before the one refused;
  a restart forgets the baseline.
- A drift always brings the score below 0.8, and no score is low enough for "failed".
- The deepest tag of a well of 3000 m or more is in no segment of its view
  (`DeepestUnseen`); a threshold of 0 counts as none.
- The ids of models that a scene gives are always answered with 404 by
  `/bim3d/model/{id}/state`: it looks for tags whose id contains the model's.
- Two simulations in one second share an id. A restart of the auth service empties the list of
  logins of the process.

*Models, reports, operations, catalogue*

- Version 0 means "no version"; versions of an A/B test are not compared with the registry.
- A round of federated learning averages what nodes submitted last, however long ago.
- An HTTP step of a workflow succeeds with any status code; a report whose readings could not
  be fetched is a success about none, and always so here, since ingestion has no route
  `/sensor-data`. Ids of one second collide, a repeated step id drops a step, and a
  workflow created during a pass ends the pass.
- A schedule of negative minutes is due at every pass of the scheduler. A training that raises
  after `register_model` leaves a version whose scaler may be an older one.
- `production_status` counts a well with two readings of a day twice.
- A value outside its range is "valid" unless it violates both bounds. A z-score needs eleven
  values to find anything. A tag created again stays deleted.

## 6. What could come next

1. `StoreAndForward`, an abstract specification of a buffer (taken, held, delivered,
   given up) implemented by `DataIngestion` without DuckDB and by `DisconnectedOperation`.
2. Proofs: `CommandGate` implemented with both services at work, less the gates the
   control service skips; the cases in which federated learning has converged.
3. The analyses of the edge service as pure operators against reference definitions (a
   trend over negative averages is called by the wrong name).
4. Two processes of the alert and auth services, if they are ever deployed so.
