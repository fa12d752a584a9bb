------------------------- MODULE DataIngestionProofs -------------------------
(***************************************************************************)
(* Theorems about DataIngestion for every set of readings, every number of *)
(* threads and every bound on records, retries, faults and outages.        *)
(***************************************************************************)
EXTENDS DataIngestion, FiniteSetTheorems, TLAPS

-----------------------------------------------------------------------------
(* Type correctness *)

\* A retry between two rows, and with a row in hand.
Between == [pc : {"retry"}, todo : SUBSET Row]
InHand == [pc : {"flush", "mark", "failed"}, todo : SUBSET Row, row : Row]

\* What a worker's process counter says of its task.
LEMMA PcType ==
  ASSUME TypeOK, NEW w \in Workers
  PROVE  /\ At(w, "check") \/ At(w, "point") \/ At(w, "insert") =>
              task[w] \in Adding
         /\ At(w, "route") => task[w] \in Routing /\ w = Loop
         /\ At(w, "retry") => task[w] \in Between /\ w = Loop
         /\ At(w, "flush") \/ At(w, "mark") \/ At(w, "failed") =>
              task[w] \in InHand /\ w = Loop
BY DEF TypeOK, At, Adding, Routing, Retrying, Between, InHand, Idle, Threads

\* Reads of the fields of a task.
LEMMA TaskFields ==
  /\ \A t \in Adding : t.reading \in Readings /\ t.form \in Form
  /\ \A t \in Routing : t.reading \in Readings
  /\ \A t \in Between : t.todo \subseteq Row
  /\ \A t \in InHand : t.todo \subseteq Row /\ t.row \in Row
  /\ \A x \in Row : x.reading \in Readings /\ x.form \in Form /\ x.retries \in Nat
BY DEF Adding, Routing, Between, InHand, Row

\* A step of one worker leaves the tasks of the right kinds.
LEMMA TaskType ==
  ASSUME TypeOK, NEW w \in Workers,
         NEW t \in {Idle} \union Adding \union Routing \union Between \union InHand,
         w \in Threads => t \in {Idle} \union Adding,
         task' = [task EXCEPT ![w] = t]
  PROVE  /\ task' \in [Workers -> {Idle} \union Adding \union Routing \union Retrying]
         /\ \A v \in Threads : task'[v] \in {Idle} \union Adding
BY DEF TypeOK, Retrying, Between, InHand, Threads

LEMMA AddRecordType ==
  ASSUME TypeOK, NEW w \in Workers, NEW r \in Readings, AddRecord(w, r)
  PROVE  /\ task' \in [Workers -> {Idle} \union Adding \union Routing \union Retrying]
         /\ \A v \in Threads : task'[v] \in {Idle} \union Adding
<1> DEFINE t == [pc |-> "check", reading |-> r, form |-> "full"]
<1>1. t \in Adding
  BY DEF Adding, Form
<1> QED
  BY <1>1, TaskType DEF AddRecord

LEMMA ContinueType ==
  ASSUME TypeOK, NEW todo \in SUBSET Row, Continue(todo)
  PROVE  /\ task' \in [Workers -> {Idle} \union Adding \union Routing \union Retrying]
         /\ \A v \in Threads : task'[v] \in {Idle} \union Adding
<1> DEFINE t == IF todo = {} THEN Idle ELSE [pc |-> "retry", todo |-> todo]
<1>1. t \in {Idle} \union Between
  BY DEF Between
<1>2. Loop \in Workers /\ Loop \notin Threads
  BY LoopAssumption DEF Threads
<1>3. task' = [task EXCEPT ![Loop] = t]
  BY DEF Continue
<1> HIDE DEF t
<1> QED
  BY <1>1, <1>2, <1>3, TaskType

LEMMA StoreType ==
  ASSUME TypeOK, NEW w \in Workers, At(w, "check")
  PROVE  /\ [task[w] EXCEPT !.pc = Store] \in Adding
         /\ task[w].reading \in Readings
BY PcType, TaskFields DEF Store, Adding

LEMMA FaultType ==
  ASSUME TypeOK, Fault
  PROVE  faults' \in 0..MaxFaults /\ faults' = faults + 1
BY LimitsAssumption DEF TypeOK, Fault

LEMMA RefuseType ==
  ASSUME TypeOK, NEW w \in Workers, NEW how \in Reasons, task[w].reading \in Readings, Refuse(w, how)
  PROVE  /\ losses' \subseteq Readings \X Reasons
         /\ task' \in [Workers -> {Idle} \union Adding \union Routing \union Retrying]
         /\ \A v \in Threads : task'[v] \in {Idle} \union Adding
<1>1. losses' \subseteq Readings \X Reasons
  BY DEF TypeOK, Refuse
<1>2. task' = [task EXCEPT ![w] = Idle]
  BY DEF Refuse
<1> QED
  BY <1>1, <1>2, TaskType

\* add_record and the clean-up thread.
LEMMA BufferType ==
  ASSUME TypeOK, BufferStep
  PROVE  TypeOK'
<1>1. CASE CleanUp
  <2>1. rows' \subseteq Row /\ losses' \subseteq Readings \X Reasons
    BY <1>1, TaskFields DEF CleanUp, Delete, TypeOK, Reasons
  <2>2. faults' \in 0..MaxFaults
    BY <1>1, FaultType DEF CleanUp
  <2> QED
    BY <1>1, <2>1, <2>2 DEF CleanUp, BufferStep, TypeOK, ingestVars, linkVars, kafkaVars
<1>2. ASSUME NEW w \in Workers, AddStep(w) PROVE TypeOK'
  <2>1. CASE CheckCapacity(w)
    <3>1. At(w, "check") /\ task[w].reading \in Readings
      BY <2>1, StoreType DEF CheckCapacity
    <3>2. CASE Refuse(w, "full")
      BY <2>1, <3>1, <3>2, RefuseType
         DEF Reasons, CheckCapacity, BufferStep, TypeOK, ingestVars, linkVars, kafkaVars
    <3>3. CASE task' = [task EXCEPT ![w].pc = Store] /\ UNCHANGED losses
      <4> DEFINE t == [task[w] EXCEPT !.pc = Store]
      <4>1. t \in Adding
        BY <3>1, StoreType
      <4>2. task' = [task EXCEPT ![w] = t]
        BY <3>3
      <4> HIDE DEF t
      <4> QED
        BY <2>1, <3>3, <4>1, <4>2, TaskType
           DEF CheckCapacity, BufferStep, TypeOK, ingestVars, linkVars, kafkaVars
    <3> QED
      BY <2>1, <3>2, <3>3 DEF CheckCapacity
  <2>2. CASE CheckFails(w)
    <3> DEFINE t == [task[w] EXCEPT !.pc = Store]
    <3>1. t \in Adding
      BY <2>2, StoreType DEF CheckFails
    <3>2. task' = [task EXCEPT ![w] = t]
      BY <2>2 DEF CheckFails
    <3>3. faults' \in 0..MaxFaults
      BY <2>2, FaultType DEF CheckFails
    <3> HIDE DEF t
    <3> QED
      BY <2>2, <3>1, <3>2, <3>3, TaskType
         DEF CheckFails, BufferStep, TypeOK, ingestVars, linkVars, kafkaVars
  <2>3. CASE InsertPoint(w)
    <3> DEFINE t == [task[w] EXCEPT !.pc = "insert", !.form = "stub"]
    <3>1. task[w] \in Adding
      BY <2>3, PcType DEF InsertPoint
    <3>2. t \in Adding /\ task[w].reading \in Readings
      BY <3>1 DEF Adding, Form
    <3>3. task' = [task EXCEPT ![w] = t]
      BY <2>3 DEF InsertPoint
    <3> HIDE DEF t
    <3> QED
      BY <2>3, <3>2, <3>3, TaskType
         DEF InsertPoint, BufferStep, TypeOK, ingestVars, linkVars, kafkaVars
  <2>4. CASE PointFails(w) \/ InsertRowFails(w)
    <3>1. task[w].reading \in Readings
      BY <2>4, PcType, TaskFields DEF PointFails, InsertRowFails
    <3>2. Refuse(w, "error") /\ faults' \in 0..MaxFaults
      BY <2>4, FaultType DEF PointFails, InsertRowFails
    <3> QED
      BY <2>4, <3>1, <3>2, RefuseType
         DEF Reasons, PointFails, InsertRowFails, BufferStep, TypeOK, ingestVars, linkVars, kafkaVars
  <2>5. CASE InsertRow(w)
    <3>1. task[w].reading \in Readings /\ task[w].form \in Form
      BY <2>5, PcType, TaskFields DEF InsertRow
    <3>2. [reading |-> task[w].reading, form |-> task[w].form, retries |-> 0] \in Row
      BY <3>1 DEF Row
    <3>3. rows' \subseteq Row
      BY <2>5, <3>2 DEF InsertRow, Without, TypeOK
    <3>4. task' = [task EXCEPT ![w] = Idle]
      BY <2>5 DEF InsertRow
    <3> QED
      BY <2>5, <3>3, <3>4, TaskType
         DEF InsertRow, BufferStep, TypeOK, ingestVars, linkVars, kafkaVars
  <2> QED
    BY <1>2, <2>1, <2>2, <2>3, <2>4, <2>5 DEF AddStep
<1> QED
  BY <1>1, <1>2 DEF BufferStep

\* Requests, publications and the administrator's clearing of the buffer.
LEMMA RequestType ==
  ASSUME TypeOK,
         \/ \E r \in Readings : Ingest(r)
         \/ Route \/ ClearBuffer
         \/ \E w \in Threads : PublishToKafka(w)
  PROVE  TypeOK'
<1> USE LoopAssumption
<1>1. ASSUME NEW r \in Readings, Ingest(r) PROVE TypeOK'
  <2> DEFINE t == [pc |-> "route", reading |-> r]
  <2>1. t \in Routing /\ Loop \notin Threads
    BY DEF Routing, Threads
  <2>2. task' = [task EXCEPT ![Loop] = t]
    BY <1>1 DEF Ingest
  <2>3. posts' \in [Readings -> Nat]
    BY <1>1 DEF Ingest, TypeOK
  <2> HIDE DEF t
  <2> QED
    BY <1>1, <2>1, <2>2, <2>3, TaskType DEF Ingest, TypeOK, linkVars, kafkaVars
<1>2. CASE Route
  <2>1. task[Loop].reading \in Readings
    BY <1>2, PcType, TaskFields DEF Route
  <2>2. CASE AddRecord(Loop, task[Loop].reading) /\ UNCHANGED background
    BY <1>2, <2>1, <2>2, AddRecordType DEF Route, TypeOK, linkVars, kafkaVars
  <2>3. CASE /\ background' = background \union {task[Loop].reading}
             /\ task' = [task EXCEPT ![Loop] = Idle]
    BY <1>2, <2>1, <2>3, TaskType DEF Route, TypeOK, linkVars, kafkaVars
  <2> QED
    BY <1>2, <2>2, <2>3 DEF Route
<1>3. CASE ClearBuffer
  <2>1. rows' \subseteq Row /\ losses' \subseteq Readings \X Reasons
    BY <1>3, TaskFields DEF ClearBuffer, Delete, TypeOK, Reasons
  <2>2. faults' \in 0..MaxFaults
    BY <1>3, FaultType DEF ClearBuffer
  <2> QED
    BY <1>3, <2>1, <2>2 DEF ClearBuffer, TypeOK, ingestVars, linkVars, kafkaVars
<1>4. ASSUME NEW w \in Threads, PublishToKafka(w) PROVE TypeOK'
  <2>1. PICK r \in background : background' = background \ {r} /\ AddRecord(w, r)
    BY <1>4 DEF PublishToKafka
  <2>2. w \in Workers /\ r \in Readings
    BY <2>1 DEF Threads, TypeOK
  <2> QED
    BY <1>4, <2>1, <2>2, AddRecordType DEF PublishToKafka, TypeOK, linkVars, kafkaVars
<1> QED
  BY <1>1, <1>2, <1>3, <1>4

\* The retry loop.
LEMMA RetryType ==
  ASSUME TypeOK, RetryStep
  PROVE  TypeOK'
<1> USE LoopAssumption
<1>1. CASE StartRetry
  <2>1. Pending \in SUBSET Row
    BY DEF Pending, TypeOK
  <2>2. Continue(Pending)
    BY <1>1 DEF StartRetry
  <2> QED
    BY <1>1, <2>1, <2>2, ContinueType
       DEF StartRetry, TypeOK, ingestVars, linkVars, kafkaVars
<1>2. CASE RetrySend
  <2>1. task[Loop] \in Between
    BY <1>2, PcType DEF RetrySend
  <2>2. PICK x \in task[Loop].todo :
          /\ queue' = [queue EXCEPT ![<<x.reading, x.form>>] = @ + 1]
          /\ sends' = [sends EXCEPT ![x.reading] = @ + 1]
          /\ task' = [task EXCEPT ![Loop] = [pc |-> "flush", row |-> x,
                                             todo |-> task[Loop].todo \ {x}]]
    BY <1>2 DEF RetrySend
  <2>3. x \in Row /\ x.reading \in Readings /\ <<x.reading, x.form>> \in Message
    BY <2>1, TaskFields DEF Message
  <2> DEFINE t == [pc |-> "flush", row |-> x, todo |-> task[Loop].todo \ {x}]
  <2>4. t \in InHand /\ Loop \notin Threads
    BY <2>1, <2>3, TaskFields DEF InHand, Threads
  <2>5. queue' \in [Message -> Nat] /\ sends' \in [Readings -> Nat]
    BY <2>2, <2>3 DEF TypeOK
  <2>6. task' = [task EXCEPT ![Loop] = t]
    BY <2>2
  <2> HIDE DEF t
  <2> QED
    BY <1>2, <2>4, <2>5, <2>6, TaskType DEF RetrySend, TypeOK, ingestVars, linkVars
<1>3. CASE RetrySendFails
  <2>1. task[Loop] \in Between
    BY <1>3, PcType DEF RetrySendFails
  <2>2. PICK x \in task[Loop].todo :
          task' = [task EXCEPT ![Loop] = [pc |-> "failed", row |-> x,
                                          todo |-> task[Loop].todo \ {x}]]
    BY <1>3 DEF RetrySendFails
  <2> DEFINE t == [pc |-> "failed", row |-> x, todo |-> task[Loop].todo \ {x}]
  <2>3. t \in InHand /\ Loop \notin Threads
    BY <2>1, TaskFields DEF InHand, Threads
  <2>4. task' = [task EXCEPT ![Loop] = t]
    BY <2>2
  <2>5. faults' \in 0..MaxFaults
    BY <1>3, FaultType DEF RetrySendFails
  <2> HIDE DEF t
  <2> QED
    BY <1>3, <2>3, <2>4, <2>5, TaskType
       DEF RetrySendFails, TypeOK, ingestVars, linkVars, kafkaVars
<1>4. CASE RetryFlush
  <2>1. task[Loop] \in InHand
    BY <1>4, PcType DEF RetryFlush
  <2> DEFINE t == [task[Loop] EXCEPT !.pc = "mark"]
  <2>2. t \in InHand /\ Loop \notin Threads
    BY <2>1 DEF InHand, Threads
  <2>3. task' = [task EXCEPT ![Loop] = t]
    BY <1>4 DEF RetryFlush
  <2> HIDE DEF t
  <2> QED
    BY <1>4, <2>2, <2>3, TaskType
       DEF RetryFlush, TypeOK, ingestVars, linkVars, kafkaVars
<1>5. CASE RetryMarkSent
  <2>1. task[Loop].todo \in SUBSET Row
    BY <1>5, PcType, TaskFields DEF RetryMarkSent
  <2>2. rows' \subseteq Row
    BY <1>5 DEF RetryMarkSent, MarkSent, Without, TypeOK
  <2>3. Continue(task[Loop].todo)
    BY <1>5 DEF RetryMarkSent
  <2> QED
    BY <1>5, <2>1, <2>2, <2>3, ContinueType
       DEF RetryMarkSent, TypeOK, ingestVars, linkVars, kafkaVars
<1>6. CASE RetryMarkFailed
  <2>1. task[Loop].todo \in SUBSET Row
    BY <1>6, PcType, TaskFields DEF RetryMarkFailed
  <2>2. \A x \in Row : [x EXCEPT !.retries = @ + 1] \in Row
    BY DEF Row
  <2>3. rows' \subseteq Row
    BY <1>6, <2>2 DEF RetryMarkFailed, MarkFailed, TypeOK
  <2>4. Continue(task[Loop].todo)
    BY <1>6 DEF RetryMarkFailed
  <2> QED
    BY <1>6, <2>1, <2>3, <2>4, ContinueType
       DEF RetryMarkFailed, TypeOK, ingestVars, linkVars, kafkaVars
<1>7. CASE RetryMarkIgnored
  <2>1. task[Loop].todo \in SUBSET Row
    BY <1>7, PcType, TaskFields DEF RetryMarkIgnored
  <2>2. Continue(task[Loop].todo) /\ faults' \in 0..MaxFaults
    BY <1>7, FaultType DEF RetryMarkIgnored
  <2> QED
    BY <1>7, <2>1, <2>2, ContinueType
       DEF RetryMarkIgnored, TypeOK, ingestVars, linkVars, kafkaVars
<1> QED
  BY <1>1, <1>2, <1>3, <1>4, <1>5, <1>6, <1>7 DEF RetryStep

\* The connection, its monitor, the producer's thread and crashes.
LEMMA EnvironmentType ==
  ASSUME TypeOK,
         \/ LinkDown \/ LinkUp \/ Probe \/ Crash
         \/ \E m \in Message : Deliver(m) \/ DeliveryFails(m)
  PROVE  TypeOK'
<1>1. CASE LinkDown \/ LinkUp \/ Probe
  <2>1. link' \in BOOLEAN /\ online' \in BOOLEAN
    BY <1>1, Zenon DEF LinkDown, LinkUp, Probe, TypeOK
  <2>2. outages' \in 0..MaxOutages
    BY <1>1, BoundsAssumption DEF LinkDown, LinkUp, Probe, TypeOK, bufferVars
  <2>3. UNCHANGED <<bufferVars, ingestVars, kafkaVars>>
    BY <1>1, Zenon DEF LinkDown, LinkUp, Probe
  <2> QED
    BY <2>1, <2>2, <2>3 DEF TypeOK, bufferVars, ingestVars, kafkaVars
<1>2. ASSUME NEW m \in Message, Deliver(m) \/ DeliveryFails(m) PROVE TypeOK'
  <2>1. m[1] \in Readings
    BY DEF Message
  <2>2. queue' \in [Message -> Nat]
    BY <1>2 DEF Deliver, DeliveryFails, TypeOK
  <2>3. streamed' \subseteq Readings /\ losses' \subseteq Readings \X Reasons
    BY <1>2, <2>1 DEF Deliver, DeliveryFails, TypeOK, bufferVars, Reasons
  <2> QED
    BY <1>2, <2>2, <2>3
       DEF Deliver, DeliveryFails, TypeOK, bufferVars, ingestVars, linkVars
<1>3. CASE Crash
  <2>1. InMemory \subseteq Readings
    BY DEF InMemory, Carried, Queued, TypeOK
  <2>2. losses' \subseteq Readings \X Reasons
    BY <1>3, <2>1 DEF Crash, TypeOK, Reasons
  <2>3. useDuckDB' \in BOOLEAN /\ faults' \in 0..MaxFaults
    BY <1>3, FaultType, DuckDBAssumption DEF Crash
  <2>4. /\ task' \in [Workers -> {Idle} \union Adding \union Routing \union Retrying]
        /\ \A v \in Threads : task'[v] \in {Idle} \union Adding
    BY <1>3 DEF Crash, Threads
  <2>5. queue' \in [Message -> Nat]
    BY <1>3 DEF Crash
  <2> QED
    BY <1>3, <2>2, <2>3, <2>4, <2>5 DEF Crash, TypeOK
<1> QED
  BY <1>1, <1>2, <1>3

\* The rows, the tasks of the workers, the queue and the counters keep their
\* types in every behaviour of the service.
THEOREM TypeCorrect == Spec => []TypeOK
<1>1. Init => TypeOK
  <2> SUFFICES ASSUME Init PROVE TypeOK
    OBVIOUS
  <2>1. /\ task \in [Workers -> {Idle} \union Adding \union Routing \union Retrying]
        /\ \A v \in Threads : task[v] \in {Idle} \union Adding
    BY DEF Init, BufferInit, Threads
  <2>2. faults \in 0..MaxFaults /\ outages \in 0..MaxOutages
    BY LimitsAssumption, BoundsAssumption DEF Init, BufferInit
  <2>4. useDuckDB \in BOOLEAN
    BY DuckDBAssumption, Zenon DEF Init, BufferInit
  <2>3. queue \in [Message -> Nat] /\ posts \in [Readings -> Nat] /\ sends \in [Readings -> Nat]
    BY DEF Init
  <2> QED
    BY <2>1, <2>2, <2>3, <2>4 DEF Init, BufferInit, TypeOK
<1>2. TypeOK /\ [Next]_vars => TypeOK'
  <2> SUFFICES ASSUME TypeOK, [Next]_vars PROVE TypeOK'
    OBVIOUS
  <2>1. CASE UNCHANGED vars
    BY <2>1 DEF vars, TypeOK
  <2>2. CASE Next
    BY <2>2, BufferType, RequestType, RetryType, EnvironmentType DEF Next
  <2> QED
    BY <2>1, <2>2
<1> QED
  BY <1>1, <1>2, PTL DEF Spec
-----------------------------------------------------------------------------
(* Nothing vanishes *)

\* A step of one worker loses no reading if it keeps what it takes from the
\* hands of that worker, from the background, the rows and the queue.
LEMMA AccountedStep ==
  ASSUME TypeOK, NEW w \in Workers, NEW t, task' = [task EXCEPT ![w] = t],
         task[w] \in Adding \union Routing => task[w].reading \in Accounted',
         background \subseteq Accounted', Held \subseteq Accounted',
         Queued \subseteq Queued',
         points \subseteq points', streamed \subseteq streamed', lost \subseteq lost'
  PROVE  Accounted \subseteq Accounted'
<1>1. ASSUME NEW r \in Carried PROVE r \in Accounted'
  <2>1. PICK v \in Workers :
          r \in Readings /\ task[v] \in Adding \union Routing /\ task[v].reading = r
    BY DEF Carried
  <2>2. CASE v = w
    BY <2>1, <2>2
  <2>3. CASE v # w
    <3>1. task'[v] = task[v]
      BY <2>3 DEF TypeOK
    <3>2. r \in Carried'
      BY <2>1, <3>1 DEF Carried
    <3> QED
      BY <3>2 DEF Accounted, Kept, InMemory
  <2> QED
    BY <2>2, <2>3
<1>2. /\ Queued' \subseteq Accounted' /\ points' \subseteq Accounted'
      /\ streamed' \subseteq Accounted' /\ lost' \subseteq Accounted'
  BY DEF Accounted, Kept, InMemory
<1>3. Accounted = background \union Carried \union Queued \union Held
                    \union points \union streamed \union lost
  BY DEF Accounted, Kept, InMemory
<1> QED
  BY <1>1, <1>2, <1>3

\* What makes up Accounted after a step.
LEMMA AccountedParts ==
  /\ background' \subseteq Accounted' /\ Carried' \subseteq Accounted'
  /\ Queued' \subseteq Accounted' /\ Held' \subseteq Accounted'
  /\ points' \subseteq Accounted' /\ streamed' \subseteq Accounted'
  /\ lost' \subseteq Accounted'
BY DEF Accounted, Kept, InMemory

LEMMA QueuedUnchanged ==
  ASSUME UNCHANGED queue PROVE Queued' = Queued
BY DEF Queued

LEMMA HeldUnchanged ==
  ASSUME UNCHANGED rows PROVE Held' = Held
BY DEF Held

LEMMA HeldWithout ==
  ASSUME NEW r PROVE Held \subseteq {r} \union {x.reading : x \in Without(r)}
BY DEF Held, Without

\* What is let go of is lost, by name.
LEMMA LetGo ==
  ASSUME NEW r, NEW how, <<r, how>> \in losses' PROVE r \in lost'
<1>1. <<r, how>>[1] = r
  OBVIOUS
<1> QED
  BY <1>1, Zenon DEF lost

LEMMA LostGrows ==
  ASSUME NEW new, losses' = losses \union new PROVE lost \subseteq lost'
BY DEF lost

LEMMA DeletedLost ==
  ASSUME NEW old, Delete(old)
  PROVE  lost \subseteq lost' /\ Held \subseteq Held' \union lost'
<1>1. lost \subseteq lost'
  BY LostGrows DEF Delete
<1>2. ASSUME NEW x \in old PROVE x.reading \in lost'
  <2>1. <<x.reading, "deleted">> \in losses'
    BY <1>2, Zenon DEF Delete
  <2> QED
    BY <2>1, LetGo
<1> QED
  BY <1>1, <1>2 DEF Delete, Held

LEMMA RefusedLost ==
  ASSUME NEW w, NEW how, Refuse(w, how)
  PROVE  task[w].reading \in lost' /\ lost \subseteq lost'
<1>1. <<task[w].reading, how>> \in losses'
  BY DEF Refuse
<1> QED
  BY <1>1, LetGo, LostGrows DEF Refuse

\* What the crash of a process takes away is what it had in memory only.
LEMMA CrashLost ==
  ASSUME Crash
  PROVE  lost \subseteq lost' /\ InMemory \ Held \subseteq lost'
<1>1. losses' = losses \union ((InMemory \ Held) \X {"died"})
  BY DEF Crash
<1>2. ASSUME NEW r \in InMemory \ Held PROVE r \in lost'
  <2>1. <<r, "died">> \in losses'
    BY <1>1
  <2> QED
    BY <2>1, LetGo
<1> QED
  BY <1>1, <1>2, LostGrows

\* A worker that has begun to buffer a reading carries it.
LEMMA CarriedNow ==
  ASSUME TypeOK, NEW w \in Workers, NEW t \in Adding \union Routing,
         task' = [task EXCEPT ![w] = t]
  PROVE  t.reading \in Carried'
<1>1. t.reading \in Readings
  BY TaskFields
<1>2. task'[w] = t
  BY DEF TypeOK
<1> QED
  BY <1>1, <1>2 DEF Carried

LEMMA BufferKeeps ==
  ASSUME TypeOK, BufferStep
  PROVE  Accounted \subseteq Accounted' /\ UNCHANGED stored
<1>1. /\ UNCHANGED <<stored, background, queue, streamed>>
      /\ Queued' = Queued
  BY QueuedUnchanged DEF BufferStep, ingestVars, kafkaVars
<1>2. CASE CleanUp
  <2>1. UNCHANGED <<task, points>> /\ lost \subseteq lost' /\ Held \subseteq Held' \union lost'
    BY <1>2, DeletedLost DEF CleanUp
  <2>2. Carried' = Carried
    BY <2>1 DEF Carried
  <2> QED
    BY <1>1, <2>1, <2>2 DEF Accounted, Kept, InMemory
<1>3. ASSUME NEW w \in Workers, AddStep(w) PROVE Accounted \subseteq Accounted'
  <2>1. ASSUME UNCHANGED rows, points \subseteq points', lost \subseteq lost',
               NEW t, task' = [task EXCEPT ![w] = t],
               task[w] \in Adding => task[w].reading \in Accounted',
               task[w] \in Adding
        PROVE  Accounted \subseteq Accounted'
    <3>1. background \subseteq Accounted' /\ Held \subseteq Accounted'
      BY <1>1, <2>1, HeldUnchanged, AccountedParts
    <3> QED
      BY <1>1, <2>1, <3>1, AccountedStep
  <2>2. ASSUME NEW how, Refuse(w, how), UNCHANGED <<rows, points>>, task[w] \in Adding
        PROVE  Accounted \subseteq Accounted'
    <3>1. task[w].reading \in lost' /\ lost \subseteq lost' /\ task' = [task EXCEPT ![w] = Idle]
      BY <2>2, RefusedLost DEF Refuse
    <3>2. task[w].reading \in Accounted'
      BY <3>1, AccountedParts
    <3> QED
      BY <2>1, <2>2, <3>1, <3>2
  <2>3. CASE /\ task' = [task EXCEPT ![w].pc = Store]
             /\ UNCHANGED <<rows, points, losses>>
             /\ At(w, "check")
    <3> DEFINE t == [task[w] EXCEPT !.pc = Store]
    <3>1. t \in Adding /\ task[w] \in Adding
      BY <2>3, StoreType, PcType
    <3>2. task' = [task EXCEPT ![w] = t]
      BY <2>3
    <3>3. t.reading = task[w].reading
      BY <3>1 DEF Adding
    <3> HIDE DEF t
    <3>4. task[w].reading \in Accounted'
      BY <3>1, <3>2, <3>3, CarriedNow, AccountedParts
    <3>5. lost' = lost
      BY <2>3 DEF lost
    <3> QED
      BY <2>1, <2>3, <3>1, <3>2, <3>4, <3>5
  <2>4. CASE CheckCapacity(w) \/ CheckFails(w)
    <3>1. At(w, "check") /\ task[w] \in Adding
      BY <2>4, PcType DEF CheckCapacity, CheckFails
    <3> QED
      BY <2>2, <2>3, <2>4, <3>1 DEF CheckCapacity, CheckFails
  <2>5. CASE InsertPoint(w)
    <3>1. task[w] \in Adding /\ task[w].reading \in points' /\ points \subseteq points'
      BY <2>5, PcType DEF InsertPoint
    <3>2. task' = [task EXCEPT ![w] = [@ EXCEPT !.pc = "insert", !.form = "stub"]]
      BY <2>5 DEF InsertPoint
    <3>3. task[w].reading \in Accounted' /\ UNCHANGED <<rows, lost>>
      BY <2>5, <3>1, AccountedParts DEF InsertPoint, lost
    <3> QED
      BY <2>1, <3>1, <3>2, <3>3
  <2>6. CASE InsertRow(w)
    <3> DEFINE r == task[w].reading
    <3>1. task' = [task EXCEPT ![w] = Idle] /\ UNCHANGED <<points, lost>>
      BY <2>6 DEF InsertRow, lost
    <3> DEFINE x == [reading |-> r, form |-> task[w].form, retries |-> 0]
    <3>4. rows' = Without(r) \union {x} /\ x.reading = r
      BY <2>6 DEF InsertRow
    <3>5. Held' = {y.reading : y \in Without(r)} \union {r}
      BY <3>4 DEF Held
    <3>2. r \in Held' /\ Held \subseteq Held'
      BY <3>5, HeldWithout
    <3>3. r \in Accounted' /\ Held \subseteq Accounted' /\ background \subseteq Accounted'
      BY <1>1, <3>2, AccountedParts
    <3> QED
      BY <1>1, <3>1, <3>3, AccountedStep
  <2>7. CASE PointFails(w) \/ InsertRowFails(w)
    <3>1. task[w] \in Adding
      BY <2>7, PcType DEF PointFails, InsertRowFails
    <3> QED
      BY <2>2, <2>7, <3>1 DEF PointFails, InsertRowFails
  <2> QED
    BY <1>3, <2>4, <2>5, <2>6, <2>7 DEF AddStep
<1> QED
  BY <1>1, <1>2, <1>3 DEF BufferStep

LEMMA RequestKeeps ==
  ASSUME TypeOK,
         \/ \E r \in Readings : Ingest(r)
         \/ Route \/ ClearBuffer
         \/ \E w \in Threads : PublishToKafka(w)
  PROVE  Accounted \subseteq Accounted' /\ stored' \subseteq stored \union Accounted'
<1> USE LoopAssumption
<1>1. ASSUME NEW r \in Readings, Ingest(r)
      PROVE  Accounted \subseteq Accounted' /\ stored' \subseteq stored \union Accounted'
  <2> DEFINE t == [pc |-> "route", reading |-> r]
  <2>1. task' = [task EXCEPT ![Loop] = t] /\ t \in Routing /\ t.reading = r
    BY <1>1 DEF Ingest, Routing
  <2>2. r \in Accounted'
    <3> HIDE DEF t
    <3> QED
      BY <2>1, CarriedNow, AccountedParts
  <2>3. UNCHANGED <<background, rows, queue, points, streamed, lost>>
    BY <1>1 DEF Ingest, kafkaVars, lost
  <2>4. background \subseteq Accounted' /\ Held \subseteq Accounted' /\ Queued' = Queued
    BY <2>3, HeldUnchanged, QueuedUnchanged, AccountedParts
  <2>5. task[Loop] \notin Adding \union Routing
    BY <1>1 DEF Ingest, Idle, Adding, Routing
  <2>6. Accounted \subseteq Accounted'
    BY <2>1, <2>3, <2>4, <2>5, AccountedStep
  <2> QED
    BY <1>1, <2>2, <2>6 DEF Ingest
<1>2. CASE Route
  <2> DEFINE r == task[Loop].reading
  <2>1. UNCHANGED <<rows, queue, points, streamed, lost, stored>> /\ background \subseteq background'
    BY <1>2 DEF Route, kafkaVars, lost
  <2>2. background \subseteq Accounted' /\ Held \subseteq Accounted' /\ Queued' = Queued
    BY <2>1, HeldUnchanged, QueuedUnchanged, AccountedParts
  <2>3. r \in Readings
    BY <1>2, PcType, TaskFields DEF Route
  <2>4. CASE AddRecord(Loop, r)
    <3> DEFINE t == [pc |-> "check", reading |-> r, form |-> "full"]
    <3>1. task' = [task EXCEPT ![Loop] = t] /\ t \in Adding /\ t.reading = r
      BY <2>3, <2>4 DEF AddRecord, Adding, Form
    <3> HIDE DEF t
    <3>2. r \in Accounted'
      BY <3>1, CarriedNow, AccountedParts
    <3> QED
      BY <2>1, <2>2, <3>1, <3>2, AccountedStep
  <2>5. CASE /\ background' = background \union {r}
             /\ task' = [task EXCEPT ![Loop] = Idle]
    <3>1. r \in Accounted'
      BY <2>5, AccountedParts
    <3> QED
      BY <2>1, <2>2, <2>5, <3>1, AccountedStep
  <2> QED
    BY <1>2, <2>4, <2>5 DEF Route
<1>3. CASE ClearBuffer
  <2>1. UNCHANGED <<task, points, background, queue, streamed, stored>>
    BY <1>3 DEF ClearBuffer, ingestVars, kafkaVars
  <2>2. lost \subseteq lost' /\ Held \subseteq Held' \union lost'
    BY <1>3, DeletedLost DEF ClearBuffer
  <2>3. Carried' = Carried /\ Queued' = Queued
    BY <2>1, QueuedUnchanged DEF Carried
  <2> QED
    BY <2>1, <2>2, <2>3 DEF Accounted, Kept, InMemory
<1>4. ASSUME NEW w \in Threads, PublishToKafka(w)
      PROVE  Accounted \subseteq Accounted' /\ stored' \subseteq stored \union Accounted'
  <2>1. PICK r \in background : background' = background \ {r} /\ AddRecord(w, r)
    BY <1>4 DEF PublishToKafka
  <2>2. w \in Workers /\ r \in Readings
    BY <2>1 DEF Threads, TypeOK
  <2> DEFINE t == [pc |-> "check", reading |-> r, form |-> "full"]
  <2>3. task' = [task EXCEPT ![w] = t] /\ t \in Adding /\ t.reading = r
    BY <2>1, <2>2 DEF AddRecord, Adding, Form
  <2> HIDE DEF t
  <2>4. r \in Accounted'
    BY <2>2, <2>3, CarriedNow, AccountedParts
  <2>5. UNCHANGED <<rows, queue, points, streamed, lost, stored>>
    BY <1>4 DEF PublishToKafka, kafkaVars, lost
  <2>6. background \subseteq Accounted' /\ Held \subseteq Accounted' /\ Queued' = Queued
    BY <2>1, <2>4, <2>5, HeldUnchanged, QueuedUnchanged, AccountedParts
  <2>7. task[w] \notin Adding \union Routing
    BY <1>4 DEF PublishToKafka, Idle, Adding, Routing
  <2> QED
    BY <2>2, <2>3, <2>5, <2>6, <2>7, AccountedStep
<1> QED
  BY <1>1, <1>2, <1>3, <1>4

\* The retry loop: what it deletes is safe elsewhere.
LEMMA RetryKeeps ==
  ASSUME TypeOK, SentIsSafe, RetryStep
  PROVE  Accounted \subseteq Accounted' /\ UNCHANGED stored
<1> USE LoopAssumption
<1>1. /\ UNCHANGED <<stored, background, points, streamed, lost>>
      /\ background \subseteq Accounted'
  BY AccountedParts
     DEF RetryStep, StartRetry, RetrySend, RetrySendFails, RetryFlush, RetryMarkSent,
         RetryMarkFailed, RetryMarkIgnored, ingestVars, kafkaVars, lost
<1>2. task[Loop] \notin Adding \union Routing
  BY DEF RetryStep, StartRetry, RetrySend, RetrySendFails, RetryFlush, RetryMarkSent,
         RetryMarkFailed, RetryMarkIgnored, At, Idle, Adding, Routing
<1>3. \E t : task' = [task EXCEPT ![Loop] = t]
  BY DEF RetryStep, StartRetry, RetrySend, RetrySendFails, RetryFlush, RetryMarkSent,
         RetryMarkFailed, RetryMarkIgnored, Continue
<1>4. Queued \subseteq Queued'
  <2>1. CASE RetrySend
    <3>1. PICK x \in task[Loop].todo :
            queue' = [queue EXCEPT ![<<x.reading, x.form>>] = @ + 1]
      BY <2>1 DEF RetrySend
    <3>2. \A m \in Message : queue[m] \in Nat /\ (queue[m] > 0 => queue'[m] > 0)
      BY <3>1 DEF TypeOK
    <3>3. \A r \in Readings : <<r, "full">> \in Message
      BY DEF Message, Form
    <3> QED
      BY <3>2, <3>3 DEF Queued
  <2>2. CASE ~RetrySend
    <3>1. UNCHANGED queue
      BY <2>2
         DEF RetryStep, StartRetry, RetrySendFails, RetryFlush, RetryMarkSent,
             RetryMarkFailed, RetryMarkIgnored, kafkaVars
    <3> QED
      BY <3>1, QueuedUnchanged
  <2> QED
    BY <2>1, <2>2
<1>5. Held \subseteq Accounted'
  <2>1. CASE RetryMarkSent
    <3> DEFINE r == task[Loop].row.reading
    <3>1. r \in Queued \union points \union streamed \union lost
      BY <2>1 DEF RetryMarkSent, SentIsSafe
    <3>2. r \in Accounted'
      BY <1>1, <1>4, <3>1, AccountedParts
    <3>3. Held' = {x.reading : x \in Without(r)}
      BY <2>1 DEF RetryMarkSent, MarkSent, Held
    <3> QED
      BY <3>2, <3>3, HeldWithout, AccountedParts
  <2>2. CASE RetryMarkFailed
    <3> DEFINE r == task[Loop].row.reading
               f(x) == IF x.reading = r THEN [x EXCEPT !.retries = @ + 1] ELSE x
    <3>1. \A x \in rows : f(x).reading = x.reading
      BY DEF TypeOK, Row
    <3>2. rows' = {f(x) : x \in rows}
      BY <2>2 DEF RetryMarkFailed, MarkFailed
    <3> HIDE DEF f
    <3>3. Held \subseteq Held'
      BY <3>1, <3>2 DEF Held
    <3> QED
      BY <3>3, AccountedParts
  <2>3. CASE ~RetryMarkSent /\ ~RetryMarkFailed
    <3>1. UNCHANGED rows
      BY <2>3
         DEF RetryStep, StartRetry, RetrySend, RetrySendFails, RetryFlush, RetryMarkIgnored
    <3> QED
      BY <3>1, HeldUnchanged, AccountedParts
  <2> QED
    BY <2>1, <2>2, <2>3
<1> QED
  BY <1>1, <1>2, <1>3, <1>4, <1>5, AccountedStep

LEMMA EnvironmentKeeps ==
  ASSUME TypeOK,
         \/ LinkDown \/ LinkUp \/ Probe \/ Crash
         \/ \E m \in Message : Deliver(m) \/ DeliveryFails(m)
  PROVE  Accounted \subseteq Accounted' /\ UNCHANGED stored
<1>1. CASE LinkDown \/ LinkUp \/ Probe
  BY <1>1
     DEF LinkDown, LinkUp, Probe, Accounted, Kept, InMemory, Carried, Queued, Held, lost,
         bufferVars, ingestVars, kafkaVars
<1>2. ASSUME NEW m \in Message, Deliver(m) \/ DeliveryFails(m)
      PROVE  Accounted \subseteq Accounted' /\ UNCHANGED stored
  <2>1. UNCHANGED <<rows, points, task, background, stored>>
    BY <1>2 DEF Deliver, DeliveryFails, bufferVars, ingestVars
  <2>2. Held' = Held /\ Carried' = Carried
    BY <2>1 DEF Held, Carried
  <2>3. lost \subseteq lost' /\ streamed \subseteq streamed'
    BY <1>2 DEF Deliver, DeliveryFails, bufferVars, lost
  <2>4. ASSUME NEW r \in Queued PROVE r \in Queued' \union lost' \union streamed'
    <3>1. r \in Readings /\ queue[<<r, "full">>] > 0
      BY <2>4 DEF Queued
    <3>2. CASE m = <<r, "full">>
      <4>1. m[1] = r /\ m[2] = "full"
        BY <3>2
      <4>2. CASE Deliver(m)
        BY <4>1, <4>2 DEF Deliver
      <4>3. CASE DeliveryFails(m)
        <5>1. <<r, "undelivered">> \in losses'
          BY <4>1, <4>3 DEF DeliveryFails
        <5> QED
          BY <5>1, LetGo
      <4> QED
        BY <1>2, <4>2, <4>3
    <3>3. CASE m # <<r, "full">>
      <4>1. queue'[<<r, "full">>] = queue[<<r, "full">>]
        BY <1>2, <3>1, <3>3 DEF Deliver, DeliveryFails, TypeOK, Message, Form
      <4> QED
        BY <3>1, <4>1 DEF Queued
    <3> QED
      BY <3>2, <3>3
  <2> QED
    BY <2>1, <2>2, <2>3, <2>4 DEF Accounted, Kept, InMemory
<1>3. CASE Crash
  <2>1. UNCHANGED <<rows, points, stored, streamed>> /\ lost \subseteq lost' /\ InMemory \ Held \subseteq lost'
    BY <1>3, CrashLost DEF Crash
  <2>2. Held' = Held
    BY <2>1 DEF Held
  <2> QED
    BY <2>1, <2>2 DEF Accounted, Kept
<1> QED
  BY <1>1, <1>2, <1>3

\* A step of one worker keeps StubsHavePoints if what it writes to the rows
\* and to the worker's task is backed.
LEMMA StubsStep ==
  ASSUME TypeOK, StubsHavePoints, points \subseteq points',
         NEW w \in Workers, NEW t, task' = [task EXCEPT ![w] = t],
         \A x \in rows' : x \in rows \/ Backed(x)',
         t \in Adding => (t.form = "stub" => t.reading \in points'),
         t \in Retrying => \A x \in t.todo : Backed(x)'
  PROVE  StubsHavePoints'
<1>1. \A x : Backed(x) => Backed(x)'
  BY DEF Backed
<1>2. \A x \in rows' : Backed(x)'
  BY <1>1 DEF StubsHavePoints
<1>3. ASSUME NEW v \in Workers, task'[v] \in Adding PROVE Backed(task[v])'
  <2>1. CASE v = w
    BY <1>3, <2>1 DEF TypeOK, Backed
  <2>2. CASE v # w
    <3>1. task'[v] = task[v]
      BY <2>2 DEF TypeOK
    <3>2. Backed(task[v]) => (task[v].form = "stub" => task[v].reading \in points')
      BY DEF Backed
    <3> QED
      BY <1>3, <3>1, <3>2 DEF Backed, StubsHavePoints
  <2> QED
    BY <2>1, <2>2
<1>4. ASSUME task'[Loop] \in Retrying PROVE \A x \in task'[Loop].todo : Backed(x)'
  <2>1. task'[Loop] = IF w = Loop THEN t ELSE task[Loop]
    BY LoopAssumption DEF TypeOK
  <2> QED
    BY <1>1, <1>4, <2>1 DEF StubsHavePoints
<1> QED
  BY <1>2, <1>3, <1>4 DEF StubsHavePoints

\* A step that leaves the tasks alone and only deletes rows.
LEMMA StubsQuiet ==
  ASSUME TypeOK, StubsHavePoints, UNCHANGED <<task, points>>, rows' \subseteq rows
  PROVE  StubsHavePoints'
BY DEF StubsHavePoints, Backed

LEMMA BufferStubs ==
  ASSUME TypeOK, StubsHavePoints, BufferStep
  PROVE  StubsHavePoints'
<1>1. CASE CleanUp
  BY <1>1, StubsQuiet DEF CleanUp, Delete
<1>2. ASSUME NEW w \in Workers, AddStep(w) PROVE StubsHavePoints'
  <2>0. Idle \notin Adding \union Retrying
    BY DEF Idle, Adding, Retrying
  <2>1. CASE CheckCapacity(w) \/ CheckFails(w)
    <3> DEFINE t == [task[w] EXCEPT !.pc = Store]
    <3>1. task[w] \in Adding /\ t \in Adding /\ UNCHANGED <<rows, points>>
      BY <2>1, PcType, StoreType DEF CheckCapacity, CheckFails
    <3>2. task' = [task EXCEPT ![w] = Idle] \/ task' = [task EXCEPT ![w] = t]
      BY <2>1 DEF CheckCapacity, CheckFails, Refuse
    <3>3. t.form = task[w].form /\ t.reading = task[w].reading /\ t \notin Retrying
      BY <3>1 DEF Adding, Retrying, Store
    <3> HIDE DEF t
    <3>4. t.form = "stub" => t.reading \in points'
      BY <3>1, <3>3 DEF Backed, StubsHavePoints
    <3> QED
      BY <2>0, <3>1, <3>2, <3>3, <3>4, StubsStep
  <2>2. CASE InsertPoint(w)
    <3> DEFINE t == [task[w] EXCEPT !.pc = "insert", !.form = "stub"]
    <3>1. task[w] \in Adding /\ task' = [task EXCEPT ![w] = t] /\ UNCHANGED rows
      BY <2>2, PcType DEF InsertPoint
    <3>2. t.reading \in points' /\ points \subseteq points' /\ t \notin Retrying
      BY <2>2, <3>1 DEF InsertPoint, Adding, Retrying
    <3> HIDE DEF t
    <3> QED
      BY <3>1, <3>2, StubsStep DEF Backed
  <2>3. CASE InsertRow(w)
    <3> DEFINE x == [reading |-> task[w].reading, form |-> task[w].form, retries |-> 0]
    <3>1. task[w] \in Adding /\ UNCHANGED points
      BY <2>3, PcType DEF InsertRow
    <3>2. x.form = "stub" => x.reading \in points'
      BY <3>1 DEF Backed, StubsHavePoints
    <3>3. rows' = Without(task[w].reading) \union {x}
      BY <2>3 DEF InsertRow
    <3>4. \A y \in rows' : y \in rows \/ y = x
      BY <3>3 DEF Without
    <3>5. task' = [task EXCEPT ![w] = Idle]
      BY <2>3 DEF InsertRow
    <3> HIDE DEF x
    <3>6. \A y \in rows' : y \in rows \/ Backed(y)'
      BY <3>2, <3>4 DEF Backed
    <3> QED
      BY <2>0, <3>1, <3>5, <3>6, StubsStep
  <2>4. CASE PointFails(w) \/ InsertRowFails(w)
    <3>1. task' = [task EXCEPT ![w] = Idle] /\ UNCHANGED <<rows, points>>
      BY <2>4 DEF PointFails, InsertRowFails, Refuse
    <3> QED
      BY <2>0, <3>1, StubsStep
  <2> QED
    BY <1>2, <2>1, <2>2, <2>3, <2>4 DEF AddStep
<1> QED
  BY <1>1, <1>2 DEF BufferStep

LEMMA RequestStubs ==
  ASSUME TypeOK, StubsHavePoints,
         \/ \E r \in Readings : Ingest(r)
         \/ Route \/ ClearBuffer
         \/ \E w \in Threads : PublishToKafka(w)
  PROVE  StubsHavePoints'
<1>1. ASSUME NEW w \in Workers, NEW r, AddRecord(w, r), UNCHANGED <<rows, points>>
      PROVE  StubsHavePoints'
  <2> DEFINE t == [pc |-> "check", reading |-> r, form |-> "full"]
  <2>1. task' = [task EXCEPT ![w] = t] /\ t.form = "full" /\ t \notin Retrying
    BY <1>1 DEF AddRecord, Retrying
  <2> HIDE DEF t
  <2> QED
    BY <1>1, <2>1, StubsStep DEF Backed
<1>2. ASSUME NEW t, t \notin Adding \union Retrying, task' = [task EXCEPT ![Loop] = t],
             UNCHANGED <<rows, points>>
      PROVE  StubsHavePoints'
  BY <1>2, LoopAssumption, StubsStep
<1>3. ASSUME NEW r \in Readings, Ingest(r) PROVE StubsHavePoints'
  <2>1. [pc |-> "route", reading |-> r] \notin Adding \union Retrying
    BY DEF Adding, Retrying
  <2> QED
    BY <1>2, <1>3, <2>1 DEF Ingest
<1>4. CASE Route
  <2>1. Idle \notin Adding \union Retrying
    BY DEF Idle, Adding, Retrying
  <2> QED
    BY <1>1, <1>2, <1>4, <2>1, LoopAssumption DEF Route
<1>5. CASE ClearBuffer
  BY <1>5, StubsQuiet DEF ClearBuffer, Delete
<1>6. ASSUME NEW w \in Threads, PublishToKafka(w) PROVE StubsHavePoints'
  BY <1>1, <1>6 DEF PublishToKafka, Threads
<1> QED
  BY <1>3, <1>4, <1>5, <1>6

LEMMA RetryStubs ==
  ASSUME TypeOK, StubsHavePoints, RetryStep
  PROVE  StubsHavePoints'
<1> USE LoopAssumption
<1>1. UNCHANGED points
  BY DEF RetryStep, StartRetry, RetrySend, RetrySendFails, RetryFlush, RetryMarkSent,
         RetryMarkFailed, RetryMarkIgnored
<1>2. \A x \in rows' : x \in rows \/ Backed(x)'
  <2>1. CASE RetryMarkSent
    BY <2>1 DEF RetryMarkSent, MarkSent, Without
  <2>2. CASE RetryMarkFailed
    <3> DEFINE r == task[Loop].row.reading
    <3>1. \A x \in Row : /\ [x EXCEPT !.retries = @ + 1].form = x.form
                         /\ [x EXCEPT !.retries = @ + 1].reading = x.reading
      BY DEF Row
    <3>2. \A x \in rows : Backed(x) /\ Backed([x EXCEPT !.retries = @ + 1])
      BY <3>1 DEF Backed, StubsHavePoints, TypeOK
    <3>3. \A y \in rows' : Backed(y)
      BY <2>2, <3>2 DEF RetryMarkFailed, MarkFailed
    <3> QED
      BY <1>1, <3>3 DEF Backed
  <2>3. CASE ~RetryMarkSent /\ ~RetryMarkFailed
    BY <2>3
       DEF RetryStep, StartRetry, RetrySend, RetrySendFails, RetryFlush, RetryMarkIgnored
  <2> QED
    BY <2>1, <2>2, <2>3
<1>3. ASSUME NEW t, task' = [task EXCEPT ![Loop] = t], t \notin Adding,
             NEW S, \A x \in S : Backed(x), t \in Retrying => t.todo \subseteq S
      PROVE  StubsHavePoints'
  <2>1. \A x \in S : Backed(x)'
    BY <1>1, <1>3 DEF Backed
  <2>2. t \in Retrying => \A x \in t.todo : Backed(x)'
    BY <1>3, <2>1
  <2> QED
    BY <1>1, <1>2, <1>3, <2>2, StubsStep
<1>4. ASSUME NEW S \in SUBSET Row, Continue(S), \A x \in S : Backed(x)
      PROVE  StubsHavePoints'
  <2> DEFINE t == IF S = {} THEN Idle ELSE [pc |-> "retry", todo |-> S]
  <2>1. t \notin Adding /\ (t \in Retrying => t.todo \subseteq S)
    BY DEF Idle, Adding, Retrying
  <2>2. task' = [task EXCEPT ![Loop] = t]
    BY <1>4 DEF Continue
  <2> HIDE DEF t
  <2> QED
    BY <1>3, <1>4, <2>1, <2>2
<1>5. CASE StartRetry
  <2>1. Pending \in SUBSET Row /\ \A x \in Pending : Backed(x)
    BY DEF Pending, TypeOK, StubsHavePoints
  <2> QED
    BY <1>4, <1>5, <2>1 DEF StartRetry
<1>6. CASE ~StartRetry
  <2>1. /\ task[Loop] \in Between \union InHand
        /\ task[Loop].todo \in SUBSET Row
        /\ \A x \in task[Loop].todo : Backed(x)
    <3>1. task[Loop] \in Between \union InHand
      BY <1>6, PcType
         DEF RetryStep, RetrySend, RetrySendFails, RetryFlush, RetryMarkSent,
             RetryMarkFailed, RetryMarkIgnored
    <3>2. task[Loop] \in Retrying
      BY <3>1 DEF Between, InHand, Retrying
    <3> QED
      BY <3>1, <3>2, TaskFields DEF StubsHavePoints
  <2>2. CASE RetryMarkSent \/ RetryMarkFailed \/ RetryMarkIgnored
    BY <1>4, <2>1, <2>2 DEF RetryMarkSent, RetryMarkFailed, RetryMarkIgnored
  <2>3. CASE RetrySend \/ RetrySendFails
    <3>1. PICK x \in task[Loop].todo, pc \in {"flush", "failed"} :
            task' = [task EXCEPT ![Loop] = [pc |-> pc, row |-> x,
                                            todo |-> task[Loop].todo \ {x}]]
      BY <2>3 DEF RetrySend, RetrySendFails
    <3> DEFINE t == [pc |-> pc, row |-> x, todo |-> task[Loop].todo \ {x}]
    <3>2. t \notin Adding /\ t.todo \subseteq task[Loop].todo
      BY DEF Adding
    <3>3. task' = [task EXCEPT ![Loop] = t]
      BY <3>1
    <3> HIDE DEF t
    <3> QED
      BY <1>3, <2>1, <3>2, <3>3
  <2>4. CASE RetryFlush
    <3> DEFINE t == [task[Loop] EXCEPT !.pc = "mark"]
    <3>1. task[Loop] \in InHand
      BY <2>4, PcType DEF RetryFlush
    <3>2. t \notin Adding /\ t.todo = task[Loop].todo
      BY <3>1 DEF InHand, Adding
    <3>3. task' = [task EXCEPT ![Loop] = t]
      BY <2>4 DEF RetryFlush
    <3> HIDE DEF t
    <3> QED
      BY <1>3, <2>1, <3>2, <3>3
  <2> QED
    BY <1>6, <2>2, <2>3, <2>4 DEF RetryStep
<1> QED
  BY <1>5, <1>6

LEMMA EnvironmentStubs ==
  ASSUME TypeOK, StubsHavePoints,
         \/ LinkDown \/ LinkUp \/ Probe \/ Crash
         \/ \E m \in Message : Deliver(m) \/ DeliveryFails(m)
  PROVE  StubsHavePoints'
<1>1. CASE Crash
  <2>1. UNCHANGED <<rows, points>> /\ \A w \in Workers : task'[w] = Idle
    BY <1>1 DEF Crash
  <2>2. Idle \notin Adding \union Retrying
    BY DEF Idle, Adding, Retrying
  <2> QED
    BY <2>1, <2>2, LoopAssumption DEF StubsHavePoints, Backed
<1>2. CASE ~Crash
  <2>1. UNCHANGED <<rows, points, task>>
    BY <1>2 DEF LinkDown, LinkUp, Probe, Deliver, DeliveryFails, bufferVars
  <2> QED
    BY <2>1, StubsQuiet
<1> QED
  BY <1>1, <1>2

\* While the retry has a row in hand, deliveries move its reading from one
\* safe place to another.
LEMMA SentKept ==
  ASSUME TypeOK, SentIsSafe, UNCHANGED task,
         Queued \subseteq Queued' \union streamed' \union lost',
         points \subseteq points', streamed \subseteq streamed', lost \subseteq lost'
  PROVE  SentIsSafe'
BY DEF SentIsSafe, At

LEMMA SentElsewhere ==
  ASSUME task'[Loop].pc \notin {"flush", "mark"}
  PROVE  SentIsSafe'
BY DEF SentIsSafe, At

\* A step of the buffer or of a request: whoever takes it is not in the
\* middle of a retry, and nothing leaves the queue.
LEMMA SentByOthers ==
  ASSUME TypeOK, SentIsSafe, NEW w \in Workers, NEW t, task' = [task EXCEPT ![w] = t],
         t \in {Idle} \union Adding \union Routing,
         UNCHANGED queue, points \subseteq points',
         streamed \subseteq streamed', lost \subseteq lost'
  PROVE  SentIsSafe'
<1> USE LoopAssumption
<1>1. CASE w = Loop
  <2>1. task'[Loop] = t
    BY <1>1 DEF TypeOK
  <2>2. t.pc \notin {"flush", "mark"}
    BY DEF Idle, Adding, Routing
  <2> QED
    BY <2>1, <2>2, SentElsewhere
<1>2. CASE w # Loop
  <2>1. task'[Loop] = task[Loop] /\ Queued' = Queued
    BY <1>2, QueuedUnchanged DEF TypeOK
  <2> QED
    BY <2>1 DEF SentIsSafe, At
<1> QED
  BY <1>1, <1>2

LEMMA BufferSent ==
  ASSUME TypeOK, SentIsSafe, BufferStep
  PROVE  SentIsSafe'
<1>1. UNCHANGED <<queue, streamed>>
  BY DEF BufferStep, kafkaVars
<1>2. CASE CleanUp
  <2>1. UNCHANGED <<task, points>> /\ lost \subseteq lost'
    BY <1>2 DEF CleanUp, Delete, lost
  <2> QED
    BY <1>1, <2>1, QueuedUnchanged, SentKept
<1>3. ASSUME NEW w \in Workers, AddStep(w) PROVE SentIsSafe'
  <2>1. points \subseteq points' /\ lost \subseteq lost'
    BY <1>3 DEF AddStep, CheckCapacity, CheckFails, InsertPoint, PointFails, InsertRow,
                InsertRowFails, Refuse, lost
  <2>2. CASE InsertPoint(w)
    <3> DEFINE t == [task[w] EXCEPT !.pc = "insert", !.form = "stub"]
    <3>1. task[w] \in Adding /\ task' = [task EXCEPT ![w] = t]
      BY <2>2, PcType DEF InsertPoint
    <3>2. t \in Adding
      BY <3>1 DEF Adding, Form
    <3> HIDE DEF t
    <3> QED
      BY <1>1, <2>1, <3>1, <3>2, SentByOthers
  <2>3. CASE ~InsertPoint(w)
    <3> DEFINE t == [task[w] EXCEPT !.pc = Store]
    <3>1. \/ task' = [task EXCEPT ![w] = Idle]
          \/ task' = [task EXCEPT ![w] = t] /\ At(w, "check")
      BY <1>3, <2>3
         DEF AddStep, CheckCapacity, CheckFails, PointFails, InsertRow, InsertRowFails, Refuse
    <3>2. At(w, "check") => t \in Adding
      BY StoreType
    <3> HIDE DEF t
    <3> QED
      BY <1>1, <2>1, <3>1, <3>2, SentByOthers
  <2> QED
    BY <2>2, <2>3
<1> QED
  BY <1>2, <1>3 DEF BufferStep

LEMMA RequestSent ==
  ASSUME TypeOK, SentIsSafe,
         \/ \E r \in Readings : Ingest(r)
         \/ Route \/ ClearBuffer
         \/ \E w \in Threads : PublishToKafka(w)
  PROVE  SentIsSafe'
<1> USE LoopAssumption
<1>1. UNCHANGED <<queue, streamed, points>> /\ lost \subseteq lost'
  BY DEF Ingest, Route, ClearBuffer, Delete, PublishToKafka, kafkaVars, lost
<1>2. ASSUME NEW r \in Readings, Ingest(r) PROVE SentIsSafe'
  <2>1. [pc |-> "route", reading |-> r] \in Routing
    BY DEF Routing
  <2> QED
    BY <1>1, <1>2, <2>1, SentByOthers DEF Ingest
<1>3. ASSUME NEW w \in Workers, NEW r \in Readings, AddRecord(w, r) PROVE SentIsSafe'
  <2>1. [pc |-> "check", reading |-> r, form |-> "full"] \in Adding
    BY DEF Adding, Form
  <2> QED
    BY <1>1, <1>3, <2>1, SentByOthers DEF AddRecord
<1>4. CASE Route
  <2>1. task[Loop].reading \in Readings
    BY <1>4, PcType, TaskFields DEF Route
  <2>2. AddRecord(Loop, task[Loop].reading) \/ task' = [task EXCEPT ![Loop] = Idle]
    BY <1>4 DEF Route
  <2> QED
    BY <1>1, <1>3, <2>1, <2>2, SentByOthers
<1>5. CASE ClearBuffer
  BY <1>1, <1>5, QueuedUnchanged, SentKept DEF ClearBuffer
<1>6. ASSUME NEW w \in Threads, PublishToKafka(w) PROVE SentIsSafe'
  <2>1. PICK r \in background : AddRecord(w, r)
    BY <1>6 DEF PublishToKafka
  <2> QED
    BY <1>3, <2>1 DEF Threads, TypeOK
<1> QED
  BY <1>2, <1>4, <1>5, <1>6

\* send() makes a reading safe, in the queue if the row is the reading itself
\* and in DuckDB if it is a stub.
LEMMA RetrySent ==
  ASSUME TypeOK, StubsHavePoints, SentIsSafe, RetryStep
  PROVE  SentIsSafe'
<1> USE LoopAssumption
<1>1. CASE RetrySend
  <2>1. task[Loop] \in Between /\ task[Loop] \in Retrying
    BY <1>1, PcType DEF RetrySend, Between, Retrying
  <2>2. PICK x \in task[Loop].todo :
          /\ queue' = [queue EXCEPT ![<<x.reading, x.form>>] = @ + 1]
          /\ task' = [task EXCEPT ![Loop] = [pc |-> "flush", row |-> x,
                                             todo |-> task[Loop].todo \ {x}]]
    BY <1>1 DEF RetrySend
  <2>3. task'[Loop].row = x
    BY <2>2 DEF TypeOK
  <2>4. x \in Row /\ x.reading \in Readings /\ x.form \in Form /\ Backed(x)
    BY <2>1, TaskFields DEF StubsHavePoints
  <2>5. UNCHANGED points
    BY <1>1 DEF RetrySend
  <2>6. CASE x.form = "stub"
    BY <2>3, <2>4, <2>5, <2>6 DEF SentIsSafe, Backed
  <2>7. CASE x.form = "full"
    <3>1. queue[<<x.reading, "full">>] \in Nat /\ <<x.reading, "full">> \in Message
      BY <2>4 DEF TypeOK, Message, Form
    <3>2. queue'[<<x.reading, "full">>] > 0
      BY <2>2, <2>7, <3>1 DEF TypeOK
    <3>3. x.reading \in Queued'
      BY <2>4, <3>2 DEF Queued
    <3> QED
      BY <2>3, <3>3 DEF SentIsSafe
  <2> QED
    BY <2>4, <2>6, <2>7 DEF Form
<1>2. CASE RetryFlush
  <2>1. /\ task'[Loop].row = task[Loop].row /\ At(Loop, "flush")
        /\ UNCHANGED <<queue, points, streamed, lost>>
    <3>1. task[Loop] \in InHand
      BY <1>2, PcType DEF RetryFlush
    <3> QED
      BY <1>2, <3>1 DEF RetryFlush, TypeOK, InHand, kafkaVars, lost
  <2> QED
    BY <2>1, QueuedUnchanged DEF SentIsSafe
<1>3. CASE RetrySendFails
  <2>1. task'[Loop].pc = "failed"
    BY <1>3 DEF RetrySendFails, TypeOK
  <2> QED
    BY <2>1, SentElsewhere
<1>4. CASE StartRetry \/ RetryMarkSent \/ RetryMarkFailed \/ RetryMarkIgnored
  <2>1. \E todo : Continue(todo)
    BY <1>4 DEF StartRetry, RetryMarkSent, RetryMarkFailed, RetryMarkIgnored
  <2>2. task'[Loop].pc \in {"idle", "retry"}
    BY <2>1 DEF Continue, TypeOK, Idle
  <2> QED
    BY <2>2, SentElsewhere
<1> QED
  BY <1>1, <1>2, <1>3, <1>4 DEF RetryStep

LEMMA EnvironmentSent ==
  ASSUME TypeOK, SentIsSafe,
         \/ LinkDown \/ LinkUp \/ Probe \/ Crash
         \/ \E m \in Message : Deliver(m) \/ DeliveryFails(m)
  PROVE  SentIsSafe'
<1>1. CASE Crash
  BY <1>1, LoopAssumption, SentElsewhere DEF Crash, Idle
<1>2. CASE LinkDown \/ LinkUp \/ Probe
  BY <1>2, QueuedUnchanged, SentKept
     DEF LinkDown, LinkUp, Probe, bufferVars, kafkaVars, lost
<1>3. ASSUME NEW m \in Message, Deliver(m) \/ DeliveryFails(m) PROVE SentIsSafe'
  <2>1. UNCHANGED <<points, task>> /\ lost \subseteq lost' /\ streamed \subseteq streamed'
    BY <1>3 DEF Deliver, DeliveryFails, bufferVars, lost
  <2>2. ASSUME NEW r \in Queued PROVE r \in Queued' \union lost' \union streamed'
    <3>1. r \in Readings /\ queue[<<r, "full">>] > 0
      BY <2>2 DEF Queued
    <3>2. CASE m = <<r, "full">>
      <4>1. m[1] = r /\ m[2] = "full"
        BY <3>2
      <4>2. CASE Deliver(m)
        BY <4>1, <4>2 DEF Deliver
      <4>3. CASE DeliveryFails(m)
        <5>1. <<r, "undelivered">> \in losses'
          BY <4>1, <4>3 DEF DeliveryFails
        <5> QED
          BY <5>1, LetGo
      <4> QED
        BY <1>3, <4>2, <4>3
    <3>3. CASE m # <<r, "full">>
      <4>1. queue'[<<r, "full">>] = queue[<<r, "full">>]
        BY <1>3, <3>1, <3>3 DEF Deliver, DeliveryFails, TypeOK, Message, Form
      <4> QED
        BY <3>1, <4>1 DEF Queued
    <3> QED
      BY <3>2, <3>3
  <2> QED
    BY <2>1, <2>2, SentKept
<1> QED
  BY <1>1, <1>2, <1>3

\* A stub always has its point, what the retry is about to delete is safe,
\* and every reading that a request committed to TimescaleDB is accounted for.
NoneMissing == stored \subseteq Accounted

THEOREM SafekeepingInvariant == Spec => [](StubsHavePoints /\ SentIsSafe /\ NoneMissing)
<1> DEFINE Inv == StubsHavePoints /\ SentIsSafe /\ NoneMissing
<1>1. Init => Inv
  <2> SUFFICES ASSUME Init PROVE Inv
    OBVIOUS
  <2>1. rows = {} /\ stored = {} /\ \A w \in Workers : task[w] = Idle
    BY DEF Init, BufferInit
  <2>2. Idle \notin Adding \union Retrying /\ Idle.pc = "idle"
    BY DEF Idle, Adding, Retrying
  <2> QED
    BY <2>1, <2>2, LoopAssumption DEF StubsHavePoints, SentIsSafe, NoneMissing, At
<1>2. TypeOK /\ Inv /\ [Next]_vars => Inv'
  <2> SUFFICES ASSUME TypeOK, Inv, [Next]_vars PROVE Inv'
    OBVIOUS
  <2>1. CASE UNCHANGED vars
    BY <2>1
       DEF vars, StubsHavePoints, Backed, SentIsSafe, At, NoneMissing, Accounted, Kept,
           InMemory, Carried, Queued, Held, lost
  <2>2. CASE Next
    <3>1. StubsHavePoints'
      BY <2>2, BufferStubs, RequestStubs, RetryStubs, EnvironmentStubs DEF Next
    <3>2. SentIsSafe'
      BY <2>2, BufferSent, RequestSent, RetrySent, EnvironmentSent DEF Next
    <3>3. Accounted \subseteq Accounted' /\ stored' \subseteq stored \union Accounted'
      BY <2>2, BufferKeeps, RequestKeeps, RetryKeeps, EnvironmentKeeps DEF Next
    <3> QED
      BY <3>1, <3>2, <3>3 DEF NoneMissing
  <2> QED
    BY <2>1, <2>2
<1> QED
  BY <1>1, <1>2, TypeCorrect, PTL DEF Spec

-----------------------------------------------------------------------------
(* What readings are lost to *)

\* The reasons, as far as nothing has failed or no link was down.
LossesKnown ==
  /\ outages = 0 => link
  /\ faults = 0 => \A l \in losses : l[2] \in {"full", "undelivered"}
  /\ outages = 0 => \A l \in losses : l[2] # "undelivered"

\* A loss that a step of the service adds.
NewLoss(l) ==
  \/ l[2] = "full"
  \/ l[2] \in {"error", "deleted", "died"} /\ faults' = faults + 1
  \/ l[2] = "undelivered" /\ ~link

LEMMA RequestLosses ==
  ASSUME TypeOK,
         \/ \E r \in Readings : Ingest(r)
         \/ Route \/ ClearBuffer
         \/ \E w \in Threads : PublishToKafka(w)
  PROVE  /\ \A l \in losses' : l \in losses \/ NewLoss(l)
         /\ faults' \in {faults, faults + 1} /\ UNCHANGED <<link, outages>>
BY DEF Ingest, Route, ClearBuffer, PublishToKafka, Delete, Fault, NewLoss, linkVars

LEMMA BufferLosses ==
  ASSUME TypeOK, BufferStep
  PROVE  /\ \A l \in losses' : l \in losses \/ NewLoss(l)
         /\ faults' \in {faults, faults + 1} /\ UNCHANGED <<link, outages>>
<1>1. UNCHANGED <<link, outages>>
  BY DEF BufferStep, linkVars
<1>2. CASE CleanUp
  BY <1>1, <1>2 DEF CleanUp, Delete, Fault, NewLoss
<1>3. ASSUME NEW w \in Workers, AddStep(w)
      PROVE  /\ \A l \in losses' : l \in losses \/ NewLoss(l)
             /\ faults' \in {faults, faults + 1}
  BY <1>3
     DEF AddStep, CheckCapacity, InsertPoint, InsertRow, CheckFails, PointFails,
         InsertRowFails, Refuse, Fault, NewLoss
<1> QED
  BY <1>1, <1>2, <1>3 DEF BufferStep

LEMMA RetryLosses ==
  ASSUME TypeOK, RetryStep
  PROVE  UNCHANGED losses /\ faults' \in {faults, faults + 1} /\ UNCHANGED <<link, outages>>
BY DEF RetryStep, StartRetry, RetrySend, RetrySendFails, RetryFlush, RetryMarkSent,
       RetryMarkFailed, RetryMarkIgnored, Fault, linkVars

LEMMA EnvironmentLosses ==
  ASSUME TypeOK,
         \/ LinkDown \/ LinkUp \/ Probe \/ Crash
         \/ \E m \in Message : Deliver(m) \/ DeliveryFails(m)
  PROVE  /\ \A l \in losses' : l \in losses \/ NewLoss(l)
         /\ faults' \in {faults, faults + 1}
         /\ UNCHANGED <<link, outages>> \/ outages' = outages + 1 \/ (link' /\ UNCHANGED outages)
<1>1. CASE LinkDown \/ LinkUp \/ Probe
  BY <1>1 DEF LinkDown, LinkUp, Probe, bufferVars
<1>2. ASSUME NEW m \in Message, Deliver(m) \/ DeliveryFails(m)
      PROVE  /\ \A l \in losses' : l \in losses \/ NewLoss(l)
             /\ faults' = faults /\ UNCHANGED <<link, outages>>
  BY <1>2 DEF Deliver, DeliveryFails, NewLoss, bufferVars, linkVars
<1>3. CASE Crash
  BY <1>3 DEF Crash, Fault, NewLoss
<1> QED
  BY <1>1, <1>2, <1>3

LEMMA LossesStep ==
  ASSUME TypeOK, TypeOK', LossesKnown, [Next]_vars
  PROVE  LossesKnown'
<1>1. /\ faults \in Nat /\ outages \in Nat /\ link \in BOOLEAN
  BY DEF TypeOK
<1>2. CASE UNCHANGED vars
  BY <1>2 DEF vars, LossesKnown
<1>3. CASE Next
  <2>1. /\ \A l \in losses' : l \in losses \/ NewLoss(l)
        /\ faults' \in {faults, faults + 1}
        /\ UNCHANGED <<link, outages>> \/ outages' = outages + 1 \/ (link' /\ UNCHANGED outages)
    BY <1>3, RequestLosses, BufferLosses, RetryLosses, EnvironmentLosses DEF Next
  <2>2. outages' = 0 => outages = 0 /\ link'
    BY <1>1, <2>1 DEF LossesKnown
  <2>3. faults' = 0 => faults = 0 /\ faults' = faults
    BY <1>1, <2>1
  <2>4. outages' = 0 => \A l \in losses' : l[2] # "undelivered"
    BY <1>1, <2>1, <2>2 DEF LossesKnown, NewLoss
  <2>5. faults' = 0 => \A l \in losses' : l[2] \in {"full", "undelivered"}
    BY <1>1, <2>1, <2>3 DEF LossesKnown, NewLoss
  <2> QED
    BY <2>2, <2>4, <2>5 DEF LossesKnown
<1> QED
  BY <1>2, <1>3

\* As long as nothing fails readings are lost to a full buffer and to messages
\* that time out, and without an outage none does.
THEOREM LossesInvariant == Spec => []LossesKnown
<1>1. Init => LossesKnown
  BY DEF Init, BufferInit, LossesKnown
<1> QED
  BY <1>1, LossesStep, TypeCorrect, PTL DEF Spec

\* Whatever fails and however the retry, the threads and the clean-up
\* interleave, an accepted reading is in memory, in one of the databases of
\* the buffer or in the topic, or lost; and unless something fails it is lost
\* only to a full buffer, which refused it, or to the producer in an outage.
THEOREM NothingVanishesHolds == Spec => []NothingVanishes
<1>1. ASSUME TypeOK, NoneMissing, LossesKnown PROVE NothingVanishes
  <2>1. \A l \in losses : l = <<l[1], l[2]>> /\ l[1] \in Readings
    BY <1>1 DEF TypeOK
  <2>2. ASSUME faults = 0
        PROVE  lost \subseteq LostTo("full") \union LostTo("undelivered")
    <3> SUFFICES ASSUME NEW l \in losses
                 PROVE  l[1] \in LostTo("full") \union LostTo("undelivered")
      BY DEF lost
    <3>1. l = <<l[1], l[2]>> /\ l[1] \in Readings /\ l[2] \in {"full", "undelivered"}
      BY <1>1, <2>1, <2>2 DEF LossesKnown
    <3> QED
      BY <3>1 DEF LostTo
  <2>3. outages = 0 => LostTo("undelivered") = {}
    BY <1>1 DEF LossesKnown, LostTo
  <2> QED
    BY <1>1, <2>2, <2>3 DEF NothingVanishes, NoneMissing, Accounted
<1> QED
  BY <1>1, SafekeepingInvariant, LossesInvariant, TypeCorrect, PTL
-----------------------------------------------------------------------------
(* The buffer stays near its bound *)

\* Cardinality counts only finite sets.
FiniteStores == IsFiniteSet(rows) /\ IsFiniteSet(points)

Bounded == FiniteStores /\ NearlyBounded

LEMMA StoringFinite ==
  /\ IsFiniteSet(Storing) /\ Cardinality(Storing) \in Nat
  /\ Cardinality(Workers) \in Nat
  /\ \A w \in Workers \ Storing : Cardinality(Storing) <= Cardinality(Workers) - 1
<1>1. IsFiniteSet(Workers) /\ Storing \subseteq Workers
  BY WorkersAssumption DEF Storing
<1>2. IsFiniteSet(Storing) /\ Cardinality(Storing) \in Nat /\ Cardinality(Workers) \in Nat
  BY <1>1, FS_Subset, FS_CardinalityType
<1>3. ASSUME NEW w \in Workers \ Storing
      PROVE  Cardinality(Storing) <= Cardinality(Workers) - 1
  <2>1. IsFiniteSet(Workers \ {w}) /\ Cardinality(Workers \ {w}) = Cardinality(Workers) - 1
    BY <1>1, FS_RemoveElement
  <2>2. Storing \in SUBSET (Workers \ {w})
    BY <1>1, <1>3
  <2> QED
    BY <2>1, <2>2, FS_Subset
<1> QED
  BY <1>2, <1>3

\* What one worker's step does to the set of those about to insert.
LEMMA StoringStep ==
  ASSUME TypeOK, NEW w \in Workers, NEW t, task' = [task EXCEPT ![w] = t]
  PROVE  Storing' = IF t.pc \in {"point", "insert"} THEN Storing \union {w}
                                                    ELSE Storing \ {w}
BY DEF TypeOK, Storing

LEMMA StoringIdle ==
  ASSUME TypeOK, NEW w \in Workers, task' = [task EXCEPT ![w] = Idle]
  PROVE  Storing' = Storing \ {w}
BY DEF TypeOK, Storing, Idle

\* Any step after which neither set is larger.
LEMMA BoundedStep ==
  ASSUME TypeOK, TypeOK', Bounded,
         IsFiniteSet(rows'), Cardinality(rows') <= Cardinality(rows),
         Storing' \subseteq Storing, IsFiniteSet(points'), faults <= faults'
  PROVE  Bounded'
<1>1. Cardinality(Storing') \in Nat /\ Cardinality(Storing') <= Cardinality(Storing)
  BY StoringFinite, FS_Subset, FS_CardinalityType
<1>2. Cardinality(rows) \in Nat /\ Cardinality(rows') \in Nat
  BY FS_CardinalityType DEF Bounded, FiniteStores
<1>3. faults \in Nat /\ faults' \in Nat /\ MaxBuffer \in Nat
  BY LimitsAssumption DEF TypeOK
<1> QED
  BY <1>1, <1>2, <1>3, StoringFinite DEF Bounded, FiniteStores, NearlyBounded

\* The same when the step deletes rows or leaves them.
LEMMA BoundedFewer ==
  ASSUME TypeOK, TypeOK', Bounded, rows' \subseteq rows, Storing' \subseteq Storing,
         UNCHANGED points, faults <= faults'
  PROVE  Bounded'
<1>1. IsFiniteSet(rows') /\ Cardinality(rows') <= Cardinality(rows)
  BY FS_Subset DEF Bounded, FiniteStores
<1> QED
  BY <1>1, BoundedStep DEF Bounded, FiniteStores

LEMMA FaultsGrow ==
  ASSUME TypeOK
  PROVE  faults <= faults /\ (Fault => faults <= faults' /\ faults' = faults + 1)
BY LimitsAssumption DEF TypeOK, Fault

LEMMA BufferBounded ==
  ASSUME TypeOK, TypeOK', Bounded, BufferStep
  PROVE  Bounded'
<1>0. /\ Cardinality(rows) \in Nat /\ Cardinality(points) \in Nat
      /\ faults \in Nat /\ MaxBuffer \in Nat
  BY FS_CardinalityType, LimitsAssumption DEF Bounded, FiniteStores, TypeOK
<1>1. CASE CleanUp
  <2>1. Storing' = Storing /\ rows' \subseteq rows /\ UNCHANGED points /\ Fault
    BY <1>1 DEF CleanUp, Delete, Storing
  <2> QED
    BY <2>1, BoundedFewer, FaultsGrow
<1>2. ASSUME NEW w \in Workers, AddStep(w) PROVE Bounded'
  <2>1. CASE (\E how : Refuse(w, how)) /\ UNCHANGED <<rows, points>> /\ faults <= faults'
    <3>1. Storing' \subseteq Storing
      BY <2>1, StoringIdle DEF Refuse
    <3> QED
      BY <2>1, <3>1, BoundedFewer
  <2>2. CASE /\ At(w, "check") /\ UNCHANGED <<rows, points>>
             /\ task' = [task EXCEPT ![w].pc = Store]
             /\ \/ TotalRecords < MaxBuffer /\ UNCHANGED faults
                \/ faults' = faults + 1
    <3>1. w \notin Storing
      BY <2>2 DEF At, Storing
    <3>2. Storing' \subseteq Storing \union {w}
      BY <2>2, StoringStep
    <3>3. IsFiniteSet(Storing \union {w}) /\ Cardinality(Storing \union {w}) = Cardinality(Storing) + 1
      BY <3>1, StoringFinite, FS_AddElement
    <3>4. Cardinality(Storing') \in Nat /\ Cardinality(Storing') <= Cardinality(Storing) + 1
      BY <3>2, <3>3, FS_Subset, FS_CardinalityType
    <3>5. Cardinality(Storing) <= Cardinality(Workers) - 1
      BY <3>1, StoringFinite
    <3>6. CASE faults' = faults + 1
      BY <1>0, <2>2, <3>4, <3>6, StoringFinite DEF Bounded, FiniteStores, NearlyBounded
    <3>7. CASE TotalRecords < MaxBuffer /\ UNCHANGED faults
      <4>1. Cardinality(rows) < MaxBuffer
        BY <1>0, <3>7 DEF TotalRecords
      <4> QED
        BY <1>0, <2>2, <3>4, <3>5, <3>7, <4>1, StoringFinite
           DEF Bounded, FiniteStores, NearlyBounded
    <3> QED
      BY <2>2, <3>6, <3>7
  <2>3. CASE CheckCapacity(w) \/ CheckFails(w)
    BY <2>1, <2>2, <2>3, FaultsGrow DEF CheckCapacity, CheckFails
  <2>4. CASE InsertPoint(w)
    <3>1. w \in Storing
      BY <2>4 DEF InsertPoint, At, Storing
    <3>2. Storing' \subseteq Storing
      BY <2>4, <3>1, StoringStep DEF InsertPoint
    <3>3. IsFiniteSet(points')
      BY <2>4, FS_AddElement DEF InsertPoint, Bounded, FiniteStores
    <3> QED
      BY <1>0, <2>4, <3>2, <3>3, BoundedStep, FaultsGrow
         DEF InsertPoint, Bounded, FiniteStores
  <2>5. CASE PointFails(w) \/ InsertRowFails(w)
    BY <2>1, <2>5, FaultsGrow DEF PointFails, InsertRowFails
  <2>6. CASE InsertRow(w)
    <3> DEFINE x == [reading |-> task[w].reading, form |-> task[w].form, retries |-> 0]
               kept == Without(task[w].reading)
    <3>1. w \in Storing
      BY <2>6 DEF InsertRow, At, Storing
    <3>2. Storing' = Storing \ {w}
      BY <2>6, StoringIdle DEF InsertRow
    <3>3. Cardinality(Storing') = Cardinality(Storing) - 1
      BY <3>1, <3>2, StoringFinite, FS_RemoveElement
    <3>4. rows' = kept \union {x} /\ kept \subseteq rows
      BY <2>6 DEF InsertRow, Without
    <3> HIDE DEF x, kept
    <3>5. IsFiniteSet(kept) /\ Cardinality(kept) \in Nat /\ Cardinality(kept) <= Cardinality(rows)
      BY <3>4, FS_Subset, FS_CardinalityType DEF Bounded, FiniteStores
    <3>8. /\ IsFiniteSet(kept \union {x})
          /\ Cardinality(kept \union {x}) = IF x \in kept THEN Cardinality(kept)
                                                         ELSE Cardinality(kept) + 1
      BY <3>5, FS_AddElement
    <3>6. /\ IsFiniteSet(rows') /\ Cardinality(rows') \in Nat
          /\ Cardinality(rows') <= Cardinality(rows) + 1
      BY <1>0, <3>4, <3>5, <3>8
    <3>7. UNCHANGED <<points, faults>>
      BY <2>6 DEF InsertRow
    <3> QED
      BY <1>0, <3>3, <3>6, <3>7, StoringFinite DEF Bounded, FiniteStores, NearlyBounded
  <2> QED
    BY <1>2, <2>3, <2>4, <2>5, <2>6 DEF AddStep
<1> QED
  BY <1>1, <1>2 DEF BufferStep

LEMMA RequestBounded ==
  ASSUME TypeOK, TypeOK', Bounded,
         \/ \E r \in Readings : Ingest(r)
         \/ Route \/ ClearBuffer
         \/ \E w \in Threads : PublishToKafka(w)
  PROVE  Bounded'
<1> USE LoopAssumption
<1>1. UNCHANGED points /\ rows' \subseteq rows /\ faults <= faults'
  BY FaultsGrow DEF Ingest, Route, ClearBuffer, Delete, PublishToKafka
<1>2. Storing' \subseteq Storing
  <2>1. ASSUME NEW w \in Workers, NEW t, task' = [task EXCEPT ![w] = t],
               t.pc \notin {"point", "insert"}
        PROVE  Storing' \subseteq Storing
    BY <2>1, StoringStep
  <2>2. ASSUME NEW w \in Workers, NEW r, AddRecord(w, r) PROVE Storing' \subseteq Storing
    BY <2>1, <2>2 DEF AddRecord
  <2>3. ASSUME NEW r \in Readings, Ingest(r) PROVE Storing' \subseteq Storing
    BY <2>1, <2>3 DEF Ingest
  <2>4. CASE Route
    BY <2>1, <2>2, <2>4 DEF Route, Idle
  <2>5. CASE ClearBuffer
    BY <2>5 DEF ClearBuffer, Storing
  <2>6. ASSUME NEW w \in Threads, PublishToKafka(w) PROVE Storing' \subseteq Storing
    BY <2>2, <2>6 DEF PublishToKafka, Threads
  <2> QED
    BY <2>3, <2>4, <2>5, <2>6
<1> QED
  BY <1>1, <1>2, BoundedFewer

LEMMA RetryBounded ==
  ASSUME TypeOK, TypeOK', Bounded, RetryStep
  PROVE  Bounded'
<1> USE LoopAssumption
<1>1. UNCHANGED points /\ faults <= faults'
  BY FaultsGrow
     DEF RetryStep, StartRetry, RetrySend, RetrySendFails, RetryFlush, RetryMarkSent,
         RetryMarkFailed, RetryMarkIgnored
<1>2. task'[Loop].pc \notin {"point", "insert"}
  <2>1. CASE RetrySend
    BY <2>1 DEF RetrySend, TypeOK
  <2>2. CASE RetrySendFails
    BY <2>2 DEF RetrySendFails, TypeOK
  <2>3. CASE RetryFlush
    <3>1. task[Loop] \in InHand
      BY <2>3, PcType DEF RetryFlush
    <3> QED
      BY <2>3, <3>1 DEF RetryFlush, InHand, TypeOK
  <2>4. ASSUME NEW todo, Continue(todo) PROVE task'[Loop].pc \notin {"point", "insert"}
    BY <2>4 DEF Continue, Idle, TypeOK
  <2> QED
    BY <2>1, <2>2, <2>3, <2>4
       DEF RetryStep, StartRetry, RetryMarkSent, RetryMarkFailed, RetryMarkIgnored
<1>6. \A w \in Workers \ {Loop} : task'[w] = task[w]
  BY DEF RetryStep, StartRetry, RetrySend, RetrySendFails, RetryFlush, RetryMarkSent,
         RetryMarkFailed, RetryMarkIgnored, Continue, TypeOK
<1>3. Storing' \subseteq Storing
  BY <1>2, <1>6 DEF Storing
<1>4. CASE RetryMarkFailed
  <2> DEFINE r == task[Loop].row.reading
             f == [x \in rows |-> IF x.reading = r THEN [x EXCEPT !.retries = @ + 1] ELSE x]
  <2>1. rows' = {f[x] : x \in rows}
    BY <1>4 DEF RetryMarkFailed, MarkFailed
  <2> HIDE DEF f
  <2>2. f \in Surjection(rows, rows')
    <3>1. f = [x \in rows |-> f[x]]
      BY DEF f
    <3> QED
      BY <2>1, <3>1 DEF Surjection
  <2>3. IsFiniteSet(rows') /\ Cardinality(rows') <= Cardinality(rows)
    BY <2>2, FS_Surjection DEF Bounded, FiniteStores
  <2> QED
    BY <1>1, <1>3, <2>3, BoundedStep DEF Bounded, FiniteStores
<1>5. CASE ~RetryMarkFailed
  <2>1. rows' \subseteq rows
    BY <1>5
       DEF RetryStep, StartRetry, RetrySend, RetrySendFails, RetryFlush, RetryMarkSent,
           RetryMarkIgnored, MarkSent, Without
  <2> QED
    BY <1>1, <1>3, <2>1, BoundedFewer
<1> QED
  BY <1>4, <1>5

LEMMA EnvironmentBounded ==
  ASSUME TypeOK, TypeOK', Bounded,
         \/ LinkDown \/ LinkUp \/ Probe \/ Crash
         \/ \E m \in Message : Deliver(m) \/ DeliveryFails(m)
  PROVE  Bounded'
<1>1. UNCHANGED <<rows, points>> /\ faults <= faults'
  BY FaultsGrow DEF LinkDown, LinkUp, Probe, Crash, Deliver, DeliveryFails, bufferVars
<1>2. Storing' \subseteq Storing
  <2>1. CASE Crash
    BY <2>1 DEF Crash, Storing, Idle
  <2>2. CASE ~Crash
    <3>1. UNCHANGED task
      BY <2>2 DEF LinkDown, LinkUp, Probe, Deliver, DeliveryFails, bufferVars
    <3> QED
      BY <3>1 DEF Storing
  <2> QED
    BY <2>1, <2>2
<1> QED
  BY <1>1, <1>2, BoundedFewer

\* With any number of threads between the capacity check and the insert, the
\* buffer holds at most one record too many for each of the others, and one
\* for each fault.
THEOREM NearlyBoundedHolds == Spec => []NearlyBounded
<1>1. Init => Bounded
  <2> SUFFICES ASSUME Init PROVE Bounded
    OBVIOUS
  <2>1. rows = {} /\ points = {} /\ faults = 0 /\ Storing = {}
    BY DEF Init, BufferInit, Storing, Idle
  <2>2. Cardinality(Workers) \in Nat \ {0} /\ MaxBuffer \in Nat
    BY WorkersAssumption, LimitsAssumption, FS_CardinalityType, FS_EmptySet
  <2> QED
    BY <2>1, <2>2, FS_EmptySet DEF Bounded, FiniteStores, NearlyBounded
<1>2. TypeOK /\ TypeOK' /\ Bounded /\ [Next]_vars => Bounded'
  <2> SUFFICES ASSUME TypeOK, TypeOK', Bounded, [Next]_vars PROVE Bounded'
    OBVIOUS
  <2>1. CASE UNCHANGED vars
    BY <2>1 DEF vars, Bounded, FiniteStores, NearlyBounded, Storing
  <2>2. CASE Next
    BY <2>2, BufferBounded, RequestBounded, RetryBounded, EnvironmentBounded DEF Next
  <2> QED
    BY <2>1, <2>2
<1>3. Bounded => NearlyBounded
  BY DEF Bounded
<1> QED
  BY <1>1, <1>2, <1>3, TypeCorrect, PTL DEF Spec

-----------------------------------------------------------------------------
(* Every send is paid for: by a post of the reading, or by a fault         *)

OneIf(b) == IF b THEN 1 ELSE 0

Bears(t, r) == t \in Adding \union Routing /\ t.reading = r

\* The workers that are on the way to the buffer with reading r.
Bearers(r) == {w \in Workers : Bears(task[w], r)}

\* The retry has sent r and has not said so yet; it is still going to send r.
Sending(t, r) == t.pc \in {"flush", "mark"} /\ t.row.reading = r

ToSend(t, r) ==
  t.pc \in {"retry", "flush", "mark", "failed"} /\ \E x \in t.todo : x.reading = r

\* The claims on a further send of r, besides those of the workers.
Waiting(r) == OneIf(r \in background)

RowKept(r) == OneIf(~Sending(task[Loop], r) /\ (r \in Held \/ ToSend(task[Loop], r)))

OneRowEach(S) == \A x, y \in S : x.reading = y.reading => x = y

InTurn ==
  /\ OneRowEach(rows)
  /\ task[Loop] \in Between \union InHand => OneRowEach(task[Loop].todo)
  /\ task[Loop] \in InHand =>
       \A x \in task[Loop].todo : x.reading # task[Loop].row.reading

PaidFor ==
  \A r \in Readings :
    sends[r] + Cardinality(Bearers(r)) + Waiting(r) + RowKept(r) <= posts[r] + faults

Paid == InTurn /\ PaidFor

LEMMA PaidTypes ==
  ASSUME TypeOK, NEW r \in Readings
  PROVE  /\ sends[r] \in Nat /\ posts[r] \in Nat /\ faults \in Nat
         /\ IsFiniteSet(Bearers(r)) /\ Cardinality(Bearers(r)) \in Nat
         /\ Waiting(r) \in {0, 1} /\ RowKept(r) \in {0, 1}
<1>1. IsFiniteSet(Bearers(r)) /\ Cardinality(Bearers(r)) \in Nat
  <2>1. Bearers(r) \subseteq Workers
    BY DEF Bearers
  <2> QED
    BY <2>1, WorkersAssumption, FS_Subset, FS_CardinalityType
<1> QED
  BY <1>1 DEF TypeOK, Waiting, RowKept, OneIf

Countable ==
  \A r \in Readings :
    /\ sends[r] \in Nat /\ posts[r] \in Nat /\ faults \in Nat
    /\ Cardinality(Bearers(r)) \in Nat /\ Waiting(r) \in {0, 1} /\ RowKept(r) \in {0, 1}

LEMMA CountableNow == TypeOK => Countable
BY PaidTypes DEF Countable

LEMMA CountableNext == TypeOK' => Countable'
BY CountableNow, PTL

LEMMA BearersStep ==
  ASSUME TypeOK, NEW w \in Workers, NEW t, task' = [task EXCEPT ![w] = t], NEW r \in Readings
  PROVE  Cardinality(Bearers(r)') =
           Cardinality(Bearers(r)) - OneIf(Bears(task[w], r)) + OneIf(Bears(t, r))
<1>1. /\ task'[w] = t /\ \A v \in Workers \ {w} : task'[v] = task[v]
  BY DEF TypeOK
<1>2. IsFiniteSet(Bearers(r)) /\ Cardinality(Bearers(r)) \in Nat
  BY PaidTypes
<1> DEFINE others == Bearers(r) \ {w}
<1>3. /\ IsFiniteSet(others)
      /\ Cardinality(others) = Cardinality(Bearers(r)) - OneIf(Bears(task[w], r))
      /\ w \notin others
  <2>1. w \in Bearers(r) <=> Bears(task[w], r)
    BY DEF Bearers
  <2>2. CASE w \in Bearers(r)
    BY <1>2, <2>1, <2>2, FS_RemoveElement DEF OneIf
  <2>3. CASE w \notin Bearers(r)
    <3>1. others = Bearers(r)
      BY <2>3
    <3> QED
      BY <1>2, <2>1, <2>3, <3>1 DEF OneIf
  <2> QED
    BY <2>2, <2>3
<1>4. Cardinality(others) \in Nat
  BY <1>3, FS_CardinalityType
<1>5. Bearers(r)' = IF Bears(t, r) THEN others \union {w} ELSE others
  <2>1. ASSUME NEW v \in Workers
        PROVE  v \in Bearers(r)' <=> (v \in others \/ (v = w /\ Bears(t, r)))
    BY <1>1 DEF Bearers
  <2>2. Bearers(r)' \subseteq Workers /\ others \subseteq Workers
    BY DEF Bearers
  <2> QED
    BY <2>1, <2>2
<1> HIDE DEF others
<1>6. Cardinality(others \union {w}) = Cardinality(others) + 1
  BY <1>3, <1>4, FS_AddElement
<1> QED
  BY <1>2, <1>3, <1>4, <1>5, <1>6 DEF OneIf

\* Workers that carry nothing and workers at the retry bear no reading.
LEMMA TaskKinds ==
  /\ \A t \in {Idle} \union Between \union InHand : \A r : ~Bears(t, r)
  /\ \A t \in {Idle} \union Adding \union Routing :
       /\ t \notin Between \union InHand
       /\ \A r : ~Sending(t, r) /\ ~ToSend(t, r)
BY DEF Idle, Between, InHand, Adding, Routing, Bears, Sending, ToSend

LEMMA PaidStep ==
  ASSUME TypeOK, TypeOK', Paid, InTurn',
         \A r \in Readings :
           \/ /\ sends'[r] = sends[r] /\ posts'[r] = posts[r]
              /\ Cardinality(Bearers(r)') + Waiting(r)' + RowKept(r)' + faults
                   <= Cardinality(Bearers(r)) + Waiting(r) + RowKept(r) + faults'
           \/ /\ sends'[r] = sends[r] /\ posts'[r] = posts[r] + 1 /\ faults' = faults
              /\ Cardinality(Bearers(r)') + Waiting(r)' + RowKept(r)'
                   <= Cardinality(Bearers(r)) + Waiting(r) + RowKept(r) + 1
           \/ /\ sends'[r] = sends[r] + 1 /\ posts'[r] = posts[r] /\ faults' = faults
              /\ Cardinality(Bearers(r)') + Waiting(r)' + RowKept(r)' + 1
                   <= Cardinality(Bearers(r)) + Waiting(r) + RowKept(r)
  PROVE  Paid'
<1> SUFFICES ASSUME NEW r \in Readings
             PROVE  sends'[r] + Cardinality(Bearers(r)') + Waiting(r)' + RowKept(r)'
                      <= posts'[r] + faults'
  BY DEF Paid, PaidFor
<1>1. /\ sends[r] \in Nat /\ posts[r] \in Nat /\ faults \in Nat
      /\ Cardinality(Bearers(r)) \in Nat /\ Waiting(r) \in {0, 1} /\ RowKept(r) \in {0, 1}
  BY PaidTypes
<1>2. /\ sends'[r] \in Nat /\ posts'[r] \in Nat /\ faults' \in Nat
      /\ Cardinality(Bearers(r)') \in Nat /\ Waiting(r)' \in {0, 1} /\ RowKept(r)' \in {0, 1}
  BY CountableNext DEF Countable
<1>3. sends[r] + Cardinality(Bearers(r)) + Waiting(r) + RowKept(r) <= posts[r] + faults
  BY DEF Paid, PaidFor
<1> QED
  BY <1>1, <1>2, <1>3

\* A step of a worker that is not at the retry and leaves the rows alone.
LEMMA WorkerTurn ==
  ASSUME TypeOK, InTurn, UNCHANGED rows, NEW w \in Workers,
         NEW t \in {Idle} \union Adding \union Routing,
         task' = [task EXCEPT ![w] = t],
         task[w] \in {Idle} \union Adding \union Routing
  PROVE  InTurn' /\ \A r : RowKept(r)' = RowKept(r)
<1>1. task'[w] = t /\ \A v \in Workers \ {w} : task'[v] = task[v]
  BY DEF TypeOK
<1>2. \/ task'[Loop] = task[Loop]
      \/ /\ task[Loop] \in {Idle} \union Adding \union Routing
         /\ task'[Loop] \in {Idle} \union Adding \union Routing
  BY <1>1, LoopAssumption
<1>3. \A r : /\ Sending(task'[Loop], r) <=> Sending(task[Loop], r)
             /\ ToSend(task'[Loop], r) <=> ToSend(task[Loop], r)
  BY <1>2, TaskKinds
<1>4. Held' = Held
  BY DEF Held
<1>5. \A r : RowKept(r)' = RowKept(r)
  BY <1>3, <1>4 DEF RowKept
<1>6. InTurn'
  BY <1>2, TaskKinds DEF InTurn
<1> QED
  BY <1>5, <1>6

\* Rows leave the buffer while no task changes.
LEMMA FewerRowsPaid ==
  ASSUME TypeOK, TypeOK', Paid, rows' \subseteq rows,
         UNCHANGED <<task, background, sends, posts>>, faults <= faults'
  PROVE  Paid'
<1>1. Held' \subseteq Held
  BY DEF Held
<1>2. InTurn'
  BY DEF Paid, InTurn, OneRowEach
<1>3. ASSUME NEW r \in Readings
      PROVE  /\ Cardinality(Bearers(r)') = Cardinality(Bearers(r))
             /\ Waiting(r)' = Waiting(r) /\ RowKept(r)' <= RowKept(r)
  <2>1. Bearers(r)' = Bearers(r) /\ Waiting(r)' = Waiting(r)
    BY DEF Bearers, Waiting
  <2>2. RowKept(r)' <= RowKept(r)
    BY <1>1 DEF RowKept, OneIf
  <2> QED
    BY <2>1, <2>2
<1>4. ASSUME NEW r \in Readings
      PROVE  Cardinality(Bearers(r)') + Waiting(r)' + RowKept(r)' + faults
               <= Cardinality(Bearers(r)) + Waiting(r) + RowKept(r) + faults'
  BY <1>3, CountableNow, CountableNext DEF Countable
<1> QED
  BY <1>2, <1>4, PaidStep

\* A worker that is not at the retry leaves the rows alone, and sheds its
\* reading, passes it on to itself, or takes one that was waiting or posted.
LEMMA WorkerPaid ==
  ASSUME TypeOK, TypeOK', Paid, UNCHANGED <<rows, sends>>, faults <= faults',
         NEW w \in Workers, NEW t \in {Idle} \union Adding \union Routing,
         task' = [task EXCEPT ![w] = t],
         task[w] \in {Idle} \union Adding \union Routing,
         \A r \in Readings :
           \/ /\ posts'[r] = posts[r]
              /\ OneIf(Bears(t, r)) + Waiting(r)' <= OneIf(Bears(task[w], r)) + Waiting(r)
           \/ /\ posts'[r] = posts[r] + 1 /\ faults' = faults
              /\ OneIf(Bears(t, r)) + Waiting(r)' <= OneIf(Bears(task[w], r)) + Waiting(r) + 1
  PROVE  Paid'
<1>1. InTurn' /\ \A r : RowKept(r)' = RowKept(r)
  BY WorkerTurn DEF Paid
<1>2. ASSUME NEW r \in Readings
      PROVE  Cardinality(Bearers(r)') =
               Cardinality(Bearers(r)) - OneIf(Bears(task[w], r)) + OneIf(Bears(t, r))
  BY BearersStep
<1>3. \A b : OneIf(b) \in {0, 1}
  BY DEF OneIf
<1>4. ASSUME NEW r \in Readings
      PROVE  \/ /\ sends'[r] = sends[r] /\ posts'[r] = posts[r]
                /\ Cardinality(Bearers(r)') + Waiting(r)' + RowKept(r)' + faults
                     <= Cardinality(Bearers(r)) + Waiting(r) + RowKept(r) + faults'
             \/ /\ sends'[r] = sends[r] /\ posts'[r] = posts[r] + 1 /\ faults' = faults
                /\ Cardinality(Bearers(r)') + Waiting(r)' + RowKept(r)'
                     <= Cardinality(Bearers(r)) + Waiting(r) + RowKept(r) + 1
  <2>1. /\ OneIf(Bears(task[w], r)) \in {0, 1} /\ OneIf(Bears(t, r)) \in {0, 1}
        /\ Cardinality(Bearers(r)) \in Nat /\ Waiting(r) \in {0, 1} /\ RowKept(r) \in {0, 1}
        /\ Waiting(r)' \in {0, 1} /\ faults \in Nat /\ faults' \in Nat
        /\ RowKept(r)' = RowKept(r)
    BY <1>1, <1>3, CountableNow, CountableNext DEF Countable
  <2> QED
    BY <1>2, <2>1
<1> QED
  BY <1>1, <1>4, PaidStep

\* InsertRow: the reading of the worker becomes, or replaces, a row.
LEMMA InsertPaid ==
  ASSUME TypeOK, TypeOK', Paid, NEW w \in Workers, InsertRow(w),
         UNCHANGED <<background, sends, posts, faults>>
  PROVE  Paid'
<1> DEFINE a == task[w].reading
           x == [reading |-> a, form |-> task[w].form, retries |-> 0]
<1>1. /\ task[w] \in Adding /\ task' = [task EXCEPT ![w] = Idle]
      /\ rows' = Without(a) \union {x} /\ x.reading = a
  BY PcType DEF InsertRow
<1>2. a \in Readings /\ Bears(task[w], a) /\ \A r : Bears(task[w], r) => r = a
  BY <1>1, TaskFields DEF Bears
<1>3. \A r : r # a => (r \in Held' <=> r \in Held)
  BY <1>1 DEF Held, Without
<1>4. OneRowEach(rows')
  BY <1>1 DEF Paid, InTurn, OneRowEach, Without
<1> HIDE DEF a, x
<1>5. task'[w] = Idle /\ \A v \in Workers \ {w} : task'[v] = task[v]
  BY <1>1 DEF TypeOK
<1>6. \/ task'[Loop] = task[Loop]
      \/ task[Loop] \in Adding /\ task'[Loop] = Idle
  BY <1>1, <1>5, LoopAssumption
<1>7. InTurn'
  BY <1>4, <1>6, TaskKinds DEF Paid, InTurn
<1>8. \A r : /\ Sending(task'[Loop], r) <=> Sending(task[Loop], r)
             /\ ToSend(task'[Loop], r) <=> ToSend(task[Loop], r)
  BY <1>6, TaskKinds
<1>9. \A r : r # a => RowKept(r)' = RowKept(r)
  BY <1>3, <1>8 DEF RowKept
<1>10. ASSUME NEW r \in Readings
       PROVE  Cardinality(Bearers(r)') + Waiting(r)' + RowKept(r)' + faults
                <= Cardinality(Bearers(r)) + Waiting(r) + RowKept(r) + faults'
  <2>1. Cardinality(Bearers(r)') =
          Cardinality(Bearers(r)) - OneIf(Bears(task[w], r)) + OneIf(Bears(Idle, r))
    BY <1>1, BearersStep
  <2>2. OneIf(Bears(Idle, r)) = 0 /\ OneIf(Bears(task[w], r)) = IF r = a THEN 1 ELSE 0
    BY <1>2, TaskKinds DEF OneIf
  <2>3. /\ Cardinality(Bearers(r)) \in Nat /\ Waiting(r) \in {0, 1} /\ RowKept(r) \in {0, 1}
        /\ RowKept(r)' \in {0, 1} /\ faults \in Nat
    BY CountableNow, CountableNext DEF Countable
  <2>4. Waiting(r)' = Waiting(r)
    BY DEF Waiting
  <2> QED
    BY <1>9, <2>1, <2>2, <2>3, <2>4
<1> QED
  BY <1>7, <1>10, PaidStep

LEMMA BufferPaid ==
  ASSUME TypeOK, TypeOK', Paid, BufferStep
  PROVE  Paid'
<1>0. UNCHANGED <<background, sends, posts>>
  BY DEF BufferStep, ingestVars, kafkaVars
<1>1. CASE CleanUp
  <2>1. rows' \subseteq rows /\ UNCHANGED task /\ Fault
    BY <1>1 DEF CleanUp, Delete
  <2> QED
    BY <1>0, <2>1, FewerRowsPaid, FaultsGrow
<1>2. ASSUME NEW w \in Workers, AddStep(w) PROVE Paid'
  <2>1. ASSUME NEW t \in {Idle} \union Adding, task' = [task EXCEPT ![w] = t],
               task[w] \in Adding, t = Idle \/ t.reading = task[w].reading,
               UNCHANGED rows, faults <= faults'
        PROVE  Paid'
    <3>1. \A r : Bears(t, r) => Bears(task[w], r)
      BY <2>1, TaskKinds DEF Bears
    <3>2. \A r : Waiting(r)' = Waiting(r)
      BY <1>0 DEF Waiting
    <3>3. \A r \in Readings : /\ posts'[r] = posts[r]
                              /\ OneIf(Bears(t, r)) + Waiting(r)'
                                   <= OneIf(Bears(task[w], r)) + Waiting(r)
      BY <1>0, <3>1, <3>2, CountableNow DEF OneIf, Countable
    <3> QED
      BY <1>0, <2>1, <3>3, WorkerPaid
  <2>2. CASE InsertRow(w)
    BY <1>0, <2>2, InsertPaid DEF InsertRow
  <2>3. CASE task[w] \in Adding /\ (\E how : Refuse(w, how)) /\ UNCHANGED rows /\ faults <= faults'
    BY <2>1, <2>3 DEF Refuse
  <2>4. CASE /\ task[w] \in Adding /\ UNCHANGED rows /\ faults <= faults'
             /\ task' = [task EXCEPT ![w].pc = Store]
    <3> DEFINE t == [task[w] EXCEPT !.pc = Store]
    <3>1. t \in Adding /\ t.reading = task[w].reading /\ task' = [task EXCEPT ![w] = t]
      BY <2>4 DEF Adding, Store
    <3> HIDE DEF t
    <3> QED
      BY <2>1, <2>4, <3>1
  <2>5. CASE CheckCapacity(w) \/ CheckFails(w)
    <3>1. task[w] \in Adding
      BY <2>5, PcType DEF CheckCapacity, CheckFails
    <3> QED
      BY <2>3, <2>4, <2>5, <3>1, FaultsGrow DEF CheckCapacity, CheckFails
  <2>6. CASE PointFails(w) \/ InsertRowFails(w)
    <3>1. task[w] \in Adding
      BY <2>6, PcType DEF PointFails, InsertRowFails
    <3> QED
      BY <2>3, <2>6, <3>1, FaultsGrow DEF PointFails, InsertRowFails
  <2>7. CASE InsertPoint(w)
    <3>1. task[w] \in Adding
      BY <2>7, PcType DEF InsertPoint
    <3> DEFINE t == [task[w] EXCEPT !.pc = "insert", !.form = "stub"]
    <3>2. t \in Adding /\ t.reading = task[w].reading
      BY <3>1 DEF Adding, Form
    <3>3. task' = [task EXCEPT ![w] = t]
      BY <2>7 DEF InsertPoint
    <3>4. UNCHANGED rows /\ faults <= faults'
      BY <2>7, FaultsGrow DEF InsertPoint
    <3> HIDE DEF t
    <3> QED
      BY <2>1, <3>1, <3>2, <3>3, <3>4
  <2> QED
    BY <1>2, <2>2, <2>5, <2>6, <2>7 DEF AddStep
<1> QED
  BY <1>1, <1>2 DEF BufferStep

LEMMA RequestPaid ==
  ASSUME TypeOK, TypeOK', Paid,
         \/ \E r \in Readings : Ingest(r)
         \/ Route \/ ClearBuffer
         \/ \E w \in Threads : PublishToKafka(w)
  PROVE  Paid'
<1> USE LoopAssumption
<1>1. ASSUME NEW a \in Readings, Ingest(a) PROVE Paid'
  <2> DEFINE t == [pc |-> "route", reading |-> a]
  <2>1. t \in Routing /\ \A r : Bears(t, r) => r = a
    BY DEF Routing, Bears
  <2>2. /\ task' = [task EXCEPT ![Loop] = t] /\ task[Loop] = Idle
        /\ posts' = [posts EXCEPT ![a] = @ + 1]
        /\ UNCHANGED <<rows, faults, background, sends>>
    BY <1>1 DEF Ingest, kafkaVars, lost
  <2> HIDE DEF t
  <2>3. \A r : Waiting(r)' = Waiting(r)
    BY <2>2 DEF Waiting
  <2>4. ASSUME NEW r \in Readings
        PROVE  \/ /\ posts'[r] = posts[r]
                  /\ OneIf(Bears(t, r)) + Waiting(r)' <= OneIf(Bears(task[Loop], r)) + Waiting(r)
               \/ /\ posts'[r] = posts[r] + 1 /\ faults' = faults
                  /\ OneIf(Bears(t, r)) + Waiting(r)' <= OneIf(Bears(task[Loop], r)) + Waiting(r) + 1
    <3>1. posts'[r] = IF r = a THEN posts[r] + 1 ELSE posts[r]
      BY <2>2 DEF TypeOK
    <3>2. Waiting(r) \in {0, 1} /\ posts[r] \in Nat
      BY CountableNow DEF Countable
    <3> QED
      BY <2>1, <2>2, <2>3, <3>1, <3>2 DEF OneIf
  <2> QED
    BY <2>1, <2>2, <2>4, WorkerPaid, FaultsGrow
<1>2. CASE Route
  <2>1. task[Loop] \in Routing
    BY <1>2, PcType DEF Route
  <2> DEFINE a == task[Loop].reading
             t == [pc |-> "check", reading |-> a, form |-> "full"]
  <2>2. a \in Readings /\ Bears(task[Loop], a)
    BY <2>1, TaskFields DEF Bears
  <2>3. t \in Adding /\ \A r : Bears(t, r) => r = a
    BY <2>2 DEF Adding, Form, Bears
  <2>4. /\ UNCHANGED <<rows, faults, posts, sends>>
        /\ \/ task' = [task EXCEPT ![Loop] = t] /\ UNCHANGED background
           \/ task' = [task EXCEPT ![Loop] = Idle] /\ background' = background \union {a}
    BY <1>2 DEF Route, AddRecord, kafkaVars
  <2> HIDE DEF t, a
  <2>5. CASE task' = [task EXCEPT ![Loop] = t] /\ UNCHANGED background
    <3>1. ASSUME NEW r \in Readings
          PROVE  /\ posts'[r] = posts[r]
                 /\ OneIf(Bears(t, r)) + Waiting(r)' <= OneIf(Bears(task[Loop], r)) + Waiting(r)
      <4>1. Waiting(r)' = Waiting(r) /\ Waiting(r) \in {0, 1}
        BY <2>5, CountableNow DEF Waiting, Countable
      <4> QED
        BY <2>2, <2>3, <2>4, <4>1 DEF OneIf
    <3> QED
      BY <2>1, <2>3, <2>4, <2>5, <3>1, WorkerPaid, FaultsGrow
  <2>6. CASE task' = [task EXCEPT ![Loop] = Idle] /\ background' = background \union {a}
    <3>1. ASSUME NEW r \in Readings
          PROVE  /\ posts'[r] = posts[r]
                 /\ OneIf(Bears(Idle, r)) + Waiting(r)' <= OneIf(Bears(task[Loop], r)) + Waiting(r)
      <4>1. Waiting(r)' = (IF r = a THEN 1 ELSE Waiting(r)) /\ Waiting(r) \in {0, 1}
        BY <2>6, CountableNow DEF Waiting, Countable, OneIf
      <4>2. ~Bears(Idle, r)
        BY TaskKinds
      <4> QED
        BY <2>2, <2>4, <4>1, <4>2 DEF OneIf
    <3> QED
      BY <2>1, <2>4, <2>6, <3>1, WorkerPaid, FaultsGrow
  <2> QED
    BY <2>4, <2>5, <2>6
<1>3. CASE ClearBuffer
  <2>1. /\ rows' \subseteq rows /\ UNCHANGED task /\ Fault
        /\ UNCHANGED <<background, sends, posts>>
    BY <1>3 DEF ClearBuffer, Delete, ingestVars, kafkaVars
  <2> QED
    BY <2>1, FewerRowsPaid, FaultsGrow
<1>4. ASSUME NEW w \in Threads, PublishToKafka(w) PROVE Paid'
  <2>1. PICK a \in background : background' = background \ {a} /\ AddRecord(w, a)
    BY <1>4 DEF PublishToKafka
  <2> DEFINE t == [pc |-> "check", reading |-> a, form |-> "full"]
  <2>2. a \in Readings /\ w \in Workers
    BY DEF TypeOK, Threads
  <2>3. t \in Adding /\ \A r : Bears(t, r) => r = a
    BY <2>2 DEF Adding, Form, Bears
  <2>4. /\ task' = [task EXCEPT ![w] = t] /\ task[w] = Idle
        /\ UNCHANGED <<rows, faults, posts, sends>>
    BY <1>4, <2>1 DEF PublishToKafka, AddRecord, kafkaVars
  <2> HIDE DEF t
  <2>5. ASSUME NEW r \in Readings
        PROVE  /\ posts'[r] = posts[r]
               /\ OneIf(Bears(t, r)) + Waiting(r)' <= OneIf(Bears(task[w], r)) + Waiting(r)
    <3>1. Waiting(r)' = (IF r = a THEN 0 ELSE Waiting(r)) /\ Waiting(r) \in {0, 1}
      BY <2>1, CountableNow DEF Waiting, Countable, OneIf
    <3>2. r = a => Waiting(r) = 1
      BY <2>1 DEF Waiting, OneIf
    <3> QED
      BY <2>3, <2>4, <3>1, <3>2 DEF OneIf
  <2> QED
    BY <2>2, <2>3, <2>4, <2>5, WorkerPaid, FaultsGrow
<1> QED
  BY <1>1, <1>2, <1>3, <1>4

\* A step of the retry: no worker bears more or less than before.
LEMMA RetryTurn ==
  ASSUME TypeOK, TypeOK', Paid, InTurn', UNCHANGED <<background, posts>>,
         task[Loop] \in {Idle} \union Between \union InHand,
         NEW t \in {Idle} \union Between \union InHand, task' = [task EXCEPT ![Loop] = t],
         \A r \in Readings :
           \/ sends'[r] = sends[r] /\ RowKept(r)' + faults <= RowKept(r) + faults'
           \/ sends'[r] = sends[r] + 1 /\ faults' = faults /\ RowKept(r)' + 1 <= RowKept(r)
  PROVE  Paid'
<1>1. ASSUME NEW r \in Readings
      PROVE  Cardinality(Bearers(r)') = Cardinality(Bearers(r)) /\ Waiting(r)' = Waiting(r)
  <2>1. OneIf(Bears(t, r)) = 0 /\ OneIf(Bears(task[Loop], r)) = 0
    BY TaskKinds DEF OneIf
  <2>2. Cardinality(Bearers(r)') =
          Cardinality(Bearers(r)) - OneIf(Bears(task[Loop], r)) + OneIf(Bears(t, r))
    BY LoopAssumption, BearersStep
  <2>3. Cardinality(Bearers(r)) \in Nat
    BY CountableNow DEF Countable
  <2> QED
    BY <2>1, <2>2, <2>3 DEF Waiting
<1>2. ASSUME NEW r \in Readings
      PROVE  \/ /\ sends'[r] = sends[r] /\ posts'[r] = posts[r]
                /\ Cardinality(Bearers(r)') + Waiting(r)' + RowKept(r)' + faults
                     <= Cardinality(Bearers(r)) + Waiting(r) + RowKept(r) + faults'
             \/ /\ sends'[r] = sends[r] + 1 /\ posts'[r] = posts[r] /\ faults' = faults
                /\ Cardinality(Bearers(r)') + Waiting(r)' + RowKept(r)' + 1
                     <= Cardinality(Bearers(r)) + Waiting(r) + RowKept(r)
  <2>1. /\ Cardinality(Bearers(r)) \in Nat /\ Waiting(r) \in {0, 1} /\ RowKept(r) \in {0, 1}
        /\ RowKept(r)' \in {0, 1} /\ faults \in Nat /\ faults' \in Nat
    BY CountableNow, CountableNext DEF Countable
  <2> QED
    BY <1>1, <2>1
<1> QED
  BY <1>2, PaidStep

\* The tasks of the retry, by what they are at.
LEMMA RetryKinds ==
  /\ \A t \in Between : /\ t.pc = "retry" /\ t \notin InHand
                        /\ \A r : ~Sending(t, r) /\ (ToSend(t, r) <=> \E x \in t.todo : x.reading = r)
  /\ \A t \in InHand : /\ \A r : Sending(t, r) <=> t.pc # "failed" /\ t.row.reading = r
                       /\ \A r : ToSend(t, r) <=> \E x \in t.todo : x.reading = r
BY DEF Between, InHand, Sending, ToSend

\* Where Continue leaves the event loop.
LEMMA Continued ==
  ASSUME TypeOK, NEW todo \in SUBSET Row, Continue(todo)
  PROVE  \E t \in {Idle} \union Between :
           /\ task' = [task EXCEPT ![Loop] = t]
           /\ task'[Loop] = t
           /\ t \notin InHand
           /\ t \in Between => t.todo = todo
           /\ \A r : ~Sending(t, r) /\ (ToSend(t, r) <=> \E x \in todo : x.reading = r)
<1> DEFINE t == IF todo = {} THEN Idle ELSE [pc |-> "retry", todo |-> todo]
<1>1. task' = [task EXCEPT ![Loop] = t] /\ task'[Loop] = t
  BY LoopAssumption DEF Continue, TypeOK
<1>2. CASE todo = {}
  <2>1. t = Idle
    BY <1>2
  <2>2. Idle \notin InHand /\ Idle \notin Between
    BY DEF Idle, InHand, Between
  <2>3. \A r : ~Sending(Idle, r) /\ ~ToSend(Idle, r)
    BY TaskKinds
  <2> QED
    BY <1>1, <1>2, <2>1, <2>2, <2>3
<1>3. CASE todo # {}
  <2>1. t \in Between /\ t.todo = todo
    BY <1>3 DEF Between
  <2>2. t \notin InHand
    BY <1>3 DEF InHand
  <2>3. \A r : ~Sending(t, r)
    BY <1>3 DEF Sending
  <2>4. \A r : ToSend(t, r) <=> \E x \in todo : x.reading = r
    BY <1>3, <2>1 DEF ToSend
  <2> HIDE DEF t
  <2>5. \A r : ~Sending(t, r) /\ (ToSend(t, r) <=> \E x \in todo : x.reading = r)
    BY <2>3, <2>4, Zenon
  <2>6. t \in {Idle} \union Between
    BY <2>1
  <2> QED
    BY <1>1, <2>1, <2>2, <2>5, <2>6, Zenon
<1> QED
  BY <1>2, <1>3

LEMMA RetryPaid ==
  ASSUME TypeOK, TypeOK', Paid, RetryStep
  PROVE  Paid'
<1>0. InTurn /\ UNCHANGED <<background, posts>> /\ IsFiniteSet(Workers)
  BY WorkersAssumption
     DEF Paid, RetryStep, StartRetry, RetrySend, RetrySendFails, RetryFlush, RetryMarkSent,
         RetryMarkFailed, RetryMarkIgnored, ingestVars
<1> DEFINE u == task[Loop]
<1>1. CASE StartRetry
  <2>1. u = Idle /\ Pending \in SUBSET Row /\ Pending \subseteq rows /\ Continue(Pending)
    BY <1>1 DEF StartRetry, Pending, TypeOK
  <2>2. UNCHANGED <<rows, faults, sends>>
    BY <1>1 DEF StartRetry, kafkaVars
  <2>3. PICK t \in {Idle} \union Between :
          /\ task' = [task EXCEPT ![Loop] = t]
          /\ task'[Loop] = t
          /\ t \notin InHand
          /\ t \in Between => t.todo = Pending
          /\ \A r : ~Sending(t, r) /\ (ToSend(t, r) <=> \E x \in Pending : x.reading = r)
    BY <2>1, Continued
  <2>4. InTurn'
    BY <1>0, <2>1, <2>2, <2>3 DEF InTurn, OneRowEach
  <2>5. \A r : ToSend(t, r) => r \in Held
    BY <2>1, <2>3 DEF Held
  <2>6. Held' = Held
    BY <2>2 DEF Held
  <2>7. \A r : ~Sending(u, r) /\ ~ToSend(u, r)
    BY <2>1, TaskKinds
  <2>8. \A r \in Readings : sends'[r] = sends[r] /\ RowKept(r)' + faults <= RowKept(r) + faults'
    BY <2>2, <2>3, <2>5, <2>6, <2>7, CountableNow DEF RowKept, OneIf, Countable
  <2> QED
    BY <1>0, <2>1, <2>3, <2>4, <2>8, RetryTurn
<1>2. ASSUME NEW x \in u.todo, At(Loop, "retry"), NEW pc \in {"flush", "failed"},
             task' = [task EXCEPT ![Loop] = [pc |-> pc, row |-> x, todo |-> u.todo \ {x}]],
             UNCHANGED rows
      PROVE  \E t \in InHand :
               /\ u \in Between /\ task' = [task EXCEPT ![Loop] = t] /\ task'[Loop] = t
               /\ InTurn' /\ Held' = Held /\ x.reading \in Readings
               /\ t.pc = pc /\ t.row = x /\ t.todo \subseteq u.todo
  <2>1. u \in Between /\ u.todo \subseteq Row /\ x \in Row /\ x.reading \in Readings
    BY <1>2, LoopAssumption, PcType, TaskFields
  <2> DEFINE t == [pc |-> pc, row |-> x, todo |-> u.todo \ {x}]
  <2>2. /\ t \in InHand /\ t.pc = pc /\ t.row = x /\ t.todo = u.todo \ {x}
        /\ task' = [task EXCEPT ![Loop] = t] /\ task'[Loop] = t
    BY <1>2, <2>1, LoopAssumption DEF InHand, TypeOK
  <2> HIDE DEF t
  <2>3. OneRowEach(u.todo)
    BY <1>0, <2>1 DEF InTurn
  <2>4. OneRowEach(t.todo) /\ \A y \in t.todo : y.reading # t.row.reading
    BY <2>2, <2>3 DEF OneRowEach
  <2>5. InTurn'
    BY <1>0, <1>2, <2>2, <2>4 DEF InTurn
  <2>6. Held' = Held
    BY <1>2 DEF Held
  <2> QED
    BY <2>1, <2>2, <2>5, <2>6
<1>3. CASE RetrySend
  <2>1. PICK x \in u.todo :
          /\ sends' = [sends EXCEPT ![x.reading] = @ + 1]
          /\ task' = [task EXCEPT ![Loop] = [pc |-> "flush", row |-> x, todo |-> u.todo \ {x}]]
    BY <1>3 DEF RetrySend
  <2>2. At(Loop, "retry") /\ UNCHANGED <<rows, faults>>
    BY <1>3 DEF RetrySend
  <2>3. PICK t \in InHand :
          /\ u \in Between /\ task' = [task EXCEPT ![Loop] = t] /\ task'[Loop] = t
          /\ InTurn' /\ Held' = Held /\ x.reading \in Readings
          /\ t.pc = "flush" /\ t.row = x /\ t.todo \subseteq u.todo
    BY <1>2, <2>1, <2>2
  <2> HIDE DEF u
  <2>4. ASSUME NEW r \in Readings
        PROVE  \/ sends'[r] = sends[r] /\ RowKept(r)' + faults <= RowKept(r) + faults'
               \/ sends'[r] = sends[r] + 1 /\ faults' = faults /\ RowKept(r)' + 1 <= RowKept(r)
    <3>1. sends'[r] = IF r = x.reading THEN sends[r] + 1 ELSE sends[r]
      BY <2>1 DEF TypeOK
    <3>2. ~Sending(u, r) /\ (ToSend(u, r) <=> \E y \in u.todo : y.reading = r)
      BY <2>3, RetryKinds
    <3>3. (Sending(t, r) <=> x.reading = r) /\ (ToSend(t, r) => ToSend(u, r))
      BY <2>3, <3>2, RetryKinds
    <3>4. faults \in Nat
      BY CountableNow DEF Countable
    <3>5. CASE r = x.reading
      <4>1. ToSend(u, r)
        BY <3>2, <3>5
      <4> QED
        BY <2>2, <2>3, <3>1, <3>2, <3>3, <3>4, <3>5, <4>1 DEF RowKept, OneIf, u
    <3>6. CASE r # x.reading
      BY <2>2, <2>3, <3>1, <3>2, <3>3, <3>4, <3>6 DEF RowKept, OneIf, u
    <3> QED
      BY <3>5, <3>6
  <2> QED
    BY <1>0, <2>3, <2>4, RetryTurn DEF u
\* A fault pays for whatever the rest of the step leaves to be sent.
<1>4. ASSUME Fault, UNCHANGED sends
      PROVE  \A r \in Readings : sends'[r] = sends[r] /\ RowKept(r)' + faults <= RowKept(r) + faults'
  <2>1. faults' = faults + 1
    BY <1>4 DEF Fault
  <2> QED
    BY <1>4, <2>1, CountableNow, CountableNext DEF Countable
<1>5. CASE RetrySendFails
  <2>1. PICK x \in u.todo :
          task' = [task EXCEPT ![Loop] = [pc |-> "failed", row |-> x, todo |-> u.todo \ {x}]]
    BY <1>5 DEF RetrySendFails
  <2>2. At(Loop, "retry") /\ Fault /\ UNCHANGED <<rows, sends>>
    BY <1>5 DEF RetrySendFails, kafkaVars
  <2>3. PICK t \in InHand :
          /\ u \in Between /\ task' = [task EXCEPT ![Loop] = t] /\ task'[Loop] = t
          /\ InTurn' /\ Held' = Held /\ x.reading \in Readings
          /\ t.pc = "failed" /\ t.row = x /\ t.todo \subseteq u.todo
    BY <1>2, <2>1, <2>2
  <2> QED
    BY <1>0, <1>4, <2>2, <2>3, RetryTurn
<1>6. CASE RetryFlush
  <2>1. u \in InHand /\ u.pc = "flush" /\ task' = [task EXCEPT ![Loop].pc = "mark"]
    BY <1>6, LoopAssumption, PcType DEF RetryFlush, At
  <2>2. UNCHANGED <<rows, faults, sends>>
    BY <1>6 DEF RetryFlush, kafkaVars
  <2> DEFINE t == [u EXCEPT !.pc = "mark"]
  <2>3. /\ t \in InHand /\ t.pc = "mark" /\ t.todo = u.todo /\ t.row = u.row
        /\ task' = [task EXCEPT ![Loop] = t] /\ task'[Loop] = t
    BY <2>1, LoopAssumption DEF InHand, TypeOK
  <2> HIDE DEF t
  <2>4. InTurn'
    BY <1>0, <2>1, <2>2, <2>3 DEF InTurn
  <2>5. \A r : (Sending(t, r) <=> Sending(u, r)) /\ (ToSend(t, r) <=> ToSend(u, r))
    BY <2>1, <2>3, RetryKinds
  <2>6. Held' = Held
    BY <2>2 DEF Held
  <2>7. \A r : RowKept(r)' = RowKept(r)
    BY <2>3, <2>5, <2>6 DEF RowKept
  <2>8. \A r \in Readings : sends'[r] = sends[r] /\ RowKept(r)' + faults <= RowKept(r) + faults'
    BY <2>2, <2>7, CountableNow DEF Countable
  <2> QED
    BY <1>0, <2>1, <2>3, <2>4, <2>8, RetryTurn
<1>7. ASSUME At(Loop, "mark") \/ At(Loop, "failed"), Continue(u.todo), OneRowEach(rows')
      PROVE  \E t \in {Idle} \union Between :
               /\ u \in InHand /\ task' = [task EXCEPT ![Loop] = t]
               /\ task'[Loop] = t /\ InTurn'
               /\ \A r : ~Sending(t, r) /\ (ToSend(t, r) <=> ToSend(u, r))
               /\ ~ToSend(u, u.row.reading)
  <2>1. u \in InHand /\ u.todo \in SUBSET Row
    BY <1>7, LoopAssumption, PcType, TaskFields
  <2>2. PICK t \in {Idle} \union Between :
          /\ task' = [task EXCEPT ![Loop] = t]
          /\ task'[Loop] = t
          /\ t \notin InHand
          /\ t \in Between => t.todo = u.todo
          /\ \A r : ~Sending(t, r) /\ (ToSend(t, r) <=> \E x \in u.todo : x.reading = r)
    BY <1>7, <2>1, Continued
  <2>3. OneRowEach(u.todo) /\ \A x \in u.todo : x.reading # u.row.reading
    BY <1>0, <2>1 DEF InTurn
  <2>4. InTurn'
    BY <1>7, <2>2, <2>3 DEF InTurn
  <2>5. \A r : ToSend(u, r) <=> \E x \in u.todo : x.reading = r
    BY <2>1, RetryKinds
  <2> QED
    BY <2>1, <2>2, <2>3, <2>4, <2>5
<1>8. CASE RetryMarkSent
  <2> DEFINE a == u.row.reading
  <2>1. /\ At(Loop, "mark") /\ Continue(u.todo) /\ rows' = Without(a)
        /\ UNCHANGED <<faults, sends>>
    BY <1>8 DEF RetryMarkSent, MarkSent, kafkaVars
  <2>2. OneRowEach(rows')
    BY <1>0, <2>1 DEF InTurn, OneRowEach, Without
  <2>3. PICK t \in {Idle} \union Between :
          /\ u \in InHand /\ task' = [task EXCEPT ![Loop] = t]
          /\ task'[Loop] = t /\ InTurn'
          /\ \A r : ~Sending(t, r) /\ (ToSend(t, r) <=> ToSend(u, r))
          /\ ~ToSend(u, u.row.reading)
    BY <1>7, <2>1, <2>2
  <2>4. \A r : r \in Held' <=> r \in Held /\ r # a
    BY <2>1 DEF Held, Without
  <2>5. \A r : Sending(u, r) <=> r = a
    BY <2>1, <2>3, RetryKinds DEF At
  <2>6. ASSUME NEW r \in Readings PROVE RowKept(r)' <= RowKept(r)
    BY <2>3, <2>4, <2>5 DEF RowKept, OneIf
  <2>7. \A r \in Readings : sends'[r] = sends[r] /\ RowKept(r)' + faults <= RowKept(r) + faults'
    BY <2>1, <2>6, CountableNow, CountableNext DEF Countable
  <2> QED
    BY <1>0, <2>3, <2>7, RetryTurn
<1>9. CASE RetryMarkFailed
  <2> DEFINE a == u.row.reading
             f == [x \in rows |-> IF x.reading = a THEN [x EXCEPT !.retries = @ + 1] ELSE x]
  <2>1. /\ At(Loop, "failed") /\ Continue(u.todo) /\ rows' = {f[x] : x \in rows}
        /\ UNCHANGED <<faults, sends>>
    BY <1>9 DEF RetryMarkFailed, MarkFailed, kafkaVars
  <2>2. \A x \in rows : f[x].reading = x.reading
    <3> SUFFICES ASSUME NEW x \in rows PROVE f[x].reading = x.reading
      OBVIOUS
    <3>1. x \in Row
      BY DEF TypeOK
    <3> QED
      BY <3>1 DEF Row
  <2> HIDE DEF f
  <2>3. OneRowEach(rows')
    <3>1. OneRowEach(rows)
      BY <1>0 DEF InTurn
    <3> QED
      BY <2>1, <2>2, <3>1 DEF OneRowEach
  <2>4. PICK t \in {Idle} \union Between :
          /\ u \in InHand /\ task' = [task EXCEPT ![Loop] = t]
          /\ task'[Loop] = t /\ InTurn'
          /\ \A r : ~Sending(t, r) /\ (ToSend(t, r) <=> ToSend(u, r))
          /\ ~ToSend(u, u.row.reading)
    BY <1>7, <2>1, <2>3
  <2>5. \A r : r \in Held' <=> r \in Held
    BY <2>1, <2>2 DEF Held
  <2>6. \A r : ~Sending(u, r)
    BY <2>1, <2>4, RetryKinds DEF At
  <2>7. \A r \in Readings : RowKept(r)' = RowKept(r)
    BY <2>4, <2>5, <2>6 DEF RowKept
  <2>8. \A r \in Readings : sends'[r] = sends[r] /\ RowKept(r)' + faults <= RowKept(r) + faults'
    BY <2>1, <2>7, CountableNow DEF Countable
  <2> QED
    BY <1>0, <2>4, <2>8, RetryTurn
<1>10. CASE RetryMarkIgnored
  <2>1. /\ At(Loop, "mark") \/ At(Loop, "failed")
        /\ Fault /\ Continue(u.todo)
        /\ UNCHANGED <<rows, sends>>
    BY <1>10 DEF RetryMarkIgnored, kafkaVars
  <2>2. OneRowEach(rows')
    BY <1>0, <2>1 DEF InTurn
  <2>3. PICK t \in {Idle} \union Between :
          /\ u \in InHand /\ task' = [task EXCEPT ![Loop] = t]
          /\ task'[Loop] = t /\ InTurn'
          /\ \A r : ~Sending(t, r) /\ (ToSend(t, r) <=> ToSend(u, r))
          /\ ~ToSend(u, u.row.reading)
    BY <1>7, <2>1, <2>2
  <2> QED
    BY <1>0, <1>4, <2>1, <2>3, RetryTurn
<1> HIDE DEF u
<1> QED
  BY <1>1, <1>3, <1>5, <1>6, <1>8, <1>9, <1>10 DEF RetryStep

LEMMA EnvironmentPaid ==
  ASSUME TypeOK, TypeOK', Paid,
         \/ LinkDown \/ LinkUp \/ Probe \/ Crash
         \/ \E m \in Message : Deliver(m) \/ DeliveryFails(m)
  PROVE  Paid'
<1>1. CASE Crash
  <2>1. /\ rows' = rows /\ task' = [w \in Workers |-> Idle] /\ background' = {}
        /\ UNCHANGED <<posts, sends>> /\ faults' = faults + 1
    BY <1>1 DEF Crash, Fault
  <2>2. task'[Loop] = Idle /\ \A w \in Workers : task'[w] = Idle
    BY <2>1, LoopAssumption
  <2>3. InTurn'
    BY <2>1, <2>2, TaskKinds DEF Paid, InTurn
  <2>4. ASSUME NEW r \in Readings
        PROVE  Cardinality(Bearers(r)') = 0 /\ Waiting(r)' = 0
    <3>1. Bearers(r)' = {}
      BY <2>2, TaskKinds DEF Bearers
    <3> QED
      BY <2>1, <3>1, FS_EmptySet DEF Waiting, OneIf
  <2>5. ASSUME NEW r \in Readings
        PROVE  Cardinality(Bearers(r)') + Waiting(r)' + RowKept(r)' + faults
                 <= Cardinality(Bearers(r)) + Waiting(r) + RowKept(r) + faults'
    BY <2>1, <2>4, CountableNow, CountableNext DEF Countable
  <2> QED
    BY <2>1, <2>3, <2>5, PaidStep
<1>2. CASE ~Crash
  <2>1. UNCHANGED <<rows, task, background, sends, posts, faults>>
    BY <1>2 DEF LinkDown, LinkUp, Probe, Deliver, DeliveryFails, bufferVars, ingestVars, kafkaVars
  <2> QED
    BY <2>1, FewerRowsPaid, FaultsGrow
<1> QED
  BY <1>1, <1>2

\* What is on its way to a send, in a worker's hands, waiting for a thread,
\* in the buffer or in the retry's hands, has a post or a fault to pay for it,
\* and each send uses one up.
THEOREM PaidInvariant == Spec => []Paid
<1>1. Init => Paid
  <2> SUFFICES ASSUME Init PROVE Paid
    OBVIOUS
  <2>1. /\ rows = {} /\ background = {} /\ faults = 0 /\ task[Loop] = Idle
        /\ \A w \in Workers : task[w] = Idle
        /\ \A r \in Readings : sends[r] = 0 /\ posts[r] = 0
    BY LoopAssumption DEF Init, BufferInit
  <2>2. InTurn
    BY <2>1, TaskKinds DEF InTurn, OneRowEach
  <2>3. ASSUME NEW r \in Readings
        PROVE  Cardinality(Bearers(r)) = 0 /\ Waiting(r) = 0 /\ RowKept(r) = 0
    <3>1. Bearers(r) = {} /\ r \notin Held
      BY <2>1, TaskKinds DEF Bearers, Held
    <3>2. ~ToSend(task[Loop], r)
      BY <2>1, TaskKinds
    <3> QED
      BY <2>1, <3>1, <3>2, FS_EmptySet DEF Waiting, RowKept, OneIf
  <2> QED
    BY <2>1, <2>2, <2>3 DEF Paid, PaidFor
<1>2. TypeOK /\ TypeOK' /\ Paid /\ [Next]_vars => Paid'
  <2> SUFFICES ASSUME TypeOK, TypeOK', Paid, [Next]_vars PROVE Paid'
    OBVIOUS
  <2>1. CASE UNCHANGED vars
    <3>1. UNCHANGED <<rows, task, background, sends, posts, faults>>
      BY <2>1 DEF vars
    <3> QED
      BY <3>1, FewerRowsPaid, FaultsGrow
  <2>2. CASE Next
    BY <2>2, BufferPaid, RequestPaid, RetryPaid, EnvironmentPaid DEF Next
  <2> QED
    BY <2>1, <2>2
<1> QED
  BY <1>1, <1>2, TypeCorrect, PTL DEF Spec

\* A reading is sent at most once for each time it was posted and each fault,
\* however threads, retries, outages and crashes fall between the calls.
THEOREM ResendOnlyAfterFaultHolds == Spec => []ResendOnlyAfterFault
<1>1. TypeOK /\ Paid => ResendOnlyAfterFault
  <2> SUFFICES ASSUME TypeOK, Paid, NEW r \in Readings PROVE sends[r] <= posts[r] + faults
    BY DEF ResendOnlyAfterFault
  <2>1. sends[r] + Cardinality(Bearers(r)) + Waiting(r) + RowKept(r) <= posts[r] + faults
    BY DEF Paid, PaidFor
  <2> QED
    BY <2>1, CountableNow DEF Countable
<1> QED
  BY <1>1, PaidInvariant, TypeCorrect, PTL

=============================================================================
