------------------------- MODULE DisconnectedProofs -------------------------
(***************************************************************************)
(* Theorems about DisconnectedOperation for all sensors, every LIMIT of a  *)
(* pass, with and without targets for the monitor, and every bound.        *)
(***************************************************************************)
EXTENDS DisconnectedOperation, SequenceTheorems, FiniteSetTheorems, TLAPS

-----------------------------------------------------------------------------
(* Sequences of jobs *)

\* What GoOn leaves: another first element, the rest as it was.
LEMMA NewHead ==
  ASSUME NEW S, NEW s \in Seq(S), s # <<>>, NEW e \in S
  PROVE  /\ <<e>> \o Tail(s) \in Seq(S)
         /\ <<e>> \o Tail(s) # <<>>
         /\ Head(<<e>> \o Tail(s)) = e
         /\ Len(<<e>> \o Tail(s)) = Len(s)
         /\ \A i \in 2 .. Len(s) : (<<e>> \o Tail(s))[i] = s[i]
<1> DEFINE r == <<e>> \o Tail(s)
<1>1. /\ Tail(s) \in Seq(S)
      /\ Len(Tail(s)) = Len(s) - 1
      /\ \A i \in 1 .. Len(Tail(s)) : Tail(s)[i] = s[i + 1]
  BY HeadTailProperties
<1>2. <<e>> \in Seq(S) /\ Len(<<e>>) = 1 /\ <<e>>[1] = e
  OBVIOUS
<1>3. /\ r \in Seq(S)
      /\ Len(r) = 1 + Len(Tail(s))
      /\ \A i \in 1 .. Len(r) :
           r[i] = IF i <= 1 THEN <<e>>[i] ELSE Tail(s)[i - 1]
  BY <1>1, <1>2, ConcatProperties
<1>4. Len(s) \in Nat
  BY LenProperties
<1> HIDE DEF r
<1>5. Len(r) = Len(s) /\ Len(r) > 0 /\ r[1] = e
  BY <1>1, <1>2, <1>3, <1>4, EmptySeq
<1>6. r # <<>> /\ Head(r) = r[1]
  BY <1>3, <1>5
<1>7. \A i \in 2 .. Len(s) : r[i] = s[i]
  <2> TAKE i \in 2 .. Len(s)
  <2>1. i - 1 \in 1 .. Len(Tail(s)) /\ i \in 1 .. Len(r) /\ ~(i <= 1)
    BY <1>1, <1>4, <1>5
  <2>2. r[i] = Tail(s)[i - 1]
    BY <1>3, <2>1
  <2>3. Tail(s)[i - 1] = s[(i - 1) + 1]
    BY <1>1, <2>1
  <2> QED BY <2>2, <2>3
<1> QED BY <1>3, <1>5, <1>6, <1>7 DEF r

\* What Done leaves.
LEMMA DropHead ==
  ASSUME NEW S, NEW s \in Seq(S), s # <<>>
  PROVE  /\ Tail(s) \in Seq(S)
         /\ Len(Tail(s)) = Len(s) - 1
         /\ \A i \in 1 .. Len(s) - 1 : Tail(s)[i] = s[i + 1]
         /\ Tail(s) # <<>> => Len(s) \in Nat /\ Len(s) >= 2 /\ Head(Tail(s)) = s[2]
<1>1. /\ Tail(s) \in Seq(S)
      /\ Len(Tail(s)) = Len(s) - 1
      /\ \A i \in 1 .. Len(Tail(s)) : Tail(s)[i] = s[i + 1]
  BY HeadTailProperties
<1>2. Len(s) \in Nat
  BY LenProperties
<1>3. ASSUME Tail(s) # <<>>
      PROVE  Len(s) >= 2 /\ Head(Tail(s)) = s[2]
  <2>1. Len(Tail(s)) > 0
    BY <1>1, <1>3, EmptySeq
  <2>2. 1 \in 1 .. Len(Tail(s))
    BY <1>1, <1>2, <2>1
  <2>3. Tail(s)[1] = s[1 + 1]
    BY <1>1, <2>2
  <2>4. Head(Tail(s)) = Tail(s)[1]
    BY <1>1, <2>1
  <2> QED BY <1>1, <1>2, <2>1, <2>3, <2>4
<1> QED BY <1>1, <1>2, <1>3

-----------------------------------------------------------------------------
(* Type correctness *)

JobsType == jobs \in [Threads -> Seq(Job)]

\* A pass at its UPDATE is what the thread is at, never what it has yet to do.
OnlyHead ==
  \A t \in Threads : \A i \in 2 .. Len(jobs[t]) : jobs[t][i].op # "mark"

LEMMA JobFields ==
  ASSUME NEW job \in Job
  PROVE  /\ job.op \in {"record", "check", "select", "mark"}
         /\ job.table \in Tables
         /\ job.op = "record" => job.id \in Ids
         /\ job.op = "mark" => job.batch \subseteq Row
BY DEF Job

LEMMA HeadIsJob ==
  ASSUME JobsType, NEW t \in Threads, ~Idle(t)
  PROVE  jobs[t] \in Seq(Job) /\ jobs[t] # <<>> /\ Head(jobs[t]) \in Job
<1>1. jobs[t] \in Seq(Job) /\ jobs[t] # <<>>
  BY DEF JobsType, Idle
<1> QED BY <1>1, HeadTailProperties

\* The jobs after GoOn: one thread has another head, which may be a pass at its
\* UPDATE, and all else is as it was.
LEMMA GoOnJobs ==
  ASSUME JobsType, NEW t \in Threads, ~Idle(t), NEW job \in Job, GoOn(t, job)
  PROVE  /\ JobsType'
         /\ jobs'[t] # <<>> /\ Head(jobs'[t]) = job
         /\ \A u \in Threads \ {t} : jobs'[u] = jobs[u]
         /\ OnlyHead => OnlyHead'
<1>1. jobs[t] \in Seq(Job) /\ jobs[t] # <<>>
  BY HeadIsJob
<1> DEFINE r == <<job>> \o Tail(jobs[t])
<1>2. /\ r \in Seq(Job) /\ r # <<>> /\ Head(r) = job /\ Len(r) = Len(jobs[t])
      /\ \A i \in 2 .. Len(jobs[t]) : r[i] = jobs[t][i]
  BY <1>1, NewHead
<1>3. jobs' = [jobs EXCEPT ![t] = r]
  BY DEF GoOn
<1> HIDE DEF r
<1>4. jobs' \in [Threads -> Seq(Job)] /\ jobs'[t] = r
  BY <1>2, <1>3 DEF JobsType
<1>5. \A u \in Threads \ {t} : jobs'[u] = jobs[u]
  BY <1>3 DEF JobsType
<1>6. ASSUME OnlyHead PROVE OnlyHead'
  BY <1>2, <1>4, <1>5, <1>6 DEF OnlyHead
<1> QED BY <1>2, <1>4, <1>5, <1>6 DEF JobsType

\* The jobs after Done: what the thread comes to is not a pass at its UPDATE.
LEMMA DoneJobs ==
  ASSUME JobsType, NEW t \in Threads, ~Idle(t), Done(t)
  PROVE  /\ JobsType'
         /\ \A u \in Threads \ {t} : jobs'[u] = jobs[u]
         /\ OnlyHead =>
              OnlyHead' /\ ~(jobs'[t] # <<>> /\ Head(jobs'[t]).op = "mark")
<1>1. jobs[t] \in Seq(Job) /\ jobs[t] # <<>>
  BY HeadIsJob
<1> DEFINE r == Tail(jobs[t])
<1>2. /\ r \in Seq(Job) /\ Len(r) = Len(jobs[t]) - 1
      /\ \A i \in 1 .. Len(jobs[t]) - 1 : r[i] = jobs[t][i + 1]
      /\ r # <<>> => Len(jobs[t]) >= 2 /\ Head(r) = jobs[t][2]
  BY <1>1, DropHead
<1>3. Len(jobs[t]) \in Nat
  BY <1>1, LenProperties
<1>4. jobs' = [jobs EXCEPT ![t] = r]
  BY DEF Done
<1> HIDE DEF r
<1>5. jobs' \in [Threads -> Seq(Job)] /\ jobs'[t] = r
  BY <1>2, <1>4 DEF JobsType
<1>6. \A u \in Threads \ {t} : jobs'[u] = jobs[u]
  BY <1>4 DEF JobsType
<1>7. ASSUME OnlyHead
      PROVE  OnlyHead' /\ ~(r # <<>> /\ Head(r).op = "mark")
  <2>1. \A i \in 2 .. Len(r) : r[i].op # "mark"
    <3> TAKE i \in 2 .. Len(r)
    <3>1. i \in 1 .. Len(jobs[t]) - 1 /\ i + 1 \in 2 .. Len(jobs[t])
      BY <1>2, <1>3
    <3> QED BY <1>2, <1>7, <3>1 DEF OnlyHead
  <2>2. r # <<>> => Head(r).op # "mark"
    <3> SUFFICES ASSUME r # <<>> PROVE Head(r).op # "mark"
      OBVIOUS
    <3>1. 2 \in 2 .. Len(jobs[t])
      BY <1>2, <1>3
    <3> QED BY <1>2, <1>7, <3>1 DEF OnlyHead
  <2> QED BY <1>5, <1>6, <1>7, <2>1, <2>2 DEF OnlyHead
<1> QED BY <1>5, <1>6, <1>7 DEF JobsType

\* The jobs after a thread without work has got both tables to look after.
LEMMA BothTablesJobs ==
  ASSUME JobsType, NEW t \in Threads, jobs' = [jobs EXCEPT ![t] = BothTables]
  PROVE  /\ JobsType'
         /\ \A u \in Threads \ {t} : jobs'[u] = jobs[u]
         /\ OnlyHead =>
              OnlyHead' /\ ~(jobs'[t] # <<>> /\ Head(jobs'[t]).op = "mark")
<1>1. /\ BothTables \in Seq(Job) /\ Len(BothTables) = 2
      /\ BothTables[1].op = "check" /\ BothTables[2].op = "check"
      /\ Head(BothTables).op = "check"
  BY DEF BothTables, Job, Tables
<1>2. jobs' \in [Threads -> Seq(Job)] /\ jobs'[t] = BothTables
  BY <1>1 DEF JobsType
<1>3. \A u \in Threads \ {t} : jobs'[u] = jobs[u]
  BY DEF JobsType
<1>4. \A i \in 2 .. 2 : BothTables[i].op # "mark"
  BY <1>1
<1>5. OnlyHead => OnlyHead'
  BY <1>1, <1>2, <1>3, <1>4 DEF OnlyHead
<1> QED BY <1>1, <1>2, <1>3, <1>5 DEF JobsType

\* The jobs after a request with its rows yet to be recorded.
LEMMA AnalyzeJobs ==
  ASSUME JobsType, second \in 0 .. MaxSecond, Analyze
  PROVE  /\ JobsType'
         /\ \A u \in Threads \ {"api"} : jobs'[u] = jobs[u]
         /\ OnlyHead =>
              OnlyHead' /\ ~(jobs'["api"] # <<>> /\ Head(jobs'["api"]).op = "mark")
<1>1. PICK table \in Tables, n \in 1 .. MaxItems :
        \E sensors \in [1 .. n -> Sensors] :
          jobs' = [jobs EXCEPT !["api"] =
            [i \in 1 .. n |-> [op |-> "record", table |-> table,
                               id |-> <<second', sensors[i]>>]]]
  BY ZenonT(60) DEF Analyze
<1>s. PICK sensors \in [1 .. n -> Sensors] :
        jobs' = [jobs EXCEPT !["api"] =
          [i \in 1 .. n |-> [op |-> "record", table |-> table,
                             id |-> <<second', sensors[i]>>]]]
  BY <1>1
<1> DEFINE r == [i \in 1 .. n |-> [op |-> "record", table |-> table,
                                   id |-> <<second', sensors[i]>>]]
<1>2. second' \in 0 .. MaxSecond
  BY BoundsAssumption DEF Analyze
<1>3. \A i \in 1 .. n : r[i] \in Job /\ r[i].op = "record"
  BY <1>2 DEF Job, Ids
<1>4. n \in Nat /\ n >= 1
  BY BoundsAssumption
<1>5. r \in Seq(Job) /\ Len(r) = n
  <2>1. r \in [1 .. n -> Job]
    BY <1>3
  <2> HIDE DEF r
  <2> QED BY <1>4, <2>1
<1>6. jobs' = [jobs EXCEPT !["api"] = r]
  BY <1>s
<1> HIDE DEF r
<1>7. "api" \in Threads
  BY DEF Threads
<1>8. jobs' \in [Threads -> Seq(Job)] /\ jobs'["api"] = r
  BY <1>5, <1>6, <1>7 DEF JobsType
<1>9. \A u \in Threads \ {"api"} : jobs'[u] = jobs[u]
  BY <1>6 DEF JobsType
<1>10. Head(r) = r[1] /\ 1 \in 1 .. n
  BY <1>4, <1>5
<1>11. \A i \in 2 .. Len(r) : r[i].op # "mark"
  BY <1>3, <1>4, <1>5
<1>12. OnlyHead => OnlyHead'
  BY <1>8, <1>9, <1>11 DEF OnlyHead
<1> QED BY <1>3, <1>8, <1>9, <1>10, <1>12 DEF JobsType

LEMMA ResetJobs ==
  ASSUME jobs' = [t \in Threads |-> <<>>]
  PROVE  JobsType' /\ OnlyHead' /\ \A t \in Threads : jobs'[t] = <<>>
<1>1. \A t \in Threads : jobs'[t] = <<>> /\ jobs'[t] \in Seq(Job) /\ Len(jobs'[t]) = 0
  BY EmptySeq
<1>2. jobs' \in [Threads -> Seq(Job)]
  BY <1>1
<1> QED BY <1>1, <1>2 DEF JobsType, OnlyHead

\* The row a pass marks is a row still.
LEMMA SyncedRow ==
  ASSUME NEW x \in Row
  PROVE  /\ [x EXCEPT !.synced = TRUE] \in Row
         /\ [x EXCEPT !.synced = TRUE].synced
         /\ [x EXCEPT !.synced = TRUE].table = x.table
         /\ [x EXCEPT !.synced = TRUE].id = x.id
         /\ [x EXCEPT !.synced = TRUE].rec = x.rec
BY DEF Row

LEMMA TypeInit == Init => TypeOK
<1> SUFFICES ASSUME Init PROVE TypeOK
  OBVIOUS
<1>1. jobs \in [Threads -> Seq(Job)]
  BY EmptySeq DEF Init
<1>2. journal \in Seq(Tables \X Ids) /\ reads \in Seq(Nat)
  BY EmptySeq DEF Init
<1>3. isOnline \in BOOLEAN /\ news \in BOOLEAN /\ link \in BOOLEAN
  BY Zenon DEF Init
<1>4. second \in 0 .. MaxSecond /\ outages \in 0 .. MaxOutages /\ faults \in 0 .. MaxFaults
  BY BoundsAssumption DEF Init
<1>5. rows \in SUBSET Row
  BY DEF Init
<1> QED BY <1>1, <1>2, <1>3, <1>4, <1>5, Zenon DEF TypeOK

LEMMA TypeNext == TypeOK /\ [Next]_vars => TypeOK'
<1> SUFFICES ASSUME TypeOK, [Next]_vars PROVE TypeOK'
  OBVIOUS
<1>0. JobsType
  BY DEF TypeOK, JobsType
<1>f. Fault => faults' \in 0 .. MaxFaults
  BY BoundsAssumption DEF Fault, TypeOK
<1>1. CASE Analyze
  <2>1. JobsType'
    BY <1>0, <1>1, AnalyzeJobs DEF TypeOK
  <2>2. second' \in 0 .. MaxSecond
    BY <1>1, BoundsAssumption DEF Analyze, TypeOK
  <2> QED BY <1>1, <2>1, <2>2 DEF Analyze, TypeOK, JobsType, linkVars, historyVars
<1>2. CASE Record
  <2>1. ~Idle("api") /\ Head(jobs["api"]).op = "record" /\ "api" \in Threads
    BY <1>2 DEF Record, Doing, Threads
  <2> DEFINE job == Head(jobs["api"])
  <2>2. job \in Job /\ job.op = "record" /\ job.table \in Tables /\ job.id \in Ids
    BY <1>0, <2>1, HeadIsJob, JobFields
  <2>3. [op |-> "check", table |-> job.table] \in Job
    BY <2>2 DEF Job
  <2>4. GoOn("api", [op |-> "check", table |-> job.table])
    BY <1>2 DEF Record
  <2>5. JobsType'
    BY <1>0, <2>1, <2>3, <2>4, GoOnJobs
  <2>6. Len(journal) \in Nat
    BY LenProperties DEF TypeOK
  <2>7. [table |-> job.table, id |-> job.id, rec |-> Len(journal) + 1,
         synced |-> FALSE] \in Row
    BY <2>2, <2>6 DEF Row
  <2>8. rows' \in SUBSET Row
    BY <1>2, <2>7 DEF Record, TypeOK
  <2>9. journal' \in Seq(Tables \X Ids)
    <3>1. journal' = Append(journal, <<job.table, job.id>>)
      BY <1>2 DEF Record
    <3> QED BY <2>2, <3>1, AppendProperties DEF TypeOK
  <2>10. reads' \in Seq(Nat)
    <3>1. reads' = Append(reads, 0)
      BY <1>2 DEF Record
    <3> QED BY <3>1, AppendProperties DEF TypeOK
  <2> QED BY <1>2, <2>5, <2>8, <2>9, <2>10 DEF Record, TypeOK, JobsType, linkVars
<1>3. CASE RecordFails
  <2>1. JobsType'
    BY <1>0, <1>3, DoneJobs DEF RecordFails, Doing, Threads
  <2> QED BY <1>3, <1>f, <2>1 DEF RecordFails, TypeOK, JobsType, linkVars, historyVars
<1>4. CASE SyncRequest
  <2>1. JobsType'
    BY <1>0, <1>4, BothTablesJobs DEF SyncRequest, Threads
  <2> QED BY <1>4, <2>1 DEF SyncRequest, TypeOK, JobsType, linkVars, historyVars
<1>5. ASSUME NEW t \in Threads, Check(t) PROVE TypeOK'
  <2>1. ~Idle(t) /\ Head(jobs[t]) \in Job
    BY <1>0, <1>5, HeadIsJob DEF Check, Doing
  <2>2. [op |-> "select", table |-> Head(jobs[t]).table] \in Job
    BY <2>1, JobFields DEF Job
  <2>3. JobsType'
    BY <1>0, <1>5, <2>1, <2>2, GoOnJobs, DoneJobs DEF Check
  <2> QED BY <1>5, <2>3 DEF Check, TypeOK, JobsType, linkVars, historyVars
<1>6. ASSUME NEW t \in Threads, Select(t) PROVE TypeOK'
  <2>1. ~Idle(t) /\ Head(jobs[t]) \in Job
    BY <1>0, <1>6, HeadIsJob DEF Select, Doing
  <2> DEFINE table == Head(jobs[t]).table
             job == [op |-> "mark", table |-> table, batch |-> Oldest(table)]
  <2>2. job \in Job
    <3>1. Oldest(table) \subseteq Row
      BY DEF Oldest, Pending, TypeOK
    <3>2. table \in Tables
      BY <2>1, JobFields
    <3> QED BY <3>1, <3>2 DEF Job
  <2>3. Done(t) \/ GoOn(t, job)
    BY <1>6 DEF Select
  <2> HIDE DEF job
  <2>4. JobsType'
    BY <1>0, <2>1, <2>2, <2>3, GoOnJobs, DoneJobs
  <2>5. reads' \in Seq(Nat)
    <3>1. Len(reads) \in Nat /\ DOMAIN reads = 1 .. Len(reads)
          /\ reads \in [1 .. Len(reads) -> Nat]
      BY LenProperties DEF TypeOK
    <3>2. reads' = [n \in DOMAIN reads |->
             IF \E x \in Oldest(table) : x.rec = n THEN reads[n] + 1 ELSE reads[n]]
      BY <1>6 DEF Select
    <3>3. reads' \in [1 .. Len(reads) -> Nat]
      BY <3>1, <3>2
    <3> QED BY <3>1, <3>3
  <2> QED BY <1>6, <2>4, <2>5 DEF Select, TypeOK, JobsType, linkVars
<1>7. ASSUME NEW t \in Threads, Mark(t) PROVE TypeOK'
  <2>1. ~Idle(t) /\ Done(t)
    BY <1>7 DEF Mark, Doing
  <2>2. JobsType'
    BY <1>0, <2>1, DoneJobs
  <2>3. rows' \in SUBSET Row
    BY <1>7, SyncedRow DEF Mark, TypeOK
  <2> QED BY <1>7, <2>2, <2>3 DEF Mark, TypeOK, JobsType, linkVars, historyVars
<1>8. ASSUME NEW t \in Threads, PassFails(t) PROVE TypeOK'
  <2>1. ~Idle(t) /\ Done(t) /\ Fault
    BY <1>8 DEF PassFails, Doing
  <2>2. JobsType'
    BY <1>0, <2>1, DoneJobs
  <2> QED BY <1>8, <1>f, <2>1, <2>2 DEF PassFails, TypeOK, JobsType, linkVars, historyVars
<1>9. CASE Wake
  <2>1. JobsType'
    BY <1>0, <1>9, BothTablesJobs DEF Wake, Threads
  <2> QED BY <1>9, <2>1 DEF Wake, TypeOK, JobsType, linkVars, historyVars
<1>10. CASE CheckConnection
  BY <1>10 DEF CheckConnection, TypeOK, linkVars, historyVars
<1>11. CASE ConnectionChange
  <2>1. JobsType'
    <3>1. CASE isOnline
      BY <1>0, <1>11, <3>1 DEF ConnectionChange, JobsType
    <3>2. CASE ~isOnline
      BY <1>0, <1>11, <3>2, BothTablesJobs DEF ConnectionChange, Threads
    <3> QED BY <3>1, <3>2
  <2>2. isOnline' \in BOOLEAN /\ news' \in BOOLEAN
    BY <1>11, Zenon DEF ConnectionChange
  <2> QED BY <1>11, <2>1, <2>2 DEF ConnectionChange, TypeOK, JobsType, linkVars,
                                   historyVars
<1>12. CASE LinkDown
  <2>1. link' \in BOOLEAN /\ outages' \in 0 .. MaxOutages
    <3>1. outages' \in 0 .. MaxOutages
      BY <1>12, BoundsAssumption DEF LinkDown, TypeOK
    <3> QED BY <1>12, <3>1, Zenon DEF LinkDown
  <2> QED BY <1>12, <2>1 DEF LinkDown, TypeOK, historyVars
<1>13. CASE LinkUp
  BY <1>13 DEF LinkUp, TypeOK, historyVars
<1>14. CASE Restart
  <2>1. JobsType'
    BY <1>14, ResetJobs DEF Restart
  <2> QED BY <1>14, <1>f, <2>1 DEF Restart, TypeOK, JobsType, linkVars, historyVars
<1>15. CASE UNCHANGED vars
  BY <1>15 DEF vars, TypeOK
<1> QED
  BY <1>1, <1>2, <1>3, <1>4, <1>5, <1>6, <1>7, <1>8, <1>9, <1>10, <1>11, <1>12,
     <1>13, <1>14, <1>15 DEF Next, Pass

\* Every reachable state of DisconnectedOperation has the types of TypeOK.
THEOREM TypeCorrect == Spec => []TypeOK
<1>1. Init => TypeOK
  BY TypeInit
<1>2. TypeOK /\ [Next]_vars => TypeOK'
  BY TypeNext
<1> QED BY <1>1, <1>2, PTL DEF Spec

-----------------------------------------------------------------------------
(* What is marked has been read, and the oldest is read first *)

\* The rows thread t has read and is about to mark.
Batch(t) == IF Doing(t, "mark") THEN Head(jobs[t]).batch ELSE {}

\* A row is the latest recording under its id, and a recording has one row.
RowsOK ==
  /\ Len(reads) = Len(journal)
  /\ \A x \in rows :
       /\ x.rec \in 1 .. Len(journal)
       /\ journal[x.rec] = <<x.table, x.id>>
       /\ \A n \in 1 .. Len(journal) : journal[n] = <<x.table, x.id>> => n <= x.rec
  /\ \A x, y \in rows : x.rec = y.rec => x = y

\* What a thread is about to mark was unsynced when it was read.
BatchOK ==
  \A t \in Threads : \A y \in Batch(t) :
    /\ y \in Row
    /\ ~y.synced
    /\ y.table = Head(jobs[t]).table
    /\ y.rec \in 1 .. Len(journal)
    /\ journal[y.rec] = <<y.table, y.id>>
    /\ reads[y.rec] > 0

\* With a row a thread has read every older one that is still unsynced.
BatchClosed ==
  \A t \in Threads : \A y \in Batch(t) : \A x \in rows :
    x.table = y.table /\ ~x.synced /\ x.rec < y.rec => x \in Batch(t)

SyncInv ==
  /\ TypeOK
  /\ OnlyHead
  /\ RowsOK
  /\ BatchOK
  /\ BatchClosed
  /\ MarkedWasRead
  /\ OldestFirst

\* No thread has come to an UPDATE.
NoNewBatch ==
  \A t \in Threads :
    jobs'[t] = jobs[t] \/ ~(jobs'[t] # <<>> /\ Head(jobs'[t]).op = "mark")

LEMMA KeepBatches ==
  ASSUME NoNewBatch, NEW t \in Threads
  PROVE  \/ Batch(t)' = {}
         \/ Batch(t)' = Batch(t) /\ Head(jobs[t])' = Head(jobs[t])
BY DEF NoNewBatch, Batch, Doing, Idle

LEMMA RowType ==
  ASSUME TypeOK, NEW x \in rows
  PROVE  x \in Row /\ x.rec \in Nat /\ x.synced \in BOOLEAN
BY DEF TypeOK, Row

LEMMA RowsFinite ==
  ASSUME RowsOK, TypeOK
  PROVE  IsFiniteSet(rows)
<1> DEFINE f == [x \in rows |-> x.rec]
<1>1. Len(journal) \in Nat
  BY LenProperties DEF TypeOK
<1>2. IsFiniteSet(1 .. Len(journal))
  BY <1>1, FS_Interval
<1>3. f \in Injection(rows, 1 .. Len(journal))
  BY DEF RowsOK, Injection, IsInjective
<1> QED BY <1>2, <1>3, FS_Injection

\* The pending rows older than one of the oldest are among the oldest.
LEMMA OldestClosed ==
  ASSUME RowsOK, TypeOK, NEW table, NEW y \in Oldest(table), NEW x \in Pending(table),
         x.rec < y.rec
  PROVE  x \in Oldest(table)
<1> DEFINE Before(z) == {w \in Pending(table) : w.rec < z.rec}
<1>1. IsFiniteSet(Pending(table))
  BY RowsFinite, FS_Subset DEF Pending
<1>2. y \in Pending(table) /\ Cardinality(Before(y)) < Limit
  BY DEF Oldest
<1>3. IsFiniteSet(Before(y)) /\ IsFiniteSet(Before(x))
  BY <1>1, FS_Subset
<1>4. Before(x) \subseteq Before(y)
  BY <1>2, RowType DEF Pending
<1>5. /\ Cardinality(Before(x)) <= Cardinality(Before(y))
      /\ Cardinality(Before(x)) \in Nat /\ Cardinality(Before(y)) \in Nat
  BY <1>3, <1>4, FS_Subset, FS_CardinalityType
<1>6. Cardinality(Before(x)) < Limit
  BY <1>2, <1>5, LimitAssumption
<1> QED BY <1>6 DEF Oldest

\* A step that leaves tables and history alone and brings no thread to an UPDATE.
LEMMA QuietStep ==
  ASSUME SyncInv, TypeOK', OnlyHead', NoNewBatch, UNCHANGED <<rows, journal, reads>>
  PROVE  SyncInv'
<1>1. RowsOK' /\ MarkedWasRead' /\ OldestFirst'
  BY DEF SyncInv, RowsOK, MarkedWasRead, OldestFirst, Replacing
<1>2. BatchOK'
  BY KeepBatches DEF SyncInv, BatchOK
<1>3. BatchClosed'
  BY KeepBatches DEF SyncInv, BatchClosed
<1> QED BY <1>1, <1>2, <1>3 DEF SyncInv

\* INSERT OR REPLACE: the new row is the newest and its id's latest.
LEMMA RecordStep ==
  ASSUME SyncInv, TypeOK', Record
  PROVE  SyncInv'
<1> DEFINE job == Head(jobs["api"])
           new == [table |-> job.table, id |-> job.id, rec |-> Len(journal) + 1,
                   synced |-> FALSE]
           check == [op |-> "check", table |-> job.table]
<1>0. TypeOK /\ JobsType /\ OnlyHead /\ RowsOK /\ BatchOK /\ BatchClosed
      /\ MarkedWasRead /\ OldestFirst
  BY DEF SyncInv, TypeOK, JobsType
<1>1. "api" \in Threads /\ ~Idle("api")
  BY DEF Record, Doing, Threads
<1>2. job \in Job /\ job.table \in Tables /\ job.id \in Ids
  <2>1. job.op = "record"
    BY DEF Record, Doing
  <2> QED BY <1>0, <1>1, <2>1, HeadIsJob, JobFields
<1>3. /\ rows' = {x \in rows : ~(x.table = job.table /\ x.id = job.id)} \union {new}
      /\ journal' = Append(journal, <<job.table, job.id>>)
      /\ reads' = Append(reads, 0)
      /\ GoOn("api", check)
  BY DEF Record
<1>4. check \in Job /\ check.op # "mark"
  BY <1>2 DEF Job
<1>5. OnlyHead' /\ NoNewBatch
  BY <1>0, <1>1, <1>3, <1>4, GoOnJobs DEF NoNewBatch
<1>6. /\ Len(journal) \in Nat /\ Len(reads) = Len(journal)
      /\ journal \in Seq(Tables \X Ids) /\ reads \in Seq(Nat)
  BY <1>0, LenProperties DEF TypeOK, RowsOK
<1>7. /\ Len(journal') = Len(journal) + 1
      /\ \A i \in 1 .. Len(journal) : journal'[i] = journal[i]
      /\ journal'[Len(journal) + 1] = <<job.table, job.id>>
  BY <1>2, <1>3, <1>6, AppendProperties
<1>8. /\ Len(reads') = Len(reads) + 1
      /\ \A i \in 1 .. Len(reads) : reads'[i] = reads[i]
  BY <1>3, <1>6, AppendProperties
<1>9. /\ new.table = job.table /\ new.id = job.id
      /\ new.rec = Len(journal) + 1 /\ ~new.synced
  OBVIOUS
<1>10. \A x \in rows' : x = new \/ (x \in rows /\ ~(x.table = job.table /\ x.id = job.id))
  BY <1>3
<1> HIDE DEF job, new, check
<1>11. RowsOK'
  <2>1. ASSUME NEW x \in rows'
        PROVE  /\ x.rec \in 1 .. Len(journal')
               /\ journal'[x.rec] = <<x.table, x.id>>
               /\ \A n \in 1 .. Len(journal') :
                    journal'[n] = <<x.table, x.id>> => n <= x.rec
    <3>1. CASE x = new
      BY <1>6, <1>7, <1>9, <3>1
    <3>2. CASE x \in rows /\ ~(x.table = job.table /\ x.id = job.id)
      <4>1. /\ x.rec \in 1 .. Len(journal)
            /\ journal[x.rec] = <<x.table, x.id>>
            /\ \A n \in 1 .. Len(journal) :
                 journal[n] = <<x.table, x.id>> => n <= x.rec
        BY <1>0, <3>2 DEF RowsOK
      <4>2. <<job.table, job.id>> # <<x.table, x.id>>
        BY <3>2
      <4>3. ASSUME NEW n \in 1 .. Len(journal'), journal'[n] = <<x.table, x.id>>
            PROVE  n <= x.rec
        <5>1. n # Len(journal) + 1
          BY <1>7, <4>2, <4>3
        <5>2. n \in 1 .. Len(journal)
          BY <1>6, <1>7, <5>1
        <5> QED BY <1>7, <4>1, <4>3, <5>2
      <4>4. x.rec \in 1 .. Len(journal')
        BY <1>6, <1>7, <4>1
      <4>5. journal'[x.rec] = <<x.table, x.id>>
        BY <1>7, <4>1
      <4> QED BY <4>3, <4>4, <4>5
    <3> QED BY <1>10, <3>1, <3>2
  <2>2. ASSUME NEW x \in rows', NEW y \in rows', x.rec = y.rec
        PROVE  x = y
    <3>1. \A z \in rows : z.rec \in 1 .. Len(journal)
      BY <1>0 DEF RowsOK
    <3>2. x = new <=> y = new
      BY <1>6, <1>9, <1>10, <2>2, <3>1
    <3> QED BY <1>0, <1>10, <2>2, <3>2 DEF RowsOK
  <2> QED BY <1>6, <1>7, <1>8, <2>1, <2>2 DEF RowsOK
<1>12. BatchOK'
  <2> SUFFICES ASSUME NEW t \in Threads, NEW y \in Batch(t)'
               PROVE  /\ y \in Row /\ ~y.synced
                      /\ y.table = Head(jobs'[t]).table
                      /\ y.rec \in 1 .. Len(journal')
                      /\ journal'[y.rec] = <<y.table, y.id>>
                      /\ reads'[y.rec] > 0
    BY DEF BatchOK
  <2>1. Batch(t)' = Batch(t) /\ Head(jobs'[t]) = Head(jobs[t])
    BY <1>5, KeepBatches
  <2>2. /\ y \in Row /\ ~y.synced /\ y.table = Head(jobs[t]).table
        /\ y.rec \in 1 .. Len(journal)
        /\ journal[y.rec] = <<y.table, y.id>> /\ reads[y.rec] > 0
    BY <1>0, <2>1 DEF BatchOK
  <2> QED BY <1>6, <1>7, <1>8, <2>1, <2>2
<1>13. BatchClosed'
  <2> SUFFICES ASSUME NEW t \in Threads, NEW y \in Batch(t)', NEW x \in rows',
                      x.table = y.table, ~x.synced, x.rec < y.rec
               PROVE  x \in Batch(t)'
    BY DEF BatchClosed
  <2>1. Batch(t)' = Batch(t)
    BY <1>5, KeepBatches
  <2>2. y.rec \in 1 .. Len(journal)
    BY <1>0, <2>1 DEF BatchOK
  <2>3. x # new
    BY <1>6, <1>9, <2>2
  <2>4. x \in rows
    BY <1>10, <2>3
  <2> QED BY <1>0, <2>1, <2>4 DEF BatchClosed
<1>14. MarkedWasRead'
  <2> SUFFICES ASSUME NEW x \in rows', x.synced
               PROVE  \/ reads'[x.rec] > 0
                      \/ \E n \in 1 .. x.rec - 1 :
                           journal'[n] = <<x.table, x.id>> /\ reads'[n] > 0
    BY DEF MarkedWasRead
  <2>1. x \in rows
    BY <1>9, <1>10
  <2>2. x.rec \in 1 .. Len(journal)
    BY <1>0, <2>1 DEF RowsOK
  <2>3. CASE reads[x.rec] > 0
    BY <1>6, <1>8, <2>2, <2>3
  <2>4. ASSUME NEW n \in 1 .. x.rec - 1, journal[n] = <<x.table, x.id>>, reads[n] > 0
        PROVE  journal'[n] = <<x.table, x.id>> /\ reads'[n] > 0
    <3>1. n \in 1 .. Len(journal)
      BY <1>6, <2>2
    <3> QED BY <1>6, <1>7, <1>8, <2>4, <3>1
  <2> QED BY <1>0, <2>1, <2>3, <2>4 DEF MarkedWasRead
<1>15. OldestFirst'
  <2> SUFFICES ASSUME NEW x \in rows', NEW y \in rows',
                      x.table = y.table, x.rec < y.rec, y.synced, ~x.synced
               PROVE  \E n \in 1 .. y.rec - 1 : journal'[n] = <<y.table, y.id>>
    BY DEF OldestFirst, Replacing
  <2>1. y \in rows
    BY <1>9, <1>10
  <2>2. y.rec \in 1 .. Len(journal)
    BY <1>0, <2>1 DEF RowsOK
  <2>3. x # new
    BY <1>6, <1>9, <2>2
  <2>4. x \in rows
    BY <1>10, <2>3
  <2>5. PICK n \in 1 .. y.rec - 1 : journal[n] = <<y.table, y.id>>
    BY <1>0, <2>1, <2>4 DEF OldestFirst, Replacing
  <2>6. n \in 1 .. Len(journal)
    BY <1>6, <2>2
  <2> QED BY <1>7, <2>5, <2>6
<1> QED BY <1>5, <1>11, <1>12, <1>13, <1>14, <1>15 DEF SyncInv

LEMMA SameInterval ==
  ASSUME NEW a \in Nat, NEW b \in Nat, 1 .. a = 1 .. b
  PROVE  a = b
<1>1. a > 0 => a \in 1 .. b
  OBVIOUS
<1>2. b > 0 => b \in 1 .. a
  OBVIOUS
<1> QED BY <1>1, <1>2

\* SELECT: the thread has the oldest pending rows, all of them read once more.
LEMMA SelectStep ==
  ASSUME SyncInv, TypeOK', NEW t \in Threads, Select(t)
  PROVE  SyncInv'
<1> DEFINE table == Head(jobs[t]).table
           batch == Oldest(table)
           job == [op |-> "mark", table |-> table, batch |-> batch]
<1>0. TypeOK /\ JobsType /\ OnlyHead /\ RowsOK /\ BatchOK /\ BatchClosed
      /\ MarkedWasRead /\ OldestFirst
  BY DEF SyncInv, TypeOK, JobsType
<1>1. ~Idle(t)
  BY DEF Select, Doing
<1>2. job \in Job
  <2>1. batch \subseteq Row
    BY <1>0 DEF Oldest, Pending, TypeOK
  <2>2. table \in Tables
    BY <1>0, <1>1, HeadIsJob, JobFields
  <2> QED BY <2>1, <2>2 DEF Job
<1>3. job.op = "mark" /\ job.table = table /\ job.batch = batch
  OBVIOUS
<1>4. /\ rows' = rows /\ journal' = journal
      /\ reads' = [n \in DOMAIN reads |->
           IF \E x \in batch : x.rec = n THEN reads[n] + 1 ELSE reads[n]]
      /\ Done(t) \/ GoOn(t, job)
  BY DEF Select
<1>5. \A y \in batch : y \in rows /\ y.table = table /\ ~y.synced
  BY DEF Oldest, Pending
<1>6. \A y \in batch, x \in rows :
        x.table = y.table /\ ~x.synced /\ x.rec < y.rec => x \in batch
  <2> SUFFICES ASSUME NEW y \in batch, NEW x \in rows,
                      x.table = y.table, ~x.synced, x.rec < y.rec
               PROVE  x \in batch
    OBVIOUS
  <2>1. x \in Pending(table)
    BY <1>5 DEF Pending
  <2> QED BY <1>0, <2>1, OldestClosed
<1> HIDE DEF job, batch, table
<1>7. /\ OnlyHead'
      /\ \A u \in Threads \ {t} : jobs'[u] = jobs[u]
      /\ \/ ~(jobs'[t] # <<>> /\ Head(jobs'[t]).op = "mark")
         \/ jobs'[t] # <<>> /\ Head(jobs'[t]) = job
  BY <1>0, <1>1, <1>2, <1>4, GoOnJobs, DoneJobs
<1>8. /\ \A u \in Threads \ {t} : Batch(u)' = Batch(u) /\ Head(jobs'[u]) = Head(jobs[u])
      /\ Batch(t)' = {} \/ (Batch(t)' = batch /\ Head(jobs'[t]).table = table)
  BY <1>3, <1>7 DEF Batch, Doing, Idle
<1>9. /\ Len(reads) \in Nat /\ DOMAIN reads = 1 .. Len(reads)
      /\ reads \in [1 .. Len(reads) -> Nat] /\ Len(reads) = Len(journal)
  BY <1>0, LenProperties DEF TypeOK, RowsOK
<1>10. /\ Len(reads') = Len(journal)
       /\ \A n \in 1 .. Len(journal) : reads'[n] \in Nat /\ reads'[n] >= reads[n]
       /\ \A y \in batch : y.rec \in 1 .. Len(journal) => reads'[y.rec] > 0
  <2>1. reads' \in Seq(Nat) /\ Len(reads') \in Nat /\ DOMAIN reads' = 1 .. Len(reads')
    BY LenProperties DEF TypeOK
  <2>2. 1 .. Len(reads') = 1 .. Len(reads)
    BY <1>4, <1>9, <2>1
  <2>3. Len(reads') = Len(reads)
    BY <1>9, <2>1, <2>2, SameInterval
  <2>4. \A n \in 1 .. Len(journal) :
          reads'[n] = IF \E x \in batch : x.rec = n THEN reads[n] + 1 ELSE reads[n]
    BY <1>4, <1>9
  <2>5. \A n \in 1 .. Len(journal) : reads[n] \in Nat
    BY <1>9
  <2> QED BY <1>9, <2>3, <2>4, <2>5
<1>11. \A n \in 1 .. Len(journal) : reads[n] \in Nat /\ (reads[n] > 0 => reads'[n] > 0)
  BY <1>9, <1>10
<1>12. RowsOK'
  BY <1>0, <1>4, <1>10 DEF RowsOK
<1>13. BatchOK'
  <2> SUFFICES ASSUME NEW u \in Threads, NEW y \in Batch(u)'
               PROVE  /\ y \in Row /\ ~y.synced
                      /\ y.table = Head(jobs'[u]).table
                      /\ y.rec \in 1 .. Len(journal)
                      /\ journal[y.rec] = <<y.table, y.id>>
                      /\ reads'[y.rec] > 0
    BY <1>4 DEF BatchOK
  <2>1. CASE u # t
    BY <1>0, <1>8, <1>11, <2>1 DEF BatchOK
  <2>2. CASE u = t
    <3>1. y \in batch /\ Head(jobs'[u]).table = table
      BY <1>8, <2>2
    <3>2. y \in rows /\ y.table = table /\ ~y.synced
      BY <1>5, <3>1
    <3>3. y \in Row /\ y.rec \in 1 .. Len(journal) /\ journal[y.rec] = <<y.table, y.id>>
      BY <1>0, <3>2, RowType DEF RowsOK
    <3> QED BY <1>10, <3>1, <3>2, <3>3
  <2> QED BY <2>1, <2>2
<1>14. BatchClosed'
  <2> SUFFICES ASSUME NEW u \in Threads, NEW y \in Batch(u)', NEW x \in rows,
                      x.table = y.table, ~x.synced, x.rec < y.rec
               PROVE  x \in Batch(u)'
    BY <1>4 DEF BatchClosed
  <2>1. CASE u # t
    BY <1>0, <1>8, <2>1 DEF BatchClosed
  <2>2. CASE u = t
    BY <1>6, <1>8, <2>2
  <2> QED BY <2>1, <2>2
<1>15. MarkedWasRead'
  <2> SUFFICES ASSUME NEW x \in rows, x.synced
               PROVE  \/ reads'[x.rec] > 0
                      \/ \E n \in 1 .. x.rec - 1 :
                           journal[n] = <<x.table, x.id>> /\ reads'[n] > 0
    BY <1>4 DEF MarkedWasRead
  <2>1. x.rec \in 1 .. Len(journal)
    BY <1>0 DEF RowsOK
  <2>2. \A n \in 1 .. x.rec - 1 : n \in 1 .. Len(journal)
    BY <1>9, <2>1
  <2> QED BY <1>0, <1>11, <2>1, <2>2 DEF MarkedWasRead
<1>16. OldestFirst'
  BY <1>0, <1>4 DEF OldestFirst, Replacing
<1> QED BY <1>7, <1>12, <1>13, <1>14, <1>15, <1>16 DEF SyncInv

\* UPDATE: whatever is marked has an id that was read, and its row is the row
\* that was read or one that took its place since.
LEMMA MarkStep ==
  ASSUME SyncInv, TypeOK', NEW t \in Threads, Mark(t)
  PROVE  SyncInv'
<1> DEFINE job == Head(jobs[t])
           Hit(x) == x.table = job.table /\ \E y \in job.batch : y.id = x.id
           Marked(x) == [x EXCEPT !.synced = TRUE]
<1>0. TypeOK /\ JobsType /\ OnlyHead /\ RowsOK /\ BatchOK /\ BatchClosed
      /\ MarkedWasRead /\ OldestFirst
  BY DEF SyncInv, TypeOK, JobsType
<1>1. ~Idle(t) /\ Batch(t) = job.batch
  BY DEF Mark, Doing, Batch
<1>2. /\ rows' = {x \in rows : ~Hit(x)} \union {Marked(x) : x \in {z \in rows : Hit(z)}}
      /\ journal' = journal /\ reads' = reads
      /\ Done(t)
  BY DEF Mark, historyVars
<1>3. OnlyHead' /\ NoNewBatch
  BY <1>0, <1>1, <1>2, DoneJobs DEF NoNewBatch
\* A row after the UPDATE is one that was not hit or the marked form of one.
<1>4. ASSUME NEW x \in rows'
      PROVE  \E w \in rows :
               /\ x.table = w.table /\ x.id = w.id /\ x.rec = w.rec
               /\ \/ x = w /\ ~Hit(w)
                  \/ x = Marked(w) /\ x.synced /\ Hit(w)
  <2>1. CASE x \in {z \in rows : ~Hit(z)}
    BY <2>1
  <2>2. CASE x \in {Marked(z) : z \in {w \in rows : Hit(w)}}
    <3>1. PICK w \in rows : Hit(w) /\ x = Marked(w)
      BY <2>2
    <3>2. w \in Row
      BY <1>0 DEF TypeOK
    <3>3. Marked(w).synced /\ Marked(w).table = w.table /\ Marked(w).id = w.id
          /\ Marked(w).rec = w.rec
      BY <3>2, SyncedRow
    <3> QED BY <3>1, <3>3
  <2> QED BY <1>2, <2>1, <2>2
\* A row that is hit goes back to one that was read.
<1>5. ASSUME NEW w \in rows, Hit(w)
      PROVE  \E y \in Batch(t) :
               /\ y.table = w.table /\ y.id = w.id
               /\ y.rec \in 1 .. Len(journal) /\ y.rec <= w.rec
               /\ journal[y.rec] = <<w.table, w.id>> /\ reads[y.rec] > 0
  <2>1. PICK y \in job.batch : y.id = w.id
    BY <1>5
  <2>2. /\ y.table = job.table /\ y.rec \in 1 .. Len(journal)
        /\ journal[y.rec] = <<y.table, y.id>> /\ reads[y.rec] > 0
    BY <1>0, <1>1 DEF BatchOK
  <2>3. y.table = w.table
    BY <1>5, <2>2
  <2>4. y.rec <= w.rec
    BY <1>0, <2>1, <2>2, <2>3 DEF RowsOK
  <2> QED BY <1>1, <2>1, <2>2, <2>3, <2>4
<1>6. \A w \in rows : w.rec \in 1 .. Len(journal) /\ w.synced \in BOOLEAN
  BY <1>0, RowType DEF RowsOK
<1>7. Len(journal) \in Nat
  BY <1>0, LenProperties DEF TypeOK
<1> HIDE DEF Marked
<1>8. RowsOK'
  <2>1. \A x \in rows' :
          /\ x.rec \in 1 .. Len(journal)
          /\ journal[x.rec] = <<x.table, x.id>>
          /\ \A n \in 1 .. Len(journal) : journal[n] = <<x.table, x.id>> => n <= x.rec
    BY <1>0, <1>4 DEF RowsOK
  <2>2. ASSUME NEW x \in rows', NEW y \in rows', x.rec = y.rec
        PROVE  x = y
    <3>1. PICK v \in rows : /\ x.rec = v.rec
                            /\ (x = v /\ ~Hit(v)) \/ (x = Marked(v) /\ Hit(v))
      BY <1>4
    <3>2. PICK w \in rows : /\ y.rec = w.rec
                            /\ (y = w /\ ~Hit(w)) \/ (y = Marked(w) /\ Hit(w))
      BY <1>4
    <3>3. v = w
      BY <1>0, <2>2, <3>1, <3>2 DEF RowsOK
    <3> QED BY <3>1, <3>2, <3>3
  <2> QED BY <1>0, <1>2, <2>1, <2>2 DEF RowsOK
<1>9. BatchOK'
  <2> SUFFICES ASSUME NEW u \in Threads, NEW y \in Batch(u)'
               PROVE  /\ y \in Row /\ ~y.synced
                      /\ y.table = Head(jobs'[u]).table
                      /\ y.rec \in 1 .. Len(journal)
                      /\ journal[y.rec] = <<y.table, y.id>>
                      /\ reads[y.rec] > 0
    BY <1>2 DEF BatchOK
  <2>1. Batch(u)' = Batch(u) /\ Head(jobs'[u]) = Head(jobs[u])
    BY <1>3, KeepBatches
  <2> QED BY <1>0, <2>1 DEF BatchOK
<1>10. BatchClosed'
  <2> SUFFICES ASSUME NEW u \in Threads, NEW y \in Batch(u)', NEW x \in rows',
                      x.table = y.table, ~x.synced, x.rec < y.rec
               PROVE  x \in Batch(u)'
    BY DEF BatchClosed
  <2>1. Batch(u)' = Batch(u)
    BY <1>3, KeepBatches
  <2>2. x \in rows
    BY <1>4
  <2> QED BY <1>0, <2>1, <2>2 DEF BatchClosed
<1>11. MarkedWasRead'
  <2> SUFFICES ASSUME NEW x \in rows', x.synced
               PROVE  \/ reads[x.rec] > 0
                      \/ \E n \in 1 .. x.rec - 1 :
                           journal[n] = <<x.table, x.id>> /\ reads[n] > 0
    BY <1>2 DEF MarkedWasRead
  <2>1. PICK w \in rows : /\ x.table = w.table /\ x.id = w.id /\ x.rec = w.rec
                          /\ x = w \/ Hit(w)
    BY <1>4
  <2>2. CASE x = w
    BY <1>0, <2>2 DEF MarkedWasRead
  <2>3. CASE Hit(w)
    <3>1. PICK y \in Batch(t) :
            /\ y.rec \in 1 .. Len(journal) /\ y.rec <= w.rec
            /\ journal[y.rec] = <<w.table, w.id>> /\ reads[y.rec] > 0
      BY <1>5, <2>3
    <3>2. y.rec = x.rec \/ y.rec \in 1 .. x.rec - 1
      BY <1>6, <1>7, <2>1, <3>1
    <3> QED BY <2>1, <3>1, <3>2
  <2> QED BY <2>1, <2>2, <2>3
<1>12. OldestFirst'
  <2> SUFFICES ASSUME NEW x \in rows', NEW y \in rows',
                      x.table = y.table, x.rec < y.rec, y.synced, ~x.synced
               PROVE  \E n \in 1 .. y.rec - 1 : journal[n] = <<y.table, y.id>>
    BY <1>2 DEF OldestFirst, Replacing
  <2>1. x \in rows /\ ~Hit(x)
    BY <1>4
  <2>2. PICK w \in rows : /\ y.table = w.table /\ y.id = w.id /\ y.rec = w.rec
                          /\ y = w \/ Hit(w)
    BY <1>4
  <2>3. CASE y = w
    BY <1>0, <2>1, <2>3 DEF OldestFirst, Replacing
  <2>4. CASE Hit(w)
    <3>1. PICK z \in Batch(t) :
            /\ z.table = w.table /\ z.id = w.id
            /\ z.rec \in 1 .. Len(journal) /\ z.rec <= w.rec
            /\ journal[z.rec] = <<w.table, w.id>>
      BY <1>5, <2>4, ZenonT(60)
    <3>2. CASE z.rec = w.rec
      <4>1. x \in Batch(t)
        BY <1>0, <2>1, <2>2, <3>1, <3>2 DEF BatchClosed
      <4>2. x.table = job.table
        BY <2>2, <2>4
      <4>3. Hit(x)
        BY <1>1, <4>1, <4>2
      <4> QED BY <2>1, <4>3
    <3>3. CASE z.rec # w.rec
      <4>1. z.rec \in 1 .. y.rec - 1
        BY <1>6, <1>7, <2>2, <3>1, <3>3
      <4> QED BY <2>2, <3>1, <4>1
    <3> QED BY <3>2, <3>3
  <2> QED BY <2>2, <2>3, <2>4
<1> QED BY <1>3, <1>8, <1>9, <1>10, <1>11, <1>12 DEF SyncInv

LEMMA SyncInit == Init => SyncInv
<1> SUFFICES ASSUME Init PROVE SyncInv
  OBVIOUS
<1>1. TypeOK
  BY TypeInit
<1>2. \A t \in Threads : jobs[t] = <<>> /\ Len(jobs[t]) = 0
  BY EmptySeq DEF Init
<1>3. OnlyHead /\ BatchOK /\ BatchClosed
  BY <1>2 DEF OnlyHead, BatchOK, BatchClosed, Batch, Doing, Idle
<1>4. RowsOK /\ MarkedWasRead /\ OldestFirst
  BY DEF Init, RowsOK, MarkedWasRead, OldestFirst
<1> QED BY <1>1, <1>3, <1>4 DEF SyncInv

LEMMA SyncNext == SyncInv /\ [Next]_vars => SyncInv'
<1> SUFFICES ASSUME SyncInv, [Next]_vars PROVE SyncInv'
  OBVIOUS
<1>0. TypeOK /\ JobsType /\ OnlyHead /\ second \in 0 .. MaxSecond
  BY DEF SyncInv, TypeOK, JobsType
<1>t. TypeOK'
  BY <1>0, TypeNext
<1>a. "api" \in Threads /\ "monitor" \in Threads /\ "worker" \in Threads
  BY DEF Threads
<1>1. CASE Analyze
  <2>1. OnlyHead' /\ NoNewBatch
    BY <1>0, <1>1, AnalyzeJobs DEF NoNewBatch
  <2> QED BY <1>t, <1>1, <2>1, QuietStep DEF Analyze, historyVars
<1>2. CASE Record
  BY <1>t, <1>2, RecordStep
<1>3. CASE RecordFails
  <2>1. OnlyHead' /\ NoNewBatch
    BY <1>0, <1>a, <1>3, DoneJobs DEF RecordFails, Doing, NoNewBatch
  <2> QED BY <1>t, <1>3, <2>1, QuietStep DEF RecordFails, historyVars
<1>4. CASE SyncRequest
  <2>1. OnlyHead' /\ NoNewBatch
    BY <1>0, <1>a, <1>4, BothTablesJobs DEF SyncRequest, NoNewBatch
  <2> QED BY <1>t, <1>4, <2>1, QuietStep DEF SyncRequest, historyVars
<1>5. ASSUME NEW t \in Threads, Check(t) PROVE SyncInv'
  <2>1. ~Idle(t) /\ Head(jobs[t]) \in Job
    BY <1>0, <1>5, HeadIsJob DEF Check, Doing
  <2>2. [op |-> "select", table |-> Head(jobs[t]).table] \in Job
    BY <2>1, JobFields DEF Job
  <2>3. Done(t) \/ GoOn(t, [op |-> "select", table |-> Head(jobs[t]).table])
    BY <1>5 DEF Check
  <2>4. OnlyHead' /\ NoNewBatch
    <3>1. CASE Done(t)
      BY <1>0, <2>1, <3>1, DoneJobs DEF NoNewBatch
    <3>2. CASE GoOn(t, [op |-> "select", table |-> Head(jobs[t]).table])
      BY <1>0, <2>1, <2>2, <3>2, GoOnJobs DEF NoNewBatch
    <3> QED BY <2>3, <3>1, <3>2
  <2> QED BY <1>t, <1>5, <2>4, QuietStep DEF Check, historyVars
<1>6. ASSUME NEW t \in Threads, Select(t) PROVE SyncInv'
  BY <1>t, <1>6, SelectStep
<1>7. ASSUME NEW t \in Threads, Mark(t) PROVE SyncInv'
  BY <1>t, <1>7, MarkStep
<1>8. ASSUME NEW t \in Threads, PassFails(t) PROVE SyncInv'
  <2>1. OnlyHead' /\ NoNewBatch
    BY <1>0, <1>8, DoneJobs DEF PassFails, Doing, NoNewBatch
  <2> QED BY <1>t, <1>8, <2>1, QuietStep DEF PassFails, historyVars
<1>9. CASE Wake
  <2>1. OnlyHead' /\ NoNewBatch
    BY <1>0, <1>a, <1>9, BothTablesJobs DEF Wake, NoNewBatch
  <2> QED BY <1>t, <1>9, <2>1, QuietStep DEF Wake, historyVars
<1>10. CASE CheckConnection \/ LinkDown \/ LinkUp \/ UNCHANGED vars
  <2>1. UNCHANGED <<rows, jobs, journal, reads>>
    BY <1>10 DEF CheckConnection, LinkDown, LinkUp, vars, historyVars
  <2>2. OnlyHead' /\ NoNewBatch
    BY <1>0, <2>1 DEF OnlyHead, NoNewBatch
  <2> QED BY <1>t, <2>1, <2>2, QuietStep
<1>11. CASE ConnectionChange
  <2>1. OnlyHead' /\ NoNewBatch
    <3>1. CASE isOnline
      BY <1>0, <1>11, <3>1 DEF ConnectionChange, OnlyHead, NoNewBatch
    <3>2. CASE ~isOnline
      BY <1>0, <1>a, <1>11, <3>2, BothTablesJobs DEF ConnectionChange, NoNewBatch
    <3> QED BY <3>1, <3>2
  <2> QED BY <1>t, <1>11, <2>1, QuietStep DEF ConnectionChange, historyVars
<1>12. CASE Restart
  <2>1. OnlyHead' /\ NoNewBatch
    BY <1>12, ResetJobs DEF Restart, NoNewBatch
  <2> QED BY <1>t, <1>12, <2>1, QuietStep DEF Restart, historyVars
<1> QED
  BY <1>1, <1>2, <1>3, <1>4, <1>5, <1>6, <1>7, <1>8, <1>9, <1>10, <1>11, <1>12
  DEF Next, Pass

\* The invariant behind the two theorems below: with each thread that is between
\* SELECT and UPDATE goes a set of rows that were the oldest when it read them.
THEOREM SyncInvariant == Spec => []SyncInv
<1>1. Init => SyncInv
  BY SyncInit
<1>2. SyncInv /\ [Next]_vars => SyncInv'
  BY SyncNext
<1> QED BY <1>1, <1>2, PTL DEF Spec

\* Nothing is marked as synced that no pass has read, but for a row that took
\* the place of one that was read.
THEOREM MarkedWasReadHolds == Spec => []MarkedWasRead
<1>1. SyncInv => MarkedWasRead
  BY DEF SyncInv
<1> QED BY <1>1, SyncInvariant, PTL

\* The passes of all threads together mark the oldest rows of a table first, but
\* for a row that took the place of an older one.
THEOREM OldestFirstHolds == Spec => []OldestFirst
<1>1. SyncInv => OldestFirst
  BY DEF SyncInv
<1> QED BY <1>1, SyncInvariant, PTL

-----------------------------------------------------------------------------
(* How often a row is read *)

\* The threads that are about to mark recording n.
Holders(n) == {t \in Threads : \E y \in Batch(t) : y.rec = n}

\* A change of the connection does not find the monitor's thread at work.
NewsIdle == news => Idle("monitor")

Share == Cardinality(Threads)

\* While a row is unsynced, each time it was read beyond those of the threads
\* that hold it a failure or a restart has undone.
CopiesOK ==
  /\ FewCopies
  /\ \A x \in rows :
       ~x.synced => reads[x.rec] <= Share * faults + Cardinality(Holders(x.rec))

CopiesInv == NewsIdle /\ CopiesOK

LEMMA ThreeThreads == IsFiniteSet(Threads) /\ Share = 3
<1>1. IsFiniteSet({"api"}) /\ Cardinality({"api"}) = 1
  BY FS_Singleton
<1>2. IsFiniteSet({"api"} \union {"monitor"}) /\ Cardinality({"api"} \union {"monitor"}) = 2
  BY <1>1, FS_AddElement
<1>3. /\ IsFiniteSet({"api"} \union {"monitor"} \union {"worker"})
      /\ Cardinality({"api"} \union {"monitor"} \union {"worker"}) = 3
  BY <1>2, FS_AddElement
<1>4. Threads = {"api"} \union {"monitor"} \union {"worker"}
  BY DEF Threads
<1> QED BY <1>3, <1>4 DEF Share

\* How many threads of a set there can be.
LEMMA FewThreads ==
  ASSUME NEW H, H \subseteq Threads
  PROVE  IsFiniteSet(H) /\ Cardinality(H) \in 0 .. 3
<1>1. IsFiniteSet(H) /\ Cardinality(H) <= Cardinality(Threads)
  BY ThreeThreads, FS_Subset
<1>2. Cardinality(H) \in Nat
  BY <1>1, FS_CardinalityType
<1> QED BY <1>1, <1>2, ThreeThreads DEF Share

LEMMA OneMore ==
  ASSUME NEW H, H \subseteq Threads, NEW t \in Threads \ H
  PROVE  Cardinality(H \union {t}) = Cardinality(H) + 1 /\ Cardinality(H) \in 0 .. 2
<1>1. Cardinality(H \union {t}) = Cardinality(H) + 1
  BY FewThreads, FS_AddElement
<1>2. Cardinality(H \union {t}) \in 0 .. 3
  BY FewThreads
<1> QED BY <1>1, <1>2, FewThreads

LEMMA CopiesTypes ==
  ASSUME SyncInv
  PROVE  /\ faults \in Nat /\ Len(reads) \in Nat
         /\ DOMAIN reads = 1 .. Len(reads)
         /\ \A n \in DOMAIN reads : reads[n] \in Nat
         /\ \A x \in rows : x.rec \in DOMAIN reads
<1>1. /\ Len(reads) \in Nat /\ DOMAIN reads = 1 .. Len(reads)
      /\ reads \in [1 .. Len(reads) -> Nat]
  BY LenProperties DEF SyncInv, TypeOK
<1>2. faults \in Nat
  BY BoundsAssumption DEF SyncInv, TypeOK
<1>3. \A x \in rows : x.rec \in 1 .. Len(reads)
  BY DEF SyncInv, RowsOK
<1> QED BY <1>1, <1>2, <1>3

\* A failure or a restart pays for one more reading by every thread.
LEMMA FaultStep ==
  ASSUME SyncInv, CopiesOK, Fault, UNCHANGED <<rows, reads>>
  PROVE  CopiesOK'
<1>1. faults' = faults + 1
  BY DEF Fault
<1>2. ASSUME NEW n \in DOMAIN reads PROVE reads[n] <= 3 * (1 + faults')
  <2>1. reads[n] <= 3 * (1 + faults)
    BY ThreeThreads DEF CopiesOK, FewCopies, Share
  <2> QED BY <1>1, <2>1, CopiesTypes
<1>3. ASSUME NEW x \in rows, ~x.synced
      PROVE  reads[x.rec] <= 3 * faults' + Cardinality(Holders(x.rec)')
  <2>1. reads[x.rec] <= 3 * faults + Cardinality(Holders(x.rec))
    BY <1>3, ThreeThreads DEF CopiesOK
  <2>2. Cardinality(Holders(x.rec)) \in 0 .. 3
    BY FewThreads DEF Holders
  <2>3. Holders(x.rec)' \subseteq Threads
    BY DEF Holders
  <2>4. Cardinality(Holders(x.rec)') \in 0 .. 3
    BY <2>3, FewThreads
  <2>5. reads[x.rec] \in Nat /\ faults \in Nat
    BY CopiesTypes
  <2> QED BY <1>1, <2>1, <2>2, <2>4, <2>5
<1> QED BY <1>2, <1>3, ThreeThreads DEF CopiesOK, FewCopies, Share

\* A step that leaves tables, counts and what the threads hold alone.
LEMMA SameStep ==
  ASSUME CopiesOK, UNCHANGED <<rows, reads, faults>>,
         \A t \in Threads : Batch(t)' = Batch(t)
  PROVE  CopiesOK'
<1>1. ASSUME NEW x \in rows PROVE Holders(x.rec)' = Holders(x.rec)
  BY DEF Holders
<1> QED BY <1>1 DEF CopiesOK, FewCopies, Share

LEMMA RecordCopies ==
  ASSUME SyncInv, SyncInv', CopiesOK, Record
  PROVE  CopiesOK'
<1> DEFINE job == Head(jobs["api"])
<1>1. "api" \in Threads /\ ~Idle("api") /\ job.op = "record" /\ JobsType
  BY DEF Record, Doing, Threads, SyncInv, TypeOK, JobsType
<1>2. job \in Job /\ job.table \in Tables
  BY <1>1, HeadIsJob, JobFields
<1>3. [op |-> "check", table |-> job.table] \in Job
  BY <1>2 DEF Job
<1>4. GoOn("api", [op |-> "check", table |-> job.table])
  BY DEF Record
<1>5. /\ Head(jobs'["api"]).op = "check"
      /\ \A u \in Threads \ {"api"} : jobs'[u] = jobs[u]
  BY <1>1, <1>3, <1>4, GoOnJobs
<1>6. \A t \in Threads : Batch(t)' = Batch(t)
  BY <1>1, <1>5 DEF Batch, Doing, Idle
<1>7. /\ reads' = Append(reads, 0) /\ faults' = faults
      /\ \A x \in rows' : x \in rows \/ x.rec = Len(journal) + 1
  BY DEF Record
<1>8. /\ Len(reads) \in Nat /\ Len(reads') = Len(reads) + 1
      /\ \A i \in 1 .. Len(reads) : reads'[i] = reads[i]
      /\ reads'[Len(reads) + 1] = 0
      /\ DOMAIN reads' = 1 .. Len(reads')
      /\ Len(reads) = Len(journal)
  BY <1>7, AppendProperties, LenProperties DEF SyncInv, TypeOK, RowsOK
<1>9. faults \in Nat /\ DOMAIN reads = 1 .. Len(reads)
  BY CopiesTypes
<1>10. ASSUME NEW n \in DOMAIN reads' PROVE reads'[n] <= 3 * (1 + faults)
  <2>1. CASE n \in DOMAIN reads
    BY <1>8, <1>9, <2>1, ThreeThreads DEF CopiesOK, FewCopies, Share
  <2>2. CASE n = Len(reads) + 1
    BY <1>8, <1>9, <2>2
  <2> QED BY <1>8, <1>9, <2>1, <2>2
<1>11. ASSUME NEW x \in rows', ~x.synced
       PROVE  reads'[x.rec] <= 3 * faults + Cardinality(Holders(x.rec)')
  <2>1. Holders(x.rec)' = Holders(x.rec)
    BY <1>6 DEF Holders
  <2>2. Cardinality(Holders(x.rec)) \in 0 .. 3
    BY FewThreads DEF Holders
  <2>3. CASE x \in rows
    <3>1. x.rec \in 1 .. Len(reads)
      BY <1>9, <2>3, CopiesTypes
    <3>2. reads[x.rec] <= 3 * faults + Cardinality(Holders(x.rec))
      BY <1>11, <2>3, ThreeThreads DEF CopiesOK
    <3> QED BY <1>8, <2>1, <3>1, <3>2
  <2>4. CASE x.rec = Len(journal) + 1
    BY <1>8, <1>9, <2>1, <2>2, <2>4
  <2> QED BY <1>7, <2>3, <2>4
<1> QED BY <1>7, <1>10, <1>11, ThreeThreads DEF CopiesOK, FewCopies, Share

\* SELECT: the thread held nothing before; now it holds what it has read.
LEMMA SelectCopies ==
  ASSUME SyncInv, SyncInv', CopiesOK, NEW t \in Threads, Select(t)
  PROVE  CopiesOK'
<1> DEFINE table == Head(jobs[t]).table
           batch == Oldest(table)
           job == [op |-> "mark", table |-> table, batch |-> batch]
<1>1. JobsType /\ OnlyHead /\ ~Idle(t) /\ Head(jobs[t]).op = "select"
  BY DEF Select, Doing, SyncInv, TypeOK, JobsType
<1>2. job \in Job
  <2>1. batch \subseteq Row
    BY DEF Oldest, Pending, SyncInv, TypeOK
  <2>2. table \in Tables
    BY <1>1, HeadIsJob, JobFields
  <2> QED BY <2>1, <2>2 DEF Job
<1>3. job.op = "mark" /\ job.batch = batch
  OBVIOUS
<1>4. /\ rows' = rows /\ faults' = faults
      /\ reads' = [n \in DOMAIN reads |->
           IF \E x \in batch : x.rec = n THEN reads[n] + 1 ELSE reads[n]]
      /\ (Done(t) /\ batch = {}) \/ GoOn(t, job)
  BY DEF Select
<1>5. \A y \in batch : y \in rows /\ ~y.synced
  BY DEF Oldest, Pending
<1> HIDE DEF job, batch, table
<1>6. Batch(t) = {} /\ Batch(t)' = batch
      /\ \A u \in Threads \ {t} : Batch(u)' = Batch(u)
  <2>1. Batch(t) = {}
    BY <1>1 DEF Batch, Doing
  <2>2. CASE GoOn(t, job)
    <3>1. /\ jobs'[t] # <<>> /\ Head(jobs'[t]) = job
          /\ \A u \in Threads \ {t} : jobs'[u] = jobs[u]
      BY <1>1, <1>2, <2>2, GoOnJobs
    <3> QED BY <1>3, <2>1, <3>1 DEF Batch, Doing, Idle
  <2>3. CASE Done(t) /\ batch = {}
    <3>1. /\ ~(jobs'[t] # <<>> /\ Head(jobs'[t]).op = "mark")
          /\ \A u \in Threads \ {t} : jobs'[u] = jobs[u]
      BY <1>1, <2>3, DoneJobs
    <3> QED BY <2>1, <2>3, <3>1 DEF Batch, Doing, Idle
  <2> QED BY <1>4, <2>2, <2>3
<1>7. /\ faults \in Nat /\ \A n \in DOMAIN reads : reads[n] \in Nat
      /\ \A x \in rows : x.rec \in DOMAIN reads
  BY CopiesTypes
<1>8. \A x \in rows : ~x.synced => reads[x.rec] <= 3 * faults + Cardinality(Holders(x.rec))
  BY ThreeThreads DEF CopiesOK
\* What is read is counted for the thread that holds it from now on.
<1>9. ASSUME NEW n, \E y \in batch : y.rec = n
      PROVE  /\ Cardinality(Holders(n)') = Cardinality(Holders(n)) + 1
             /\ Cardinality(Holders(n)) \in 0 .. 2
  <2>1. t \in Threads \ Holders(n) /\ Holders(n) \subseteq Threads
    BY <1>6 DEF Holders
  <2>2. Holders(n)' = Holders(n) \union {t}
    BY <1>6, <1>9 DEF Holders
  <2> QED BY <2>1, <2>2, OneMore
<1>10. ASSUME NEW n, ~\E y \in batch : y.rec = n
       PROVE  Holders(n)' = Holders(n)
  BY <1>6, <1>10 DEF Holders
<1>11. ASSUME NEW n \in DOMAIN reads PROVE reads'[n] <= 3 * (1 + faults)
  <2>1. CASE \E y \in batch : y.rec = n
    <3>1. PICK y \in batch : y.rec = n
      BY <2>1
    <3>2. reads[n] <= 3 * faults + Cardinality(Holders(n))
      BY <1>5, <1>8, <3>1
    <3>3. reads'[n] = reads[n] + 1
      BY <1>4, <2>1
    <3> QED BY <1>7, <1>9, <2>1, <3>2, <3>3
  <2>2. CASE ~\E y \in batch : y.rec = n
    BY <1>4, <2>2, ThreeThreads DEF CopiesOK, FewCopies, Share
  <2> QED BY <2>1, <2>2
<1>12. ASSUME NEW x \in rows, ~x.synced
       PROVE  reads'[x.rec] <= 3 * faults + Cardinality(Holders(x.rec)')
  <2> DEFINE n == x.rec
  <2>0. n \in DOMAIN reads /\ reads[n] <= 3 * faults + Cardinality(Holders(n))
    BY <1>7, <1>8, <1>12
  <2> HIDE DEF n
  <2>1. CASE \E y \in batch : y.rec = n
    <3>1. reads'[n] = reads[n] + 1
      BY <1>4, <2>0, <2>1
    <3>2. /\ Cardinality(Holders(n)') = Cardinality(Holders(n)) + 1
          /\ Cardinality(Holders(n)) \in 0 .. 2
      BY <1>9, <2>1
    <3>3. reads'[n] <= 3 * faults + Cardinality(Holders(n)')
      BY <1>7, <2>0, <3>1, <3>2
    <3> QED BY <3>3 DEF n
  <2>2. CASE ~\E y \in batch : y.rec = n
    <3>1. reads'[n] = reads[n] /\ Holders(n)' = Holders(n)
      BY <1>4, <1>10, <2>0, <2>2
    <3>2. reads'[n] <= 3 * faults + Cardinality(Holders(n)')
      BY <2>0, <3>1
    <3> QED BY <3>2 DEF n
  <2> QED BY <2>1, <2>2
<1> QED BY <1>4, <1>11, <1>12, ThreeThreads DEF CopiesOK, FewCopies, Share

\* UPDATE: the thread lets go of its rows, and none of them is unsynced then.
LEMMA MarkCopies ==
  ASSUME SyncInv, CopiesOK, NEW t \in Threads, Mark(t)
  PROVE  CopiesOK'
<1> DEFINE job == Head(jobs[t])
           Hit(x) == x.table = job.table /\ \E y \in job.batch : y.id = x.id
<1>1. JobsType /\ OnlyHead /\ RowsOK /\ BatchOK /\ TypeOK
  BY DEF SyncInv, TypeOK, JobsType
<1>2. ~Idle(t) /\ Batch(t) = job.batch
  BY DEF Mark, Doing, Batch
<1>3. /\ rows' = {x \in rows : ~Hit(x)} \union
                 {[x EXCEPT !.synced = TRUE] : x \in {z \in rows : Hit(z)}}
      /\ reads' = reads /\ faults' = faults /\ Done(t)
  BY DEF Mark, historyVars
<1>4. \A u \in Threads \ {t} : Batch(u)' = Batch(u)
  BY <1>1, <1>2, <1>3, DoneJobs DEF Batch, Doing, Idle
<1>5. ASSUME NEW x \in rows', ~x.synced PROVE x \in rows /\ ~Hit(x)
  BY <1>1, <1>3, <1>5, SyncedRow DEF TypeOK
<1>6. ASSUME NEW x \in rows, ~Hit(x) PROVE \A y \in Batch(t) : y.rec # x.rec
  <2> SUFFICES ASSUME NEW y \in Batch(t), y.rec = x.rec PROVE FALSE
    OBVIOUS
  <2>1. y.table = job.table /\ journal[y.rec] = <<y.table, y.id>>
    BY <1>1 DEF BatchOK
  <2>2. journal[x.rec] = <<x.table, x.id>>
    BY <1>1 DEF RowsOK
  <2>3. x.table = y.table /\ x.id = y.id
    BY <2>1, <2>2
  <2> QED BY <1>2, <1>6, <2>1, <2>3
<1>7. ASSUME NEW x \in rows', ~x.synced
      PROVE  reads[x.rec] <= 3 * faults + Cardinality(Holders(x.rec)')
  <2>1. x \in rows /\ \A y \in Batch(t) : y.rec # x.rec
    BY <1>5, <1>6, <1>7
  <2>2. Holders(x.rec) \subseteq Holders(x.rec)'
    BY <1>4, <2>1 DEF Holders
  <2>3. Holders(x.rec)' \subseteq Threads
    BY DEF Holders
  <2>4. /\ IsFiniteSet(Holders(x.rec)')
        /\ Cardinality(Holders(x.rec)') \in 0 .. 3
    BY <2>3, FewThreads
  <2>5. Cardinality(Holders(x.rec)) <= Cardinality(Holders(x.rec)')
    BY <2>2, <2>4, FS_Subset
  <2>6. Cardinality(Holders(x.rec)) \in 0 .. 3
    BY FewThreads DEF Holders
  <2>7. reads[x.rec] <= 3 * faults + Cardinality(Holders(x.rec))
    BY <1>7, <2>1, ThreeThreads DEF CopiesOK
  <2>8. faults \in Nat /\ reads[x.rec] \in Nat
    BY <2>1, CopiesTypes
  <2> QED BY <2>4, <2>5, <2>6, <2>7, <2>8
<1> QED BY <1>3, <1>7, ThreeThreads DEF CopiesOK, FewCopies, Share

\* A thread that is not at an UPDATE holds nothing.
LEMMA NothingHeld ==
  ASSUME NEW t \in Threads, Idle(t) \/ Head(jobs[t]).op # "mark"
  PROVE  Batch(t) = {}
BY DEF Batch, Doing

LEMMA CopiesNext ==
  ASSUME SyncInv, SyncInv', CopiesInv, [Next]_vars
  PROVE  CopiesInv'
<1>0. JobsType /\ OnlyHead /\ TypeOK /\ CopiesOK /\ NewsIdle /\ second \in 0 .. MaxSecond
  BY DEF SyncInv, TypeOK, JobsType, CopiesInv
<1>a. /\ "api" \in Threads /\ "monitor" \in Threads /\ "worker" \in Threads
      /\ "api" # "monitor" /\ "worker" # "monitor"
  BY DEF Threads
<1>s. ASSUME NEW t \in Threads, Batch(t) = {}, Batch(t)' = {},
             \A u \in Threads \ {t} : jobs'[u] = jobs[u],
             UNCHANGED <<rows, reads, faults>>
      PROVE  CopiesOK'
  <2>1. \A u \in Threads \ {t} : Batch(u)' = Batch(u)
    BY <1>s DEF Batch, Doing, Idle
  <2> QED BY <1>0, <1>s, <2>1, SameStep
\* The monitor's thread finds work only when there is news.
<1>n. ASSUME NEW t \in Threads, \A u \in Threads \ {t} : jobs'[u] = jobs[u],
             t = "monitor" => ~Idle(t), news' = news
      PROVE  NewsIdle'
  BY <1>0, <1>a, <1>n DEF NewsIdle, Idle
<1>1. CASE Analyze
  <2>1. /\ \A u \in Threads \ {"api"} : jobs'[u] = jobs[u]
        /\ Batch("api") = {} /\ Batch("api")' = {}
    BY <1>0, <1>a, <1>1, AnalyzeJobs DEF Analyze, Batch, Doing, Idle
  <2>2. UNCHANGED <<rows, reads, faults, news>>
    BY <1>1 DEF Analyze, historyVars
  <2> QED BY <1>a, <1>s, <1>n, <2>1, <2>2 DEF CopiesInv
<1>2. CASE Record
  <2>1. \A u \in Threads \ {"api"} : jobs'[u] = jobs[u]
    BY <1>0, <1>2 DEF Record, GoOn, JobsType
  <2>2. news' = news
    BY <1>2 DEF Record
  <2> QED BY <1>0, <1>2, <1>a, <1>n, <2>1, <2>2, RecordCopies DEF CopiesInv
<1>3. CASE RecordFails
  <2>1. \A u \in Threads \ {"api"} : jobs'[u] = jobs[u]
    BY <1>0, <1>3 DEF RecordFails, Done, JobsType
  <2>2. Fault /\ UNCHANGED <<rows, reads, news>>
    BY <1>3 DEF RecordFails, historyVars
  <2> QED BY <1>0, <1>a, <1>n, <2>1, <2>2, FaultStep DEF CopiesInv
<1>4. CASE SyncRequest
  <2>1. /\ \A u \in Threads \ {"api"} : jobs'[u] = jobs[u]
        /\ Batch("api") = {} /\ Batch("api")' = {}
    BY <1>0, <1>a, <1>4, BothTablesJobs DEF SyncRequest, Batch, Doing, Idle
  <2>2. UNCHANGED <<rows, reads, faults, news>>
    BY <1>4 DEF SyncRequest, historyVars
  <2> QED BY <1>a, <1>s, <1>n, <2>1, <2>2 DEF CopiesInv
<1>5. ASSUME NEW t \in Threads, Check(t) PROVE CopiesInv'
  <2>1. ~Idle(t) /\ Head(jobs[t]).op = "check" /\ Head(jobs[t]) \in Job
    BY <1>0, <1>5, HeadIsJob DEF Check, Doing
  <2>2. [op |-> "select", table |-> Head(jobs[t]).table] \in Job
    BY <2>1, JobFields DEF Job
  <2>3. Done(t) \/ GoOn(t, [op |-> "select", table |-> Head(jobs[t]).table])
    BY <1>5 DEF Check
  <2>4. Batch(t) = {} /\ Batch(t)' = {} /\ \A u \in Threads \ {t} : jobs'[u] = jobs[u]
    <3>1. Batch(t) = {}
      BY <2>1, NothingHeld
    <3>2. CASE Done(t)
      BY <1>0, <2>1, <3>1, <3>2, DoneJobs DEF Batch, Doing, Idle
    <3>3. CASE GoOn(t, [op |-> "select", table |-> Head(jobs[t]).table])
      <4>1. /\ Head(jobs'[t]).op = "select"
            /\ \A u \in Threads \ {t} : jobs'[u] = jobs[u]
        BY <1>0, <2>1, <2>2, <3>3, GoOnJobs
      <4> QED BY <3>1, <4>1 DEF Batch, Doing, Idle
    <3> QED BY <2>3, <3>2, <3>3
  <2>5. UNCHANGED <<rows, reads, faults, news>>
    BY <1>5 DEF Check, historyVars
  <2> QED BY <1>s, <1>n, <2>1, <2>4, <2>5 DEF CopiesInv
<1>6. ASSUME NEW t \in Threads, Select(t) PROVE CopiesInv'
  <2>1. \A u \in Threads \ {t} : jobs'[u] = jobs[u]
    BY <1>0, <1>6 DEF Select, Done, GoOn, JobsType
  <2>2. ~Idle(t) /\ news' = news
    BY <1>6 DEF Select, Doing
  <2> QED BY <1>0, <1>6, <1>n, <2>1, <2>2, SelectCopies DEF CopiesInv
<1>7. ASSUME NEW t \in Threads, Mark(t) PROVE CopiesInv'
  <2>1. \A u \in Threads \ {t} : jobs'[u] = jobs[u]
    BY <1>0, <1>7 DEF Mark, Done, JobsType
  <2>2. ~Idle(t) /\ news' = news
    BY <1>7 DEF Mark, Doing
  <2> QED BY <1>0, <1>7, <1>n, <2>1, <2>2, MarkCopies DEF CopiesInv
<1>8. ASSUME NEW t \in Threads, PassFails(t) PROVE CopiesInv'
  <2>1. \A u \in Threads \ {t} : jobs'[u] = jobs[u]
    BY <1>0, <1>8 DEF PassFails, Done, JobsType
  <2>2. Fault /\ ~Idle(t) /\ UNCHANGED <<rows, reads, news>>
    BY <1>8 DEF PassFails, Doing, historyVars
  <2> QED BY <1>0, <1>n, <2>1, <2>2, FaultStep DEF CopiesInv
<1>9. CASE Wake
  <2>1. /\ \A u \in Threads \ {"worker"} : jobs'[u] = jobs[u]
        /\ Batch("worker") = {} /\ Batch("worker")' = {}
    BY <1>0, <1>a, <1>9, BothTablesJobs DEF Wake, Batch, Doing, Idle
  <2>2. UNCHANGED <<rows, reads, faults, news>>
    BY <1>9 DEF Wake, historyVars
  <2> QED BY <1>a, <1>s, <1>n, <2>1, <2>2 DEF CopiesInv
<1>10. CASE CheckConnection \/ LinkDown \/ LinkUp \/ UNCHANGED vars
  <2>1. UNCHANGED <<rows, reads, faults, jobs>>
    BY <1>10 DEF CheckConnection, LinkDown, LinkUp, vars, historyVars
  <2>2. \A t \in Threads : Batch(t)' = Batch(t)
    BY <2>1 DEF Batch, Doing, Idle
  <2>3. NewsIdle'
    BY <1>0, <1>10, <2>1 DEF CheckConnection, LinkDown, LinkUp, vars, NewsIdle, Idle
  <2> QED BY <1>0, <2>1, <2>2, <2>3, SameStep DEF CopiesInv
<1>11. CASE ConnectionChange
  <2>1. /\ \A u \in Threads \ {"monitor"} : jobs'[u] = jobs[u]
        /\ Batch("monitor") = {} /\ Batch("monitor")' = {}
    <3>1. Idle("monitor")
      BY <1>0, <1>11 DEF ConnectionChange, NewsIdle
    <3>2. CASE isOnline
      BY <1>0, <1>11, <3>1, <3>2 DEF ConnectionChange, Batch, Doing, Idle
    <3>3. CASE ~isOnline
      BY <1>0, <1>a, <1>11, <3>1, <3>3, BothTablesJobs
      DEF ConnectionChange, Batch, Doing, Idle
    <3> QED BY <3>2, <3>3
  <2>2. UNCHANGED <<rows, reads, faults>> /\ ~news'
    BY <1>11 DEF ConnectionChange, historyVars
  <2> QED BY <1>a, <1>s, <2>1, <2>2 DEF CopiesInv, NewsIdle
<1>12. CASE Restart
  <2>1. Fault /\ UNCHANGED <<rows, reads>> /\ ~news'
    BY <1>12 DEF Restart, historyVars
  <2> QED BY <1>0, <2>1, FaultStep DEF CopiesInv, NewsIdle
<1> QED
  BY <1>1, <1>2, <1>3, <1>4, <1>5, <1>6, <1>7, <1>8, <1>9, <1>10, <1>11, <1>12
  DEF Next, Pass

\* However the three threads' passes fall together, a row is read at most once by
\* each of them for every failure or restart and once more.
THEOREM FewCopiesHolds == Spec => []FewCopies
<1>1. Init => CopiesInv
  BY DEF Init, CopiesInv, CopiesOK, FewCopies, NewsIdle
<1>2. SyncInv /\ SyncInv' /\ CopiesInv /\ [Next]_vars => CopiesInv'
  BY CopiesNext
<1>3. CopiesInv => FewCopies
  BY DEF CopiesInv, CopiesOK
<1> QED BY <1>1, <1>2, <1>3, SyncInvariant, PTL DEF Spec

=============================================================================
